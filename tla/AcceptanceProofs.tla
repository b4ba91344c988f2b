-------------------------- MODULE AcceptanceProofs --------------------------
(***************************************************************************)
(* Proofs about what a block's acceptance is worth later, in a table       *)
(* without a row 0: the caches of the last full block and of its signers   *)
(* are true, our own signing blocks pass, and a restart accepts again      *)
(* whatever was accepted before.                                           *)
(***************************************************************************)
EXTENDS ChainProofs

-----------------------------------------------------------------------------
(* Rows that adding and truncating leave alone.                            *)

(* A stored full block is a row below m, filed under its index.            *)
LEMMA StoredIsRow ==
    ASSUME NEW c, SoundChain(c), NEW m \in Int, NEW keys, StoredFullBlock(c, m, keys) # NoBlock
    PROVE  LET full == StoredFullBlock(c, m, keys)
           IN  /\ full \in Blocks /\ IsFull(full) /\ full.pub_key \in keys
               /\ full.index \in Nat /\ full.index >= 1 /\ full.index < m
               /\ full.index \in DOMAIN c.blocks /\ full = c.blocks[full.index]
  <1>1. c.blocks \in BlockTables /\ LinkedBlocks(c.blocks)
    BY DEF SoundChain, ChainValues
  <1>2. PICK i \in DOMAIN c.blocks :
           IsNewestFull(c, i, m, keys) /\ StoredFullBlock(c, m, keys) = c.blocks[i]
    BY <1>1, StoredFullBlockCases
  <1>3. c.blocks[i] \in Blocks /\ c.blocks[i].index = i /\ i >= 1
    BY <1>1, <1>2 DEF BlockTables, LinkedBlocks
  <1> QED
    BY <1>2, <1>3, BlockFacts DEF IsNewestFull

(* A row added at the top is not seen below it.                            *)
LEMMA BelowInsert ==
    ASSUME NEW n \in Nat, NEW f, DOMAIN f \subseteq 1..n, NEW x, NEW m \in Int, m <= n + 1
    PROVE  Below(Insert(f, n + 1, x), m) = Below(f, m)
  <1> DEFINE g == Insert(f, n + 1, x)
  <1>1. DOMAIN g = DOMAIN f \cup {n + 1} /\ \A j \in DOMAIN f : g[j] = f[j]
    BY DEF Insert
  <1> HIDE DEF g
  <1>2. {k \in DOMAIN g : k < m} = {k \in DOMAIN f : k < m}
    BY <1>1
  <1> QED
    BY <1>1, <1>2 DEF Below, g

(* Nor is a truncation above it.                                           *)
LEMMA BelowBelow ==
    ASSUME NEW f, DOMAIN f \subseteq Int, NEW k \in Int, NEW m \in Int, m <= k
    PROVE  Below(Below(f, k), m) = Below(f, m)
  <1> DEFINE g == Below(f, k)
  <1>1. DOMAIN g = {j \in DOMAIN f : j < k} /\ \A j \in DOMAIN g : g[j] = f[j]
    BY DEF Below
  <1> HIDE DEF g
  <1>2. {j \in DOMAIN g : j < m} = {j \in DOMAIN f : j < m}
    BY <1>1
  <1> QED
    BY <1>1, <1>2 DEF Below, g

-----------------------------------------------------------------------------
(* The caches of a chain value.                                            *)

(* Cached signers are those of a full block within the chain, found by a   *)
(* search that ended; if that block is the last full one, a new search     *)
(* would end as well and find the same.                                    *)
CachedSigners(c) ==
    c.signers.signers # {} =>
        /\ c.signers.index \in 2..get_height(c)
        /\ (c.last_full_block # NoBlock /\ c.last_full_block.index = c.signers.index) =>
              /\ SearchEnds(c, c.last_full_block)
              /\ c.signers.signers = SearchedSigners(c, c.last_full_block)

(* Adding a block that continues the chain.                                *)
LEMMA AddBlockCaches ==
    ASSUME NEW c, SoundChain(c), Top(c), NEW b \in Blocks, b.index = get_height(c) + 1,
           get_height(c) > 0 => b.prev_block_hash = c.blocks[get_height(c)].hash
    PROVE  LET d == add_block(c, b)
           IN  /\ SoundChain(d) /\ Top(d) /\ get_height(d) = get_height(c) + 1
               /\ d.blocks = Insert(c.blocks, get_height(c) + 1, b)
               /\ d.last_full_block = IF IsFull(b) THEN b ELSE c.last_full_block
               /\ d.signers = c.signers
  <1> DEFINE n == get_height(c)
             d == add_block(c, b)
  <1>1. n \in Nat /\ c.blocks \in [1..n -> Blocks] /\ DOMAIN c.blocks = 1..n
    BY RowsUpToHeight
  <1>2. SoundChain(d) /\ Top(d) /\ d.blocks = Insert(c.blocks, n + 1, b)
    BY <1>1, AddBlockKeepsChain
  <1>3. c \in ChainValues /\ b.index \notin DOMAIN c.blocks
    BY <1>1 DEF SoundChain
  <1>4. /\ d.last_full_block = IF IsFull(b) THEN b ELSE c.last_full_block
        /\ d.signers = c.signers /\ d.last_block = b
    BY <1>3 DEF add_block, add_block_to_table, add_transaction_to_table, ChainValues
  <1>5. get_height(d) = n + 1
    BY <1>4, BlockFacts DEF get_height
  <1> QED
    BY <1>2, <1>4, <1>5

LEMMA AddBlockKeepsFull ==
    ASSUME NEW c, SoundChain(c), Top(c), FullIsCurrent(c),
           NEW b \in Blocks, b.index = get_height(c) + 1,
           get_height(c) > 0 => b.prev_block_hash = c.blocks[get_height(c)].hash
    PROVE  FullIsCurrent(add_block(c, b))
  <1> DEFINE n == get_height(c)
             d == add_block(c, b)
  <1>1. n \in Nat /\ c.blocks \in [1..n -> Blocks] /\ LinkedBlocks(c.blocks)
    BY RowsUpToHeight
  <1>2. /\ get_height(d) = n + 1 /\ d.blocks = Insert(c.blocks, n + 1, b)
        /\ d.last_full_block = IF IsFull(b) THEN b ELSE c.last_full_block
    BY AddBlockCaches
  <1>3. c.last_full_block = StoredFullBlock(c, n + 1, Keys)
    BY DEF FullIsCurrent
  <1> HIDE DEF n, d
  <1>4. /\ d.blocks \in [1..(n + 1) -> Blocks] /\ d.blocks[n + 1] = b
        /\ \A i \in 1..n : d.blocks[i] = c.blocks[i]
    BY <1>1, <1>2, InsertIsTable DEF n
  <1>5. StoredFullBlock(d, n + 2, Keys) =
           IF IsFull(b) THEN b ELSE StoredFullBlock(c, n + 1, Keys)
    BY <1>1, <1>4, NewestFullExtends
  <1>6. (n + 1) + 1 = n + 2
    BY <1>1
  <1> QED
    BY <1>2, <1>3, <1>5, <1>6 DEF FullIsCurrent, d

(* The signers of a full block do not change when blocks are added above.  *)
LEMMA AddBlockKeepsSigners ==
    ASSUME NEW c, SoundChain(c), Top(c), CachedSigners(c),
           NEW b \in Blocks, b.index = get_height(c) + 1,
           get_height(c) > 0 => b.prev_block_hash = c.blocks[get_height(c)].hash
    PROVE  CachedSigners(add_block(c, b))
  <1> DEFINE n == get_height(c)
             d == add_block(c, b)
             full == c.last_full_block
  <1>1. n \in Nat /\ DOMAIN c.blocks = 1..n
    BY RowsUpToHeight
  <1>2. /\ get_height(d) = n + 1 /\ d.blocks = Insert(c.blocks, n + 1, b)
        /\ d.last_full_block = IF IsFull(b) THEN b ELSE full
        /\ d.signers = c.signers
    BY AddBlockCaches
  <1> HIDE DEF n, d
  <1>3. SUFFICES ASSUME c.signers.signers # {}, d.last_full_block # NoBlock,
                        d.last_full_block.index = c.signers.index
                 PROVE  /\ SearchEnds(d, d.last_full_block)
                        /\ c.signers.signers = SearchedSigners(d, d.last_full_block)
    BY <1>1, <1>2 DEF CachedSigners, n, d
  <1>4. c.signers.index \in 2..n
    BY <1>3 DEF CachedSigners, n
  <1>5. d.last_full_block = full /\ full.index \in 2..n
    <2>1. b.index = n + 1
      BY DEF n
    <2> QED
      BY <1>1, <1>2, <1>3, <1>4, <2>1
  <1>6. SearchEnds(c, full) /\ c.signers.signers = SearchedSigners(c, full) /\ full # NoBlock
    BY <1>3, <1>5 DEF CachedSigners
  <1>7. full \in Blocks
    BY <1>6 DEF SoundChain, ChainValues, FullBlocks
  <1>8. Below(c.blocks, full.index) = Below(d.blocks, full.index)
    <2>1. full.index \in Int /\ full.index <= n + 1 /\ DOMAIN c.blocks \subseteq 1..n
      BY <1>1, <1>5
    <2> QED
      BY <1>1, <1>2, <2>1, BelowInsert
  <1>9. 1..(full.index - 1) \subseteq DOMAIN c.blocks /\ full.index >= 2
    BY <1>1, <1>5
  <1> HIDE DEF full
  <1>10. /\ SearchedSigners(c, full) = SearchedSigners(d, full)
         /\ SearchEnds(c, full) <=> SearchEnds(d, full)
    BY <1>7, <1>8, <1>9, SearchAgrees
  <1> QED
    BY <1>5, <1>6, <1>10

(* A search whose result goes into the cache is a search of this chain.    *)
LEMMA SearchedIsCached ==
    ASSUME NEW c, SoundChain(c), Top(c), NEW full \in Blocks, c.last_full_block = full,
           SearchNeeded(c, full), SearchEnds(c, full)
    PROVE  CachedSigners(SignersCached(c, full))
  <1> DEFINE d == SignersCached(c, full)
  <1>1. /\ d.signers = [index |-> full.index, signers |-> SearchedSigners(c, full)]
        /\ d.blocks = c.blocks /\ d.last_block = c.last_block /\ d.last_full_block = full
    BY DEF SignersCached, SoundChain, ChainValues
  <1>2. get_height(c) \in Nat /\ DOMAIN c.blocks = 1..get_height(c)
    BY RowsUpToHeight
  <1>3. full.index \in 2..get_height(c)
    BY <1>2, BlockFacts, RulesAssumption DEF SearchNeeded
  <1>4. 1..(full.index - 1) \subseteq DOMAIN c.blocks /\ full.index >= 2
    BY <1>2, <1>3
  <1> HIDE DEF d
  <1>5. /\ SearchedSigners(c, full) = SearchedSigners(d, full)
        /\ SearchEnds(c, full) <=> SearchEnds(d, full)
    BY <1>1, <1>4, SearchAgrees
  <1>6. get_height(d) = get_height(c)
    BY <1>1 DEF get_height
  <1> QED
    BY <1>1, <1>3, <1>5, <1>6 DEF CachedSigners, d

(* What check_new_block leaves in the cache, unless it never returns.      *)
LEMMA CheckKeepsSigners ==
    ASSUME NEW c, SoundChain(c), Top(c), CachedSigners(c), NEW b, NEW t,
           check_new_block(c, b, t) # "Endless"
    PROVE  CachedSigners(Checked(c, b, c.last_block, c.last_full_block, t))
  <1> DEFINE full == c.last_full_block
  <1>1. CASE Searches(c, b, c.last_block, full, t)
    <2>1. full \in Blocks /\ SearchNeeded(c, full)
      BY <1>1 DEF Searches, AsksForSearch, SoundChain, ChainValues, FullBlocks
    <2>2. SearchEnds(c, full)
      BY <1>1 DEF check_new_block, check_block, Searches
    <2> QED
      BY <1>1, <2>1, <2>2, SearchedIsCached DEF Checked
  <1>2. CASE ~Searches(c, b, c.last_block, full, t)
    BY <1>2 DEF Checked
  <1> QED
    BY <1>1, <1>2

(* What check_chain leaves in the caches.                                  *)
LEMMA CheckChainCaches ==
    ASSUME NEW c, SoundChain(c), Top(c), FullIsCurrent(c), NEW count \in Nat \ {0}, NEW t
    PROVE  LET d == check_chain(c, count, t)
           IN  /\ d.signers = SignersAfterCheck(c, count, t)
               /\ d.last_full_block \in {StoredFullBlock(c, FirstFault(c, count, t), Keys),
                                         c.last_full_block}
  <1> DEFINE n == get_height(c)
             fault == FirstFault(c, count, t)
             seen == [InRound(c, count, fault) EXCEPT !.signers = SignersAfterCheck(c, count, t)]
             kept == IF fault > n THEN seen ELSE truncate_db_from_block(seen, fault)
             full == IF kept.last_full_block # NoBlock THEN kept.last_full_block
                     ELSE StoredFullBlock(kept, fault, Keys)
             d == check_chain(c, count, t)
  <1>1. /\ n \in Nat /\ c.blocks \in [1..n -> Blocks] /\ DOMAIN c.blocks = 1..n
        /\ c.blocks \in BlockTables
    BY RowsUpToHeight
  <1>2. fault \in 1..(n + 1)
    BY <1>1, FirstFaultRange
  <1>3. /\ InRound(c, count, fault).last_full_block \in {StoredFullBlock(c, fault, Keys), c.last_full_block}
        /\ InRound(c, count, fault).blocks = c.blocks
    BY <1>2, InRoundFull
  <1>4. DOMAIN InRound(c, count, fault) = {"blocks", "domains", "last_block", "last_full_block", "signers", "max_height"}
    BY DEF InRound, SoundChain, ChainValues
  <1>5. /\ seen.blocks = c.blocks
        /\ seen.last_full_block = InRound(c, count, fault).last_full_block
        /\ seen.signers = SignersAfterCheck(c, count, t)
        /\ DOMAIN seen = {"blocks", "domains", "last_block", "last_full_block", "signers", "max_height"}
    BY <1>3, <1>4
  <1> HIDE DEF seen
  <1>6. /\ kept.blocks = IF fault > n THEN c.blocks ELSE Below(c.blocks, fault)
        /\ kept.last_full_block = seen.last_full_block
        /\ kept.signers = SignersAfterCheck(c, count, t)
        /\ DOMAIN kept = {"blocks", "domains", "last_block", "last_full_block", "signers", "max_height"}
    BY <1>5 DEF truncate_db_from_block, TruncateBlocks
  <1>7. d = [kept EXCEPT !.last_block = load_last_block(kept), !.last_full_block = full]
    BY DEF check_chain, seen
  <1> HIDE DEF kept
  <1>8. d.signers = SignersAfterCheck(c, count, t) /\ d.last_full_block = full
    BY <1>6, <1>7
  <1>9. StoredFullBlock(kept, fault, Keys) = StoredFullBlock(c, fault, Keys)
    <2>1. Below(kept.blocks, fault) = Below(c.blocks, fault)
      <3>1. Below(Below(c.blocks, fault), fault) = Below(c.blocks, fault)
        <4>1. DOMAIN c.blocks \subseteq Int /\ fault \in Int /\ fault <= fault
          BY <1>1, <1>2
        <4> QED
          BY <4>1, BelowBelow
      <3> QED
        BY <1>6, <3>1
    <2> QED
      BY <1>1, <2>1, StoredFullBlockAgrees
  <1> QED
    BY <1>3, <1>5, <1>6, <1>8, <1>9

(* A check_chain that rejects nothing leaves the newest full block cached. *)
LEMMA CheckChainKeepsFull ==
    ASSUME NEW c, SoundChain(c), Top(c), FullIsCurrent(c), NEW count \in Nat \ {0}, NEW t,
           FirstFault(c, count, t) > get_height(c)
    PROVE  FullIsCurrent(check_chain(c, count, t))
  <1> DEFINE n == get_height(c)
             fault == FirstFault(c, count, t)
             d == check_chain(c, count, t)
  <1>1. n \in Nat /\ c.blocks \in [1..n -> Blocks] /\ c.blocks \in BlockTables
    BY RowsUpToHeight
  <1>2. fault \in 1..(n + 1)
    BY <1>1, FirstFaultRange
  <1>3. fault = n + 1
    BY <1>1, <1>2
  <1>4. d.last_full_block \in {StoredFullBlock(c, fault, Keys), c.last_full_block}
    BY CheckChainCaches
  <1>5. SoundChain(d) /\ Top(d) /\ d.blocks = c.blocks
    BY <1>1, CheckChainKeepsChain
  <1> HIDE DEF d
  <1>6. get_height(d) = n
    BY <1>1, <1>5, HeightIsLength
  <1>7. StoredFullBlock(d, n + 1, Keys) = StoredFullBlock(c, n + 1, Keys)
    BY <1>1, <1>5, StoredFullBlockAgrees
  <1> QED
    BY <1>3, <1>4, <1>6, <1>7 DEF FullIsCurrent, d

(* Before its first fault check_chain finds every block good.              *)
LEMMA GoodBeforeFault ==
    ASSUME NEW c, NEW n \in Nat, get_height(c) = n, NEW count \in Nat \ {0}, NEW t,
           NEW r \in CheckStart(c, count)..n, r < FirstFault(c, count, t)
    PROVE  Recheck(c, count, r, t) = "Good"
  <1> DEFINE start == CheckStart(c, count)
             S == {i \in start..n : Recheck(c, count, i, t) # "Good"} \cup {n + 1}
  <1>1. start \in 1..(n + 1)
    BY CheckStartRange
  <1>2. S \in SUBSET Nat /\ S # {}
    BY <1>1
  <1>3. \A y \in S : Min(S) <= y
    BY <1>2, MinNatural
  <1>4. FirstFault(c, count, t) = Min(S)
    BY DEF FirstFault
  <1>5. FirstFault(c, count, t) \in Nat /\ r \in Nat
    BY <1>1, FirstFaultRange
  <1> HIDE DEF S
  <1>6. r \notin S
    BY <1>3, <1>4, <1>5
  <1> QED
    BY <1>6 DEF S

(* The last round that asked for signers.                                  *)
LEMMA LastAskingRound ==
    ASSUME NEW c, SoundChain(c), Top(c), NEW count \in Nat \ {0}, NEW t,
           RoundsAskingForSigners(c, count, t) # {}
    PROVE  LET r == Max(RoundsAskingForSigners(c, count, t))
           IN  /\ r \in 2..get_height(c)
               /\ r >= CheckStart(c, count) /\ r <= FirstFault(c, count, t)
               /\ Searches(InRound(c, count, r), c.blocks[r], get_block(c, r - 1),
                           LoopFullBlock(c, count, r), t)
  <1> DEFINE n == get_height(c)
             start == CheckStart(c, count)
             from == Max({2, start})
             fault == FirstFault(c, count, t)
             to == Min({fault, n})
             rounds == RoundsAskingForSigners(c, count, t)
  <1>1. n \in Nat
    BY RowsUpToHeight
  <1>2. start \in 1..(n + 1) /\ fault \in 1..(n + 1)
    BY <1>1, CheckStartRange, FirstFaultRange
  <1>3. from \in Nat /\ 2 <= from /\ start <= from
    <2>1. {2, start} \in SUBSET (0..(n + 2)) /\ {2, start} # {} /\ n + 2 \in Nat
      BY <1>1, <1>2
    <2>2. from \in {2, start} /\ \A y \in {2, start} : y <= from
      BY <2>1, MaxNatural
    <2> QED
      BY <1>1, <1>2, <2>2
  <1>4. to \in Nat /\ to <= n /\ to <= fault
    <2>1. {fault, n} \in SUBSET Nat /\ {fault, n} # {}
      BY <1>1, <1>2
    <2>2. to \in {fault, n} /\ \A y \in {fault, n} : to <= y
      BY <2>1, MinNatural
    <2> QED
      BY <1>1, <1>2, <2>2
  <1>5. rounds = {i \in from..to :
            Searches(InRound(c, count, i), c.blocks[i], get_block(c, i - 1),
                     LoopFullBlock(c, count, i), t)}
    BY DEF RoundsAskingForSigners
  <1> HIDE DEF from, to, rounds, n, fault, start
  <1>6. rounds \in SUBSET (0..n)
    BY <1>1, <1>3, <1>4, <1>5
  <1>7. Max(rounds) \in rounds
    BY <1>1, <1>6, MaxNatural DEF rounds
  <1>8. /\ Max(rounds) \in from..to
        /\ Searches(InRound(c, count, Max(rounds)), c.blocks[Max(rounds)], get_block(c, Max(rounds) - 1),
                    LoopFullBlock(c, count, Max(rounds)), t)
    BY <1>5, <1>7
  <1>9. Max(rounds) \in 2..n /\ Max(rounds) >= start /\ Max(rounds) <= fault
    BY <1>1, <1>2, <1>3, <1>4, <1>8
  <1> QED
    BY <1>8, <1>9 DEF rounds, n, fault, start

(* The signers check_chain leaves in the cache are those of a block that   *)
(* it has kept.                                                            *)
LEMMA CheckChainSigners ==
    ASSUME NEW c, SoundChain(c), Top(c), FullIsCurrent(c), c.signers = NoSigners,
           NEW count \in Nat \ {0}, NEW t, CheckOutcome(c, count, t) # "Endless"
    PROVE  CachedSigners(check_chain(c, count, t))
  <1> DEFINE n == get_height(c)
             fault == FirstFault(c, count, t)
             rounds == RoundsAskingForSigners(c, count, t)
             r == Max(rounds)
             seen == InRound(c, count, r)
             full == LoopFullBlock(c, count, r)
             d == check_chain(c, count, t)
  <1>1. /\ n \in Nat /\ c.blocks \in [1..n -> Blocks] /\ DOMAIN c.blocks = 1..n
        /\ c.blocks \in BlockTables /\ LinkedBlocks(c.blocks)
    BY RowsUpToHeight
  <1>2. fault \in 1..(n + 1)
    BY <1>1, FirstFaultRange
  <1>3. /\ SoundChain(d) /\ Top(d)
        /\ d.blocks = IF fault > n THEN c.blocks ELSE Below(c.blocks, fault)
    BY <1>1, CheckChainKeepsChain
  <1>4. /\ d.signers = SignersAfterCheck(c, count, t)
        /\ d.last_full_block \in {StoredFullBlock(c, fault, Keys), c.last_full_block}
    BY CheckChainCaches
  <1>5. CASE rounds = {}
    BY <1>4, <1>5 DEF SignersAfterCheck, NoSigners, CachedSigners
  <1>6. CASE rounds # {}
    <2>1. /\ r \in 2..n /\ r >= CheckStart(c, count) /\ r <= fault
          /\ Searches(seen, c.blocks[r], get_block(c, r - 1), full, t)
      BY <1>6, LastAskingRound
    <2>2. d.signers = [index |-> full.index, signers |-> SearchedSigners(c, full)]
      BY <1>4, <1>6 DEF SignersAfterCheck, SignersCached, SoundChain, ChainValues
    <2> HIDE DEF rounds, full, d, fault
    <2>3. full # NoBlock /\ SearchNeeded(seen, full)
      BY <2>1 DEF Searches, AsksForSearch
    <2>4. r \in 1..(get_height(c) + 1) /\ r \in Int
      BY <1>1, <2>1
    <2>5. full = StoredFullBlock(c, r, Keys)
      BY <2>1, <2>3, <2>4, LoopFullBlockIs DEF full
    <2>6. /\ full \in Blocks /\ full.index \in Nat /\ full.index < r
          /\ full = c.blocks[full.index]
      BY <2>3, <2>4, <2>5, StoredIsRow
    <2>7. full.index >= 2
      BY <2>3, <2>6, RulesAssumption DEF SearchNeeded
    <2>8. seen.blocks = c.blocks
      BY <2>4, InRoundFull
    <2> HIDE DEF seen
    <2>9. SearchEnds(seen, full)
      <3>1. Recheck(c, count, r, t) # "Endless"
        <4>1. CASE r < fault
          <5>1. r \in CheckStart(c, count)..n
            BY <1>1, <2>1, CheckStartRange
          <5> QED
            BY <1>1, <4>1, <5>1, GoodBeforeFault DEF fault
        <4>2. CASE r = fault
          BY <1>1, <2>1, <4>2 DEF CheckOutcome, fault
        <4> QED
          BY <1>1, <1>2, <2>1, <4>1, <4>2
      <3>2. Recheck(c, count, r, t) = check_block(seen, c.blocks[r], get_block(c, r - 1), full, t)
        BY <1>1, <2>1 DEF Recheck, seen, full
      <3> QED
        BY <2>1, <3>1, <3>2 DEF check_block, Searches
    <2>10. 1..(full.index - 1) \subseteq DOMAIN c.blocks
      BY <1>1, <2>1, <2>6
    <2>11. SearchEnds(c, full)
      BY <2>6, <2>7, <2>8, <2>9, <2>10, SearchAgrees
    <2>12. get_height(d) \in Nat /\ full.index <= get_height(d)
      <3>1. CASE fault > n
        <4>1. d.blocks \in [1..n -> Blocks] /\ Top(d) /\ SoundChain(d)
          BY <1>1, <1>3, <3>1
        <4>2. get_height(d) = n
          BY <1>1, <4>1, HeightIsLength
        <4> QED
          BY <1>1, <2>1, <2>6, <4>2
      <3>2. CASE fault <= n
        <4>1. fault - 1 \in Nat /\ ~(fault > n) /\ 1..(fault - 1) \subseteq 1..n
          BY <1>1, <1>2, <3>2
        <4>2. Below(c.blocks, fault) = [j \in 1..(fault - 1) |-> c.blocks[j]]
          BY <1>1, <1>2, <3>2 DEF Below
        <4>3. Below(c.blocks, fault) \in [1..(fault - 1) -> Blocks]
          BY <1>1, <4>1, <4>2
        <4>4. d.blocks \in [1..(fault - 1) -> Blocks] /\ Top(d) /\ SoundChain(d)
          BY <1>3, <4>1, <4>3
        <4>5. get_height(d) = fault - 1
          BY <4>1, <4>4, HeightIsLength
        <4> QED
          BY <1>1, <1>2, <2>1, <2>6, <4>1, <4>5
      <3> QED
        BY <1>1, <1>2, <3>1, <3>2
    <2>13. Below(c.blocks, full.index) = Below(d.blocks, full.index)
      <3>1. DOMAIN c.blocks \subseteq Int /\ fault \in Int /\ full.index \in Int /\ full.index <= fault
        BY <1>1, <1>2, <2>1, <2>6
      <3>2. Below(Below(c.blocks, fault), full.index) = Below(c.blocks, full.index)
        BY <3>1, BelowBelow
      <3> QED
        BY <1>3, <3>2
    <2>14. SearchEnds(d, full) /\ SearchedSigners(c, full) = SearchedSigners(d, full)
      BY <2>6, <2>7, <2>10, <2>11, <2>13, SearchAgrees
    <2>15. ASSUME d.last_full_block # NoBlock, d.last_full_block.index = full.index
           PROVE  d.last_full_block = full
      <3>1. PICK m \in Int : d.last_full_block = StoredFullBlock(c, m, Keys)
        BY <1>1, <1>2, <1>4 DEF FullIsCurrent
      <3>2. d.last_full_block = c.blocks[d.last_full_block.index]
        BY <2>15, <3>1, StoredIsRow
      <3> QED
        BY <2>6, <2>15, <3>2
    <2>16. full.index \in 2..get_height(d)
      BY <2>6, <2>7, <2>12
    <2>17. /\ d.signers.index = full.index
           /\ d.signers.signers = SearchedSigners(c, full)
      BY <2>2
    <2> QED
      BY <2>14, <2>15, <2>16, <2>17 DEF CachedSigners, d
  <1> QED
    BY <1>5, <1>6

(* The first fault, if there is one, is not good.                          *)
LEMMA FaultIsNotGood ==
    ASSUME NEW c, NEW n \in Nat, get_height(c) = n, NEW count \in Nat \ {0}, NEW t,
           ~(FirstFault(c, count, t) > n)
    PROVE  /\ FirstFault(c, count, t) \in CheckStart(c, count)..n
           /\ Recheck(c, count, FirstFault(c, count, t), t) # "Good"
  <1> DEFINE start == CheckStart(c, count)
             S == {i \in start..n : Recheck(c, count, i, t) # "Good"} \cup {n + 1}
  <1>1. start \in 1..(n + 1)
    BY CheckStartRange
  <1>2. S \in SUBSET Nat /\ S # {}
    BY <1>1
  <1>3. Min(S) \in S
    BY <1>2, MinNatural
  <1>4. FirstFault(c, count, t) = Min(S)
    BY DEF FirstFault
  <1>5. FirstFault(c, count, t) # n + 1
    OBVIOUS
  <1> QED
    BY <1>3, <1>4, <1>5

-----------------------------------------------------------------------------
(* The caches of the running node.                                         *)

LInv == status = "up" /\ ~rewritten => FullIsCurrent(chain)

CInv == status = "up" => CachedSigners(chain)

(* A chain with the same blocks and caches.                                *)
LEMMA SameCaches ==
    ASSUME NEW c, SoundChain(c), Top(c), NEW d,
           d.blocks = c.blocks, d.last_block = c.last_block,
           d.last_full_block = c.last_full_block
    PROVE  /\ get_height(d) = get_height(c)
           /\ FullIsCurrent(c) => FullIsCurrent(d)
           /\ d.signers = c.signers /\ CachedSigners(c) => CachedSigners(d)
  <1> DEFINE full == c.last_full_block
  <1>1. get_height(d) = get_height(c)
    BY DEF get_height
  <1>2. /\ get_height(c) \in Nat /\ DOMAIN c.blocks = 1..get_height(c)
        /\ c.blocks \in BlockTables
    BY RowsUpToHeight
  <1>3. StoredFullBlock(c, get_height(c) + 1, Keys) = StoredFullBlock(d, get_height(c) + 1, Keys)
    BY <1>2, StoredFullBlockAgrees
  <1>4. FullIsCurrent(c) => FullIsCurrent(d)
    BY <1>1, <1>3 DEF FullIsCurrent
  <1>5. ASSUME d.signers = c.signers, CachedSigners(c) PROVE CachedSigners(d)
    <2>1. SUFFICES ASSUME c.signers.signers # {}, full # NoBlock, full.index = c.signers.index
                   PROVE  SearchEnds(d, full) /\ c.signers.signers = SearchedSigners(d, full)
      BY <1>1, <1>5 DEF CachedSigners
    <2>2. /\ full.index \in 2..get_height(c)
          /\ SearchEnds(c, full) /\ c.signers.signers = SearchedSigners(c, full)
      BY <1>5, <2>1 DEF CachedSigners
    <2>3. full \in Blocks
      BY <2>1 DEF SoundChain, ChainValues, FullBlocks
    <2>4. full.index >= 2 /\ 1..(full.index - 1) \subseteq DOMAIN c.blocks
      BY <1>2, <2>2
    <2> HIDE DEF full
    <2> QED
      BY <2>2, <2>3, <2>4, SearchAgrees
  <1> QED
    BY <1>1, <1>4, <1>5

(* A check of an arriving block, and the caches.                           *)
LEMMA AfterCheckCaches ==
    ASSUME IInv, LInv, CInv, status = "up", NEW b \in Blocks, Verdict(b) # "Endless"
    PROVE  LET a == AfterCheck(b)
           IN  /\ SoundChain(a) /\ Top(a)
               /\ a.blocks = chain.blocks /\ get_height(a) = get_height(chain)
               /\ ~rewritten => FullIsCurrent(a)
               /\ CachedSigners(a)
  <1> DEFINE a == AfterCheck(b)
  <1>1. SoundChain(chain) /\ Top(chain) /\ CachedSigners(chain)
    BY DEF IInv, CInv
  <1>2. chain.last_full_block \in Blocks \cup {NoBlock}
    BY <1>1 DEF SoundChain, ChainValues, FullBlocks
  <1>3. PICK s \in SignerCaches : a = [chain EXCEPT !.signers = s]
    <2>1. chain \in RowValues
      BY <1>1, SoundIsKept DEF KeptChain
    <2> QED
      BY <1>2, <2>1, CheckedChangesSignersOnly DEF AfterCheck
  <1>4. /\ SoundChain(a) /\ Top(a)
        /\ a.blocks = chain.blocks /\ a.domains = chain.domains
        /\ a.last_block = chain.last_block /\ a.last_full_block = chain.last_full_block
    BY <1>1, <1>3, SignersDoNotMatter
  <1>5. CachedSigners(a)
    BY <1>1, CheckKeepsSigners DEF AfterCheck, Verdict
  <1> HIDE DEF a
  <1>6. get_height(a) = get_height(chain) /\ (FullIsCurrent(chain) => FullIsCurrent(a))
    BY <1>1, <1>4, SameCaches
  <1> QED
    BY <1>4, <1>5, <1>6 DEF LInv, a

(* The caches when a block is added.                                       *)
LEMMA AddBlockKeepsCaches ==
    ASSUME IInv, IInv', LInv, CInv, status = "up", NEW b \in Blocks, Verdict(b) = "Good", AddBlock(b)
    PROVE  LInv' /\ CInv'
  <1> DEFINE a == AfterCheck(b)
             n == get_height(chain)
  <1>1. SoundChain(chain) /\ Top(chain)
    BY DEF IInv
  <1>2. n \in Nat /\ chain.blocks \in [1..n -> Blocks]
    BY <1>1, RowsUpToHeight
  <1>3. b.index = n + 1 /\ (n > 0 => b.prev_block_hash = chain.blocks[n].hash)
    BY <1>1, <1>2, AddedAboveZero, GoodContinues DEF Verdict
  <1>4. /\ SoundChain(a) /\ Top(a)
        /\ a.blocks = chain.blocks /\ get_height(a) = n
        /\ ~rewritten => FullIsCurrent(a)
        /\ CachedSigners(a)
    BY AfterCheckCaches
  <1>5. b.index = get_height(a) + 1 /\ (get_height(a) > 0 => b.prev_block_hash = a.blocks[get_height(a)].hash)
    BY <1>3, <1>4
  <1>6. chain' = add_block(a, b) /\ rewritten' = rewritten
    BY DEF AddBlock
  <1> HIDE DEF a
  <1>7. CachedSigners(add_block(a, b))
    BY <1>4, <1>5, AddBlockKeepsSigners
  <1>8. ~rewritten => FullIsCurrent(add_block(a, b))
    BY <1>4, <1>5, AddBlockKeepsFull
  <1> QED
    BY <1>6, <1>7, <1>8 DEF LInv, CInv

(* replace_block empties the cache of signers.                             *)
LEMMA ReplaceBlockClears ==
    ASSUME NEW c \in ChainValues, NEW b
    PROVE  replace_block(c, b).signers = NoSigners
  <1> DEFINE d == truncate_db_from_block(SignersCleared(c), b.index)
  <1>1. /\ d.signers = NoSigners
        /\ DOMAIN d = {"blocks", "domains", "last_block", "last_full_block", "signers", "max_height"}
    BY DEF truncate_db_from_block, TruncateBlocks, SignersCleared, ChainValues
  <1> HIDE DEF d
  <1>2. add_block(d, b).signers = d.signers
    BY <1>1 DEF add_block, add_block_to_table, add_transaction_to_table
  <1> QED
    BY <1>1, <1>2 DEF replace_block, d

LEMMA BlockArrivesKeepsCaches ==
    ASSUME IInv, IInv', LInv, CInv, NEW b \in Blocks, BlockArrives(b)
    PROVE  LInv' /\ CInv'
  <1>1. status = "up"
    BY DEF BlockArrives
  <1>2. CASE Verdict(b) = "Good" /\ AddBlock(b)
    BY <1>1, <1>2, AddBlockKeepsCaches
  <1>3. CASE Verdict(b) = "Fork" /\ ReplaceBlock(b)
    <2>1. AfterCheck(b) \in ChainValues
      BY <1>1, AfterCheckIsSound DEF SoundChain
    <2>2. chain'.signers = NoSigners /\ rewritten'
      BY <1>3, <2>1, ReplaceBlockClears DEF ReplaceBlock
    <2> QED
      BY <2>2 DEF LInv, CInv, CachedSigners, NoSigners
  <1>4. CASE Verdict(b) # "Endless" /\ DropBlock(b)
    BY <1>1, <1>4, AfterCheckCaches DEF DropBlock, LInv, CInv
  <1>5. CASE Verdict(b) = "Bad" /\ EndSync(b)
    <2> DEFINE a == AfterCheck(b)
    <2>1. /\ SoundChain(a) /\ Top(a) /\ CachedSigners(a)
          /\ ~rewritten => FullIsCurrent(a)
      BY <1>1, <1>5, AfterCheckCaches
    <2>2. a \in ChainValues /\ chain' = [a EXCEPT !.max_height = get_height(chain)] /\ rewritten' = rewritten
      BY <1>5, <2>1 DEF EndSync, SoundChain
    <2> HIDE DEF a
    <2>3. /\ chain'.blocks = a.blocks /\ chain'.last_block = a.last_block
          /\ chain'.last_full_block = a.last_full_block /\ chain'.signers = a.signers
      BY <2>2 DEF ChainValues
    <2>4. CachedSigners(chain') /\ (FullIsCurrent(a) => FullIsCurrent(chain'))
      BY <2>1, <2>3, SameCaches
    <2> QED
      BY <2>1, <2>2, <2>4 DEF LInv, CInv
  <1>6. CASE Hang
    BY <1>6 DEF Hang, LInv, CInv
  <1> QED
    BY <1>2, <1>3, <1>4, <1>5, <1>6 DEF BlockArrives

LEMMA GetSignBlockKeepsCaches ==
    ASSUME IInv, LInv, CInv, GetSignBlock
    PROVE  LInv' /\ CInv'
  <1> DEFINE full == chain.last_full_block
  <1>1. SoundChain(chain) /\ Top(chain) /\ status = "up" /\ SearchNeeded(chain, full)
    BY DEF GetSignBlock, IInv
  <1>2. full \in Blocks
    BY <1>1 DEF GetSignBlock, ReadyToSign, SoundChain, ChainValues, FullBlocks
  <1>3. CASE Hang
    BY <1>3 DEF Hang, LInv, CInv
  <1>4. CASE /\ SearchEnds(chain, full)
             /\ chain' = SignersCached(chain, full) /\ UNCHANGED <<now, status, rewritten>>
    <2>1. CachedSigners(chain')
      BY <1>1, <1>2, <1>4, SearchedIsCached
    <2>2. /\ chain'.blocks = chain.blocks /\ chain'.last_block = chain.last_block
          /\ chain'.last_full_block = full
      BY <1>1, <1>4 DEF SignersCached, SoundChain, ChainValues
    <2>3. FullIsCurrent(chain) => FullIsCurrent(chain')
      BY <1>1, <2>2, SameCaches
    <2> QED
      BY <1>1, <1>4, <2>1, <2>3 DEF LInv, CInv
  <1> QED
    BY <1>3, <1>4 DEF GetSignBlock

LEMMA StartKeepsCaches ==
    ASSUME IInv, Start
    PROVE  LInv' /\ CInv'
  <1> DEFINE c == init_db(chain.blocks, chain.domains)
             outcome == CheckOutcome(c, CheckBlocks, now)
             d == check_chain(c, CheckBlocks, now)
  <1>1. PICK n \in Nat : chain.blocks \in [1..n -> Blocks]
    BY DEF IInv, SoundChain, ChainValues, BlockTables
  <1>2. SoundChain(c) /\ Top(c) /\ get_height(c) = n /\ CheckBlocks \in Nat \ {0}
    BY <1>1, StartFinds
  <1>3. FullIsCurrent(c) /\ c.signers = NoSigners
    <2>1. chain.blocks \in BlockTables /\ LinkedBlocks(chain.blocks) /\ chain.domains \in DomainTables
      BY DEF IInv, SoundChain, ChainValues
    <2> QED
      BY <2>1, InitDbLoadsFull
  <1> HIDE DEF c
  <1>4. CASE status' \in {"hung", "panicked"}
    BY <1>4 DEF LInv, CInv
  <1>5. CASE /\ outcome \notin {"Endless", "Panic"} /\ chain' = d
             /\ rewritten' = (rewritten \/ outcome # "Good")
    <2>1. CachedSigners(d)
      BY <1>2, <1>3, <1>5, CheckChainSigners
    <2>2. ~rewritten' => outcome = "Good"
      BY <1>5
    <2>3. ASSUME outcome = "Good" PROVE FullIsCurrent(d)
      <3>1. FirstFault(c, CheckBlocks, now) > get_height(c)
        <4>1. SUFFICES ASSUME ~(FirstFault(c, CheckBlocks, now) > n) PROVE FALSE
          BY <1>2
        <4>2. FirstFault(c, CheckBlocks, now) \in CheckStart(c, CheckBlocks)..n
              /\ Recheck(c, CheckBlocks, FirstFault(c, CheckBlocks, now), now) # "Good"
          BY <1>2, <4>1, FaultIsNotGood
        <4> QED
          BY <1>2, <2>3, <4>1, <4>2 DEF CheckOutcome
      <3> QED
        BY <1>2, <1>3, <3>1, CheckChainKeepsFull
    <2> QED
      BY <1>5, <2>1, <2>2, <2>3 DEF LInv, CInv
  <1> QED
    BY <1>4, <1>5 DEF Start, c

(* Every step without a row 0 before it or after it keeps the caches true, *)
(* a crash included.                                                       *)
LEMMA StepKeepsCaches == IInv /\ IInv' /\ LInv /\ CInv /\ [CrashNext]_vars => LInv' /\ CInv'
  <1> SUFFICES ASSUME IInv, IInv', LInv, CInv, [CrashNext]_vars PROVE LInv' /\ CInv'
    OBVIOUS
  <1>1. ASSUME NEW b \in Blocks, BlockArrives(b) PROVE LInv' /\ CInv'
    BY <1>1, BlockArrivesKeepsCaches
  <1>2. CASE GetSignBlock
    BY <1>2, GetSignBlockKeepsCaches
  <1>3. ASSUME NEW h \in PeerHeights, update_max_height(h) PROVE LInv' /\ CInv'
    <2>1. SoundChain(chain) /\ Top(chain) /\ status = "up"
      BY <1>3 DEF update_max_height, IInv
    <2>2. /\ chain'.blocks = chain.blocks /\ chain'.last_block = chain.last_block
          /\ chain'.last_full_block = chain.last_full_block /\ chain'.signers = chain.signers
          /\ UNCHANGED <<status, rewritten>>
      BY <1>3, <2>1 DEF update_max_height, SoundChain, ChainValues
    <2>3. /\ FullIsCurrent(chain) => FullIsCurrent(chain')
          /\ CachedSigners(chain) => CachedSigners(chain')
      BY <2>1, <2>2, SameCaches
    <2> QED
      BY <2>2, <2>3 DEF LInv, CInv
  <1>4. CASE Tick
    BY <1>4 DEF Tick, LInv, CInv
  <1>5. CASE status' = "down"
    BY <1>5 DEF LInv, CInv
  <1>6. CASE Start
    BY <1>6, StartKeepsCaches
  <1>7. CASE UNCHANGED vars
    BY <1>7 DEF vars, LInv, CInv
  <1>8. Stop \/ (\E b \in Blocks : CrashInAddBlock(b) \/ CrashInReplaceBlock(b)) \/ CrashInCheckChain
          => status' = "down"
    BY DEF Stop, CrashInAddBlock, CrashInReplaceBlock, CrashInCheckChain, Halted
  <1> QED
    BY <1>1, <1>2, <1>3, <1>4, <1>5, <1>6, <1>7, <1>8 DEF CrashNext, Next

(* A first start has nothing cached.                                       *)
LEMMA InitCachesTrue == Init => LInv /\ CInv
  <1> SUFFICES ASSUME Init PROVE LInv /\ CInv
    OBVIOUS
  <1>1. chain = EmptyChain(<<>>, <<>>)
    BY DEF Init
  <1>2. CachedSigners(chain)
    BY <1>1 DEF EmptyChain, CachedSigners, NoSigners
  <1>3. HasNoFull(chain, get_height(chain) + 1, Keys) /\ chain.last_full_block = NoBlock
    BY <1>1 DEF EmptyChain, HasNoFull
  <1>4. FullIsCurrent(chain)
    BY <1>3, StoredFullBlockNone DEF FullIsCurrent
  <1> QED
    BY <1>2, <1>4 DEF LInv, CInv

(* A state without a row 0 has come from one without, or the node has      *)
(* crashed while it removed that row.                                      *)
LEMMA StrayStaysOrCrash ==
    ASSUME GInv, [CrashNext]_vars, Stray' = NoBlock
    PROVE  IInv' /\ ((Stray = NoBlock /\ IInv) \/ (status' = "down" /\ rewritten'))
  <1>1. GInv' /\ (Stray # NoBlock => status' = "down" /\ rewritten')
    BY StepIsMapped DEF Mapped
  <1>2. Stray = NoBlock => IInv
    BY IInvIsGInvWithoutStray
  <1>3. IInv'
    <2>1. KeptChain(chain') /\ get_block(chain', 0) = NoBlock
      BY <1>1 DEF GInv, Stray
    <2>2. 0 \notin DOMAIN chain'.blocks
      BY <2>1, RowZero
    <2> QED
      BY <1>1, <2>1, <2>2, SoundIsKept DEF GInv, IInv
  <1> QED
    BY <1>1, <1>2, <1>3

(* The caches are true in every state without a row 0.                     *)
CachesHold == Stray = NoBlock => LInv /\ CInv

LEMMA CachesAreTrue == CrashSpec => [](GInv /\ CachesHold)
  <1>1. Init => GInv /\ CachesHold
    BY InitIsSound, InitCachesTrue DEF CachesHold
  <1>2. GInv /\ CachesHold /\ [CrashNext]_vars => GInv' /\ CachesHold'
    <2>1. SUFFICES ASSUME GInv, CachesHold, [CrashNext]_vars PROVE GInv' /\ CachesHold'
      OBVIOUS
    <2>2. GInv'
      BY <2>1, StepIsMapped DEF Mapped
    <2>3. ASSUME Stray' = NoBlock PROVE LInv' /\ CInv'
      <3>1. CASE status' = "down" /\ rewritten'
        BY <3>1 DEF LInv, CInv
      <3>2. CASE Stray = NoBlock /\ IInv /\ IInv'
        BY <2>1, <3>2, StepKeepsCaches DEF CachesHold
      <3> QED
        BY <2>1, <2>3, <3>1, <3>2, StrayStaysOrCrash
    <2> QED
      BY <2>2, <2>3 DEF CachesHold
  <1> QED
    BY <1>1, <1>2, PTL DEF CrashSpec

(* Until a stored block is removed, and as long as there is no row 0, the  *)
(* cached last full block is the newest of the table: add_block_to_table, init_db and         *)
(* check_chain agree on it, over restarts and crashes.                     *)
THEOREM LastFullAlwaysTracksChain == CrashSpec => []LastFullTracksChain
  <1>1. CachesHold => LastFullTracksChain
    BY DEF CachesHold, LInv, LastFullTracksChain, LastFullBlockIsCurrent, FullIsCurrent
  <1> QED
    BY <1>1, CachesAreTrue, PTL

(* Signers taken from the cache, which is keyed by height alone, are those *)
(* that a new search would find, without a row 0: get_block_signers fills  *)
(* the cache, replace_block empties it, and a start begins with none.      *)
THEOREM CachedSignersAreFresh == CrashSpec => []SignersAreFresh
  <1>1. CachesHold => SignersAreFresh
    BY DEF CachesHold, CInv, SignersAreFresh, CachedSigners
  <1> QED
    BY <1>1, CachesAreTrue, PTL

-----------------------------------------------------------------------------
(* Signing blocks.                                                         *)

(* A block that get_sign_block prepares passes check_new_block, whatever   *)
(* the caches hold.                                                        *)
LEMMA OfferIsGood ==
    ASSUME NEW c, SoundChain(c), Top(c), NEW t \in Nat, ReadyToSign(c, Keys, t),
           SearchNeeded(c, c.last_full_block) => SearchEnds(c, c.last_full_block),
           NEW k \in SigningKeys(c, Keys),
           NEW b, b.index = get_height(c) + 1, b.timestamp = t, b.version = 0,
           b.difficulty = SIGNER_DIFFICULTY, b.hash_bits = SIGNER_DIFFICULTY,
           b.hash \notin WRONG_HASHES, b.hash_good, b.signature_good,
           b.prev_block_hash = c.last_block.hash, b.pub_key = k,
           b.transaction = NoTransaction
    PROVE  check_new_block(c, b, t) = "Good"
  <1> DEFINE n == get_height(c)
             last == c.last_block
             full == c.last_full_block
  <1>1. n \in Nat /\ DOMAIN c.blocks = 1..n /\ c.blocks \in [1..n -> Blocks] /\ LinkedBlocks(c.blocks)
    BY RowsUpToHeight
  <1>2. n >= 2 /\ full # NoBlock /\ last.timestamp + CLOCK_SKEW <= t
        /\ Minus(n, full.index) < BLOCK_SIGNERS_MIN
    BY <1>1, RulesAssumption DEF ReadyToSign
  <1>3. last = c.blocks[n] /\ last \in Blocks /\ last.index = n
    BY <1>1, <1>2, RowsUpToHeight DEF LinkedBlocks
  <1>4. last # NoBlock /\ last.timestamp \in Nat
    BY <1>3, BlockFacts DEF BlockRecords
  <1>5. ~IsFull(b) /\ ~IsDomain(b)
    BY DEF IsFull, IsDomain
  <1>6. full.index \in Nat
    BY <1>2, BlockFacts DEF SoundChain, ChainValues, FullBlocks
  <1>7. get_block(c, b.index - 1) = last
    BY <1>1, <1>2, <1>3 DEF get_block
  <1>8. ~WorkIsBad(c, b)
    <2>1. b.index # 1
      BY <1>1, <1>2
    <2>2. NeededDifficulty(c, b) = SIGNER_DIFFICULTY
      BY <1>5, <2>1 DEF NeededDifficulty
    <2> QED
      BY <1>5, <2>2 DEF WorkIsBad, SIGNER_DIFFICULTY
  <1>9. Screen(c, b, last, t) = "Pass"
    <2>1. ~(b.version > CHAIN_VERSION \/ b.hash \in WRONG_HASHES \/ b.timestamp > t + CLOCK_SKEW)
      BY RulesAssumption DEF CHAIN_VERSION
    <2>2. ~(b.index > last.index + 1) /\ ~(b.timestamp < last.timestamp)
      BY <1>1, <1>2, <1>3, <1>4, RulesAssumption
    <2> QED
      BY <1>4, <1>5, <1>7, <1>8, <2>1, <2>2 DEF Screen
  <1>10. ~(AsksForSearch(c, b, full) /\ ~SearchEnds(c, full))
    BY DEF AsksForSearch
  <1>11. is_good_sign_block(c, b, full)
    <2>1. b.pub_key \in get_block_signers(c, full)
          /\ \A i \in full.index..n : c.blocks[i].pub_key # b.pub_key
      BY DEF SigningKeys
    <2>2. \A i \in (full.index + 1)..(b.index - 1) : i \in full.index..n
      BY <1>1, <1>6
    <2>3. is_good_signer_for_block(c, b, full)
      BY <2>1, <2>2 DEF is_good_signer_for_block
    <2> QED
      BY <1>2, <1>5, <2>3 DEF is_good_sign_block
  <1>12. Placement(c, b, last) = "Good"
    <2>1. ~(b.index <= last.index)
      BY <1>1, <1>3
    <2> QED
      BY <2>1 DEF Placement
  <1> QED
    BY <1>9, <1>10, <1>11, <1>12 DEF check_new_block, check_block

(* A signing block we offer to mine passes our own check_new_block: the    *)
(* filter of get_sign_block is at least as strict as is_good_sign_block,   *)
(* in every state of the caches that forks, restarts and crashes lead to   *)
(* without a row 0.                                                        *)
THEOREM SignOffersAreAlwaysAccepted == CrashSpec => []SignOffersAreAccepted
  <1>1. GInv => SignOffersAreAccepted
    <2>1. SUFFICES ASSUME GInv, Stray = NoBlock, status = "up", ReadyToSign(chain, Keys, now),
                          SearchNeeded(chain, chain.last_full_block)
                             => SearchEnds(chain, chain.last_full_block),
                          NEW k \in SigningKeys(chain, Keys)
                   PROVE  check_new_block(chain, SigningBlock(k), now) = "Good"
      BY DEF SignOffersAreAccepted
    <2>2. SoundChain(chain) /\ Top(chain) /\ now \in Nat
      BY <2>1, IInvIsGInvWithoutStray DEF IInv
    <2> DEFINE b == SigningBlock(k)
    <2>3. /\ b.index = get_height(chain) + 1 /\ b.timestamp = now /\ b.version = 0
          /\ b.difficulty = SIGNER_DIFFICULTY /\ b.hash_bits = SIGNER_DIFFICULTY
          /\ b.hash_good /\ b.signature_good
          /\ b.prev_block_hash = chain.last_block.hash /\ b.pub_key = k
          /\ b.transaction = NoTransaction
          /\ b.hash = CHOOSE h \in Hashes : h \notin WRONG_HASHES
      BY DEF SigningBlock
    <2>4. b.hash \notin WRONG_HASHES
      BY <2>3, BlocksAssumption
    <2> HIDE DEF b
    <2>5. check_new_block(chain, b, now) = "Good"
      BY <2>1, <2>2, <2>3, <2>4, OfferIsGood
    <2> QED
      BY <2>5 DEF b
  <1> QED
    BY <1>1, CachesAreTrue, PTL

-----------------------------------------------------------------------------
(* Blocks that have been signed stay signed.                               *)

(* The first block is a full block, and the origin if there is one.        *)
OriginFirst(c) ==
    1 \in DOMAIN c.blocks =>
        IsFull(c.blocks[1]) /\ (Origin # NoHash => c.blocks[1].hash = Origin)

(* The signature that block b is for full, found by a search that ends.    *)
SignsFor(c, b, full) ==
    /\ full.index >= BLOCK_SIGNERS_START
    /\ SearchEnds(c, full)
    /\ b.pub_key \in SearchedSigners(c, full)
    /\ \A j \in (full.index + 1)..(b.index - 1) : c.blocks[j].pub_key # b.pub_key

(* Row i, when it is one of the first blocks above a full one.             *)
Signed(c, i) ==
    LET b    == c.blocks[i]
        full == StoredFullBlock(c, i, Keys)
    IN  (i > BLOCK_SIGNERS_START /\ ~IsFull(b) /\ i - full.index <= BLOCK_SIGNERS_ALL)
          => SignsFor(c, b, full)

SInv ==
    ~rewritten =>
        OriginFirst(chain) /\ \A i \in DOMAIN chain.blocks : i >= 2 => Signed(chain, i)

(* With the origin at the bottom there is a full block below any other.    *)
LEMMA FullBelow ==
    ASSUME NEW c, SoundChain(c), OriginFirst(c), NEW i \in Int, i >= 2, 1 \in DOMAIN c.blocks
    PROVE  StoredFullBlock(c, i, Keys) # NoBlock
  <1>1. c.blocks \in BlockTables
    BY DEF SoundChain, ChainValues
  <1>2. c.blocks[1] \in Blocks /\ IsFull(c.blocks[1])
    BY <1>1 DEF OriginFirst, BlockTables
  <1>3. ~HasNoFull(c, i, Keys)
    BY <1>2, BlockKey DEF HasNoFull
  <1>4. CASE \E j \in DOMAIN c.blocks :
                IsNewestFull(c, j, i, Keys) /\ StoredFullBlock(c, i, Keys) = c.blocks[j]
    <2>1. PICK j \in DOMAIN c.blocks : StoredFullBlock(c, i, Keys) = c.blocks[j]
      BY <1>4
    <2>2. c.blocks[j] \in Blocks
      BY <1>1 DEF BlockTables
    <2> QED
      BY <2>1, <2>2, BlockFacts
  <1> QED
    BY <1>1, <1>3, <1>4, StoredFullBlockCases

(* A signature is judged by the rows below it alone.                       *)
LEMMA SignsForAgrees ==
    ASSUME NEW c, SoundChain(c), NEW d, SoundChain(d), NEW b, b.index \in Int,
           Below(c.blocks, b.index) = Below(d.blocks, b.index),
           1..(b.index - 1) \subseteq DOMAIN c.blocks,
           NEW full \in Blocks, full.index < b.index, SignsFor(c, b, full)
    PROVE  SignsFor(d, b, full)
  <1>1. full.index \in Int /\ full.index >= 2
    BY BlockFacts, RulesAssumption DEF SignsFor
  <1>2. DOMAIN c.blocks \subseteq Int /\ DOMAIN d.blocks \subseteq Int
    BY DEF SoundChain, ChainValues, BlockTables
  <1>3. Below(c.blocks, full.index) = Below(d.blocks, full.index)
    <2>1. full.index <= b.index
      BY <1>1
    <2> QED
      BY <1>1, <1>2, <2>1, BelowShrinks
  <1>4. 1..(full.index - 1) \subseteq DOMAIN c.blocks
    BY <1>1
  <1>5. /\ SearchedSigners(c, full) = SearchedSigners(d, full)
        /\ SearchEnds(c, full) <=> SearchEnds(d, full)
    BY <1>1, <1>3, <1>4, SearchAgrees
  <1>6. \A j \in (full.index + 1)..(b.index - 1) : c.blocks[j] = d.blocks[j]
    <2>1. \A j \in DOMAIN c.blocks : j < b.index => c.blocks[j] = d.blocks[j]
      BY BelowAgrees
    <2>2. \A j \in (full.index + 1)..(b.index - 1) : j \in 1..(b.index - 1) /\ j < b.index
      BY <1>1
    <2> QED
      BY <2>1, <2>2
  <1> QED
    BY <1>5, <1>6 DEF SignsFor

LEMMA SignedAgrees ==
    ASSUME NEW c, SoundChain(c), OriginFirst(c), NEW d, SoundChain(d), NEW i \in Int, i >= 2,
           1..i \subseteq DOMAIN c.blocks,
           Below(c.blocks, i + 1) = Below(d.blocks, i + 1), Signed(c, i)
    PROVE  Signed(d, i)
  <1> DEFINE full == StoredFullBlock(c, i, Keys)
             b == c.blocks[i]
  <1>1. c.blocks \in BlockTables /\ LinkedBlocks(c.blocks)
    BY DEF SoundChain, ChainValues
  <1>2. i \in DOMAIN c.blocks /\ 1 \in DOMAIN c.blocks /\ i < i + 1 /\ i <= i + 1 /\ i + 1 \in Int
    OBVIOUS
  <1>3. d.blocks[i] = b
    BY <1>2, BelowAgrees
  <1>4. Below(c.blocks, i) = Below(d.blocks, i)
    <2>1. DOMAIN c.blocks \subseteq Int /\ DOMAIN d.blocks \subseteq Int
      BY DEF SoundChain, ChainValues, BlockTables
    <2> QED
      BY <1>2, <2>1, BelowShrinks
  <1>5. StoredFullBlock(d, i, Keys) = full
    BY <1>1, <1>4, StoredFullBlockAgrees
  <1>6. full # NoBlock
    BY <1>2, FullBelow
  <1>7. full \in Blocks /\ full.index < i
    BY <1>6, StoredIsRow
  <1>8. b.index = i
    BY <1>1, <1>2 DEF LinkedBlocks
  <1> HIDE DEF full
  <1>9. 1..(i - 1) \subseteq DOMAIN c.blocks
    OBVIOUS
  <1>10. SignsFor(c, b, full) => SignsFor(d, b, full)
    BY <1>4, <1>7, <1>8, <1>9, SignsForAgrees
  <1> QED
    BY <1>3, <1>5, <1>10 DEF Signed, full

(* u64 subtraction does not wrap while the full block is in the chain.     *)
LEMMA MinusIsExact ==
    ASSUME NEW x \in Nat, NEW y \in Nat, y <= x, x < U64
    PROVE  Minus(x, y) = x - y
  <1>1. x - y \in Nat /\ x - y < U64 /\ U64 \in Nat \ {0}
    BY RulesAssumption
  <1> QED
    BY <1>1 DEF Minus

(* A block that check_new_block finds good signs for the full block below. *)
LEMMA GoodIsSigned ==
    ASSUME NEW c, SoundChain(c), Top(c), FullIsCurrent(c), CachedSigners(c), OriginFirst(c),
           get_height(c) >= 1, NEW b \in Blocks, NEW t, check_new_block(c, b, t) = "Good",
           b.index = get_height(c) + 1, b.index > BLOCK_SIGNERS_START, ~IsFull(b),
           b.index - c.last_full_block.index <= BLOCK_SIGNERS_ALL
    PROVE  SignsFor(c, b, c.last_full_block)
  <1> DEFINE n == get_height(c)
             full == c.last_full_block
  <1>1. n \in Nat /\ DOMAIN c.blocks = 1..n /\ c.blocks \in [1..n -> Blocks] /\ LinkedBlocks(c.blocks)
        /\ c.last_block = c.blocks[n]
    BY RowsUpToHeight
  <1>2. full = StoredFullBlock(c, n + 1, Keys) /\ full # NoBlock
    <2>1. 1 \in DOMAIN c.blocks /\ n + 1 \in Int /\ n + 1 >= 2
      BY <1>1
    <2> QED
      BY <2>1, FullBelow DEF FullIsCurrent
  <1>3. full \in Blocks /\ full.index \in Nat /\ full.index < n + 1
    BY <1>1, <1>2, StoredIsRow
  <1>4. n < U64
    <2>1. c.blocks[n] \in Blocks /\ c.blocks[n].index = n
      BY <1>1 DEF LinkedBlocks
    <2> QED
      BY <2>1, RulesAssumption
  <1>5. Minus(n, full.index) = n - full.index
    <2>1. full.index <= n
      BY <1>1, <1>3
    <2> HIDE DEF n, full
    <2> QED
      BY <1>1, <1>3, <1>4, <2>1, MinusIsExact
  <1>6. n - full.index \in Nat /\ n - full.index < BLOCK_SIGNERS_ALL
    BY <1>1, <1>3, RulesAssumption
  <1>7. c.last_block # NoBlock
    BY <1>1, BlockFacts
  <1>8. /\ is_good_sign_block(c, b, full)
        /\ ~(AsksForSearch(c, b, full) /\ ~SearchEnds(c, full))
    BY <1>7, RulesAssumption DEF check_new_block, check_block, Screen
  <1> HIDE DEF n, full
  <1>9. is_good_signer_for_block(c, b, full)
    <2>1. Minus(n, full.index) < BLOCK_SIGNERS_MIN \/
          Minus(n, full.index) \in BLOCK_SIGNERS_MIN..(BLOCK_SIGNERS_ALL - 1)
      BY <1>5, <1>6, RulesAssumption
    <2> QED
      BY <1>2, <1>8, <2>1 DEF is_good_sign_block, n
  <1>10. SearchNeeded(c, full) => SearchEnds(c, full)
    BY <1>2, <1>5, <1>6, <1>8 DEF AsksForSearch, n
  <1>11. b.pub_key \in get_block_signers(c, full)
    BY <1>9 DEF is_good_signer_for_block
  <1>12. full.index >= BLOCK_SIGNERS_START /\ n >= full.index
    BY <1>1, <1>3, <1>11, RulesAssumption DEF get_block_signers, n
  <1>13. CASE SearchNeeded(c, full)
    <2>1. b.pub_key \in SearchedSigners(c, full)
      BY <1>11, <1>13 DEF get_block_signers
    <2> QED
      BY <1>9, <1>10, <1>12, <1>13, <2>1 DEF SignsFor, is_good_signer_for_block, full
  <1>14. CASE ~SearchNeeded(c, full)
    <2>1. b.pub_key \in c.signers.signers
      BY <1>11, <1>14 DEF get_block_signers
    <2>2. c.signers.index = full.index /\ c.signers.signers # {}
      BY <1>12, <1>14 DEF SearchNeeded, n
    <2>3. SearchEnds(c, full) /\ c.signers.signers = SearchedSigners(c, full)
      BY <1>2, <2>2 DEF CachedSigners, full
    <2> QED
      BY <1>9, <1>12, <2>1, <2>3 DEF SignsFor, is_good_signer_for_block, full
  <1> QED
    BY <1>13, <1>14

(* A chain with one more block, which is good, is signed as before.        *)
LEMMA ExtensionIsSigned ==
    ASSUME NEW c, SoundChain(c), Top(c), FullIsCurrent(c), CachedSigners(c), OriginFirst(c),
           \A i \in DOMAIN c.blocks : i >= 2 => Signed(c, i),
           NEW b \in Blocks, NEW t, check_new_block(c, b, t) = "Good",
           NEW d, SoundChain(d), d.blocks = Insert(c.blocks, b.index, b)
    PROVE  OriginFirst(d) /\ \A i \in DOMAIN d.blocks : i >= 2 => Signed(d, i)
  <1> DEFINE n == get_height(c)
  <1>1. /\ n \in Nat /\ DOMAIN c.blocks = 1..n /\ c.blocks \in [1..n -> Blocks]
        /\ LinkedBlocks(c.blocks) /\ c.blocks \in BlockTables
    BY RowsUpToHeight
  <1>2. b.index = n + 1 /\ (n > 0 => b.prev_block_hash = c.blocks[n].hash)
    <2>1. b.index \in DOMAIN d.blocks /\ 0 \notin DOMAIN d.blocks
      BY SoundIsKept DEF Insert
    <2> QED
      BY <1>1, <2>1, GoodContinues
  <1>3. /\ DOMAIN d.blocks = 1..(n + 1) /\ d.blocks[n + 1] = b
        /\ \A i \in 1..n : d.blocks[i] = c.blocks[i]
    BY <1>1, <1>2 DEF Insert
  <1>4. CASE n = 0
    <2>1. c.last_block = NoBlock
      BY <1>4, RowsUpToHeight
    <2>2. is_genesis(b) /\ (Origin # NoHash => b.hash = Origin)
      BY <2>1 DEF check_new_block, check_block, Screen
    <2>3. OriginFirst(d)
      BY <1>3, <1>4, <2>2 DEF OriginFirst, is_genesis
    <2> QED
      BY <1>3, <1>4, <2>3
  <1>5. CASE n >= 1
    <2>1. OriginFirst(d)
      BY <1>1, <1>3, <1>5 DEF OriginFirst
    <2>2. \A m \in Int : m <= n + 1 => Below(c.blocks, m) = Below(d.blocks, m)
      <3>1. DOMAIN c.blocks \subseteq 1..n /\ d.blocks = Insert(c.blocks, n + 1, b)
        BY <1>1, <1>2
      <3> QED
        BY <1>1, <3>1, BelowInsert
    <2>3. ASSUME NEW i \in 1..n, i >= 2 PROVE Signed(d, i)
      <3>1. /\ i \in Int /\ 1..i \subseteq DOMAIN c.blocks /\ i \in DOMAIN c.blocks
            /\ i + 1 \in Int /\ i + 1 <= n + 1
        BY <1>1, <2>3
      <3>2. Below(c.blocks, i + 1) = Below(d.blocks, i + 1) /\ Signed(c, i)
        BY <2>2, <2>3, <3>1
      <3> QED
        BY <2>3, <3>1, <3>2, SignedAgrees
    <2>4. Signed(d, n + 1)
      <3> DEFINE full == c.last_full_block
      <3>1. full = StoredFullBlock(c, n + 1, Keys) /\ full # NoBlock
        <4>1. 1 \in DOMAIN c.blocks /\ n + 1 \in Int /\ n + 1 >= 2
          BY <1>1, <1>5
        <4> QED
          BY <4>1, FullBelow DEF FullIsCurrent
      <3>2. full \in Blocks /\ full.index \in Nat /\ full.index < n + 1
        BY <1>1, <3>1, StoredIsRow
      <3>3. n + 1 \in Int /\ n + 1 <= n + 1 /\ 1..((n + 1) - 1) \subseteq DOMAIN c.blocks
        BY <1>1
      <3>4. StoredFullBlock(d, n + 1, Keys) = full
        BY <1>1, <2>2, <3>1, <3>3, StoredFullBlockAgrees
      <3>5. ASSUME n + 1 > BLOCK_SIGNERS_START, ~IsFull(b), n + 1 - full.index <= BLOCK_SIGNERS_ALL
            PROVE  SignsFor(d, b, full)
        <4>1. /\ get_height(c) >= 1 /\ b.index = get_height(c) + 1 /\ b.index > BLOCK_SIGNERS_START
              /\ b.index - c.last_full_block.index <= BLOCK_SIGNERS_ALL
          BY <1>1, <1>2, <1>5, <3>2, <3>5
        <4>2. SignsFor(c, b, c.last_full_block)
          BY <3>5, <4>1, GoodIsSigned
        <4>3. Below(c.blocks, b.index) = Below(d.blocks, b.index)
          BY <1>2, <2>2, <3>3
        <4> HIDE DEF full
        <4> QED
          BY <1>2, <3>2, <3>3, <4>2, <4>3, SignsForAgrees DEF full
      <3> HIDE DEF full, n
      <3> QED
        BY <1>1, <1>3, <3>2, <3>4, <3>5 DEF Signed
    <2> QED
      BY <1>1, <1>3, <2>1, <2>3, <2>4
  <1> QED
    BY <1>1, <1>4, <1>5

(* Being signed is a matter of the blocks alone.                           *)
LEMMA SameBlocksSigned ==
    ASSUME IInv, IInv', SInv, chain'.blocks = chain.blocks, rewritten' = rewritten
    PROVE  SInv'
  <1> SUFFICES ASSUME ~rewritten
               PROVE  OriginFirst(chain') /\ \A i \in DOMAIN chain.blocks : i >= 2 => Signed(chain', i)
    BY DEF SInv
  <1> DEFINE c == chain
             d == chain'
  <1>1. SoundChain(c) /\ SoundChain(d) /\ d.blocks = c.blocks
    BY DEF IInv
  <1>2. OriginFirst(c) /\ \A i \in DOMAIN c.blocks : i >= 2 => Signed(c, i)
    BY DEF SInv
  <1>3. OriginFirst(d)
    BY <1>1, <1>2 DEF OriginFirst
  <1>4. PICK n \in Nat : DOMAIN c.blocks = 1..n
    BY <1>1 DEF SoundChain, ChainValues, BlockTables
  <1>5. ASSUME NEW i \in DOMAIN c.blocks, i >= 2 PROVE Signed(d, i)
    <2>1. i \in Int /\ 1..i \subseteq DOMAIN c.blocks /\ Signed(c, i)
      BY <1>2, <1>4, <1>5
    <2>2. Below(c.blocks, i + 1) = Below(d.blocks, i + 1)
      BY <1>1
    <2> HIDE DEF c, d
    <2> QED
      BY <1>1, <1>2, <1>5, <2>1, <2>2, SignedAgrees
  <1> QED
    BY <1>3, <1>5

(* A check_chain whose outcome is good keeps every row.                    *)
LEMMA GoodOutcomeKeepsRows ==
    ASSUME NEW c, SoundChain(c), Top(c), NEW count \in Nat \ {0}, NEW t,
           CheckOutcome(c, count, t) = "Good"
    PROVE  /\ FirstFault(c, count, t) > get_height(c)
           /\ check_chain(c, count, t).blocks = c.blocks
           /\ check_chain(c, count, t).domains = c.domains
  <1> DEFINE n == get_height(c)
             fault == FirstFault(c, count, t)
  <1>1. n \in Nat /\ c.blocks \in [1..n -> Blocks]
    BY RowsUpToHeight
  <1>2. fault > n
    <2>1. SUFFICES ASSUME ~(fault > n) PROVE FALSE
      OBVIOUS
    <2>2. Recheck(c, count, fault, t) # "Good"
      BY <1>1, <2>1, FaultIsNotGood
    <2> QED
      BY <2>1, <2>2 DEF CheckOutcome
  <1> HIDE DEF n
  <1>3. /\ check_chain(c, count, t).blocks = IF fault > n THEN c.blocks ELSE Below(c.blocks, fault)
        /\ check_chain(c, count, t).domains = IF fault > n THEN c.domains ELSE Below(c.domains, fault)
    BY <1>1, CheckChainKeepsChain
  <1> QED
    BY <1>2, <1>3 DEF n

(* What a start does to the tables.                                        *)
LEMMA StartKeepsRows ==
    ASSUME IInv, Start
    PROVE  rewritten' \/ (/\ chain'.blocks = chain.blocks /\ chain'.domains = chain.domains
                          /\ rewritten' = rewritten)
  <1> DEFINE c == init_db(chain.blocks, chain.domains)
             outcome == CheckOutcome(c, CheckBlocks, now)
             d == check_chain(c, CheckBlocks, now)
  <1>1. PICK n \in Nat : chain.blocks \in [1..n -> Blocks]
    BY DEF IInv, SoundChain, ChainValues, BlockTables
  <1>2. /\ SoundChain(c) /\ Top(c) /\ CheckBlocks \in Nat \ {0}
        /\ c.blocks = chain.blocks /\ c.domains = chain.domains
    BY <1>1, StartFinds
  <1>3. rewritten \in BOOLEAN
    BY DEF IInv
  <1> HIDE DEF c
  <1>4. CASE chain' = c /\ UNCHANGED rewritten
    BY <1>2, <1>4
  <1>5. CASE chain' = d /\ rewritten' = (rewritten \/ outcome # "Good")
    <2>1. CASE outcome = "Good"
      <3>1. d.blocks = c.blocks /\ d.domains = c.domains
        BY <1>2, <2>1, GoodOutcomeKeepsRows
      <3>2. rewritten' = rewritten
        BY <1>3, <1>5, <2>1
      <3> QED
        BY <1>2, <1>5, <3>1, <3>2
    <2>2. CASE outcome # "Good"
      BY <1>5, <2>2
    <2> QED
      BY <2>1, <2>2
  <1> QED
    BY <1>4, <1>5 DEF Start, c

(* Every step without a row 0 before it or after it leaves the signed      *)
(* blocks signed, or has removed a block.                                  *)
LEMMA StepKeepsSigned ==
    IInv /\ IInv' /\ LInv /\ CInv /\ SInv /\ [CrashNext]_vars => SInv'
  <1> SUFFICES ASSUME IInv, IInv', LInv, CInv, SInv, [CrashNext]_vars PROVE SInv'
    OBVIOUS
  <1>1. IInv'
    OBVIOUS
  <1>2. CASE rewritten'
    BY <1>2 DEF SInv
  <1>3. CASE chain'.blocks = chain.blocks /\ rewritten' = rewritten
    BY <1>1, <1>3, SameBlocksSigned
  <1>4. ASSUME NEW b \in Blocks, status = "up", Verdict(b) = "Good",
               chain'.blocks = Insert(chain.blocks, b.index, b), rewritten' = rewritten
        PROVE  SInv'
    <2>1. SUFFICES ASSUME ~rewritten PROVE SInv'
      BY <1>4 DEF SInv
    <2>2. /\ SoundChain(chain) /\ Top(chain) /\ SoundChain(chain')
          /\ FullIsCurrent(chain) /\ CachedSigners(chain) /\ OriginFirst(chain)
          /\ \A i \in DOMAIN chain.blocks : i >= 2 => Signed(chain, i)
      BY <1>1, <1>4, <2>1 DEF IInv, LInv, CInv, SInv
    <2>3. check_new_block(chain, b, now) = "Good"
      BY <1>4 DEF Verdict
    <2>4. OriginFirst(chain') /\ \A i \in DOMAIN chain'.blocks : i >= 2 => Signed(chain', i)
      <3> DEFINE c == chain
                 d == chain'
      <3>1. /\ SoundChain(c) /\ Top(c) /\ SoundChain(d) /\ d.blocks = Insert(c.blocks, b.index, b)
            /\ FullIsCurrent(c) /\ CachedSigners(c) /\ OriginFirst(c)
            /\ \A i \in DOMAIN c.blocks : i >= 2 => Signed(c, i)
            /\ check_new_block(c, b, now) = "Good"
        BY <1>4, <2>2, <2>3
      <3> HIDE DEF c, d
      <3>2. OriginFirst(d) /\ \A i \in DOMAIN d.blocks : i >= 2 => Signed(d, i)
        BY <3>1, ExtensionIsSigned
      <3> QED
        BY <3>2 DEF d
    <2> QED
      BY <2>4 DEF SInv
  <1>5. ASSUME NEW b \in Blocks, BlockArrives(b) PROVE SInv'
    <2>1. status = "up"
      BY <1>5 DEF BlockArrives
    <2>2. SoundChain(AfterCheck(b)) /\ AfterCheck(b).blocks = chain.blocks
      BY <2>1, AfterCheckIsSound
    <2>3. CASE Verdict(b) = "Good" /\ AddBlock(b)
      <3>1. PICK n \in Nat : chain.blocks \in [1..n -> Blocks]
        BY DEF IInv, SoundChain, ChainValues, BlockTables
      <3>2. b.index = n + 1 /\ (n > 0 => b.prev_block_hash = chain.blocks[n].hash)
        BY <2>1, <2>3, <3>1, AddedAboveZero, GoodContinues DEF Verdict, IInv
      <3>3. chain'.blocks = Insert(chain.blocks, b.index, b) /\ rewritten' = rewritten
        BY <2>2, <2>3, <3>1, <3>2, AddBlockKeepsChain DEF AddBlock
      <3> QED
        BY <1>4, <2>1, <2>3, <3>3
    <2>4. CASE DropBlock(b)
      BY <1>3, <2>2, <2>4 DEF DropBlock
    <2>5. CASE EndSync(b)
      <3>1. chain'.blocks = chain.blocks /\ rewritten' = rewritten
        BY <2>2, <2>5 DEF EndSync, SoundChain, ChainValues
      <3> QED
        BY <1>3, <3>1
    <2>6. CASE Hang
      BY <1>3, <2>6 DEF Hang
    <2> QED
      BY <1>2, <1>5, <2>3, <2>4, <2>5, <2>6 DEF BlockArrives, ReplaceBlock
  <1>6. ASSUME NEW b \in Blocks, CrashInAddBlock(b) PROVE SInv'
    <2>1. chain \in ChainValues
      BY DEF IInv, SoundChain
    <2>2. /\ chain'.blocks = Insert(chain.blocks, b.index, b) /\ rewritten' = rewritten
          /\ status = "up" /\ Verdict(b) = "Good"
      BY <1>6, <2>1 DEF CrashInAddBlock, Halted, EmptyChain, add_block_to_table, ChainValues
    <2> QED
      BY <1>4, <2>2
  <1>7. CASE GetSignBlock \/ (\E h \in PeerHeights : update_max_height(h)) \/ Tick \/ Stop \/ UNCHANGED vars
    <2>1. chain \in ChainValues
      BY DEF IInv, SoundChain
    <2>2. chain'.blocks = chain.blocks /\ rewritten' = rewritten
      BY <1>7, <2>1 DEF GetSignBlock, Hang, SignersCached, update_max_height, Tick, Stop, Halted,
                        EmptyChain, vars, ChainValues
    <2> QED
      BY <1>3, <2>2
  <1>8. CASE Start
    BY <1>2, <1>3, <1>8, StartKeepsRows
  <1> QED
    BY <1>2, <1>5, <1>6, <1>7, <1>8 DEF CrashNext, Next, CrashInReplaceBlock, CrashInCheckChain

(* The signatures hold in every state without a row 0.                     *)
SignedHold == Stray = NoBlock => SInv

LEMMA SignedChain == CrashSpec => [](GInv /\ CachesHold /\ SignedHold)
  <1>1. Init => SignedHold
    BY DEF Init, SignedHold, SInv, OriginFirst, EmptyChain
  <1>2. GInv /\ CachesHold /\ SignedHold /\ [CrashNext]_vars => SignedHold'
    <2>1. SUFFICES ASSUME GInv, CachesHold, SignedHold, [CrashNext]_vars, Stray' = NoBlock
                   PROVE  SInv'
      BY DEF SignedHold
    <2>2. CASE rewritten'
      BY <2>2 DEF SInv
    <2>3. CASE Stray = NoBlock /\ IInv /\ IInv'
      BY <2>1, <2>3, StepKeepsSigned DEF CachesHold, SignedHold
    <2> QED
      BY <2>1, <2>2, <2>3, StrayStaysOrCrash
  <1> QED
    BY <1>1, <1>2, CachesAreTrue, PTL DEF CrashSpec

(* Until a stored block is removed, and as long as there is no row 0, the  *)
(* first BLOCK_SIGNERS_ALL blocks above a full block come from its         *)
(* signers, each of which signs once: what is_good_sign_block found, with  *)
(* cached or searched signers, stays true of the table over restarts and   *)
(* crashes.                                                                *)
THEOREM SignersAlwaysSignOnce == CrashSpec => []SignersSignOnce
  <1>1. GInv /\ SignedHold => SignersSignOnce
    <2>0. GInv /\ SignedHold /\ Stray = NoBlock => IInv /\ SInv
      BY IInvIsGInvWithoutStray DEF SignedHold
    <2>1. SUFFICES ASSUME IInv, SInv, ~rewritten, NEW i \in DOMAIN chain.blocks,
                          i > BLOCK_SIGNERS_START, ~IsFull(chain.blocks[i]),
                          i - StoredFullBlock(chain, i, Keys).index <= BLOCK_SIGNERS_ALL
                   PROVE  /\ chain.blocks[i].pub_key \in SearchedSigners(chain, StoredFullBlock(chain, i, Keys))
                          /\ \A j \in (StoredFullBlock(chain, i, Keys).index + 1)..(i - 1) :
                                chain.blocks[j].pub_key # chain.blocks[i].pub_key
      BY <2>0 DEF SignersSignOnce
    <2>2. i \in Nat /\ chain.blocks[i].index = i
      BY <2>1 DEF IInv, SoundChain, ChainValues, BlockTables, LinkedBlocks
    <2>3. i >= 2
      BY <2>1, <2>2, RulesAssumption
    <2>4. SignsFor(chain, chain.blocks[i], StoredFullBlock(chain, i, Keys))
      BY <2>1, <2>3 DEF SInv, Signed
    <2> QED
      BY <2>2, <2>4 DEF SignsFor
  <1> QED
    BY <1>1, SignedChain, PTL

(* The newest row below an id is a row of the table, if there is one.      *)
LEMMA LastRowType ==
    ASSUME NEW c, SoundChain(c), NEW n \in Nat, DOMAIN c.domains \subseteq 1..n,
           NEW identity, NEW h, LastRow(c, identity, h) # NoRow
    PROVE  /\ LastRow(c, identity, h) \in Rows
           /\ \E i \in DOMAIN c.domains :
                 i < h /\ c.domains[i].identity = identity /\ LastRow(c, identity, h) = c.domains[i]
  <1> DEFINE ids == {i \in DOMAIN c.domains : i < h /\ c.domains[i].identity = identity}
  <1>1. ids # {} /\ LastRow(c, identity, h) = c.domains[Max(ids)]
    BY DEF LastRow
  <1>2. ids \in SUBSET (0..n)
    OBVIOUS
  <1>3. Max(ids) \in ids
    BY <1>1, <1>2, MaxNatural
  <1>4. \A i \in DOMAIN c.domains : c.domains[i] \in Rows
    BY DEF SoundChain, ChainValues, DomainTables
  <1> QED
    BY <1>1, <1>3, <1>4

-----------------------------------------------------------------------------
(* What check_new_block has found of a block, in terms of the rows below   *)
(* it.                                                                     *)

InTime(c, b, t) ==
    /\ b.timestamp <= t + CLOCK_SKEW
    /\ \A j \in 1..(b.index - 1) : c.blocks[j].timestamp <= b.timestamp

(* get_identity_discount in a chain of height h.                           *)
DiscountAt(row, time, h) ==
    IF row = NoRow \/ row.timestamp < time - DOMAIN_LIFETIME THEN 0
    ELSE IF h < BLOCKS_WITHOUT_DISCOUNT THEN 1
    ELSE Min({WeeksBetween(row.timestamp, time), 7}) + 1

(* NeededDifficulty of a block that is not the first.                      *)
NeededAt(c, b, h) ==
    IF ~IsFull(b) THEN SIGNER_DIFFICULTY
    ELSE IF IsDomain(b)
         THEN DOMAIN_DIFFICULTY
                - DiscountAt(LastRow(c, b.transaction.identity, b.index), b.timestamp, h)
         ELSE ORIGIN_DIFFICULTY

WorkDone(c, b) ==
    /\ ~(b.version > CHAIN_VERSION) /\ b.hash \notin WRONG_HASHES
    /\ ~(IsDomain(b) /\ b.transaction.data = "malformed")
    /\ ~(IsFull(b) /\ b.transaction.class = "unknown")
    /\ ~(b.difficulty < NeededAt(c, b, b.index - 1))
    /\ ~(b.hash_bits < b.difficulty)
    /\ b.hash_good /\ b.signature_good

DayApart(c, b) ==
    LET last == StoredFullBlock(c, b.index, {b.pub_key})
    IN  \/ last = NoBlock
        \/ is_domain_in_blockchain(c, b.index, b.transaction.identity)
        \/ last.timestamp + NEW_DOMAINS_INTERVAL <= b.timestamp

Permitted(c, b, t) ==
    IsFull(b) =>
        /\ b.pub_key \in StrongKeys
        /\ is_id_available(c, b.index - 1, t, b.transaction.identity, b.pub_key)
        /\ DayApart(c, b)
        /\ ~(IsDomain(b) /\ b.transaction.data = "forbidden")

Accepted(c, b, t) == InTime(c, b, t) /\ WorkDone(c, b) /\ Permitted(c, b, t)

AInv ==
    ~rewritten =>
        \A i \in DOMAIN chain.blocks : i >= 2 => Accepted(chain, chain.blocks[i], now)

(* It depends on the rows below the block alone.                           *)
LEMMA AcceptedAgrees ==
    ASSUME NEW n \in Nat, NEW c, SoundChain(c), DOMAIN c.domains \subseteq 1..n,
           NEW d, SoundChain(d), NEW b, b.index \in Int,
           1..(b.index - 1) \subseteq DOMAIN c.blocks,
           Below(c.blocks, b.index) = Below(d.blocks, b.index),
           Below(c.domains, b.index) = Below(d.domains, b.index),
           NEW t, Accepted(c, b, t)
    PROVE  Accepted(d, b, t)
  <1> DEFINE i == b.index
             identity == b.transaction.identity
  <1>1. LastRow(c, identity, i) = LastRow(d, identity, i)
    BY LastRowAgrees
  <1>2. LastRow(c, identity, i - 1) = LastRow(d, identity, i - 1)
    <2>1. DOMAIN c.domains \subseteq Int /\ DOMAIN d.domains \subseteq Int
      <3>1. PICK D \in SUBSET Nat : d.domains \in [D -> Rows]
        BY DEF SoundChain, ChainValues, DomainTables
      <3> QED
        BY <3>1
    <2>2. i - 1 \in Int /\ i - 1 <= i
      OBVIOUS
    <2>3. Below(c.domains, i - 1) = Below(d.domains, i - 1)
      BY <2>1, <2>2, BelowShrinks
    <2> QED
      BY <2>3, LastRowAgrees
  <1>3. StoredFullBlock(c, i, {b.pub_key}) = StoredFullBlock(d, i, {b.pub_key})
    BY StoredFullBlockAgrees DEF SoundChain, ChainValues
  <1>4. InTime(d, b, t)
    <2>1. \A j \in DOMAIN c.blocks : j < i => c.blocks[j] = d.blocks[j]
      BY BelowAgrees
    <2>2. \A j \in 1..(i - 1) : j \in DOMAIN c.blocks /\ j < i
      OBVIOUS
    <2> QED
      BY <2>1, <2>2 DEF Accepted, InTime
  <1>5. WorkDone(d, b)
    BY <1>1 DEF Accepted, WorkDone, NeededAt
  <1>6. Permitted(d, b, t)
    BY <1>1, <1>2, <1>3 DEF Accepted, Permitted, DayApart, is_id_available, is_domain_in_blockchain
  <1> QED
    BY <1>4, <1>5, <1>6 DEF Accepted

(* A block that check_new_block finds good has passed all of it.           *)
LEMMA GoodIsAccepted ==
    ASSUME NEW c, SoundChain(c), Top(c), FullIsCurrent(c), get_height(c) >= 1, NEW t \in Nat,
           \A i \in DOMAIN c.blocks : i >= 2 => Accepted(c, c.blocks[i], t),
           NEW b \in Blocks, check_new_block(c, b, t) = "Good", b.index = get_height(c) + 1
    PROVE  Accepted(c, b, t)
  <1> DEFINE n == get_height(c)
             last == c.last_block
  <1>1. /\ n \in Nat /\ DOMAIN c.blocks = 1..n /\ c.blocks \in [1..n -> Blocks]
        /\ LinkedBlocks(c.blocks) /\ c.blocks \in BlockTables
    BY RowsUpToHeight
  <1>2. last = c.blocks[n] /\ last \in Blocks /\ last.index = n
    BY <1>1, RowsUpToHeight DEF LinkedBlocks
  <1>3. last # NoBlock
    BY <1>2, BlockFacts
  <1>4. Screen(c, b, last, t) = "Pass"
    BY <1>3 DEF check_new_block, check_block, Screen
  <1>5. /\ ~(b.version > CHAIN_VERSION) /\ b.hash \notin WRONG_HASHES /\ ~(b.timestamp > t + CLOCK_SKEW)
        /\ ~WorkIsBad(c, b)
        /\ ~(IsFull(b) /\ ~TransactionAllowed(c, b, t))
        /\ ~(b.timestamp < last.timestamp /\ b.index > last.index)
    BY <1>3, <1>4 DEF Screen
  <1>6. b.timestamp \in Nat /\ \A j \in 1..n : c.blocks[j].timestamp \in Nat
    <2>1. \A x \in Blocks : x.timestamp \in Nat
      BY BlocksAssumption DEF BlockRecords
    <2>2. \A j \in 1..n : c.blocks[j] \in Blocks
      BY <1>1
    <2> QED
      BY <2>1, <2>2
  <1>7. InTime(c, b, t)
    <2>1. last.timestamp <= b.timestamp /\ b.timestamp <= t + CLOCK_SKEW
      BY <1>1, <1>2, <1>5, <1>6, RulesAssumption
    <2>2. ASSUME NEW j \in 1..n PROVE c.blocks[j].timestamp <= b.timestamp
      <3>1. CASE j = n
        BY <1>2, <2>1, <3>1
      <3>2. CASE j # n
        <4>1. n \in DOMAIN c.blocks /\ n >= 2 /\ j \in 1..(n - 1)
          BY <1>1, <2>2, <3>2
        <4>2. c.blocks[j].timestamp <= c.blocks[n].timestamp
          BY <1>2, <4>1 DEF Accepted, InTime
        <4> QED
          BY <1>1, <1>2, <1>6, <2>1, <4>1, <4>2
      <3> QED
        BY <3>1, <3>2
    <2>3. b.index - 1 = n
      BY <1>1
    <2> QED
      BY <2>1, <2>2, <2>3 DEF InTime
  <1>8. WorkDone(c, b)
    <2>1. b.index # 1 /\ b.index - 1 = n
      BY <1>1
    <2>2. NeededDifficulty(c, b) = NeededAt(c, b, n)
      BY <2>1 DEF NeededDifficulty, NeededAt, get_identity_discount, DiscountAt, IsDomain
    <2> QED
      BY <1>5, <2>1, <2>2 DEF WorkDone, WorkIsBad
  <1>9. Permitted(c, b, t)
    <2>1. SUFFICES ASSUME IsFull(b)
                   PROVE  /\ b.pub_key \in StrongKeys
                          /\ is_id_available(c, b.index - 1, t, b.transaction.identity, b.pub_key)
                          /\ DayApart(c, b)
                          /\ ~(IsDomain(b) /\ b.transaction.data = "forbidden")
      BY DEF Permitted
    <2>2. TransactionAllowed(c, b, t)
      BY <1>5, <2>1
    <2>3. get_last_full_block(c, b.index, {b.pub_key}) = StoredFullBlock(c, b.index, {b.pub_key})
      <3>1. b.index \in Int /\ {b.pub_key} \in SUBSET Keys
        BY <1>1, BlockKey
      <3>2. FullFits(c, b.index)
        BY <1>1, <3>1 DEF FullFits, FullIsCurrent
      <3> QED
        BY <1>1, <3>1, <3>2, GetLastFullIsStored
    <2> QED
      BY <2>2, <2>3 DEF TransactionAllowed, can_mine_identity, DayApart
  <1> QED
    BY <1>7, <1>8, <1>9 DEF Accepted

(* Time does not take back an acceptance.                                  *)
LEMMA AcceptedLater ==
    ASSUME NEW c, SoundChain(c), NEW b \in Blocks, NEW t \in Nat, Accepted(c, b, t),
           NEW n \in Nat, DOMAIN c.domains \subseteq 1..n
    PROVE  Accepted(c, b, t + 1)
  <1>1. InTime(c, b, t + 1)
    <2>1. b.timestamp \in Nat
      BY BlocksAssumption DEF BlockRecords
    <2> QED
      BY <2>1, RulesAssumption DEF Accepted, InTime
  <1>2. Permitted(c, b, t + 1)
    <2> DEFINE row == LastRow(c, b.transaction.identity, b.index - 1)
    <2>1. row # NoRow => row.timestamp \in Nat
      <3>1. row # NoRow => row \in Rows
        BY LastRowType
      <3> QED
        BY <3>1 DEF Rows
    <2> HIDE DEF row
    <2>2. DomainState(row, t) \in {"NotFound", "Free"} => DomainState(row, t + 1) \in {"NotFound", "Free"}
      BY <2>1, RulesAssumption DEF DomainState
    <2> QED
      BY <2>2 DEF Accepted, Permitted, is_id_available, row
  <1> QED
    BY <1>1, <1>2 DEF Accepted

(* The rows of domains are rows of blocks.                                 *)
LEMMA DomainsWithinBlocks ==
    ASSUME IInv, DInv
    PROVE  \E n \in Nat : /\ chain.blocks \in [1..n -> Blocks] /\ DOMAIN chain.blocks = 1..n
                          /\ DOMAIN chain.domains \subseteq 1..n
  <1>1. PICK n \in Nat : chain.blocks \in [1..n -> Blocks]
    BY DEF IInv, SoundChain, ChainValues, BlockTables
  <1>2. DOMAIN chain.domains \subseteq 1..n
    BY <1>1 DEF DInv, Mirror
  <1> QED
    BY <1>1, <1>2

(* With a block more.                                                      *)
LEMMA AddBlockKeepsAccepted ==
    ASSUME IInv, IInv', DInv, LInv, AInv, status = "up",
           NEW b \in Blocks, Verdict(b) = "Good", AddBlock(b)
    PROVE  AInv'
  <1>1. PICK n \in Nat : /\ chain.blocks \in [1..n -> Blocks] /\ DOMAIN chain.blocks = 1..n
                         /\ DOMAIN chain.domains \subseteq 1..n
    BY DomainsWithinBlocks
  <1>2. SoundChain(chain) /\ Top(chain) /\ SoundChain(chain') /\ now \in Nat
    BY DEF IInv
  <1>3. get_height(chain) = n /\ LinkedBlocks(chain.blocks)
    BY <1>1, <1>2, HeightIsLength DEF SoundChain
  <1>4. b.index = n + 1 /\ (n > 0 => b.prev_block_hash = chain.blocks[n].hash)
    BY <1>1, <1>2, AddedAboveZero, GoodContinues DEF Verdict
  <1>5. /\ SoundChain(AfterCheck(b))
        /\ AfterCheck(b).blocks = chain.blocks /\ AfterCheck(b).domains = chain.domains
    BY AfterCheckIsSound
  <1>6. ~AddBlockPanics(AfterCheck(b), b)
    BY <1>1, <1>4, <1>5 DEF AddBlockPanics
  <1>7. /\ chain'.blocks = Insert(chain.blocks, n + 1, b)
        /\ chain'.domains = DomainsWith(chain.domains, b)
        /\ rewritten' = rewritten /\ now' = now
    BY <1>1, <1>4, <1>5, <1>6, AddBlockKeepsChain DEF AddBlock
  <1>8. /\ DOMAIN chain'.blocks = 1..(n + 1) /\ chain'.blocks[n + 1] = b
        /\ \A i \in 1..n : chain'.blocks[i] = chain.blocks[i]
    BY <1>1, <1>7 DEF Insert
  <1>9. ASSUME NEW m \in Int, m <= n + 1
        PROVE  /\ Below(chain.blocks, m) = Below(chain'.blocks, m)
               /\ Below(chain.domains, m) = Below(chain'.domains, m)
    <2>1. DOMAIN chain.blocks \subseteq 1..n
      BY <1>1
    <2>2. \A x : Below(Insert(chain.domains, n + 1, x), m) = Below(chain.domains, m)
      BY <1>1, <1>9, BelowInsert
    <2> QED
      BY <1>4, <1>7, <1>9, <2>1, <2>2, BelowInsert DEF DomainsWith
  <1>10. SUFFICES ASSUME ~rewritten, NEW i \in 1..(n + 1), i >= 2
                  PROVE  Accepted(chain', chain'.blocks[i], now)
    BY <1>7, <1>8 DEF AInv
  <1> DEFINE c == chain
             d == chain'
             x == d.blocks[i]
  <1>11. \A j \in DOMAIN c.blocks : j >= 2 => Accepted(c, c.blocks[j], now)
    BY <1>10 DEF AInv
  <1>12. x.index = i /\ Accepted(c, x, now)
    <2>1. CASE i = n + 1
      <3>1. FullIsCurrent(c) /\ check_new_block(c, b, now) = "Good"
        BY <1>10 DEF LInv, Verdict
      <3>2. get_height(c) >= 1 /\ b.index = get_height(c) + 1
        BY <1>3, <1>4, <1>10, <2>1
      <3> HIDE DEF c
      <3>3. Accepted(c, b, now)
        BY <1>2, <1>11, <3>1, <3>2, GoodIsAccepted DEF c
      <3> QED
        BY <1>4, <1>8, <2>1, <3>3
    <2>2. CASE i \in 1..n
      BY <1>1, <1>3, <1>8, <1>10, <1>11, <2>2 DEF LinkedBlocks
    <2> QED
      BY <1>10, <2>1, <2>2
  <1>13. /\ x.index \in Int /\ 1..(x.index - 1) \subseteq DOMAIN c.blocks
         /\ Below(c.blocks, x.index) = Below(d.blocks, x.index)
         /\ Below(c.domains, x.index) = Below(d.domains, x.index)
    BY <1>1, <1>9, <1>10, <1>12
  <1>14. SoundChain(c) /\ SoundChain(d) /\ DOMAIN c.domains \subseteq 1..n
    BY <1>1, <1>2
  <1>15. Accepted(d, x, now)
    <2> HIDE DEF c, d, x
    <2> QED
      BY <1>12, <1>13, <1>14, AcceptedAgrees
  <1> QED
    BY <1>15

(* Steps that leave the tables and the clock alone.                        *)
LEMMA SameTablesAccepted ==
    ASSUME IInv, IInv', DInv, AInv, chain'.blocks = chain.blocks, chain'.domains = chain.domains,
           now' = now, rewritten' = rewritten
    PROVE  AInv'
  <1>1. PICK n \in Nat : /\ chain.blocks \in [1..n -> Blocks] /\ DOMAIN chain.blocks = 1..n
                         /\ DOMAIN chain.domains \subseteq 1..n
    BY DomainsWithinBlocks
  <1>2. SUFFICES ASSUME ~rewritten, NEW i \in 1..n, i >= 2
                 PROVE  Accepted(chain', chain.blocks[i], now)
    BY <1>1 DEF AInv
  <1> DEFINE c == chain
             d == chain'
             x == c.blocks[i]
  <1>3. SoundChain(c) /\ SoundChain(d) /\ DOMAIN c.domains \subseteq 1..n
    BY <1>1 DEF IInv
  <1>4. x.index = i /\ Accepted(c, x, now)
    BY <1>1, <1>2, <1>3 DEF AInv, SoundChain, LinkedBlocks
  <1>5. /\ x.index \in Int /\ 1..(x.index - 1) \subseteq DOMAIN c.blocks
        /\ Below(c.blocks, x.index) = Below(d.blocks, x.index)
        /\ Below(c.domains, x.index) = Below(d.domains, x.index)
    BY <1>1, <1>2, <1>4
  <1>6. Accepted(d, x, now)
    <2> HIDE DEF c, d, x
    <2> QED
      BY <1>3, <1>4, <1>5, AcceptedAgrees
  <1> QED
    BY <1>6

LEMMA TickKeepsAccepted ==
    ASSUME IInv, DInv, AInv, Tick
    PROVE  AInv'
  <1>1. PICK n \in Nat : /\ chain.blocks \in [1..n -> Blocks] /\ DOMAIN chain.blocks = 1..n
                         /\ DOMAIN chain.domains \subseteq 1..n
    BY DomainsWithinBlocks
  <1>2. chain' = chain /\ now' = now + 1 /\ rewritten' = rewritten /\ now \in Nat /\ SoundChain(chain)
    BY DEF Tick, IInv
  <1>3. ASSUME NEW i \in 1..n, Accepted(chain, chain.blocks[i], now)
        PROVE  Accepted(chain, chain.blocks[i], now + 1)
    <2>1. chain.blocks[i] \in Blocks
      BY <1>1
    <2> QED
      BY <1>1, <1>2, <1>3, <2>1, AcceptedLater
  <1> QED
    BY <1>1, <1>2, <1>3 DEF AInv

(* Every step without a row 0 before it or after it leaves the accepted    *)
(* blocks accepted, or has removed a block.                                *)
LEMMA StepKeepsAccepted ==
    IInv /\ IInv' /\ DInv /\ LInv /\ AInv /\ [Next]_vars => AInv'
  <1> SUFFICES ASSUME IInv, IInv', DInv, LInv, AInv, [Next]_vars PROVE AInv'
    OBVIOUS
  <1>1. IInv'
    OBVIOUS
  <1>2. CASE rewritten'
    BY <1>2 DEF AInv
  <1>3. CASE /\ chain'.blocks = chain.blocks /\ chain'.domains = chain.domains
             /\ now' = now /\ rewritten' = rewritten
    BY <1>1, <1>3, SameTablesAccepted
  <1>4. ASSUME NEW b \in Blocks, BlockArrives(b) PROVE AInv'
    <2>1. status = "up"
      BY <1>4 DEF BlockArrives
    <2>2. /\ SoundChain(AfterCheck(b))
          /\ AfterCheck(b).blocks = chain.blocks /\ AfterCheck(b).domains = chain.domains
      BY <2>1, AfterCheckIsSound
    <2>3. CASE Verdict(b) = "Good" /\ AddBlock(b)
      BY <1>1, <2>1, <2>3, AddBlockKeepsAccepted
    <2>4. CASE DropBlock(b)
      BY <1>3, <2>2, <2>4 DEF DropBlock
    <2>5. CASE EndSync(b)
      <3>1. /\ chain'.blocks = chain.blocks /\ chain'.domains = chain.domains
            /\ now' = now /\ rewritten' = rewritten
        BY <2>2, <2>5 DEF EndSync, SoundChain, ChainValues
      <3> QED
        BY <1>3, <3>1
    <2>6. CASE Hang
      BY <1>3, <2>6 DEF Hang
    <2> QED
      BY <1>2, <1>4, <2>3, <2>4, <2>5, <2>6 DEF BlockArrives, ReplaceBlock
  <1>5. CASE GetSignBlock \/ (\E h \in PeerHeights : update_max_height(h)) \/ Stop \/ UNCHANGED vars
    <2>1. chain \in ChainValues
      BY DEF IInv, SoundChain
    <2>2. /\ chain'.blocks = chain.blocks /\ chain'.domains = chain.domains
          /\ now' = now /\ rewritten' = rewritten
      BY <1>5, <2>1 DEF GetSignBlock, Hang, SignersCached, update_max_height, Stop, Halted,
                        EmptyChain, vars, ChainValues
    <2> QED
      BY <1>3, <2>2
  <1>6. CASE Tick
    BY <1>6, TickKeepsAccepted
  <1>7. CASE Start
    <2>1. now' = now
      BY <1>7 DEF Start
    <2> QED
      BY <1>2, <1>3, <1>7, <2>1, StartKeepsRows
  <1> QED
    BY <1>4, <1>5, <1>6, <1>7 DEF Next

(* The whole inductive invariant of a node that does not crash between two *)
(* statements, without a row 0.                                            *)
FullInv == IInv /\ DInv /\ LInv /\ CInv /\ SInv /\ AInv

FullHold == Stray = NoBlock => FullInv

LEMMA EverythingAccepted == Spec => [](GInv /\ FullHold)
  <1>1. Init => GInv /\ FullHold
    <2>1. Init => SInv /\ AInv
      BY DEF Init, SInv, AInv, OriginFirst, EmptyChain
    <2>2. Init => DInv
      BY DEF Init, EmptyChain, DInv, Mirror, Kept
    <2> QED
      BY <2>1, <2>2, InitIsSound, InitCachesTrue DEF FullInv, FullHold
  <1>2. GInv /\ FullHold /\ [Next]_vars => GInv' /\ FullHold'
    <2>1. [Next]_vars => [CrashNext]_vars
      BY DEF CrashNext
    <2>2. GInv /\ [Next]_vars => GInv'
      BY <2>1, StepIsMapped DEF Mapped
    <2>3. SUFFICES ASSUME GInv, FullHold, [Next]_vars, Stray' = NoBlock PROVE FullInv'
      BY <2>2 DEF FullHold
    <2>4. IInv /\ IInv' /\ FullInv
      BY <2>3, StrayStays DEF FullHold
    <2>5. DInv'
      BY <2>3, <2>4, StepKeepsDomains DEF FullInv
    <2>6. LInv' /\ CInv' /\ SInv'
      BY <2>1, <2>3, <2>4, StepKeepsCaches, StepKeepsSigned DEF FullInv
    <2>7. AInv'
      BY <2>3, <2>4, StepKeepsAccepted DEF FullInv
    <2> QED
      BY <2>4, <2>5, <2>6, <2>7 DEF FullInv
  <1> QED
    BY <1>1, <1>2, PTL DEF Spec

(* Until a stored block is removed, and as long as there is no row 0, a    *)
(* key's block that introduces a domain is NEW_DOMAINS_INTERVAL younger    *)
(* than the key's full block before it: can_mine_identity is asked with    *)
(* the cached full block, and its answer stays true of the table over      *)
(* restarts.                                                               *)
THEOREM NewDomainsStayADayApart == Spec => []NewDomainsAreADayApart
  <1>1. FullHold => NewDomainsAreADayApart
    <2>1. SUFFICES ASSUME FullInv, ~rewritten, NEW j \in DOMAIN chain.domains,
                          \A i \in DOMAIN chain.domains :
                             i < j => chain.domains[i].identity # chain.domains[j].identity,
                          StoredFullBlock(chain, j, {chain.blocks[j].pub_key}) # NoBlock
                   PROVE  StoredFullBlock(chain, j, {chain.blocks[j].pub_key}).timestamp
                            + NEW_DOMAINS_INTERVAL <= chain.blocks[j].timestamp
      BY DEF FullHold, NewDomainsAreADayApart
    <2> DEFINE b == chain.blocks[j]
    <2>2. PICK n \in Nat : /\ DOMAIN chain.blocks = 1..n /\ DOMAIN chain.domains \subseteq 1..n
      BY <2>1, DomainsWithinBlocks DEF FullInv
    <2>3. SoundChain(chain) /\ LinkedBlocks(chain.blocks) /\ Mirror(chain.blocks, chain.domains)
      BY <2>1 DEF FullInv, IInv, DInv, SoundChain
    <2>4. b.index = j /\ IsDomain(b) /\ j \in Int /\ chain.domains[j].identity = b.transaction.identity
      <3>1. chain.domains[j] = RowOf(b) /\ IsDomain(b) /\ j \in DOMAIN chain.blocks
        BY <2>1, <2>3 DEF Mirror
      <3>2. RowOf(b).identity = b.transaction.identity
        BY DEF RowOf
      <3>3. b.index = j /\ j \in Int
        BY <2>2, <2>3, <3>1 DEF LinkedBlocks
      <3> QED
        BY <3>1, <3>2, <3>3
    <2>5. j >= 2
      <3>1. LET full == StoredFullBlock(chain, j, {b.pub_key})
            IN  full.index \in Nat /\ full.index >= 1 /\ full.index < j
        BY <2>1, <2>3, <2>4, StoredIsRow
      <3> QED
        BY <2>4, <3>1
    <2>6. DayApart(chain, b)
      BY <2>1, <2>2, <2>4, <2>5 DEF FullInv, AInv, Accepted, Permitted, IsDomain
    <2>7. ~is_domain_in_blockchain(chain, j, b.transaction.identity)
      <3>1. SUFFICES ASSUME LastRow(chain, b.transaction.identity, j) # NoRow PROVE FALSE
        BY DEF is_domain_in_blockchain
      <3>2. PICK i \in DOMAIN chain.domains : i < j /\ chain.domains[i].identity = b.transaction.identity
        BY <2>2, <2>3, <3>1, LastRowType
      <3> QED
        BY <2>1, <2>4, <3>2
    <2> QED
      BY <2>1, <2>4, <2>6, <2>7 DEF DayApart
  <1> QED
    BY <1>1, EverythingAccepted, PTL

-----------------------------------------------------------------------------
(* Panics.                                                                 *)

(* check_block itself never panics.                                        *)
LEMMA CheckBlockReturns ==
    ASSUME NEW c, NEW b, NEW last, NEW full, NEW t
    PROVE  check_block(c, b, last, full, t) # "Panic"
  BY DEF check_block, Screen, Placement

LEMMA StepKeepsPanics ==
    GInv /\ MInv /\ PanicMeansForeignOrigin /\ [Next]_vars => PanicMeansForeignOrigin'
  <1> SUFFICES ASSUME GInv, MInv, PanicMeansForeignOrigin, [Next]_vars, status' = "panicked"
               PROVE  1 \in DOMAIN chain'.blocks /\ chain'.blocks[1].hash # Origin
    BY DEF PanicMeansForeignOrigin
  <1>1. CASE chain' = chain /\ status' = status
    BY <1>1 DEF PanicMeansForeignOrigin
  <1>2. ASSUME NEW b \in Blocks, BlockArrives(b) PROVE FALSE
    <2>1. AddBlockPanics(chain, b)
      BY <1>2 DEF BlockArrives, AddBlock, ReplaceBlock, DropBlock, EndSync, Hang
    <2> QED
      BY <2>1 DEF AddBlockPanics, MInv, Mirror
  <1>3. CASE Start
    <2> DEFINE c == init_db(chain.blocks, chain.domains)
               fault == FirstFault(c, CheckBlocks, now)
    <2>1. PICK n \in Nat : chain.blocks \in RowsTo(n)
      BY DEF GInv, KeptChain, RowValues, RowTables
    <2>2. get_height(c) = n /\ c.blocks = chain.blocks /\ fault \in 1..(n + 1)
      BY <2>1, StartFindsRows
    <2> HIDE DEF c
    <2>3. chain' = c /\ CheckOutcome(c, CheckBlocks, now) = "Panic"
      BY <1>3 DEF Start, c
    <2>4. ~(fault > n) /\ Recheck(c, CheckBlocks, fault, now) = "Panic"
      BY <2>2, <2>3 DEF CheckOutcome
    <2>5. fault \in DOMAIN c.blocks
      <3>1. fault \in 1..n
        BY <2>2, <2>4
      <3> QED
        BY <2>1, <2>2, <3>1, RowsToFacts
    <2>6. fault = 1 /\ c.blocks[1].hash # Origin
      BY <2>4, <2>5, CheckBlockReturns DEF Recheck
    <2> QED
      BY <2>3, <2>5, <2>6
  <1> QED
    BY <1>1, <1>2, <1>3 DEF Next, GetSignBlock, Hang, update_max_height, Tick, Stop, Halted, vars

(* A process that is never killed meets no "Error adding transaction"; the *)
(* only panic is check_chain's on a first block that is not the origin.    *)
THEOREM PanicsMeanForeignOrigin == Spec => []PanicMeansForeignOrigin
  <1>1. Init => PanicMeansForeignOrigin
    BY DEF Init, PanicMeansForeignOrigin
  <1> QED
    BY <1>1, DomainsInOrder, StepKeepsPanics, PTL DEF Spec

-----------------------------------------------------------------------------
(* A restart.                                                              *)

(* The discount does not shrink when the chain has grown.                  *)
LEMMA DiscountGrows ==
    ASSUME NEW row, row # NoRow => row.timestamp \in Nat,
           NEW time \in Nat, row # NoRow => row.timestamp <= time,
           NEW h \in Nat, NEW k \in Nat, h <= k
    PROVE  /\ DiscountAt(row, time, h) \in Int /\ DiscountAt(row, time, k) \in Int
           /\ DiscountAt(row, time, h) <= DiscountAt(row, time, k)
  <1>1. CASE row = NoRow
    BY <1>1 DEF DiscountAt
  <1>2. CASE row # NoRow
    <2> DEFINE weeks == WeeksBetween(row.timestamp, time)
               most == Min({weeks, 7})
    <2>1. time - row.timestamp \in Nat /\ ONE_WEEK \in Nat \ {0} /\ time >= row.timestamp
      BY <1>2, RulesAssumption
    <2>2. weeks = (time - row.timestamp) \div ONE_WEEK
      BY <2>1 DEF WeeksBetween
    <2>3. \A x \in Nat : \A y \in Nat \ {0} : x \div y \in Nat
      OBVIOUS
    <2>4. weeks \in Nat
      BY <2>1, <2>2, <2>3
    <2> HIDE DEF weeks
    <2>5. {weeks, 7} \in SUBSET Nat /\ {weeks, 7} # {}
      BY <2>4
    <2>6. most \in Nat
      BY <2>5, MinNatural
    <2>7. \A x \in Nat : DiscountAt(row, time, x) =
             IF row.timestamp < time - DOMAIN_LIFETIME THEN 0
             ELSE IF x < BLOCKS_WITHOUT_DISCOUNT THEN 1 ELSE most + 1
      BY <1>2 DEF DiscountAt, weeks
    <2> HIDE DEF most
    <2> QED
      BY <2>6, <2>7, RulesAssumption
  <1> QED
    BY <1>1, <1>2

(* A block that was accepted shows enough work in a higher chain.          *)
LEMMA WorkStaysGood ==
    ASSUME NEW c, SoundChain(c), Mirror(c.blocks, c.domains),
           NEW n \in Nat, c.blocks \in [1..n -> Blocks],
           NEW i \in 2..n, NEW t, Accepted(c, c.blocks[i], t),
           NEW d, d.domains = c.domains, get_height(d) = n
    PROVE  ~WorkIsBad(d, c.blocks[i])
  <1> DEFINE b == c.blocks[i]
  <1>1. /\ b \in Blocks /\ b.index = i /\ i \in DOMAIN c.blocks /\ DOMAIN c.blocks = 1..n
        /\ DOMAIN c.domains \subseteq 1..n
    BY DEF SoundChain, LinkedBlocks, Mirror
  <1>2. b.difficulty \in Nat /\ b.timestamp \in Nat
    BY <1>1, BlocksAssumption DEF BlockRecords
  <1>3. ~(b.difficulty < NeededDifficulty(d, b))
    <2>1. CASE ~IsDomain(b)
      <3>1. NeededDifficulty(d, b) = NeededAt(c, b, b.index - 1)
        BY <1>1, <2>1 DEF NeededDifficulty, NeededAt, IsDomain
      <3> QED
        BY <3>1 DEF Accepted, WorkDone
    <2>2. CASE IsDomain(b)
      <3> DEFINE row == LastRow(c, b.transaction.identity, i)
      <3>1. NeededDifficulty(d, b) = DOMAIN_DIFFICULTY - DiscountAt(row, b.timestamp, n)
        BY <1>1, <2>2 DEF NeededDifficulty, get_identity_discount, DiscountAt, LastRow, IsDomain
      <3>2. NeededAt(c, b, i - 1) = DOMAIN_DIFFICULTY - DiscountAt(row, b.timestamp, i - 1)
        BY <1>1, <2>2 DEF NeededAt, IsDomain
      <3>3. row # NoRow => row.timestamp \in Nat /\ row.timestamp <= b.timestamp
        <4>1. SUFFICES ASSUME row # NoRow PROVE row.timestamp \in Nat /\ row.timestamp <= b.timestamp
          OBVIOUS
        <4>2. PICK j \in DOMAIN c.domains : j < i /\ row = c.domains[j]
          BY <1>1, <4>1, LastRowType
        <4>3. row.timestamp = c.blocks[j].timestamp /\ j \in 1..n
          <5>1. row = RowOf(c.blocks[j]) /\ j \in 1..n
            BY <1>1, <4>2 DEF Mirror
          <5>2. RowOf(c.blocks[j]).timestamp = c.blocks[j].timestamp
            BY DEF RowOf
          <5> QED
            BY <5>1, <5>2
        <4>4. c.blocks[j].timestamp \in Nat
          <5>1. c.blocks[j] \in Blocks
            BY <4>3
          <5> QED
            BY <5>1, BlocksAssumption DEF BlockRecords
        <4>5. j \in 1..(b.index - 1)
          BY <1>1, <4>2, <4>3
        <4> QED
          BY <4>3, <4>4, <4>5 DEF Accepted, InTime
      <3>4. ~(b.difficulty < NeededAt(c, b, i - 1))
        BY <1>1 DEF Accepted, WorkDone
      <3>5. i - 1 \in Nat /\ i - 1 <= n
        OBVIOUS
      <3> HIDE DEF row, b
      <3>6. /\ DiscountAt(row, b.timestamp, i - 1) \in Int /\ DiscountAt(row, b.timestamp, n) \in Int
            /\ DiscountAt(row, b.timestamp, i - 1) <= DiscountAt(row, b.timestamp, n)
        BY <1>2, <3>3, <3>5, DiscountGrows
      <3> QED
        BY <1>2, <3>1, <3>2, <3>4, <3>6 DEF DOMAIN_DIFFICULTY
    <2> QED
      BY <2>1, <2>2
  <1> QED
    BY <1>3 DEF Accepted, WorkDone, WorkIsBad

(* It passes the first part of check_block in its round of check_chain.    *)
LEMMA ScreenStaysGood ==
    ASSUME NEW c, SoundChain(c), Mirror(c.blocks, c.domains),
           NEW n \in Nat, c.blocks \in [1..n -> Blocks],
           NEW i \in 2..n, NEW t, Accepted(c, c.blocks[i], t),
           NEW d, d.domains = c.domains, d.blocks = c.blocks, get_height(d) = n, FullFits(d, i),
           t \in Nat
    PROVE  Screen(d, c.blocks[i], c.blocks[i - 1], t) = "Pass"
  <1> DEFINE b == c.blocks[i]
             last == c.blocks[i - 1]
  <1>1. /\ b \in Blocks /\ b.index = i /\ last \in Blocks /\ last.index = i - 1
        /\ b.prev_block_hash = last.hash /\ DOMAIN c.blocks = 1..n
    BY DEF SoundChain, LinkedBlocks
  <1>2. b.timestamp \in Nat /\ last.timestamp \in Nat /\ last # NoBlock
    BY <1>1, BlocksAssumption, BlockFacts DEF BlockRecords
  <1>3. ~WorkIsBad(d, b)
    BY WorkStaysGood
  <1>4. get_block(d, b.index - 1) = last
    BY <1>1 DEF get_block
  <1>5. IsFull(b) => TransactionAllowed(d, b, t)
    <2>1. SUFFICES ASSUME IsFull(b) PROVE TransactionAllowed(d, b, t)
      OBVIOUS
    <2>2. /\ b.pub_key \in StrongKeys
          /\ is_id_available(c, b.index - 1, t, b.transaction.identity, b.pub_key)
          /\ DayApart(c, b)
          /\ ~(IsDomain(b) /\ b.transaction.data = "forbidden")
      BY <2>1 DEF Accepted, Permitted
    <2>3. is_id_available(d, b.index - 1, t, b.transaction.identity, b.pub_key)
      BY <2>2 DEF is_id_available, LastRow
    <2>4. get_last_full_block(d, i, {b.pub_key}) = StoredFullBlock(c, i, {b.pub_key})
      <3>1. i \in Int /\ {b.pub_key} \in SUBSET Keys /\ d.blocks \in BlockTables
        BY <1>1, BlockKey DEF BlockTables
      <3>2. get_last_full_block(d, i, {b.pub_key}) = StoredFullBlock(d, i, {b.pub_key})
        BY <3>1, GetLastFullIsStored
      <3>3. StoredFullBlock(d, i, {b.pub_key}) = StoredFullBlock(c, i, {b.pub_key})
        BY DEF StoredFullBlock
      <3> QED
        BY <3>2, <3>3
    <2>5. is_domain_in_blockchain(d, i, b.transaction.identity)
             = is_domain_in_blockchain(c, i, b.transaction.identity)
      BY DEF is_domain_in_blockchain, LastRow
    <2>6. can_mine_identity(d, b.transaction.identity, b.index, b.timestamp, b.pub_key)
      BY <1>1, <2>2, <2>4, <2>5 DEF can_mine_identity, DayApart
    <2> QED
      BY <2>2, <2>3, <2>6 DEF TransactionAllowed
  <1>6. ~(b.version > CHAIN_VERSION \/ b.hash \in WRONG_HASHES \/ b.timestamp > t + CLOCK_SKEW)
    BY <1>2, RulesAssumption DEF Accepted, WorkDone, InTime
  <1>7. ~(b.timestamp < last.timestamp)
    <2>1. i - 1 \in 1..(b.index - 1)
      BY <1>1
    <2>2. last.timestamp <= b.timestamp
      BY <2>1 DEF Accepted, InTime
    <2> QED
      BY <1>2, <2>2
  <1>8. ~(b.index > last.index + 1)
    BY <1>1
  <1> QED
    BY <1>1, <1>2, <1>3, <1>4, <1>5, <1>6, <1>7, <1>8 DEF Screen

(* And the rest.                                                           *)
LEMMA SignatureStaysGood ==
    ASSUME NEW c, SoundChain(c), NEW n \in Nat, c.blocks \in [1..n -> Blocks],
           NEW i \in 2..n, Signed(c, i),
           NEW d, d.blocks = c.blocks, get_height(d) = n, d.signers = NoSigners,
           NEW full \in {StoredFullBlock(c, i, Keys), NoBlock}
    PROVE  LET b == c.blocks[i]
           IN  /\ AsksForSearch(d, b, full) => SearchEnds(d, full)
               /\ b.index > BLOCK_SIGNERS_START => is_good_sign_block(d, b, full)
  <1> DEFINE b == c.blocks[i]
  <1>1. b \in Blocks /\ b.index = i /\ DOMAIN c.blocks = 1..n
    BY DEF SoundChain, LinkedBlocks
  <1>2. CASE full = NoBlock
    BY <1>2 DEF AsksForSearch, is_good_sign_block
  <1>3. CASE IsFull(b)
    BY <1>3 DEF AsksForSearch, is_good_sign_block
  <1>4. CASE ~(b.index > BLOCK_SIGNERS_START)
    BY <1>4 DEF AsksForSearch
  <1>5. CASE full # NoBlock /\ ~IsFull(b) /\ b.index > BLOCK_SIGNERS_START
    <2>1. full = StoredFullBlock(c, i, Keys)
      BY <1>5
    <2>2. full \in Blocks /\ full.index \in Nat /\ full.index < i
      BY <1>5, <2>1, StoredIsRow
    <2>3. Minus(n, full.index) = n - full.index
      <3>1. n < U64 /\ full.index <= n
        <4>1. c.blocks[n] \in Blocks /\ c.blocks[n].index = n
          BY <1>1 DEF SoundChain, LinkedBlocks
        <4> QED
          BY <2>2, <4>1, RulesAssumption
      <3> QED
        BY <2>2, <3>1, MinusIsExact
    <2>4. CASE ~(n - full.index < BLOCK_SIGNERS_ALL)
      <3>1. ~(n - full.index < BLOCK_SIGNERS_MIN) /\ n - full.index \notin BLOCK_SIGNERS_MIN..(BLOCK_SIGNERS_ALL - 1)
        BY <2>2, <2>4, RulesAssumption
      <3> QED
        BY <2>3, <2>4, <3>1 DEF AsksForSearch, is_good_sign_block
    <2>5. CASE n - full.index < BLOCK_SIGNERS_ALL
      <3>1. i - full.index <= BLOCK_SIGNERS_ALL
        BY <2>2, <2>5, RulesAssumption
      <3>2. SignsFor(c, b, full)
        BY <1>1, <1>5, <2>1, <3>1 DEF Signed
      <3>3. full.index >= 2 /\ 1..(full.index - 1) \subseteq DOMAIN c.blocks
            /\ Below(c.blocks, full.index) = Below(d.blocks, full.index)
        BY <1>1, <2>2, <3>2, RulesAssumption DEF SignsFor
      <3>4. /\ SearchedSigners(c, full) = SearchedSigners(d, full)
            /\ SearchEnds(c, full) <=> SearchEnds(d, full)
        BY <2>2, <3>3, SearchAgrees
      <3>5. SearchNeeded(d, full)
        BY <2>2, <3>2 DEF SearchNeeded, SignsFor, NoSigners
      <3>6. get_block_signers(d, full) = SearchedSigners(d, full)
        BY <2>2, <3>2, <3>5, RulesAssumption DEF get_block_signers, SearchNeeded, SignsFor
      <3>7. is_good_signer_for_block(d, b, full)
        BY <3>2, <3>4, <3>6 DEF is_good_signer_for_block, SignsFor
      <3>8. is_good_sign_block(d, b, full)
        BY <1>5, <3>7 DEF is_good_sign_block
      <3> QED
        BY <3>2, <3>4, <3>8 DEF SignsFor
    <2> QED
      BY <2>4, <2>5
  <1> QED
    BY <1>2, <1>3, <1>4, <1>5

(* check_chain finds every block that was accepted good again.             *)
LEMMA RecheckIsGood ==
    ASSUME NEW c, SoundChain(c), Top(c), FullIsCurrent(c), c.signers = NoSigners,
           Mirror(c.blocks, c.domains), OriginFirst(c), Origin # NoHash, NEW t \in Nat,
           \A j \in DOMAIN c.blocks : j >= 2 => Signed(c, j) /\ Accepted(c, c.blocks[j], t),
           NEW count \in Nat \ {0}, NEW i \in CheckStart(c, count)..get_height(c)
    PROVE  Recheck(c, count, i, t) = "Good"
  <1> DEFINE n == get_height(c)
             b == c.blocks[i]
             last == c.blocks[i - 1]
             full == LoopFullBlock(c, count, i)
             d == InRound(c, count, i)
  <1>1. /\ n \in Nat /\ DOMAIN c.blocks = 1..n /\ c.blocks \in [1..n -> Blocks]
        /\ LinkedBlocks(c.blocks)
    BY RowsUpToHeight
  <1>2. CheckStart(c, count) \in 1..(n + 1)
    BY <1>1, CheckStartRange
  <1>3. i \in 1..n
    BY <1>1, <1>2
  <1>4. CASE i = 1
    BY <1>1, <1>3, <1>4 DEF Recheck, OriginFirst
  <1>5. CASE i # 1
    <2>1. i \in 2..n /\ i \in DOMAIN c.blocks /\ i \in 1..(get_height(c) + 1) /\ i >= CheckStart(c, count)
      BY <1>1, <1>2, <1>3, <1>5
    <2>2. /\ d.blocks = c.blocks /\ d.domains = c.domains /\ d.signers = NoSigners
          /\ d.last_block = c.last_block /\ FullFits(d, i)
      BY <2>1, InRoundFull
    <2>3. full \in {StoredFullBlock(c, i, Keys), NoBlock}
      BY <2>1, LoopFullBlockIs
    <2>4. get_height(d) = n
      BY <2>2 DEF get_height
    <2>5. Signed(c, i) /\ Accepted(c, b, t)
      BY <2>1
    <2>6. Recheck(c, count, i, t) = check_block(d, b, last, full, t)
      <3>1. get_block(c, i - 1) = last
        BY <1>1, <2>1 DEF get_block
      <3> QED
        BY <1>5, <2>1, <3>1 DEF Recheck
    <2> HIDE DEF d, full, n
    <2>7. Screen(d, b, last, t) = "Pass"
      BY <1>1, <2>1, <2>2, <2>4, <2>5, ScreenStaysGood
    <2>8. /\ AsksForSearch(d, b, full) => SearchEnds(d, full)
          /\ b.index > BLOCK_SIGNERS_START => is_good_sign_block(d, b, full)
      BY <1>1, <2>1, <2>2, <2>3, <2>4, <2>5, SignatureStaysGood
    <2>9. Placement(d, b, last) = "Good"
      <3>1. b.index = i /\ last.index = i - 1 /\ b.prev_block_hash = last.hash
        <4>1. i \in DOMAIN c.blocks /\ i - 1 \in DOMAIN c.blocks /\ i > 1
          BY <1>1, <2>1
        <4> QED
          BY <1>1, <4>1 DEF LinkedBlocks
      <3>2. ~(b.index <= last.index)
        BY <2>1, <3>1
      <3> QED
        BY <3>1, <3>2 DEF Placement
    <2> QED
      BY <2>6, <2>7, <2>8, <2>9 DEF check_block
  <1> QED
    BY <1>4, <1>5

(* A start of a node from whose tables nothing was ever removed.           *)
LEMMA StartIsGood ==
    ASSUME FullInv, ~rewritten, Origin # NoHash, Start
    PROVE  status' = "up" /\ chain'.blocks = chain.blocks
  <1> DEFINE c == init_db(chain.blocks, chain.domains)
             outcome == CheckOutcome(c, CheckBlocks, now)
  <1>1. PICK n \in Nat : chain.blocks \in [1..n -> Blocks] /\ DOMAIN chain.blocks = 1..n
                         /\ DOMAIN chain.domains \subseteq 1..n
    BY DomainsWithinBlocks DEF FullInv
  <1>2. /\ SoundChain(c) /\ Top(c) /\ get_height(c) = n /\ CheckBlocks \in Nat \ {0}
        /\ c.blocks = chain.blocks /\ c.domains = chain.domains
    BY <1>1, StartFinds DEF FullInv
  <1>3. FullIsCurrent(c) /\ c.signers = NoSigners
    <2>1. chain.blocks \in BlockTables /\ LinkedBlocks(chain.blocks) /\ chain.domains \in DomainTables
      BY DEF FullInv, IInv, SoundChain, ChainValues
    <2> QED
      BY <2>1, InitDbLoadsFull
  <1> HIDE DEF c
  <1>4. Mirror(c.blocks, c.domains) /\ OriginFirst(c) /\ now \in Nat
    BY <1>2 DEF FullInv, DInv, SInv, OriginFirst, IInv
  <1>5. ASSUME NEW j \in DOMAIN c.blocks, j >= 2
        PROVE  Signed(c, j) /\ Accepted(c, c.blocks[j], now)
    <2> DEFINE x == chain.blocks[j]
    <2>1. /\ j \in Int /\ 1..j \subseteq DOMAIN chain.blocks /\ Signed(chain, j)
          /\ Accepted(chain, x, now)
      BY <1>1, <1>2, <1>5 DEF FullInv, SInv, AInv
    <2>2. x.index = j
      BY <1>2, <1>5 DEF FullInv, IInv, SoundChain, LinkedBlocks
    <2>3. SoundChain(chain) /\ OriginFirst(chain)
      BY DEF FullInv, IInv, SInv
    <2>4. Below(chain.blocks, j + 1) = Below(c.blocks, j + 1)
      BY <1>2
    <2>5. Signed(c, j)
      BY <1>2, <1>5, <2>1, <2>3, <2>4, SignedAgrees
    <2>6. /\ x.index \in Int /\ 1..(x.index - 1) \subseteq DOMAIN chain.blocks
          /\ Below(chain.blocks, x.index) = Below(c.blocks, x.index)
          /\ Below(chain.domains, x.index) = Below(c.domains, x.index)
      BY <1>2, <2>1, <2>2
    <2> HIDE DEF x
    <2>7. Accepted(c, x, now)
      BY <1>1, <1>2, <2>1, <2>3, <2>6, AcceptedAgrees
    <2> QED
      BY <1>2, <2>5, <2>7 DEF x
  <1>6. FirstFault(c, CheckBlocks, now) > get_height(c)
    <2>1. SUFFICES ASSUME ~(FirstFault(c, CheckBlocks, now) > n) PROVE FALSE
      BY <1>2
    <2>2. /\ FirstFault(c, CheckBlocks, now) \in CheckStart(c, CheckBlocks)..get_height(c)
          /\ Recheck(c, CheckBlocks, FirstFault(c, CheckBlocks, now), now) # "Good"
      BY <1>2, <2>1, FaultIsNotGood
    <2> QED
      BY <1>2, <1>3, <1>4, <1>5, <2>2, RecheckIsGood
  <1>7. outcome = "Good"
    BY <1>6 DEF CheckOutcome
  <1>8. check_chain(c, CheckBlocks, now).blocks = c.blocks
    BY <1>2, <1>7, GoodOutcomeKeepsRows
  <1> QED
    BY <1>2, <1>7, <1>8 DEF Start, c

(* In a network with an origin, a restart without a row 0 comes up, and    *)
(* with every block the node has accepted, as long as none was removed     *)
(* before: check_chain, with another height, other caches and a later      *)
(* clock, agrees with the check_new_block that let each block in, and its  *)
(* searches for signers end.                                               *)
THEOREM RestartAlwaysKeepsChain == Spec => RestartKeepsChain
  <1>1. FullHold /\ [Next]_vars =>
           [(/\ status = "down" /\ status' # "down" /\ ~rewritten
             /\ Stray = NoBlock /\ Origin # NoHash) =>
                status' = "up" /\ chain'.blocks = chain.blocks]_vars
    <2>1. SUFFICES ASSUME FullInv, [Next]_vars, status = "down", status' # "down", ~rewritten,
                          Origin # NoHash
                   PROVE  status' = "up" /\ chain'.blocks = chain.blocks
      BY DEF FullHold
    <2>2. Start
      BY <2>1 DEF Next, BlockArrives, GetSignBlock, update_max_height, Tick, Stop, vars
    <2> QED
      BY <2>1, <2>2, StartIsGood
  <1> QED
    BY <1>1, EverythingAccepted, PTL DEF Spec, RestartKeepsChain
=============================================================================

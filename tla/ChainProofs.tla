---------------------------- MODULE ChainProofs ----------------------------
(***************************************************************************)
(* Proofs about Chain, for every set of blocks, keys and hashes and every  *)
(* value of the protocol's numbers: the blocks table is one linked chain,  *)
(* with at most a row 0 beside it, in spite of forks, restarts and         *)
(* crashes, and so implements LinkedChain; the domains table mirrors it;   *)
(* and nobody but its owner changes a domain before it is free.            *)
(***************************************************************************)
EXTENDS Chain, ChainRulesProofs

(* The inductive invariant, in the form that the proofs use.               *)
GInv ==
    /\ KeptChain(chain)
    /\ status \in {"up", "hung"} => KeptTop(chain)
    /\ now \in 0..MaxTime
    /\ status \in {"up", "down", "panicked", "hung"}
    /\ rewritten \in BOOLEAN

(* The same of a chain without a row 0.                                    *)
IInv ==
    /\ SoundChain(chain)
    /\ status \in {"up", "hung"} => Top(chain)
    /\ now \in 0..MaxTime
    /\ status \in {"up", "down", "panicked", "hung"}
    /\ rewritten \in BOOLEAN

(* The row 0 of a table, if there is one.                                  *)
LEMMA RowZero ==
    ASSUME NEW c, KeptChain(c)
    PROVE  /\ get_block(c, 0) = NoBlock <=> 0 \notin DOMAIN c.blocks
           /\ 0 \in DOMAIN c.blocks => get_block(c, 0) = c.blocks[0] /\ c.blocks[0] \in Blocks
  <1>1. PICK n \in Nat : c.blocks \in RowsTo(n)
    BY DEF KeptChain, RowValues, RowTables
  <1>2. 0 \in DOMAIN c.blocks => c.blocks[0] \in Blocks
    BY <1>1, RowsToFacts
  <1> QED
    BY <1>2, BlockFacts DEF get_block

LEMMA IInvIsGInvWithoutStray == IInv <=> GInv /\ Stray = NoBlock
  <1>1. ASSUME IInv PROVE GInv /\ Stray = NoBlock
    <2>1. KeptChain(chain) /\ 0 \notin DOMAIN chain.blocks /\ (Top(chain) => KeptTop(chain))
      BY <1>1, SoundIsKept DEF IInv
    <2> QED
      BY <1>1, <2>1, RowZero DEF IInv, GInv, Stray
  <1>2. ASSUME GInv, Stray = NoBlock PROVE IInv
    <2>1. 0 \notin DOMAIN chain.blocks
      BY <1>2, RowZero DEF GInv, Stray
    <2> QED
      BY <1>2, <2>1, SoundIsKept DEF IInv, GInv
  <1> QED
    BY <1>1, <1>2

(* The chain among the rows.                                               *)
LEMMA NumberedRows ==
    ASSUME NEW n \in Nat, chain.blocks \in RowsTo(n)
    PROVE  /\ Numbered = Upper(chain.blocks) /\ Numbered \in [1..n -> Blocks]
           /\ Len(Numbered) = n /\ DOMAIN Numbered = 1..n
           /\ \A i \in 1..n : Numbered[i] = chain.blocks[i]
  <1>1. Numbered = Upper(chain.blocks)
    BY DEF Numbered, Upper
  <1>2. Numbered \in [1..n -> Blocks] /\ \A i \in 1..n : Numbered[i] = chain.blocks[i]
    BY <1>1, RowsToFacts
  <1>3. Len(Numbered) = n
    BY <1>2, TableIsSequence
  <1> QED
    BY <1>1, <1>2, <1>3

(* The inductive invariant is the type invariant and ChainIntact.          *)
LEMMA GInvIsTypeOKAndChainIntact == GInv <=> TypeOK /\ ChainIntact
  <1>1. ASSUME GInv PROVE TypeOK
    <2>1. chain \in RowValues
      BY <1>1 DEF GInv, KeptChain
    <2>2. PICK n \in Nat : chain.blocks \in RowsTo(n)
      BY <2>1 DEF RowValues, RowTables
    <2>3. PICK D \in SUBSET Nat : chain.domains \in [D -> Rows]
      BY <2>1 DEF RowValues, DomainTables
    <2>4. chain.blocks \in [DOMAIN chain.blocks -> Blocks]
      BY <2>2 DEF RowsTo
    <2> QED
      BY <1>1, <2>1, <2>3, <2>4 DEF GInv, TypeOK, RowValues, FullBlocks, SignerCaches
  <1>2. ASSUME GInv PROVE ChainIntact
    <2>1. PICK n \in Nat : chain.blocks \in RowsTo(n)
      BY <1>2 DEF GInv, KeptChain, RowValues, RowTables
    <2>2. IsFiniteSet(1..n) /\ Cardinality(1..n) = n
      BY FS_Interval
    <2>3. /\ DOMAIN Numbered = 1..n /\ Numbered = Upper(chain.blocks)
          /\ \A i \in 1..n : Numbered[i] = chain.blocks[i]
      BY <2>1, NumberedRows
    <2>4. /\ \A i \in 1..n : /\ chain.blocks[i].index = i
                             /\ i > 1 => chain.blocks[i].prev_block_hash = chain.blocks[i - 1].hash
          /\ 0 \in DOMAIN chain.blocks => chain.blocks[0].index = 0
      BY <1>2, <2>3 DEF GInv, KeptChain, LinkedBlocks
    <2>5. DOMAIN chain.blocks \subseteq 0..n
      BY <2>1, RowsToFacts
    <2>6. Contiguous
      BY <2>2, <2>3, <2>4, <2>5 DEF Contiguous
    <2>7. Linked
      BY <2>4, <2>5 DEF Linked
    <2>8. TopIsCached
      <3>1. 0 \in DOMAIN chain.blocks => Stray = chain.blocks[0] /\ Stray # NoBlock
        BY <1>2, RowZero DEF GInv, Stray
      <3> QED
        BY <1>2, <3>1 DEF GInv, KeptTop, TopIsCached
    <2> QED
      BY <2>6, <2>7, <2>8 DEF ChainIntact
  <1>3. ASSUME TypeOK, ChainIntact PROVE GInv
    <2> DEFINE n == Cardinality(DOMAIN Numbered)
    <2>1. n \in Nat
      BY <1>3, FS_CardinalityType DEF ChainIntact, Contiguous
    <2>2. DOMAIN Numbered = 1..n /\ DOMAIN Numbered = DOMAIN chain.blocks \ {0}
      BY <1>3 DEF ChainIntact, Contiguous, Numbered
    <2> HIDE DEF n
    <2>3. DOMAIN chain.blocks = 1..n \/ DOMAIN chain.blocks = 0..n
      <3>1. 0..n = (1..n) \cup {0}
        BY <2>1
      <3>2. CASE 0 \in DOMAIN chain.blocks
        <4>1. DOMAIN chain.blocks = (1..n) \cup {0}
          BY <2>2, <3>2
        <4> QED
          BY <3>1, <4>1
      <3>3. CASE 0 \notin DOMAIN chain.blocks
        <4>1. DOMAIN chain.blocks = 1..n
          BY <2>2, <3>3
        <4> QED
          BY <4>1
      <3> QED
        BY <3>2, <3>3
    <2>4. chain.blocks \in [DOMAIN chain.blocks -> Blocks]
      BY <1>3 DEF TypeOK
    <2>5. chain.blocks \in RowsTo(n)
      <3>1. chain.blocks \in [1..n -> Blocks] \/ chain.blocks \in [0..n -> Blocks]
        BY <2>3, <2>4
      <3> QED
        BY <3>1 DEF RowsTo
    <2>6. chain.blocks \in RowTables
      BY <2>1, <2>5, RowsToFacts
    <2>7. chain.domains \in DomainTables
      BY <1>3 DEF TypeOK, DomainTables
    <2>8. chain \in RowValues
      BY <1>3, <2>6, <2>7 DEF TypeOK, RowValues, FullBlocks, SignerCaches
    <2>9. /\ Upper(chain.blocks) \in [1..n -> Blocks]
          /\ \A i \in 1..n : Upper(chain.blocks)[i] = chain.blocks[i] /\ i \in DOMAIN chain.blocks
      BY <2>1, <2>5, RowsToFacts
    <2>10. LinkedBlocks(Upper(chain.blocks)) /\ (0 \in DOMAIN chain.blocks => chain.blocks[0].index = 0)
      <3>1. \A i \in DOMAIN chain.blocks : chain.blocks[i].index = i
        BY <1>3 DEF ChainIntact, Contiguous
      <3>2. \A i \in 1..n : i > 1 => chain.blocks[i].prev_block_hash = chain.blocks[i - 1].hash
        BY <1>3, <2>9 DEF ChainIntact, Linked
      <3>3. \A i \in 1..n : i > 1 => i - 1 \in 1..n
        BY <2>1
      <3> QED
        BY <2>9, <3>1, <3>2, <3>3 DEF LinkedBlocks
    <2>11. KeptChain(chain)
      BY <2>8, <2>10 DEF KeptChain
    <2>12. status \in {"up", "hung"} => KeptTop(chain)
      BY <1>3, <2>11, RowZero DEF ChainIntact, TopIsCached, KeptTop, Stray
    <2> QED
      BY <1>3, <2>11, <2>12 DEF GInv, TypeOK
  <1> QED
    BY <1>1, <1>2, <1>3

-----------------------------------------------------------------------------
(* The steps.  Each keeps the invariant and is a step of LinkedChain, or   *)
(* leaves the blocks alone; and only a crash loses a row 0.                *)

Mapped ==
    /\ GInv'
    /\ [Ledger!LNext]_<<Numbered, Stray>>
    /\ Stray # NoBlock => Stray' # NoBlock \/ (status' = "down" /\ rewritten')

(* The blocks are left alone.                                              *)
LEMMA SameBlocksMapped ==
    ASSUME GInv', chain'.blocks = chain.blocks
    PROVE  Mapped
  <1>1. Numbered' = Numbered /\ Stray' = Stray
    BY DEF Numbered, Stray, get_block
  <1> QED
    BY <1>1 DEF Mapped

(* A check of an arriving block, before anything is done with the verdict. *)
LEMMA AfterCheckIsKept ==
    ASSUME GInv, status = "up", NEW b \in Blocks
    PROVE  /\ KeptChain(AfterCheck(b)) /\ KeptTop(AfterCheck(b))
           /\ AfterCheck(b).blocks = chain.blocks /\ AfterCheck(b).domains = chain.domains
  <1>1. /\ KeptChain(chain) /\ KeptTop(chain) /\ chain \in RowValues
        /\ chain.last_full_block \in Blocks \cup {NoBlock}
    BY DEF GInv, KeptChain, RowValues, FullBlocks
  <1>2. PICK s \in SignerCaches : AfterCheck(b) = [chain EXCEPT !.signers = s]
    BY <1>1, CheckedChangesSignersOnly DEF AfterCheck
  <1> QED
    BY <1>1, <1>2, SignersDoNotMatterToRows

LEMMA AfterCheckIsSound ==
    ASSUME IInv, status = "up", NEW b \in Blocks
    PROVE  /\ SoundChain(AfterCheck(b)) /\ Top(AfterCheck(b))
           /\ AfterCheck(b).blocks = chain.blocks /\ AfterCheck(b).domains = chain.domains
  <1>1. GInv /\ 0 \notin DOMAIN chain.blocks
    BY IInvIsGInvWithoutStray, SoundIsKept DEF IInv
  <1>2. /\ KeptChain(AfterCheck(b)) /\ KeptTop(AfterCheck(b))
        /\ AfterCheck(b).blocks = chain.blocks /\ AfterCheck(b).domains = chain.domains
    BY <1>1, AfterCheckIsKept
  <1> QED
    BY <1>1, <1>2, SoundIsKept

(* A table with one more block, stored whole or before a crash.            *)
LEMMA StoredIsMapped ==
    ASSUME GInv, NEW n \in Nat, chain.blocks \in RowsTo(n), NEW b \in Blocks,
           \/ b.index = 0 /\ 0 \notin DOMAIN chain.blocks /\ n > 0
           \/ b.index = n + 1 /\ (n > 0 => b.prev_block_hash = chain.blocks[n].hash),
           GInv', chain'.blocks = Insert(chain.blocks, b.index, b)
    PROVE  Mapped
  <1> DEFINE f == Insert(chain.blocks, b.index, b)
  <1>1. /\ Numbered = Upper(chain.blocks) /\ Numbered \in [1..n -> Blocks]
        /\ Len(Numbered) = n /\ DOMAIN Numbered = 1..n
        /\ \A i \in 1..n : Numbered[i] = chain.blocks[i]
    BY NumberedRows
  <1>2. Numbered' = Upper(f) /\ Stray' = IF 0 \in DOMAIN f THEN f[0] ELSE NoBlock
    BY DEF Numbered, Stray, Upper, get_block
  <1>3. Stray = IF 0 \in DOMAIN chain.blocks THEN chain.blocks[0] ELSE NoBlock
    BY DEF Stray, get_block
  <1>4. LinkedBlocks(Upper(chain.blocks))
    BY DEF GInv, KeptChain
  <1>5. CASE b.index = 0 /\ 0 \notin DOMAIN chain.blocks /\ n > 0
    <2>1. Upper(f) = Upper(chain.blocks) /\ 0 \in DOMAIN f /\ f[0] = b
      BY <1>5, RowsWithZero
    <2>2. Numbered' = Numbered /\ Stray' = b /\ Stray = NoBlock
      BY <1>1, <1>2, <1>3, <1>5, <2>1
    <2>3. Numbered # <<>>
      BY <1>1, <1>5
    <2>4. Ledger!KeepStray(b)
      BY <1>5, <2>2, <2>3 DEF Ledger!KeepStray
    <2> QED
      BY <2>2, <2>4 DEF Mapped, Ledger!LNext
  <1>6. CASE b.index = n + 1 /\ (n > 0 => b.prev_block_hash = chain.blocks[n].hash)
    <2>1. /\ Upper(f) = Insert(Upper(chain.blocks), n + 1, b)
          /\ 0 \in DOMAIN f <=> 0 \in DOMAIN chain.blocks
          /\ 0 \in DOMAIN chain.blocks => f[0] = chain.blocks[0]
      BY <1>4, <1>6, RowsWithNext
    <2>2. Insert(Numbered, n + 1, b) = Append(Numbered, b)
      BY <1>1, InsertIsAppend
    <2> HIDE DEF f
    <2>3. Numbered' = Append(Numbered, b) /\ Stray' = Stray
      BY <1>1, <1>2, <1>3, <2>1, <2>2
    <2>4. Ledger!Continues(Numbered, b)
      BY <1>1, <1>6 DEF Ledger!Continues
    <2>5. Ledger!Extend(b)
      BY <2>3, <2>4 DEF Ledger!Extend
    <2> QED
      BY <2>3, <2>5 DEF Mapped, Ledger!LNext
  <1> QED
    BY <1>5, <1>6

LEMMA AddBlockStep ==
    ASSUME GInv, status = "up", NEW b \in Blocks, Verdict(b) = "Good", AddBlock(b)
    PROVE  Mapped
  <1>1. KeptChain(chain) /\ KeptTop(chain)
    BY DEF GInv
  <1>2. PICK n \in Nat : chain.blocks \in RowsTo(n)
    BY <1>1 DEF KeptChain, RowValues, RowTables
  <1> DEFINE c == AfterCheck(b)
  <1>3. /\ KeptChain(c) /\ KeptTop(c) /\ c.blocks = chain.blocks
        /\ chain' = add_block(c, b)
    BY AfterCheckIsKept DEF AddBlock
  <1> HIDE DEF c
  <1>4. CASE b.index \in DOMAIN chain.blocks
    <2>1. chain' = c
      BY <1>3, <1>4 DEF add_block
    <2>2. GInv'
      BY <1>3, <2>1 DEF GInv, AddBlock
    <2> QED
      BY <1>3, <2>1, <2>2, SameBlocksMapped
  <1>5. CASE \/ b.index = 0 /\ 0 \notin DOMAIN chain.blocks /\ n > 0
             \/ b.index = n + 1 /\ (n > 0 => b.prev_block_hash = chain.blocks[n].hash)
    <2>1. KeptChain(chain') /\ KeptTop(chain') /\ chain'.blocks = Insert(chain.blocks, b.index, b)
      BY <1>2, <1>3, <1>5, AddKeepsRows
    <2>2. GInv'
      BY <2>1 DEF GInv, AddBlock
    <2> QED
      BY <1>2, <1>5, <2>1, <2>2, StoredIsMapped
  <1> QED
    BY <1>1, <1>2, <1>4, <1>5, GoodIsPlaced DEF Verdict

(* A winning fork from row 1 on may displace the block at its index.       *)
LEMMA WinningForkDisplaces ==
    ASSUME KeptChain(chain), KeptTop(chain), NEW b \in Blocks, Verdict(b) = "Fork", ForkWins(b),
           NEW n \in Nat, chain.blocks \in RowsTo(n), b.index # 0
    PROVE  /\ b.index \in 1..n
           /\ b.index - 1 \in 0..(Len(Numbered) - 1)
           /\ Ledger!Prefix(b.index - 1) = Below(Numbered, b.index)
           /\ Ledger!Displaces(b, b.index - 1)
  <1>1. /\ b.index \in 0..n
        /\ b.index > 1 => b.prev_block_hash = chain.blocks[b.index - 1].hash
        /\ b.index > 0 => get_height(chain) = n
    BY ForkIsPlaced DEF Verdict
  <1>2. b.index \in 1..n
    BY <1>1
  <1>3. /\ Numbered \in [1..n -> Blocks] /\ Len(Numbered) = n
        /\ \A i \in 1..n : Numbered[i] = chain.blocks[i] /\ i \in DOMAIN chain.blocks
    BY NumberedRows, RowsToFacts
  <1>4. /\ Below(Numbered, b.index) = SubSeq(Numbered, 1, b.index - 1)
        /\ Len(Below(Numbered, b.index)) = b.index - 1
        /\ b.index > 1 => Below(Numbered, b.index)[b.index - 1] = Numbered[b.index - 1]
    <2>1. b.index \in 1..(n + 1)
      BY <1>2
    <2> QED
      BY <1>3, <2>1, BelowIsPrefix
  <1>5. Ledger!Prefix(b.index - 1) = Below(Numbered, b.index)
    BY <1>4 DEF Ledger!Prefix
  <1>6. b.index > 1 => Below(Numbered, b.index)[b.index - 1].hash = b.prev_block_hash
    <2>1. b.index > 1 => b.index - 1 \in 1..n
      BY <1>2
    <2> QED
      BY <1>1, <1>3, <1>4, <2>1
  <1>7. Ledger!Continues(Below(Numbered, b.index), b)
    BY <1>2, <1>4, <1>6 DEF Ledger!Continues
  <1>8. is_better_than(b, Numbered[b.index]) \/ b.index = n
    <2>1. get_block(chain, b.index) = Numbered[b.index]
      BY <1>2, <1>3 DEF get_block
    <2>2. get_height(chain) = n
      BY <1>1, <1>2
    <2> QED
      BY <2>1, <2>2 DEF ForkWins, Lagged
  <1>9. Ledger!Displaces(b, b.index - 1)
    <2>1. (b.index - 1) + 1 = b.index
      BY <1>2
    <2> QED
      BY <1>3, <1>5, <1>7, <1>8, <2>1
        DEF Ledger!Displaces, Ledger!is_better_than, Ledger!IsFull, is_better_than, IsFull
  <1> QED
    BY <1>2, <1>3, <1>5, <1>9

(* A block of index 0 that wins over another one takes the chain away.     *)
LEMMA WinningZeroReplaces ==
    ASSUME GInv, status = "up", NEW b \in Blocks, Verdict(b) = "Fork", b.index = 0,
           NEW n \in Nat, chain.blocks \in RowsTo(n),
           Numbered' = <<>>, Stray' \in {b, NoBlock}
    PROVE  Ledger!LNext
  <1>1. 0 \in DOMAIN chain.blocks /\ b.hash # chain.blocks[0].hash
    BY ForkIsPlaced DEF Verdict, GInv
  <1>2. Stray = chain.blocks[0] /\ Stray # NoBlock
    BY <1>1, RowZero DEF GInv, Stray
  <1>3. Ledger!ReplaceStray(b)
    BY <1>1, <1>2 DEF Ledger!ReplaceStray
  <1> QED
    BY <1>3 DEF Ledger!LNext

LEMMA ReplaceBlockStep ==
    ASSUME GInv, status = "up", NEW b \in Blocks, Verdict(b) = "Fork", ForkWins(b), ReplaceBlock(b)
    PROVE  Mapped
  <1>1. KeptChain(chain) /\ KeptTop(chain) /\ LinkedBlocks(Upper(chain.blocks))
    BY DEF GInv, KeptChain
  <1>2. PICK n \in Nat : chain.blocks \in RowsTo(n)
    BY <1>1 DEF KeptChain, RowValues, RowTables
  <1>3. /\ b.index \in 0..n
        /\ b.index > 1 => b.prev_block_hash = chain.blocks[b.index - 1].hash
    BY <1>1, <1>2, ForkIsPlaced DEF Verdict
  <1>4. KeptChain(AfterCheck(b)) /\ AfterCheck(b).blocks = chain.blocks
    BY AfterCheckIsKept
  <1>5. /\ KeptChain(chain') /\ KeptTop(chain')
        /\ chain'.blocks = Insert(Below(chain.blocks, b.index), b.index, b)
    BY <1>2, <1>3, <1>4, ReplaceKeepsRows DEF ReplaceBlock
  <1>6. GInv'
    BY <1>5 DEF GInv, ReplaceBlock
  <1> DEFINE f == Below(chain.blocks, b.index)
             g == Insert(f, b.index, b)
  <1>7. Numbered' = Upper(g) /\ Stray' = IF 0 \in DOMAIN g THEN g[0] ELSE NoBlock
    BY <1>5 DEF Numbered, Stray, Upper, get_block
  <1>8. CASE b.index = 0
    <2>1. f \in RowsTo(0) /\ DOMAIN f = {} /\ Upper(f) = <<>>
      BY <1>2, <1>8, NoRowsBelow
    <2> HIDE DEF f
    <2>2. Upper(g) = Upper(f) /\ 0 \in DOMAIN g /\ g[0] = b
      BY <1>8, <2>1, RowsWithZero
    <2>3. Numbered' = <<>> /\ Stray' = b /\ b # NoBlock
      BY <1>7, <2>1, <2>2, BlockFacts
    <2>4. Ledger!LNext
      BY <1>2, <1>8, <2>3, WinningZeroReplaces
    <2> QED
      BY <1>6, <2>3, <2>4 DEF Mapped
  <1>9. CASE b.index # 0
    <2> DEFINE m == b.index - 1
               u == Below(Numbered, b.index)
    <2>1. /\ b.index \in 1..n
          /\ m \in 0..(Len(Numbered) - 1)
          /\ Ledger!Prefix(m) = u
          /\ Ledger!Displaces(b, m)
      BY <1>1, <1>2, <1>9, WinningForkDisplaces
    <2>2. m \in Nat /\ m + 1 = b.index /\ b.index \in 1..(n + 1)
      BY <2>1
    <2>3. /\ f \in RowsTo(m) /\ Upper(f) = Below(Upper(chain.blocks), b.index)
          /\ LinkedBlocks(Upper(f))
          /\ 0 \in DOMAIN f <=> 0 \in DOMAIN chain.blocks
          /\ 0 \in DOMAIN chain.blocks => f[0] = chain.blocks[0]
      BY <1>1, <1>2, <2>2, RowsBelow
    <2>4. Numbered = Upper(chain.blocks) /\ Numbered \in [1..n -> Blocks]
      BY <1>2, NumberedRows
    <2>5. m > 0 => b.prev_block_hash = f[m].hash
      <3>1. m > 0 => m \in DOMAIN chain.blocks /\ m < b.index
        BY <1>2, <2>1, <2>2, RowsToFacts
      <3>2. m > 0 => f[m] = chain.blocks[m]
        BY <3>1 DEF Below
      <3> QED
        BY <1>3, <2>2, <3>2
    <2>6. /\ Upper(g) = Insert(Upper(f), m + 1, b)
          /\ 0 \in DOMAIN g <=> 0 \in DOMAIN f
          /\ 0 \in DOMAIN f => g[0] = f[0]
      <3> HIDE DEF f, m
      <3> QED
        BY <2>2, <2>3, <2>5, RowsWithNext
    <2>7. u \in [1..m -> Blocks]
      BY <2>2, <2>4, BelowIsPrefix
    <2>8. Insert(u, m + 1, b) = Append(u, b)
      BY <2>2, <2>7, InsertIsAppend
    <2>9. Upper(f) = u
      BY <2>3, <2>4
    <2>10. Stray = IF 0 \in DOMAIN chain.blocks THEN chain.blocks[0] ELSE NoBlock
      BY DEF Stray, get_block
    <2> HIDE DEF f, g, u, m
    <2>11. Numbered' = Append(u, b)
      BY <1>7, <2>6, <2>8, <2>9
    <2>12. Stray' = Stray
      BY <1>7, <2>3, <2>6, <2>10
    <2>13. Ledger!Reorganise(b, m)
      BY <2>1, <2>11, <2>12 DEF Ledger!Reorganise
    <2> QED
      BY <1>6, <2>1, <2>12, <2>13 DEF Mapped, Ledger!LNext
  <1> QED
    BY <1>8, <1>9

(* Whatever a block's verdict is.                                          *)
LEMMA BlockArrivesStep ==
    ASSUME GInv, NEW b \in Blocks, BlockArrives(b)
    PROVE  Mapped
  <1>1. status = "up"
    BY DEF BlockArrives
  <1>2. CASE Verdict(b) = "Good" /\ AddBlock(b)
    BY <1>1, <1>2, AddBlockStep
  <1>3. CASE Verdict(b) = "Fork" /\ ForkWins(b) /\ ReplaceBlock(b)
    BY <1>1, <1>3, ReplaceBlockStep
  <1>4. CASE DropBlock(b)
    <2>1. KeptChain(chain') /\ KeptTop(chain') /\ chain'.blocks = chain.blocks
      BY <1>1, <1>4, AfterCheckIsKept DEF DropBlock
    <2>2. GInv'
      BY <1>4, <2>1 DEF GInv, DropBlock
    <2> QED
      BY <2>1, <2>2, SameBlocksMapped
  <1>5. CASE EndSync(b)
    <2>1. KeptChain(AfterCheck(b)) /\ KeptTop(AfterCheck(b)) /\ AfterCheck(b).blocks = chain.blocks
      BY <1>1, AfterCheckIsKept
    <2>2. get_height(chain) \in Nat
      <3>1. chain.last_block \in Blocks \cup {NoBlock}
        BY DEF GInv, KeptChain, RowValues
      <3> QED
        BY <3>1, BlockFacts DEF get_height
    <2>3. chain' = [AfterCheck(b) EXCEPT !.max_height = get_height(chain)]
      BY <1>5 DEF EndSync
    <2>4. KeptChain(chain') /\ chain'.blocks = chain.blocks /\ KeptTop(chain')
      BY <2>1, <2>2, <2>3 DEF KeptChain, RowValues, KeptTop, load_last_block
    <2>5. GInv'
      BY <1>5, <2>4 DEF GInv, EndSync
    <2> QED
      BY <2>4, <2>5, SameBlocksMapped
  <1>6. CASE Hang
    <2>1. GInv' /\ chain'.blocks = chain.blocks
      BY <1>1, <1>6 DEF GInv, Hang
    <2> QED
      BY <2>1, SameBlocksMapped
  <1> QED
    BY <1>2, <1>3, <1>4, <1>5, <1>6 DEF BlockArrives

(* A search for signers on our own account.                                *)
LEMMA GetSignBlockStep ==
    ASSUME GInv, GetSignBlock
    PROVE  Mapped
  <1> DEFINE full == chain.last_full_block
             s == [index |-> full.index, signers |-> SearchedSigners(chain, full)]
  <1>1. KeptChain(chain) /\ KeptTop(chain) /\ status = "up"
    BY DEF GInv, GetSignBlock
  <1>2. CASE Hang
    <2>1. GInv' /\ chain'.blocks = chain.blocks
      BY <1>1, <1>2 DEF GInv, Hang
    <2> QED
      BY <2>1, SameBlocksMapped
  <1>3. CASE chain' = SignersCached(chain, full) /\ UNCHANGED <<now, status, rewritten>>
    <2>1. full \in Blocks
      BY <1>1 DEF GetSignBlock, ReadyToSign, KeptChain, RowValues, FullBlocks
    <2>2. s \in SignerCaches
      BY <2>1, SearchedSignersType, BlockFacts DEF SignerCaches
    <2>3. KeptChain(chain') /\ KeptTop(chain') /\ chain'.blocks = chain.blocks
      BY <1>1, <1>3, <2>2, SignersDoNotMatterToRows DEF SignersCached
    <2>4. GInv'
      BY <1>3, <2>3 DEF GInv
    <2> QED
      BY <2>3, <2>4, SameBlocksMapped
  <1> QED
    BY <1>2, <1>3 DEF GetSignBlock

(* The steps that leave the tables and the last block alone.               *)
LEMMA QuietStep ==
    ASSUME GInv, (\E h \in PeerHeights : update_max_height(h)) \/ Tick
    PROVE  Mapped
  <1>1. KeptChain(chain)
    BY DEF GInv
  <1>2. ASSUME NEW h \in PeerHeights, update_max_height(h) PROVE Mapped
    <2>1. h \in Nat
      BY <1>2, ChainAssumption
    <2>2. /\ KeptChain(chain') /\ chain'.blocks = chain.blocks
          /\ chain'.last_block = chain.last_block
      BY <1>1, <1>2, <2>1 DEF update_max_height, KeptChain, RowValues
    <2>3. KeptTop(chain) => KeptTop(chain')
      BY <2>2 DEF KeptTop, load_last_block
    <2>4. GInv'
      BY <1>2, <2>2, <2>3 DEF GInv, update_max_height
    <2> QED
      BY <2>2, <2>4, SameBlocksMapped
  <1>3. CASE Tick
    <2>1. GInv' /\ chain'.blocks = chain.blocks
      BY <1>3, ChainAssumption DEF GInv, Tick
    <2> QED
      BY <2>1, SameBlocksMapped
  <1> QED
    BY <1>2, <1>3

(* What a halt leaves is sound if its tables are.                          *)
LEMMA HaltedIsKept ==
    ASSUME GInv, NEW f \in RowTables, LinkedBlocks(Upper(f)), 0 \in DOMAIN f => f[0].index = 0,
           NEW g \in DomainTables, Halted(f, g), rewritten' \in BOOLEAN
    PROVE  GInv' /\ chain'.blocks = f /\ chain'.domains = g
  BY EmptyChainIsKept DEF GInv, Halted

LEMMA StopStep ==
    ASSUME GInv, Stop
    PROVE  Mapped
  <1>1. /\ chain.blocks \in RowTables /\ LinkedBlocks(Upper(chain.blocks))
        /\ 0 \in DOMAIN chain.blocks => chain.blocks[0].index = 0
        /\ chain.domains \in DomainTables
    BY DEF GInv, KeptChain, RowValues
  <1>2. Halted(chain.blocks, chain.domains) /\ rewritten' \in BOOLEAN
    BY DEF Stop, GInv
  <1>3. GInv' /\ chain'.blocks = chain.blocks
    BY <1>1, <1>2, HaltedIsKept
  <1> QED
    BY <1>3, SameBlocksMapped

(* What the node finds in its database at a start.                         *)
LEMMA StartFindsRows ==
    ASSUME GInv, NEW c, c = init_db(chain.blocks, chain.domains),
           NEW n \in Nat, chain.blocks \in RowsTo(n)
    PROVE  /\ KeptChain(c) /\ Top(c) /\ KeptTop(c) /\ get_height(c) = n
           /\ c.blocks = chain.blocks /\ c.domains = chain.domains
           /\ CheckBlocks \in Nat \ {0}
           /\ FirstFault(c, CheckBlocks, now) \in 1..(n + 1)
           /\ n - (FirstFault(c, CheckBlocks, now) - 1) <= CheckBlocks
  <1>1. /\ chain.blocks \in RowTables /\ LinkedBlocks(Upper(chain.blocks))
        /\ 0 \in DOMAIN chain.blocks => chain.blocks[0].index = 0
        /\ chain.domains \in DomainTables
    BY DEF GInv, KeptChain, RowValues
  <1>2. KeptChain(c) /\ Top(c) /\ c.blocks = chain.blocks /\ c.domains = chain.domains
    BY <1>1, InitDbIsKept
  <1>3. KeptTop(c)
    BY <1>2 DEF Top, KeptTop
  <1>4. get_height(c) = n
    BY <1>2, <1>3, KeptHeight
  <1>5. CheckBlocks \in Nat \ {0}
    BY ChainAssumption
  <1> QED
    BY <1>2, <1>3, <1>4, <1>5, FirstFaultRange

(* Without a row 0, the same in terms of a sound chain.                    *)
LEMMA StartFinds ==
    ASSUME IInv, NEW c, c = init_db(chain.blocks, chain.domains),
           NEW n \in Nat, chain.blocks \in [1..n -> Blocks]
    PROVE  /\ SoundChain(c) /\ Top(c) /\ get_height(c) = n
           /\ c.blocks = chain.blocks /\ c.domains = chain.domains
           /\ CheckBlocks \in Nat \ {0}
           /\ FirstFault(c, CheckBlocks, now) \in 1..(n + 1)
           /\ n - (FirstFault(c, CheckBlocks, now) - 1) <= CheckBlocks
  <1>1. GInv /\ chain.blocks \in RowsTo(n) /\ 0 \notin DOMAIN chain.blocks
    BY IInvIsGInvWithoutStray DEF RowsTo
  <1>2. /\ KeptChain(c) /\ Top(c) /\ get_height(c) = n
        /\ c.blocks = chain.blocks /\ c.domains = chain.domains
        /\ CheckBlocks \in Nat \ {0}
        /\ FirstFault(c, CheckBlocks, now) \in 1..(n + 1)
        /\ n - (FirstFault(c, CheckBlocks, now) - 1) <= CheckBlocks
    BY <1>1, StartFindsRows
  <1> QED
    BY <1>1, <1>2, SoundIsKept

(* A restart's cut is one that LinkedChain allows, and spares row 0.       *)
LEMMA RestartCuts ==
    ASSUME GInv, NEW n \in Nat, chain.blocks \in RowsTo(n),
           NEW fault \in 1..n, n - (fault - 1) <= CheckBlocks,
           chain'.blocks = Below(chain.blocks, fault)
    PROVE  Ledger!LNext /\ Stray' = Stray
  <1> DEFINE f == Below(chain.blocks, fault)
  <1>1. Len(Numbered) = n /\ Numbered = Upper(chain.blocks) /\ Numbered \in [1..n -> Blocks]
    BY NumberedRows
  <1>2. fault \in 1..(n + 1)
    OBVIOUS
  <1>3. /\ Upper(f) = Below(Upper(chain.blocks), fault)
        /\ 0 \in DOMAIN f <=> 0 \in DOMAIN chain.blocks
        /\ 0 \in DOMAIN chain.blocks => f[0] = chain.blocks[0]
    BY <1>2, RowsBelow DEF GInv, KeptChain
  <1>4. /\ Numbered' = Upper(f)
        /\ Stray' = IF 0 \in DOMAIN f THEN f[0] ELSE NoBlock
        /\ Stray = IF 0 \in DOMAIN chain.blocks THEN chain.blocks[0] ELSE NoBlock
    BY DEF Numbered, Stray, Upper, get_block
  <1>5. Below(Numbered, fault) = SubSeq(Numbered, 1, fault - 1)
    BY <1>1, <1>2, BelowIsPrefix
  <1> HIDE DEF f
  <1>6. Numbered' = Ledger!Prefix(fault - 1) /\ Stray' = Stray
    BY <1>1, <1>3, <1>4, <1>5 DEF Ledger!Prefix
  <1>7. fault - 1 \in 0..(Len(Numbered) - 1) /\ Ledger!Cut(fault - 1)
    BY <1>1, <1>6 DEF Ledger!Cut
  <1> QED
    BY <1>6, <1>7 DEF Ledger!LNext

LEMMA StartStep ==
    ASSUME GInv, Start
    PROVE  Mapped
  <1> DEFINE c == init_db(chain.blocks, chain.domains)
             d == check_chain(c, CheckBlocks, now)
             fault == FirstFault(c, CheckBlocks, now)
  <1>1. PICK n \in Nat : chain.blocks \in RowsTo(n)
    BY DEF GInv, KeptChain, RowValues, RowTables
  <1>2. /\ KeptChain(c) /\ Top(c) /\ KeptTop(c) /\ c.blocks = chain.blocks
        /\ CheckBlocks \in Nat \ {0}
        /\ fault \in 1..(n + 1) /\ n - (fault - 1) <= CheckBlocks
    BY <1>1, StartFindsRows
  <1>3. CASE chain' = c /\ status' \in {"hung", "panicked"} /\ UNCHANGED <<rewritten, now>>
    <2> HIDE DEF c
    <2>1. GInv' /\ chain'.blocks = chain.blocks
      BY <1>2, <1>3 DEF GInv
    <2> QED
      BY <2>1, SameBlocksMapped
  <1>4. CASE chain' = d /\ status' = "up" /\ rewritten' \in BOOLEAN /\ UNCHANGED now
    <2>1. /\ KeptChain(d) /\ Top(d)
          /\ d.blocks = IF fault > n THEN chain.blocks ELSE Below(chain.blocks, fault)
      <3> HIDE DEF c
      <3> QED
        BY <1>1, <1>2, CheckChainKeepsRows
    <2>2. GInv'
      BY <1>4, <2>1 DEF GInv, Top, KeptTop
    <2> HIDE DEF d, fault
    <2>3. CASE fault > n
      BY <1>4, <2>1, <2>2, <2>3, SameBlocksMapped
    <2>4. CASE fault \in 1..n
      <3>1. chain'.blocks = Below(chain.blocks, fault)
        BY <1>4, <2>1, <2>4
      <3>2. Ledger!LNext /\ Stray' = Stray
        BY <1>1, <1>2, <2>4, <3>1, RestartCuts
      <3> QED
        BY <2>2, <3>2 DEF Mapped
    <2> QED
      BY <1>2, <2>3, <2>4
  <1> QED
    <2>1. rewritten \in BOOLEAN
      BY DEF GInv
    <2> HIDE DEF c
    <2> QED
      BY <1>3, <1>4, <2>1 DEF Start, c

(* A crash after the block of add_block is stored.                         *)
LEMMA CrashInAddBlockStep ==
    ASSUME GInv, NEW b \in Blocks, CrashInAddBlock(b)
    PROVE  Mapped
  <1>1. KeptChain(chain) /\ KeptTop(chain) /\ LinkedBlocks(Upper(chain.blocks))
    BY DEF GInv, CrashInAddBlock, KeptChain
  <1>2. PICK n \in Nat : chain.blocks \in RowsTo(n)
    BY <1>1 DEF KeptChain, RowValues, RowTables
  <1>3. b.index \notin DOMAIN chain.blocks
    BY DEF CrashInAddBlock
  <1>4. \/ b.index = 0 /\ 0 \notin DOMAIN chain.blocks /\ n > 0
        \/ b.index = n + 1 /\ (n > 0 => b.prev_block_hash = chain.blocks[n].hash)
    BY <1>1, <1>2, <1>3, GoodIsPlaced DEF Verdict, CrashInAddBlock
  <1> DEFINE f == Insert(chain.blocks, b.index, b)
             d == add_block(chain, b)
  <1>5. add_block_to_table(chain, b).blocks = f
    BY <1>1 DEF add_block_to_table, KeptChain, RowValues
  <1>6. KeptChain(d) /\ d.blocks = f
    BY <1>1, <1>2, <1>4, AddKeepsRows
  <1>7. f \in RowTables /\ LinkedBlocks(Upper(f)) /\ (0 \in DOMAIN f => f[0].index = 0)
    <2> HIDE DEF d, f
    <2> QED
      BY <1>6 DEF KeptChain, RowValues
  <1>8. Halted(f, chain.domains) /\ rewritten' \in BOOLEAN /\ chain.domains \in DomainTables
    BY <1>1, <1>5 DEF CrashInAddBlock, GInv, KeptChain, RowValues
  <1>9. GInv' /\ chain'.blocks = f
    <2> HIDE DEF f
    <2> QED
      BY <1>7, <1>8, HaltedIsKept
  <1> QED
    BY <1>2, <1>4, <1>9, StoredIsMapped

(* A crash within replace_block cuts off what was to be replaced.          *)
LEMMA CrashInReplaceBlockStep ==
    ASSUME GInv, NEW b \in Blocks, CrashInReplaceBlock(b)
    PROVE  Mapped
  <1>1. KeptChain(chain) /\ KeptTop(chain) /\ LinkedBlocks(Upper(chain.blocks)) /\ status = "up"
    BY DEF GInv, CrashInReplaceBlock, KeptChain
  <1>2. PICK n \in Nat : chain.blocks \in RowsTo(n)
    BY <1>1 DEF KeptChain, RowValues, RowTables
  <1>3. b.index \in 0..n /\ Verdict(b) = "Fork" /\ ForkWins(b)
    BY <1>1, <1>2, ForkIsPlaced DEF CrashInReplaceBlock, Verdict
  <1> DEFINE f == Below(chain.blocks, b.index)
             d == truncate_db_from_block(chain, b.index)
  <1>4. KeptChain(d) /\ d.blocks = f
    <2>1. b.index \in 0..(n + 1)
      BY <1>3
    <2> QED
      BY <1>1, <1>2, <2>1, TruncateKeepsRows
  <1>5. f \in RowTables /\ LinkedBlocks(Upper(f)) /\ (0 \in DOMAIN f => f[0].index = 0)
    <2> HIDE DEF d, f
    <2> QED
      BY <1>4 DEF KeptChain, RowValues
  <1>6. PICK g \in DomainTables : Halted(f, g)
    <2>1. chain.domains \in DomainTables /\ Below(chain.domains, b.index) \in DomainTables
      BY <1>1, DomainTablesClosed DEF KeptChain, RowValues
    <2> QED
      BY <2>1 DEF CrashInReplaceBlock
  <1>7. rewritten' = TRUE /\ status' = "down"
    BY <1>6 DEF CrashInReplaceBlock, Halted
  <1>8. GInv' /\ chain'.blocks = f
    <2> HIDE DEF f
    <2> QED
      BY <1>5, <1>6, <1>7, HaltedIsKept
  <1>9. Numbered' = Upper(f) /\ Stray' = IF 0 \in DOMAIN f THEN f[0] ELSE NoBlock
    BY <1>8 DEF Numbered, Stray, Upper, get_block
  <1>10. CASE b.index = 0
    <2>1. DOMAIN f = {} /\ Upper(f) = <<>>
      BY <1>2, <1>10, NoRowsBelow
    <2>2. Numbered' = <<>> /\ Stray' = NoBlock
      BY <1>9, <2>1
    <2>3. Ledger!LNext
      BY <1>1, <1>2, <1>3, <1>10, <2>2, WinningZeroReplaces
    <2> QED
      BY <1>7, <1>8, <2>3 DEF Mapped
  <1>11. CASE b.index # 0
    <2> DEFINE m == b.index - 1
    <2>1. /\ b.index \in 1..n
          /\ m \in 0..(Len(Numbered) - 1)
          /\ Ledger!Prefix(m) = Below(Numbered, b.index)
          /\ Ledger!Displaces(b, m)
      BY <1>1, <1>2, <1>3, <1>11, WinningForkDisplaces
    <2>2. b.index \in 1..(n + 1)
      BY <2>1
    <2>3. /\ Upper(f) = Below(Upper(chain.blocks), b.index)
          /\ 0 \in DOMAIN f <=> 0 \in DOMAIN chain.blocks
          /\ 0 \in DOMAIN chain.blocks => f[0] = chain.blocks[0]
      BY <1>1, <1>2, <2>2, RowsBelow
    <2>4. Numbered = Upper(chain.blocks)
      BY <1>2, NumberedRows
    <2>5. Stray = IF 0 \in DOMAIN chain.blocks THEN chain.blocks[0] ELSE NoBlock
      BY DEF Stray, get_block
    <2> HIDE DEF f, m
    <2>6. Numbered' = Ledger!Prefix(m) /\ Stray' = Stray
      BY <1>9, <2>1, <2>3, <2>4, <2>5
    <2>7. Ledger!Cut(m)
      BY <2>1, <2>6 DEF Ledger!Cut
    <2> QED
      BY <1>7, <1>8, <2>1, <2>7 DEF Mapped, Ledger!LNext
  <1> QED
    BY <1>10, <1>11

(* A crash within check_chain cuts off what it has rejected.               *)
LEMMA CrashInCheckChainStep ==
    ASSUME GInv, CrashInCheckChain
    PROVE  Mapped
  <1> DEFINE c == init_db(chain.blocks, chain.domains)
             fault == FirstFault(c, CheckBlocks, now)
             f == Below(chain.blocks, fault)
             d == truncate_db_from_block(chain, fault)
  <1>1. PICK n \in Nat : chain.blocks \in RowsTo(n)
    BY DEF GInv, KeptChain, RowValues, RowTables
  <1>2. get_height(c) = n /\ fault \in 1..(n + 1) /\ n - (fault - 1) <= CheckBlocks
    BY <1>1, StartFindsRows
  <1>3. fault \in 1..n
    BY <1>2 DEF CrashInCheckChain, CheckOutcome
  <1>4. KeptChain(d) /\ d.blocks = f
    <2>1. fault \in 0..(n + 1) /\ KeptChain(chain)
      BY <1>3 DEF GInv
    <2> HIDE DEF fault
    <2> QED
      BY <1>1, <2>1, TruncateKeepsRows
  <1>5. f \in RowTables /\ LinkedBlocks(Upper(f)) /\ (0 \in DOMAIN f => f[0].index = 0)
    <2> HIDE DEF d, f
    <2> QED
      BY <1>4 DEF KeptChain, RowValues
  <1>6. GInv' /\ chain'.blocks = f
    <2>1. Halted(f, chain.domains) /\ rewritten' \in BOOLEAN /\ chain.domains \in DomainTables
      BY DEF CrashInCheckChain, GInv, KeptChain, RowValues
    <2> HIDE DEF f
    <2> QED
      BY <1>5, <2>1, HaltedIsKept
  <1>7. Ledger!LNext /\ Stray' = Stray
    <2> HIDE DEF fault
    <2> QED
      BY <1>1, <1>2, <1>3, <1>6, RestartCuts
  <1> QED
    BY <1>6, <1>7 DEF Mapped

-----------------------------------------------------------------------------
(* The theorems.                                                           *)

(* The first start has an empty chain.                                     *)
LEMMA InitIsSound == Init => IInv /\ GInv /\ Ledger!LInit
  <1> SUFFICES ASSUME Init PROVE IInv /\ GInv /\ Ledger!LInit
    OBVIOUS
  <1>1. <<>> \in BlockTables
    <2>1. <<>> \in [1..0 -> Blocks]
      OBVIOUS
    <2> QED
      BY <2>1 DEF BlockTables
  <1>2. <<>> \in DomainTables
    <2>1. <<>> \in [{} -> Rows] /\ {} \in SUBSET Nat
      OBVIOUS
    <2> QED
      BY <2>1 DEF DomainTables
  <1>3. LinkedBlocks(<<>>)
    BY DEF LinkedBlocks
  <1>4. SoundChain(chain) /\ chain.blocks = <<>>
    BY <1>1, <1>2, <1>3, EmptyChainIsSound DEF Init
  <1>5. Top(chain)
    BY <1>4 DEF Top, load_last_block, Init, EmptyChain
  <1>6. now \in 0..MaxTime
    BY ChainAssumption DEF Init
  <1>7. status \in {"up", "down", "panicked", "hung"} /\ rewritten \in BOOLEAN
    BY DEF Init
  <1>8. IInv
    BY <1>4, <1>5, <1>6, <1>7 DEF IInv
  <1>9. GInv /\ Stray = NoBlock
    BY <1>8, IInvIsGInvWithoutStray
  <1>10. Numbered = <<>>
    <2>1. chain.blocks \in RowsTo(0)
      <3>1. <<>> \in [1..0 -> Blocks]
        OBVIOUS
      <3> QED
        BY <1>4, <3>1 DEF RowsTo
    <2>2. Numbered \in Seq(Blocks) /\ Len(Numbered) = 0
      BY <2>1, NumberedRows, TableIsSequence
    <2> QED
      BY <2>2, EmptySeq
  <1> QED
    BY <1>8, <1>9, <1>10 DEF Ledger!LInit

(* Every step keeps the invariant and is a step of LinkedChain.            *)
LEMMA StepIsMapped == GInv /\ [CrashNext]_vars => Mapped
  <1> SUFFICES ASSUME GInv, [CrashNext]_vars PROVE Mapped
    OBVIOUS
  <1>1. ASSUME NEW b \in Blocks, BlockArrives(b) PROVE Mapped
    BY <1>1, BlockArrivesStep
  <1>2. CASE GetSignBlock
    BY <1>2, GetSignBlockStep
  <1>3. CASE (\E h \in PeerHeights : update_max_height(h)) \/ Tick
    BY <1>3, QuietStep
  <1>4. CASE Stop
    BY <1>4, StopStep
  <1>5. CASE Start
    BY <1>5, StartStep
  <1>6. ASSUME NEW b \in Blocks, CrashInAddBlock(b) PROVE Mapped
    BY <1>6, CrashInAddBlockStep
  <1>7. ASSUME NEW b \in Blocks, CrashInReplaceBlock(b) PROVE Mapped
    BY <1>7, CrashInReplaceBlockStep
  <1>8. CASE CrashInCheckChain
    BY <1>8, CrashInCheckChainStep
  <1>9. CASE UNCHANGED vars
    <2>1. GInv' /\ chain'.blocks = chain.blocks
      BY <1>9 DEF vars, GInv
    <2> QED
      BY <2>1, SameBlocksMapped
  <1> QED
    BY <1>1, <1>2, <1>3, <1>4, <1>5, <1>6, <1>7, <1>8, <1>9 DEF CrashNext, Next

(* A node that may crash between any two SQL statements keeps its types:   *)
(* tables of blocks and rows, caches of blocks and keys (struct Chain).    *)
THEOREM TypeCorrect == CrashSpec => []TypeOK
  <1>1. Init => GInv
    BY InitIsSound
  <1>2. GInv /\ [CrashNext]_vars => GInv'
    BY StepIsMapped DEF Mapped
  <1>3. GInv => TypeOK
    BY GInvIsTypeOKAndChainIntact
  <1> QED
    BY <1>1, <1>2, <1>3, PTL DEF CrashSpec

(* The blocks table is one unbroken, linked chain with at most a row 0     *)
(* beside it, whatever blocks arrive, and the last block the node works    *)
(* with is its top or that row, over forks, restarts and crashes between   *)
(* SQL statements (check_block, add_block, replace_block, check_chain,     *)
(* truncate_db_from_block).                                                *)
THEOREM ChainStaysIntact == CrashSpec => []ChainIntact
  <1>1. Init => GInv
    BY InitIsSound
  <1>2. GInv /\ [CrashNext]_vars => GInv'
    BY StepIsMapped DEF Mapped
  <1>3. GInv => ChainIntact
    BY GInvIsTypeOKAndChainIntact
  <1> QED
    BY <1>1, <1>2, <1>3, PTL DEF CrashSpec

(* The chain implements LinkedChain: it grows block by block, gives way    *)
(* below its top only to better blocks, and loses at most the blocks that  *)
(* a restart checks again, unless a second block of index 0 takes it away. *)
THEOREM ChainImplementsLinkedChain == CrashSpec => IsALinkedChain
  <1>1. Init => GInv /\ Ledger!LInit
    BY InitIsSound
  <1>2. GInv /\ [CrashNext]_vars => GInv' /\ [Ledger!LNext]_<<Numbered, Stray>>
    BY StepIsMapped DEF Mapped
  <1> QED
    BY <1>1, <1>2, PTL DEF CrashSpec, IsALinkedChain, Ledger!LSpec

-----------------------------------------------------------------------------
(* The domains table, for a node that does not crash between two SQL       *)
(* statements: it mirrors the blocks, and a domain changes hands only when *)
(* it is free, the very next block excepted.                               *)

(* The rows g of domains are what the blocks f say.                        *)
Mirror(f, g) ==
    /\ DOMAIN g = {i \in DOMAIN f : IsDomain(f[i])}
    /\ \A i \in DOMAIN g : g[i] = RowOf(f[i])

(* Row i of g is taken over by row j at time t, while i was not yet free.  *)
Robbed(f, g, t, i, j) ==
    /\ i < j
    /\ g[i].identity = g[j].identity
    /\ \A k \in DOMAIN g : i < k /\ k < j => g[k].identity # g[i].identity
    /\ f[j].pub_key # g[i].signing
    /\ t <= g[i].timestamp + DOMAIN_LIFETIME + DOMAIN_RENEW_TIME

Kept(f, g, t) == \A i, j \in DOMAIN g : Robbed(f, g, t, i, j) => j = i + 1

DInv == Mirror(chain.blocks, chain.domains) /\ Kept(chain.blocks, chain.domains, now)

MInv == Mirror(chain.blocks, chain.domains)

KInv == Stray = NoBlock => DInv

(* The two invariants in terms of the tables.                              *)
LEMMA DInvIsTheInvariants ==
    /\ MInv <=> DomainsMirrorBlocks
    /\ KInv => OwnershipKept
  <1>1. MInv <=> DomainsMirrorBlocks
    BY DEF MInv, Mirror, DomainsMirrorBlocks
  <1>2. KInv => OwnershipKept
    <2>1. Kept(chain.blocks, chain.domains, now)
            => \A i, j \in DOMAIN chain.domains : TakenOver(i, j) => j = i + 1
      BY DEF Kept, Robbed, TakenOver, Successive
    <2> QED
      BY <2>1 DEF KInv, DInv, OwnershipKept
  <1> QED
    BY <1>1, <1>2

(* Truncating both tables at the same id keeps the mirror, a row 0 or not. *)
LEMMA TruncateKeepsMirror ==
    ASSUME NEW f, NEW g, NEW m, Mirror(f, g)
    PROVE  Mirror(Below(f, m), Below(g, m))
  BY DEF Mirror, Below

(* So does a block stored with its row of domains.                         *)
LEMMA StoreKeepsMirror ==
    ASSUME NEW f, NEW g, Mirror(f, g), NEW b, b.index \notin DOMAIN f
    PROVE  Mirror(Insert(f, b.index, b), DomainsWith(g, b))
  <1> DEFINE m == b.index
             F == Insert(f, m, b)
             G == DomainsWith(g, b)
  <1>1. m \notin DOMAIN f /\ m \notin DOMAIN g /\ DOMAIN g \subseteq DOMAIN f
    BY DEF Mirror
  <1>2. /\ DOMAIN F = DOMAIN f \cup {m} /\ F[m] = b
        /\ \A i \in DOMAIN f : F[i] = f[i]
    BY <1>1 DEF Insert
  <1>3. /\ DOMAIN G = IF IsDomain(b) THEN DOMAIN g \cup {m} ELSE DOMAIN g
        /\ IsDomain(b) => G[m] = RowOf(b)
        /\ \A i \in DOMAIN g : G[i] = g[i]
    BY <1>1 DEF DomainsWith, Insert
  <1> HIDE DEF m, F, G
  <1>4. Mirror(F, G)
    BY <1>1, <1>2, <1>3 DEF Mirror
  <1> QED
    BY <1>4 DEF F, G, m

(* Truncating both tables at the same id keeps both.                       *)
LEMMA TruncateKeepsDomains ==
    ASSUME NEW n \in Nat, NEW f \in [1..n -> Blocks], NEW g, NEW t, NEW m \in 1..(n + 1),
           Mirror(f, g), Kept(f, g, t)
    PROVE  Mirror(Below(f, m), Below(g, m)) /\ Kept(Below(f, m), Below(g, m), t)
  <1> DEFINE F == Below(f, m)
             G == Below(g, m)
  <1>1. /\ DOMAIN F = {i \in DOMAIN f : i < m} /\ (\A i \in DOMAIN F : F[i] = f[i])
        /\ DOMAIN G = {i \in DOMAIN g : i < m} /\ (\A i \in DOMAIN G : G[i] = g[i])
    BY DEF Below
  <1>2. DOMAIN g \subseteq 1..n
    BY DEF Mirror
  <1>3. Mirror(F, G)
    BY TruncateKeepsMirror
  <1>4. ASSUME NEW i \in DOMAIN G, NEW j \in DOMAIN G, Robbed(F, G, t, i, j)
        PROVE  j = i + 1
    <2>1. /\ i \in DOMAIN g /\ j \in DOMAIN g /\ j \in DOMAIN F
          /\ i \in Int /\ j \in Int /\ m \in Int /\ j < m
      BY <1>1, <1>2, <1>3 DEF Mirror
    <2>2. \A k \in DOMAIN g : i < k /\ k < j => k \in DOMAIN G
      BY <1>1, <1>2, <2>1
    <2>3. Robbed(f, g, t, i, j)
      BY <1>1, <1>4, <2>1, <2>2 DEF Robbed
    <2> QED
      BY <2>1, <2>3 DEF Kept
  <1> QED
    BY <1>3, <1>4 DEF Kept

(* The newest row below an id, when there is one.                          *)
LEMMA LastRowIsNewest ==
    ASSUME NEW c, NEW n \in Nat, DOMAIN c.domains \subseteq 1..n,
           NEW h \in Int, NEW i \in DOMAIN c.domains, i < h,
           \A k \in DOMAIN c.domains :
              i < k /\ k < h => c.domains[k].identity # c.domains[i].identity
    PROVE  LastRow(c, c.domains[i].identity, h) = c.domains[i]
  <1> DEFINE ids == {k \in DOMAIN c.domains : k < h /\ c.domains[k].identity = c.domains[i].identity}
  <1>1. ids \in SUBSET (0..n) /\ i \in ids
    OBVIOUS
  <1>2. Max(ids) \in ids /\ i <= Max(ids)
    BY <1>1, MaxNatural
  <1>3. ASSUME NEW k \in ids, i <= k PROVE k = i
    BY <1>1, <1>3
  <1> QED
    BY <1>1, <1>2, <1>3 DEF LastRow

(* A domain that is available to a key is its own, or free.                *)
LEMMA AvailableMeansOwnedOrFree ==
    ASSUME NEW c, NEW h, NEW t \in Nat, NEW identity, NEW key,
           is_id_available(c, h, t, identity, key),
           LastRow(c, identity, h) \in Rows
    PROVE  LET row == LastRow(c, identity, h)
           IN  row.signing = key \/ row.timestamp + DOMAIN_LIFETIME + DOMAIN_RENEW_TIME < t
  <1> DEFINE row == LastRow(c, identity, h)
  <1>1. row # NoRow
    <2>1. row.signing \in Keys /\ NoRow.signing = NoKey
      BY DEF Rows, NoRow
    <2> QED
      BY <2>1, AbsentAssumption
  <1>2. /\ row.timestamp \in Nat
        /\ DOMAIN_LIFETIME \in Nat /\ DOMAIN_RENEW_TIME \in Nat
    BY RulesAssumption DEF Rows
  <1> HIDE DEF row
  <1>3. DomainState(row, t) \in {"NotFound", "Free"} =>
           row.timestamp + DOMAIN_LIFETIME + DOMAIN_RENEW_TIME < t
    BY <1>1, <1>2 DEF DomainState
  <1> QED
    BY <1>3 DEF is_id_available, row

(* A block that is allowed to change a domain, put on what is below it.    *)
LEMMA PlacedBlockKeepsDomains ==
    ASSUME NEW c, SoundChain(c), NEW n \in Nat, c.blocks \in [1..n -> Blocks], NEW t \in Nat,
           Mirror(c.blocks, c.domains), Kept(c.blocks, c.domains, t),
           NEW b \in Blocks, b.index \in 1..(n + 1),
           IsDomain(b) => is_id_available(c, b.index - 1, t, b.transaction.identity, b.pub_key)
    PROVE  LET F == Insert(Below(c.blocks, b.index), b.index, b)
               G == DomainsWith(Below(c.domains, b.index), b)
           IN  Mirror(F, G) /\ Kept(F, G, t)
  <1> DEFINE m == b.index
             f == Below(c.blocks, m)
             g == Below(c.domains, m)
             F == Insert(f, m, b)
             G == DomainsWith(g, b)
  <1>1. Mirror(f, g) /\ Kept(f, g, t)
    BY TruncateKeepsDomains
  <1>2. DOMAIN c.domains \subseteq 1..n
    BY DEF Mirror
  <1>3. /\ DOMAIN f = {i \in DOMAIN c.blocks : i < m}
        /\ DOMAIN g = {i \in DOMAIN c.domains : i < m} /\ (\A i \in DOMAIN g : g[i] = c.domains[i])
    BY DEF Below
  <1>4. m \notin DOMAIN f /\ m \notin DOMAIN g /\ DOMAIN g \subseteq DOMAIN f /\ DOMAIN f \subseteq Int
    BY <1>1, <1>3 DEF Mirror
  <1>5. /\ DOMAIN F = DOMAIN f \cup {m} /\ F[m] = b
        /\ \A i \in DOMAIN f : F[i] = f[i]
    BY <1>4 DEF Insert
  <1>6. /\ DOMAIN G = IF IsDomain(b) THEN DOMAIN g \cup {m} ELSE DOMAIN g
        /\ IsDomain(b) => G[m] = RowOf(b)
        /\ \A i \in DOMAIN g : G[i] = g[i]
    BY <1>4 DEF DomainsWith, Insert
  <1> HIDE DEF f, g, F, G
  <1>7. Mirror(F, G)
    BY <1>1, <1>4, StoreKeepsMirror DEF F, G
  <1>8. ASSUME NEW i \in DOMAIN G, NEW j \in DOMAIN G, Robbed(F, G, t, i, j)
        PROVE  j = i + 1
    <2>1. CASE j \in DOMAIN g
      <3>1. i \in DOMAIN g
        BY <1>3, <1>6, <1>8, <1>4, <2>1 DEF Robbed
      <3>2. Robbed(f, g, t, i, j)
        BY <1>4, <1>5, <1>6, <1>8, <2>1, <3>1 DEF Robbed
      <3> QED
        BY <1>1, <2>1, <3>1, <3>2 DEF Kept
    <2>2. CASE j \notin DOMAIN g
      <3>1. j = m /\ IsDomain(b) /\ i \in DOMAIN g /\ i \in DOMAIN c.domains /\ i \in Int /\ i < m
        BY <1>3, <1>4, <1>6, <1>8, <2>2 DEF Robbed
      <3>2. /\ G[j] = RowOf(b) /\ F[j] = b
            /\ G[i] = c.domains[i] /\ c.domains[i].identity = b.transaction.identity
        BY <1>3, <1>5, <1>6, <1>8, <3>1 DEF Robbed, RowOf
      <3>3. CASE i < m - 1
        <4>1. \A k \in DOMAIN c.domains :
                i < k /\ k < m - 1 => c.domains[k].identity # c.domains[i].identity
          <5> SUFFICES ASSUME NEW k \in DOMAIN c.domains, i < k, k < m - 1
                       PROVE  c.domains[k].identity # c.domains[i].identity
            OBVIOUS
          <5>1. k \in DOMAIN g /\ k \in DOMAIN G /\ G[k] = c.domains[k] /\ k < m
            BY <1>2, <1>3, <1>6
          <5> QED
            BY <1>8, <3>1, <3>2, <5>1 DEF Robbed
        <4>2. LastRow(c, b.transaction.identity, m - 1) = c.domains[i]
          BY <1>2, <3>1, <3>2, <3>3, <4>1, LastRowIsNewest
        <4>3. c.domains[i] \in Rows
          BY <3>1 DEF SoundChain, ChainValues, DomainTables
        <4>4. \/ c.domains[i].signing = b.pub_key
              \/ c.domains[i].timestamp + DOMAIN_LIFETIME + DOMAIN_RENEW_TIME < t
          BY <3>1, <4>2, <4>3, AvailableMeansOwnedOrFree
        <4>5. c.domains[i].timestamp + DOMAIN_LIFETIME + DOMAIN_RENEW_TIME \in Nat
          BY <4>3, RulesAssumption DEF Rows
        <4> QED
          BY <1>8, <3>2, <4>4, <4>5 DEF Robbed
      <3> QED
        BY <3>1, <3>3
    <2> QED
      BY <2>1, <2>2
  <1> QED
    BY <1>7, <1>8 DEF Kept, F, G, f, g

-----------------------------------------------------------------------------
(* The steps.                                                              *)

(* A domain block that is good or a fork passed is_id_available.           *)
LEMMA VerdictAllowsDomain ==
    ASSUME NEW b, Verdict(b) \in {"Good", "Fork"}, IsDomain(b)
    PROVE  is_id_available(chain, b.index - 1, now, b.transaction.identity, b.pub_key)
  <1>1. IsFull(b) /\ ~is_genesis(b)
    BY DEF IsDomain, is_genesis
  <1>2. Screen(chain, b, chain.last_block, now) = "Pass"
    BY <1>1 DEF Verdict, check_new_block, check_block, Screen
  <1>3. TransactionAllowed(chain, b, now)
    BY <1>1, <1>2 DEF Screen
  <1> QED
    BY <1>3 DEF TransactionAllowed

(* Truncating above the last row changes nothing.                          *)
LEMMA BelowAll ==
    ASSUME NEW n \in Nat, NEW D \in SUBSET (1..n), NEW S, NEW f \in [D -> S]
    PROVE  Below(f, n + 1) = f
  <1>1. DOMAIN f = D /\ \A k \in D : k < n + 1
    OBVIOUS
  <1>2. {k \in DOMAIN f : k < n + 1} = D
    BY <1>1
  <1> QED
    BY <1>2 DEF Below

(* Where neither this state nor the next has a row 0, a block that is      *)
(* added is not of index 0.                                                *)
LEMMA AddedAboveZero ==
    ASSUME IInv, IInv', status = "up", NEW b \in Blocks, AddBlock(b)
    PROVE  b.index # 0
  <1> SUFFICES ASSUME b.index = 0 PROVE FALSE
    OBVIOUS
  <1> DEFINE c == AfterCheck(b)
  <1>1. SoundChain(c) /\ chain' = add_block(c, b)
    BY AfterCheckIsSound DEF AddBlock
  <1> HIDE DEF c
  <1>2. KeptChain(c) /\ 0 \notin DOMAIN c.blocks
    BY <1>1, SoundIsKept
  <1>3. PICK n \in Nat : c.blocks \in RowsTo(n)
    BY <1>2 DEF KeptChain, RowValues, RowTables
  <1>4. chain'.blocks = Insert(c.blocks, 0, b)
    BY <1>1, <1>2, <1>3, AddKeepsRows
  <1>5. 0 \in DOMAIN chain'.blocks
    BY <1>4 DEF Insert
  <1>6. SoundChain(chain')
    BY DEF IInv
  <1> QED
    BY <1>5, <1>6, SoundIsKept

LEMMA AddBlockKeepsDomains ==
    ASSUME IInv, IInv', DInv, status = "up", NEW b \in Blocks, Verdict(b) = "Good", AddBlock(b)
    PROVE  DInv'
  <1>1. SoundChain(chain) /\ Top(chain) /\ now \in Nat
    BY DEF IInv
  <1>2. PICK n \in Nat : chain.blocks \in [1..n -> Blocks]
    BY <1>1 DEF SoundChain, ChainValues, BlockTables
  <1>3. b.index = n + 1 /\ (n > 0 => b.prev_block_hash = chain.blocks[n].hash)
    BY <1>1, <1>2, AddedAboveZero, GoodContinues DEF Verdict
  <1>4. /\ SoundChain(AfterCheck(b))
        /\ AfterCheck(b).blocks = chain.blocks /\ AfterCheck(b).domains = chain.domains
    BY AfterCheckIsSound
  <1>5. DOMAIN chain.domains \subseteq 1..n
    BY <1>2 DEF DInv, Mirror
  <1>6. ~AddBlockPanics(AfterCheck(b), b)
    BY <1>2, <1>3, <1>4, <1>5 DEF AddBlockPanics
  <1>7. /\ chain'.blocks = Insert(chain.blocks, b.index, b)
        /\ chain'.domains = DomainsWith(chain.domains, b)
    BY <1>2, <1>3, <1>4, <1>6, AddBlockKeepsChain DEF AddBlock
  <1>8. Below(chain.blocks, b.index) = chain.blocks /\ Below(chain.domains, b.index) = chain.domains
    <2>1. PICK D \in SUBSET Nat : chain.domains \in [D -> Rows]
      BY <1>1 DEF SoundChain, ChainValues, DomainTables
    <2>2. D \in SUBSET (1..n)
      BY <1>5, <2>1
    <2> QED
      BY <1>2, <1>3, <2>1, <2>2, BelowAll
  <1>9. IsDomain(b) => is_id_available(chain, b.index - 1, now, b.transaction.identity, b.pub_key)
    BY VerdictAllowsDomain
  <1>10. b.index \in 1..(n + 1) /\ now' = now
    BY <1>3 DEF AddBlock
  <1>11. /\ Mirror(chain'.blocks, chain'.domains)
         /\ Kept(chain'.blocks, chain'.domains, now)
    BY <1>1, <1>2, <1>7, <1>8, <1>9, <1>10, PlacedBlockKeepsDomains DEF DInv
  <1> QED
    BY <1>10, <1>11 DEF DInv

LEMMA ReplaceBlockKeepsDomains ==
    ASSUME IInv, DInv, status = "up", NEW b \in Blocks, Verdict(b) = "Fork", ForkWins(b), ReplaceBlock(b)
    PROVE  DInv'
  <1>1. SoundChain(chain) /\ Top(chain) /\ now \in Nat
    BY DEF IInv
  <1>2. PICK n \in Nat : chain.blocks \in [1..n -> Blocks]
    BY <1>1 DEF SoundChain, ChainValues, BlockTables
  <1>3. /\ b.index \in 1..n
        /\ b.index > 1 => b.prev_block_hash = chain.blocks[b.index - 1].hash
    BY <1>1, <1>2, ForkContinues DEF Verdict
  <1>4. /\ SoundChain(AfterCheck(b))
        /\ AfterCheck(b).blocks = chain.blocks /\ AfterCheck(b).domains = chain.domains
    BY AfterCheckIsSound
  <1>5. /\ chain'.blocks = Insert(Below(chain.blocks, b.index), b.index, b)
        /\ chain'.domains = DomainsWith(Below(chain.domains, b.index), b)
    BY <1>2, <1>3, <1>4, ReplaceBlockKeepsChain DEF ReplaceBlock
  <1>6. IsDomain(b) => is_id_available(chain, b.index - 1, now, b.transaction.identity, b.pub_key)
    BY VerdictAllowsDomain
  <1>7. b.index \in 1..(n + 1) /\ now' = now
    BY <1>3 DEF ReplaceBlock
  <1>8. /\ Mirror(chain'.blocks, chain'.domains)
        /\ Kept(chain'.blocks, chain'.domains, now)
    BY <1>1, <1>2, <1>5, <1>6, <1>7, PlacedBlockKeepsDomains DEF DInv
  <1> QED
    BY <1>7, <1>8 DEF DInv

(* Steps that leave the tables and the clock alone.                        *)
LEMMA SameTables ==
    ASSUME DInv, chain'.blocks = chain.blocks, chain'.domains = chain.domains, now' = now
    PROVE  DInv'
  BY DEF DInv

LEMMA BlockArrivesKeepsDomains ==
    ASSUME IInv, IInv', DInv, NEW b \in Blocks, BlockArrives(b)
    PROVE  DInv'
  <1>1. status = "up"
    BY DEF BlockArrives
  <1>2. CASE Verdict(b) = "Good" /\ AddBlock(b)
    BY <1>1, <1>2, AddBlockKeepsDomains
  <1>3. CASE Verdict(b) = "Fork" /\ ForkWins(b) /\ ReplaceBlock(b)
    BY <1>1, <1>3, ReplaceBlockKeepsDomains
  <1>4. CASE DropBlock(b)
    BY <1>1, <1>4, AfterCheckIsSound, SameTables DEF DropBlock
  <1>5. CASE EndSync(b)
    <2>1. /\ AfterCheck(b) \in ChainValues
          /\ AfterCheck(b).blocks = chain.blocks /\ AfterCheck(b).domains = chain.domains
      BY <1>1, AfterCheckIsSound DEF SoundChain
    <2>2. chain'.blocks = chain.blocks /\ chain'.domains = chain.domains
      BY <1>5, <2>1 DEF EndSync, ChainValues
    <2> QED
      BY <1>5, <2>2, SameTables DEF EndSync
  <1>6. CASE Hang
    BY <1>6, SameTables DEF Hang
  <1> QED
    BY <1>2, <1>3, <1>4, <1>5, <1>6 DEF BlockArrives

LEMMA GetSignBlockKeepsDomains ==
    ASSUME IInv, DInv, GetSignBlock
    PROVE  DInv'
  <1>1. chain \in ChainValues
    BY DEF IInv, SoundChain
  <1>2. chain' = chain \/ \E s : chain' = [chain EXCEPT !.signers = s]
    BY DEF GetSignBlock, Hang, SignersCached
  <1>3. now' = now
    BY DEF GetSignBlock, Hang
  <1>4. chain'.blocks = chain.blocks /\ chain'.domains = chain.domains
    BY <1>1, <1>2 DEF ChainValues
  <1> QED
    BY <1>3, <1>4, SameTables

(* Time works for whoever waits for a domain, never against its owner.     *)
LEMMA TickKeepsDomains ==
    ASSUME IInv, DInv, Tick
    PROVE  DInv'
  <1> DEFINE f == chain.blocks
             g == chain.domains
  <1>1. chain' = chain /\ now' = now + 1 /\ now \in Nat
    BY DEF Tick, IInv
  <1>2. \A i \in DOMAIN g : g[i].timestamp \in Nat
    <2>1. PICK D \in SUBSET Nat : g \in [D -> Rows]
      BY DEF IInv, SoundChain, ChainValues, DomainTables
    <2> QED
      BY <2>1 DEF Rows
  <1>3. \A i, j \in DOMAIN g : Robbed(f, g, now + 1, i, j) => Robbed(f, g, now, i, j)
    BY <1>1, <1>2, RulesAssumption DEF Robbed
  <1> QED
    BY <1>1, <1>3 DEF DInv, Kept

LEMMA StartKeepsDomains ==
    ASSUME IInv, DInv, Start
    PROVE  DInv'
  <1> DEFINE c == init_db(chain.blocks, chain.domains)
             d == check_chain(c, CheckBlocks, now)
             fault == FirstFault(c, CheckBlocks, now)
  <1>1. PICK n \in Nat : chain.blocks \in [1..n -> Blocks]
    BY DEF IInv, SoundChain, ChainValues, BlockTables
  <1>2. /\ SoundChain(c) /\ Top(c)
        /\ c.blocks = chain.blocks /\ c.domains = chain.domains
        /\ CheckBlocks \in Nat \ {0} /\ fault \in 1..(n + 1)
    BY <1>1, StartFinds
  <1> HIDE DEF c
  <1>a. c.blocks \in [1..n -> Blocks]
    BY <1>1, <1>2
  <1>b. /\ d.blocks = IF fault > n THEN c.blocks ELSE Below(c.blocks, fault)
        /\ d.domains = IF fault > n THEN c.domains ELSE Below(c.domains, fault)
    BY <1>2, <1>a, CheckChainKeepsChain, Zenon
  <1> HIDE DEF d, fault
  <1>3. /\ d.blocks = IF fault > n THEN chain.blocks ELSE Below(chain.blocks, fault)
        /\ d.domains = IF fault > n THEN chain.domains ELSE Below(chain.domains, fault)
    BY <1>2, <1>b
  <1>4. Mirror(d.blocks, d.domains) /\ Kept(d.blocks, d.domains, now)
    BY <1>1, <1>2, <1>3, TruncateKeepsDomains DEF DInv
  <1>5. chain' \in {c, d} /\ now' = now
    BY DEF Start, c, d
  <1> QED
    BY <1>2, <1>4, <1>5 DEF DInv

(* Every step without a row 0 before it or after it keeps the domains in   *)
(* order.                                                                  *)
LEMMA StepKeepsDomains == IInv /\ IInv' /\ DInv /\ [Next]_vars => DInv'
  <1> SUFFICES ASSUME IInv, IInv', DInv, [Next]_vars PROVE DInv'
    OBVIOUS
  <1>1. ASSUME NEW b \in Blocks, BlockArrives(b) PROVE DInv'
    BY <1>1, BlockArrivesKeepsDomains
  <1>2. CASE GetSignBlock
    BY <1>2, GetSignBlockKeepsDomains
  <1>3. ASSUME NEW h \in PeerHeights, update_max_height(h) PROVE DInv'
    BY <1>3, SameTables DEF update_max_height, IInv, SoundChain, ChainValues
  <1>4. CASE Tick
    BY <1>4, TickKeepsDomains
  <1>5. CASE Stop
    BY <1>5, SameTables DEF Stop, Halted, EmptyChain
  <1>6. CASE Start
    BY <1>6, StartKeepsDomains
  <1>7. CASE UNCHANGED vars
    BY <1>7, SameTables DEF vars
  <1> QED
    BY <1>1, <1>2, <1>3, <1>4, <1>5, <1>6, <1>7 DEF Next

(* Every step keeps the mirror, whatever rows there are.                   *)
LEMMA StepKeepsMirror == GInv /\ MInv /\ [Next]_vars => MInv'
  <1> SUFFICES ASSUME GInv, MInv, [Next]_vars PROVE MInv'
    OBVIOUS
  <1> DEFINE Same == chain'.blocks = chain.blocks /\ chain'.domains = chain.domains
  <1>1. Same => MInv'
    BY DEF MInv
  <1>2. PICK n \in Nat : chain.blocks \in RowsTo(n)
    BY DEF GInv, KeptChain, RowValues, RowTables
  <1>3. ASSUME NEW b \in Blocks, status = "up", Verdict(b) = "Good", AddBlock(b) PROVE MInv'
    <2>1. KeptChain(chain) /\ KeptTop(chain)
      BY <1>3 DEF GInv
    <2> DEFINE c == AfterCheck(b)
    <2>2. /\ KeptChain(c) /\ c.blocks = chain.blocks /\ c.domains = chain.domains
          /\ chain' = add_block(c, b)
      BY <1>3, AfterCheckIsKept DEF AddBlock
    <2> HIDE DEF c
    <2>3. CASE b.index \in DOMAIN chain.blocks
      <3>1. Same
        BY <2>2, <2>3 DEF add_block
      <3> QED
        BY <1>1, <3>1
    <2>4. CASE \/ b.index = 0 /\ 0 \notin DOMAIN chain.blocks /\ n > 0
               \/ b.index = n + 1 /\ (n > 0 => b.prev_block_hash = chain.blocks[n].hash)
      <3>1. /\ b.index \notin DOMAIN chain.blocks
            /\ chain'.blocks = Insert(chain.blocks, b.index, b)
            /\ ~AddBlockPanics(c, b) => chain'.domains = DomainsWith(chain.domains, b)
        BY <1>2, <2>2, <2>4, AddKeepsRows
      <3>2. ~AddBlockPanics(c, b)
        BY <2>2, <3>1 DEF AddBlockPanics, MInv, Mirror
      <3> QED
        BY <3>1, <3>2, StoreKeepsMirror DEF MInv
    <2> QED
      BY <1>2, <1>3, <2>1, <2>3, <2>4, GoodIsPlaced DEF Verdict
  <1>4. ASSUME NEW b \in Blocks, status = "up", Verdict(b) = "Fork", ReplaceBlock(b) PROVE MInv'
    <2>1. KeptChain(chain) /\ KeptTop(chain)
      BY <1>4 DEF GInv
    <2>2. /\ b.index \in 0..n
          /\ b.index > 1 => b.prev_block_hash = chain.blocks[b.index - 1].hash
      BY <1>2, <1>4, <2>1, ForkIsPlaced DEF Verdict
    <2>3. /\ KeptChain(AfterCheck(b))
          /\ AfterCheck(b).blocks = chain.blocks /\ AfterCheck(b).domains = chain.domains
      BY <1>4, AfterCheckIsKept
    <2> DEFINE f == Below(chain.blocks, b.index)
               g == Below(chain.domains, b.index)
    <2>4. chain'.blocks = Insert(f, b.index, b) /\ chain'.domains = DomainsWith(g, b)
      BY <1>2, <1>4, <2>2, <2>3, ReplaceKeepsRows DEF ReplaceBlock
    <2>5. Mirror(f, g)
      BY TruncateKeepsMirror DEF MInv
    <2>6. b.index \notin DOMAIN f
      BY <2>2 DEF Below
    <2> HIDE DEF f, g
    <2>7. Mirror(Insert(f, b.index, b), DomainsWith(g, b))
      BY <2>5, <2>6, StoreKeepsMirror
    <2> QED
      BY <2>4, <2>7 DEF MInv
  <1>5. ASSUME NEW b \in Blocks, status = "up", DropBlock(b) \/ EndSync(b) \/ Hang PROVE MInv'
    <2>1. /\ AfterCheck(b) \in RowValues
          /\ AfterCheck(b).blocks = chain.blocks /\ AfterCheck(b).domains = chain.domains
      BY <1>5, AfterCheckIsKept DEF KeptChain
    <2>2. EndSync(b) => Same
      BY <2>1 DEF EndSync, RowValues
    <2>3. DropBlock(b) \/ Hang => Same
      BY <2>1 DEF DropBlock, Hang
    <2> QED
      BY <1>1, <1>5, <2>2, <2>3
  <1>6. ASSUME NEW b \in Blocks, BlockArrives(b) PROVE MInv'
    BY <1>3, <1>4, <1>5, <1>6 DEF BlockArrives
  <1>7. CASE GetSignBlock
    <2>1. chain' = chain \/ \E s : chain' = [chain EXCEPT !.signers = s]
      BY <1>7 DEF GetSignBlock, Hang, SignersCached
    <2>2. Same
      BY <2>1 DEF GInv, KeptChain, RowValues
    <2> QED
      BY <1>1, <2>2
  <1>8. ASSUME NEW h \in PeerHeights, update_max_height(h) PROVE MInv'
    <2>1. Same
      BY <1>8 DEF update_max_height, GInv, KeptChain, RowValues
    <2> QED
      BY <1>1, <2>1
  <1>9. CASE Tick \/ Stop \/ UNCHANGED vars
    <2>1. Same
      BY <1>9 DEF Tick, Stop, Halted, EmptyChain, vars
    <2> QED
      BY <1>1, <2>1
  <1>10. CASE Start
    <2> DEFINE c == init_db(chain.blocks, chain.domains)
               d == check_chain(c, CheckBlocks, now)
               fault == FirstFault(c, CheckBlocks, now)
    <2>1. /\ KeptChain(c) /\ Top(c) /\ c.blocks = chain.blocks /\ c.domains = chain.domains
          /\ CheckBlocks \in Nat \ {0}
      BY <1>2, StartFindsRows
    <2>2. chain' \in {c, d}
      BY <1>10 DEF Start
    <2> HIDE DEF c
    <2>3. /\ d.blocks = IF fault > n THEN c.blocks ELSE Below(c.blocks, fault)
          /\ d.domains = IF fault > n THEN c.domains ELSE Below(c.domains, fault)
      BY <1>2, <2>1, CheckChainKeepsRows, Zenon
    <2> HIDE DEF d, fault
    <2>4. Mirror(d.blocks, d.domains)
      BY <2>1, <2>3, TruncateKeepsMirror DEF MInv
    <2> QED
      BY <2>1, <2>2, <2>4 DEF MInv
  <1> QED
    BY <1>6, <1>7, <1>8, <1>9, <1>10 DEF Next

(* Without a crash a row 0 stays, so a state without one has come from a   *)
(* state without one.                                                      *)
LEMMA StrayStays ==
    ASSUME GInv, [Next]_vars, Stray' = NoBlock
    PROVE  GInv' /\ Stray = NoBlock /\ IInv /\ IInv'
  <1>1. [CrashNext]_vars
    BY DEF CrashNext
  <1>2. GInv' /\ (Stray # NoBlock => status' = "down" /\ rewritten')
    BY <1>1, StepIsMapped DEF Mapped
  <1>3. status' = "down" => chain'.blocks = chain.blocks
    <2>1. ASSUME NEW b \in Blocks, BlockArrives(b) PROVE status' # "down"
      BY <2>1 DEF BlockArrives, AddBlock, ReplaceBlock, DropBlock, EndSync, Hang
    <2>2. GetSignBlock \/ Start \/ (\E h \in PeerHeights : update_max_height(h)) => status' # "down"
      BY DEF GetSignBlock, Hang, Start, update_max_height
    <2>3. Tick \/ Stop \/ UNCHANGED vars => chain'.blocks = chain.blocks
      BY DEF Tick, Stop, Halted, EmptyChain, vars
    <2> QED
      BY <2>1, <2>2, <2>3 DEF Next
  <1>4. chain'.blocks = chain.blocks => Stray' = Stray
    BY DEF Stray, get_block
  <1>5. Stray = NoBlock
    BY <1>2, <1>3, <1>4
  <1>6. IInv
    BY <1>5, IInvIsGInvWithoutStray
  <1>7. IInv'
    <2>1. KeptChain(chain') /\ get_block(chain', 0) = NoBlock
      BY <1>2 DEF GInv, Stray
    <2>2. 0 \notin DOMAIN chain'.blocks
      BY <2>1, RowZero
    <2> QED
      BY <1>2, <2>1, <2>2, SoundIsKept DEF GInv, IInv
  <1> QED
    BY <1>2, <1>5, <1>6, <1>7

(* The two invariants hold together with the chain's.                      *)
LEMMA DomainsInOrder == Spec => [](GInv /\ MInv /\ KInv)
  <1>1. Init => GInv /\ MInv /\ KInv
    <2>1. Init => DInv /\ MInv
      BY DEF Init, EmptyChain, DInv, MInv, Mirror, Kept
    <2> QED
      BY <2>1, InitIsSound DEF KInv
  <1>2. GInv /\ MInv /\ KInv /\ [Next]_vars => GInv' /\ MInv' /\ KInv'
    <2>1. [Next]_vars => [CrashNext]_vars
      BY DEF CrashNext
    <2>2. GInv /\ [Next]_vars => GInv'
      BY <2>1, StepIsMapped DEF Mapped
    <2>3. ASSUME GInv, KInv, [Next]_vars, Stray' = NoBlock PROVE DInv'
      BY <2>3, StrayStays, StepKeepsDomains DEF KInv
    <2> QED
      BY <2>2, <2>3, StepKeepsMirror DEF KInv
  <1> QED
    BY <1>1, <1>2, PTL DEF Spec

(* The domains table has a row for each domain block and for no other,     *)
(* with the owner and time of that block, over forks and restarts          *)
(* (add_transaction_to_table, truncate_db_from_block).                     *)
THEOREM DomainsAlwaysMirrorBlocks == Spec => []DomainsMirrorBlocks
  <1>1. MInv => DomainsMirrorBlocks
    BY DInvIsTheInvariants
  <1> QED
    BY <1>1, DomainsInOrder, PTL

(* As long as there is no row 0, nobody but its owner changes a domain     *)
(* before its lifetime and renewal time are over, whatever forks win and   *)
(* however often the node restarts, unless the two blocks are neighbours   *)
(* (is_id_available, check_block).                                         *)
THEOREM OwnershipIsKept == Spec => []OwnershipKept
  <1>1. KInv => OwnershipKept
    BY DInvIsTheInvariants
  <1> QED
    BY <1>1, DomainsInOrder, PTL
=============================================================================

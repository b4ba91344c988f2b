----------------------------- MODULE ChainRules -----------------------------
(***************************************************************************)
(* What blockchain/chain.rs computes on a Chain value, as operators on a   *)
(* record c:                                                               *)
(*   blocks, domains   the two tables, functions from row ids to rows      *)
(*   last_block, last_full_block, signers    caches kept in memory         *)
(*   max_height        the greatest height a peer has claimed              *)
(* The state machines that own such a value are in Chain.tla.              *)
(***************************************************************************)
EXTENDS Block, FiniteSetsExt

CONSTANTS
    BLOCK_SIGNERS_START, BLOCK_SIGNERS_ALL, BLOCK_SIGNERS_MIN,
    LIMITED_CONFIDENCE_DEPTH, BLOCKS_WITHOUT_DISCOUNT,
    NEW_DOMAINS_INTERVAL, DOMAIN_LIFETIME, DOMAIN_RENEW_TIME, ONE_WEEK,
    CLOCK_SKEW,          \* 60 seconds: tolerated skew, and the wait before signing
    SIGNERS_MITIGATION,  \* 5000 probes before the tail is divided by 13
    SIGNERS_RAMP,        \* 855: from here on a signer needs more blocks,
    SIGNERS_RAMP_STEP,   \* 100: one for each so many blocks of height
    U64                  \* 2^64, the modulus of unsigned subtraction

ASSUME RulesAssumption ==
    /\ BLOCK_SIGNERS_START \in Nat \ {0, 1}
    /\ BLOCK_SIGNERS_ALL \in Nat /\ BLOCK_SIGNERS_MIN \in 1..BLOCK_SIGNERS_ALL
    /\ LIMITED_CONFIDENCE_DEPTH \in Nat /\ BLOCKS_WITHOUT_DISCOUNT \in Nat
    /\ NEW_DOMAINS_INTERVAL \in Nat /\ DOMAIN_LIFETIME \in Nat
    /\ DOMAIN_RENEW_TIME \in Nat /\ ONE_WEEK \in Nat \ {0}
    /\ CLOCK_SKEW \in Nat /\ SIGNERS_MITIGATION \in Nat
    /\ SIGNERS_RAMP \in Nat /\ SIGNERS_RAMP_STEP \in Nat \ {0}
    /\ U64 \in Nat \ {0}
    /\ \A b \in Blocks : b.index < U64   \* Block.index is a u64

Rows == [timestamp : Nat, identity : Identities, signing : Keys]

NoRow == [timestamp |-> 0, signing |-> NoKey]

NoSigners == [index |-> 0, signers |-> {}]

(* Subtraction of two u64 in a release build, which wraps.                 *)
Minus(x, y) == (x - y) % U64

-----------------------------------------------------------------------------
(* Reading the tables.  Ids are bound as i64: the id below a block of      *)
(* index 0 is -1, although the u64 has wrapped, and no row has it.         *)

get_block(c, i) == IF i \in DOMAIN c.blocks THEN c.blocks[i] ELSE NoBlock

get_height(c) == IF c.last_block = NoBlock THEN 0 ELSE c.last_block.index

(* The full block of greatest id below before, in the table                *)
(* (SQL_GET_LAST_FULL_BLOCK, ..._FOR_KEY with keys a singleton).           *)
StoredFullBlock(c, before, keys) ==
    LET ids == {i \in DOMAIN c.blocks : /\ i < before
                                        /\ IsFull(c.blocks[i])
                                        /\ c.blocks[i].pub_key \in keys}
    IN  IF ids = {} THEN NoBlock ELSE c.blocks[Max(ids)]

(* Mutant: the cached block answers without a look at its index.           *)
get_last_full_block_AnyIndex(c, before, keys) ==
    IF c.last_full_block # NoBlock /\ c.last_full_block.pub_key \in keys
    THEN c.last_full_block
    ELSE StoredFullBlock(c, before, keys)

(* The cached block answers before the table does.                         *)
get_last_full_block(c, before, keys) ==
    IF /\ c.last_full_block # NoBlock
       /\ c.last_full_block.index < before
       /\ c.last_full_block.pub_key \in keys
    THEN c.last_full_block
    ELSE StoredFullBlock(c, before, keys)

load_last_block(c) ==
    IF DOMAIN c.blocks = {} THEN NoBlock ELSE c.blocks[Max(DOMAIN c.blocks)]

(* SQL_GET_DOMAIN_BY_ID: the newest row of an identity, of id below before.*)
LastRow(c, identity, before) ==
    LET ids == {i \in DOMAIN c.domains : /\ i < before
                                         /\ c.domains[i].identity = identity}
    IN  IF ids = {} THEN NoRow ELSE c.domains[Max(ids)]

is_domain_in_blockchain(c, height, identity) ==
    LastRow(c, identity, height) # NoRow

DomainState(row, time) ==
    CASE row = NoRow -> "NotFound"
      [] row # NoRow /\ row.timestamp + DOMAIN_LIFETIME >= time -> "Alive"
      [] /\ row # NoRow
         /\ row.timestamp + DOMAIN_LIFETIME < time
         /\ row.timestamp + DOMAIN_LIFETIME + DOMAIN_RENEW_TIME >= time -> "Expired"
      [] OTHER -> "Free"

(* Mutant: an expired domain is free at once.                              *)
is_id_available_NoRenewal(c, height, time, identity, key) ==
    LET row == LastRow(c, identity, height)
    IN  row.signing = key \/ DomainState(row, time) \in {"NotFound", "Expired", "Free"}

is_id_available(c, height, time, identity, key) ==
    LET row == LastRow(c, identity, height)
    IN  row.signing = key \/ DomainState(row, time) \in {"NotFound", "Free"}

(* Mutant: the interval is one short.                                      *)
can_mine_identity_OneShort(c, identity, height, time, key) ==
    LET last == get_last_full_block(c, height, {key})
    IN  \/ last = NoBlock
        \/ is_domain_in_blockchain(c, height, identity)
        \/ last.timestamp + NEW_DOMAINS_INTERVAL <= time + 1

(* can_mine_identity = Fine: a key's new domains are a day apart.          *)
can_mine_identity(c, identity, height, time, key) ==
    LET last == get_last_full_block(c, height, {key})
    IN  \/ last = NoBlock
        \/ is_domain_in_blockchain(c, height, identity)
        \/ last.timestamp + NEW_DOMAINS_INTERVAL <= time

-----------------------------------------------------------------------------
(* The work a block must show.                                             *)

(* i64 division rounds towards zero.                                       *)
WeeksBetween(from, to) ==
    IF to >= from THEN (to - from) \div ONE_WEEK
                  ELSE -((from - to) \div ONE_WEEK)

get_identity_discount(c, identity, height, time) ==
    LET row == LastRow(c, identity, height)
    IN  IF row = NoRow \/ row.timestamp < time - DOMAIN_LIFETIME THEN 0
        ELSE IF get_height(c) < BLOCKS_WITHOUT_DISCOUNT THEN 1
        ELSE Min({WeeksBetween(row.timestamp, time), 7}) + 1

NeededDifficulty(c, b) ==
    CASE ~IsFull(b) /\ b.index = 1 -> ORIGIN_DIFFICULTY
      [] ~IsFull(b) /\ b.index # 1 -> SIGNER_DIFFICULTY
      [] IsDomain(b) -> DOMAIN_DIFFICULTY -
            get_identity_discount(c, b.transaction.identity, b.index, b.timestamp)
      [] OTHER -> ORIGIN_DIFFICULTY

(* u32::MAX is asked of data that does not parse and of unknown classes:   *)
(* no hash has that many zero bits.                                        *)
WorkIsBad(c, b) ==
    \/ IsDomain(b) /\ b.transaction.data = "malformed"
    \/ IsFull(b) /\ b.transaction.class = "unknown"
    \/ b.difficulty < NeededDifficulty(c, b)
    \/ b.hash_bits < b.difficulty
    \/ ~b.hash_good
    \/ ~b.signature_good

-----------------------------------------------------------------------------
(* Who may sign a full block.                                              *)

MinimumBlockCount(full) ==
    IF full.index < SIGNERS_RAMP THEN 1 ELSE full.index \div SIGNERS_RAMP_STEP

get_user_block_count(c, key, before) ==
    Cardinality({i \in DOMAIN c.blocks : i < before /\ c.blocks[i].pub_key = key})

(* The keys with enough blocks below the full block to be its signers.     *)
Seasoned(c, full) ==
    {k \in Keys : get_user_block_count(c, k, full.index) >= MinimumBlockCount(full)}

ProbedRow(tail, count, window) == 1 + (((tail * count) % U64) % window)

(* The row of 1..window that the search looks at for each count.  Rows of  *)
(* keys that are not seasoned are skipped; the first row that is not, once *)
(* count has reached SIGNERS_MITIGATION, makes the search go on with       *)
(* another tail.  As long as tail * count stays below U64 the rows repeat  *)
(* with a period of at most window, so no more probes than these find      *)
(* another key; a search that would need a product that has wrapped is     *)
(* taken as endless.                                                       *)
Probes(c, full) ==
    LET window    == full.index - 1
        tail      == full.signature
        unskipped == {n \in SIGNERS_MITIGATION..(SIGNERS_MITIGATION + window) :
                        c.blocks[ProbedRow(tail, n, window)].pub_key \in Seasoned(c, full)}
    IN  [n \in 1..(SIGNERS_MITIGATION + 2 * full.index) |->
            ProbedRow(IF \E m \in unskipped : m < n THEN tail \div 13 ELSE tail, n, window)]

(* Every key the search can find, with the probe that finds it first.      *)
FirstProbes(c, full) ==
    LET probes == Probes(c, full)
        keyAt  == [n \in DOMAIN probes |-> c.blocks[probes[n]].pub_key]
        found  == {keyAt[n] : n \in DOMAIN probes} \cap (Seasoned(c, full) \ {full.pub_key})
    IN  [k \in found |-> Min({n \in DOMAIN probes : keyAt[n] = k})]

(* The loop ends only when it has BLOCK_SIGNERS_ALL keys.                  *)
SearchEnds(c, full) ==
    Cardinality(DOMAIN FirstProbes(c, full)) >= BLOCK_SIGNERS_ALL

SearchedSigners(c, full) ==
    LET first == FirstProbes(c, full)
    IN  {k \in DOMAIN first :
            Cardinality({j \in DOMAIN first : first[j] < first[k]}) < BLOCK_SIGNERS_ALL}

SearchNeeded(c, full) ==
    /\ full.index >= BLOCK_SIGNERS_START
    /\ get_height(c) >= full.index
    /\ ~(c.signers.index = full.index /\ c.signers.signers # {})

get_block_signers(c, full) ==
    IF full.index < BLOCK_SIGNERS_START \/ get_height(c) < full.index THEN {}
    ELSE IF SearchNeeded(c, full) THEN SearchedSigners(c, full)
    ELSE c.signers.signers

(* A search leaves its result in the cache.                                *)
SignersCached(c, full) ==
    [c EXCEPT !.signers = [index |-> full.index, signers |-> SearchedSigners(c, full)]]

(* Mutant: the loop over the signatures leaves out the newest.             *)
is_good_signer_for_block_OneShort(c, b, full) ==
    /\ b.pub_key \in get_block_signers(c, full)
    /\ \A i \in (full.index + 1)..(b.index - 2) : c.blocks[i].pub_key # b.pub_key

is_good_signer_for_block(c, b, full) ==
    /\ b.pub_key \in get_block_signers(c, full)
    /\ \A i \in (full.index + 1)..(b.index - 1) : c.blocks[i].pub_key # b.pub_key

is_good_sign_block(c, b, full) ==
    \/ IsFull(b)
    \/ full = NoBlock
    \/ LET sign_count == Minus(get_height(c), full.index)
       IN  CASE sign_count < BLOCK_SIGNERS_MIN ->
                   /\ ~(b.index > full.index /\ IsFull(b))
                   /\ is_good_signer_for_block(c, b, full)
             [] sign_count \in BLOCK_SIGNERS_MIN..(BLOCK_SIGNERS_ALL - 1) ->
                   IsFull(b) \/ is_good_signer_for_block(c, b, full)
             [] OTHER -> TRUE

(* is_good_sign_block asks for the signers of full and none are cached.    *)
AsksForSearch(c, b, full) ==
    /\ b.index > BLOCK_SIGNERS_START
    /\ ~IsFull(b)
    /\ full # NoBlock
    /\ Minus(get_height(c), full.index) < BLOCK_SIGNERS_ALL
    /\ SearchNeeded(c, full)

-----------------------------------------------------------------------------
(* check_block.                                                            *)

TransactionAllowed(c, b, now) ==
    LET t == b.transaction
    IN  /\ b.pub_key \in StrongKeys
        /\ is_id_available(c, b.index - 1, now, t.identity, b.pub_key)
        /\ can_mine_identity(c, t.identity, b.index, b.timestamp, b.pub_key)
        /\ ~(IsDomain(b) /\ t.data = "forbidden")

(* The checks before the signers are asked for.                            *)
Screen(c, b, last, now) ==
    IF \/ b.version > CHAIN_VERSION
       \/ b.hash \in WRONG_HASHES
       \/ b.timestamp > now + CLOCK_SKEW THEN "Bad"
    ELSE IF last # NoBlock /\ b.index > last.index + 1 THEN "Future"
    ELSE IF WorkIsBad(c, b) THEN "Bad"
    ELSE IF /\ get_block(c, b.index - 1) # NoBlock
            /\ b.prev_block_hash # get_block(c, b.index - 1).hash
         THEN IF b.index < Minus(get_height(c), LIMITED_CONFIDENCE_DEPTH)
              THEN "Bad" ELSE "Rewind"
    ELSE IF IsFull(b) /\ ~TransactionAllowed(c, b, now) THEN "Bad"
    ELSE IF last = NoBlock
         THEN IF ~is_genesis(b) THEN "Future"
              ELSE IF Origin # NoHash /\ b.hash # Origin THEN "Bad" ELSE "Good"
    ELSE IF b.timestamp < last.timestamp /\ b.index > last.index THEN "Bad"
    ELSE "Pass"

(* What is left once the block has passed both.                            *)
Placement(c, b, last) ==
    IF b.index <= last.index
    THEN IF get_block(c, b.index) = NoBlock THEN "Good"
         ELSE IF get_block(c, b.index).hash = b.hash THEN "Twin" ELSE "Fork"
    ELSE IF b.prev_block_hash # last.hash THEN "Bad" ELSE "Good"

(* "Endless" is no verdict of the code: the search for signers never ends. *)
check_block(c, b, last, full, now) ==
    LET screen == Screen(c, b, last, now)
    IN  IF screen # "Pass" THEN screen
        ELSE IF AsksForSearch(c, b, full) /\ ~SearchEnds(c, full) THEN "Endless"
        ELSE IF b.index > BLOCK_SIGNERS_START /\ ~is_good_sign_block(c, b, full) THEN "Bad"
        ELSE Placement(c, b, last)

check_new_block(c, b, now) == check_block(c, b, c.last_block, c.last_full_block, now)

(* A check changes nothing but the cache of signers.                       *)
Searches(c, b, last, full, now) ==
    AsksForSearch(c, b, full) /\ Screen(c, b, last, now) = "Pass"

Checked(c, b, last, full, now) ==
    IF Searches(c, b, last, full, now) THEN SignersCached(c, full) ELSE c

-----------------------------------------------------------------------------
(* Changing the tables.                                                    *)

Insert(f, i, row) == [j \in DOMAIN f \cup {i} |-> IF j = i THEN row ELSE f[j]]

Below(f, i) == [j \in {k \in DOMAIN f : k < i} |-> f[j]]

(* Mutant: a signing block is cached as full too.                          *)
add_block_to_table_CachesAny(c, b) ==
    [c EXCEPT !.blocks = Insert(c.blocks, b.index, b), !.last_block = b, !.last_full_block = b]

(* Mutant: a full block is not cached.                                     *)
add_block_to_table_CachesNone(c, b) ==
    [c EXCEPT !.blocks = Insert(c.blocks, b.index, b), !.last_block = b]

add_block_to_table(c, b) ==
    [c EXCEPT !.blocks = Insert(c.blocks, b.index, b),
              !.last_block = b,
              !.last_full_block = IF IsFull(b) THEN b ELSE c.last_full_block]

RowOf(b) ==
    [timestamp |-> b.timestamp,
     identity  |-> b.transaction.identity,
     signing   |-> IF b.transaction.signing = NoKey THEN b.pub_key
                                                    ELSE b.transaction.signing]

add_transaction_to_table(c, b) ==
    [c EXCEPT !.domains = IF IsDomain(b) THEN Insert(c.domains, b.index, RowOf(b))
                                         ELSE c.domains]

(* The insertion of a row fails when its id is taken: add_block panics on  *)
(* the domain row and only warns on the block row.                         *)
AddBlockPanics(c, b) ==
    b.index \notin DOMAIN c.blocks /\ IsDomain(b) /\ b.index \in DOMAIN c.domains

add_block(c, b) ==
    IF b.index \in DOMAIN c.blocks THEN c
    ELSE IF AddBlockPanics(c, b) THEN add_block_to_table(c, b)
    ELSE add_transaction_to_table(add_block_to_table(c, b), b)

(* Mutant: the block that is to be replaced stays.                         *)
TruncateBlocks_Above(c, i) == [c EXCEPT !.blocks = Below(c.blocks, i + 1)]

TruncateBlocks(c, i) == [c EXCEPT !.blocks = Below(c.blocks, i)]

(* Mutant: only the blocks are deleted.                                    *)
truncate_db_from_block_KeepsDomains(c, i) == TruncateBlocks(c, i)

truncate_db_from_block(c, i) ==
    [TruncateBlocks(c, i) EXCEPT !.domains = Below(c.domains, i)]

(* Mutant: the signers survive a fork.                                     *)
SignersCleared_Never(c) == c

SignersCleared(c) == [c EXCEPT !.signers = NoSigners]

replace_block(c, b) ==
    add_block(truncate_db_from_block(SignersCleared(c), b.index), b)

-----------------------------------------------------------------------------
(* Opening the database: new, init_db and check_chain.                     *)

EmptyChain(blocks, domains) ==
    [blocks |-> blocks, domains |-> domains, last_block |-> NoBlock,
     last_full_block |-> NoBlock, signers |-> NoSigners, max_height |-> 0]

init_db(blocks, domains) ==
    LET c == EmptyChain(blocks, domains)
    IN  [c EXCEPT !.last_block = load_last_block(c),
                  !.last_full_block = StoredFullBlock(c, Max({0} \cup DOMAIN blocks) + 1, Keys)]

CheckStart(c, count) ==
    IF get_height(c) > count THEN get_height(c) - count + 1 ELSE 1

(* The newest full block the loop has checked before block i; block 1 is   *)
(* not one of them, for the loop leaves its round early.                   *)
FullCheckedBefore(c, count, i, otherwise) ==
    LET ids == {j \in Max({2, CheckStart(c, count)})..(i - 1) : IsFull(c.blocks[j])}
    IN  IF ids = {} THEN otherwise ELSE c.blocks[Max(ids)]

(* The loop's own last_full_block when block i is checked.  A loop that    *)
(* starts with block 1 does not look below it, not even for a row 0.       *)
LoopFullBlock(c, count, i) ==
    LET start == CheckStart(c, count)
        last  == get_block(c, start - 1)
    IN  FullCheckedBefore(c, count, i,
            CASE start = 1 \/ last = NoBlock -> NoBlock
              [] start > 1 /\ last # NoBlock /\ IsFull(last) -> last
              [] OTHER -> get_last_full_block(c, last.index, Keys))

(* The chain as check_block sees it in the round of block i.  The rows do  *)
(* not change, so the cache of signers cannot change a verdict.            *)
InRound(c, count, i) ==
    [c EXCEPT !.last_full_block = FullCheckedBefore(c, count, i, c.last_full_block)]

Recheck(c, count, i, now) ==
    IF i \notin DOMAIN c.blocks THEN "Panic"
    ELSE IF i = 1 THEN IF c.blocks[1].hash = Origin THEN "Good" ELSE "Panic"
    ELSE check_block(InRound(c, count, i), c.blocks[i], get_block(c, i - 1),
                     LoopFullBlock(c, count, i), now)

(* The first round that does not find its block good, one past the last    *)
(* block when there is none.                                               *)
FirstFault(c, count, now) ==
    Min({i \in CheckStart(c, count)..get_height(c) : Recheck(c, count, i, now) # "Good"}
          \cup {get_height(c) + 1})

(* The rounds up to the first fault that asked for signers.                *)
RoundsAskingForSigners(c, count, now) ==
    {i \in Max({2, CheckStart(c, count)})..Min({FirstFault(c, count, now), get_height(c)}) :
        Searches(InRound(c, count, i), c.blocks[i], get_block(c, i - 1),
                 LoopFullBlock(c, count, i), now)}

SignersAfterCheck(c, count, now) ==
    LET rounds == RoundsAskingForSigners(c, count, now)
    IN  IF rounds = {} THEN c.signers
        ELSE SignersCached(c, LoopFullBlock(c, count, Max(rounds))).signers

(* How the loop ends: Good, Endless, Panic, or any verdict that makes it   *)
(* truncate the tables.                                                    *)
CheckOutcome(c, count, now) ==
    IF FirstFault(c, count, now) > get_height(c) THEN "Good"
    ELSE Recheck(c, count, FirstFault(c, count, now), now)

check_chain(c, count, now) ==
    LET fault == FirstFault(c, count, now)
        seen  == [InRound(c, count, fault) EXCEPT !.signers = SignersAfterCheck(c, count, now)]
        kept  == IF fault > get_height(c) THEN seen ELSE truncate_db_from_block(seen, fault)
    IN  [kept EXCEPT !.last_block = load_last_block(kept),
                     !.last_full_block =
                        IF kept.last_full_block # NoBlock THEN kept.last_full_block
                        ELSE StoredFullBlock(kept, fault, Keys)]

-----------------------------------------------------------------------------
(* Producing signing blocks.                                               *)

(* get_sign_block gets as far as asking for the signers.                   *)
ReadyToSign(c, keys, now) ==
    /\ get_height(c) >= BLOCK_SIGNERS_START
    /\ keys # {}
    /\ get_height(c) >= c.max_height
    /\ c.last_full_block # NoBlock
    /\ Minus(get_height(c), c.last_full_block.index) < BLOCK_SIGNERS_MIN
    /\ c.last_block.timestamp + CLOCK_SKEW <= now

(* Mutant: a key that has signed is not left out.                          *)
SigningKeys_Again(c, keys) == keys \cap get_block_signers(c, c.last_full_block)

(* The node's keys that get_sign_block chooses from.                       *)
SigningKeys(c, keys) ==
    {k \in keys \cap get_block_signers(c, c.last_full_block) :
        \A i \in c.last_full_block.index..get_height(c) : c.blocks[i].pub_key # k}
=============================================================================

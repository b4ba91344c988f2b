-------------------------- MODULE ChainRulesProofs --------------------------
(***************************************************************************)
(* Lemmas about the operators of ChainRules, for every set of blocks, keys *)
(* and hashes and every value of the protocol's numbers: what reading,     *)
(* checking, adding, truncating and opening do to a chain value.  The      *)
(* proofs about the machines that own such a value build on them.          *)
(***************************************************************************)
EXTENDS ChainRules, Sequences, SequenceTheorems, FiniteSetTheorems, WellFoundedInduction, TLAPS

-----------------------------------------------------------------------------
(* Least and greatest elements.                                            *)

(* A non-empty set of naturals has a least element.                        *)
LEMMA LeastNatural ==
    ASSUME NEW S \in SUBSET Nat, S # {}
    PROVE  \E x \in S : \A y \in S : x <= y
  <1>1. PICK x \in S : \A y \in S : ~ (<<y, x>> \in OpToRel(<, Nat))
    BY NatLessThanWellFounded, WFMin
  <1>2. ASSUME NEW y \in S  PROVE x <= y
    <2>1. ~ (<<y, x>> \in OpToRel(<, Nat))
      BY <1>1
    <2>2. ~ (y < x)
      BY <2>1 DEF OpToRel
    <2> QED
      BY <2>2
  <1> QED
    BY <1>2

(* Min of a non-empty set of naturals is its least element.                *)
LEMMA MinNatural ==
    ASSUME NEW S \in SUBSET Nat, S # {}
    PROVE  Min(S) \in S /\ \A y \in S : Min(S) <= y
  BY LeastNatural DEF Min

(* Max of a bounded, non-empty set of naturals is its greatest element.    *)
LEMMA MaxNatural ==
    ASSUME NEW n \in Nat, NEW S \in SUBSET (0..n), S # {}
    PROVE  Max(S) \in S /\ \A y \in S : y <= Max(S)
  <1> DEFINE T == {m \in Nat : \A y \in S : y <= m}
  <1>1. n \in T
    OBVIOUS
  <1>2. PICK m \in T : \A k \in T : m <= k
    BY <1>1, LeastNatural
  <1>3. m \in S
    <2>1. CASE m = 0
      <3>1. PICK y \in S : TRUE
        OBVIOUS
      <3>2. y = m
        BY <3>1, <2>1, <1>2
      <3> QED
        BY <3>2
    <2>2. CASE m # 0
      <3>1. m - 1 \in Nat /\ m - 1 \notin T
        BY <1>2, <2>2
      <3>2. PICK y \in S : ~ (y <= m - 1)
        BY <3>1
      <3>3. y = m
        BY <3>2, <1>2
      <3> QED
        BY <3>3
    <2> QED
      BY <2>1, <2>2
  <1>4. \E x \in S : \A y \in S : x >= y
    BY <1>2, <1>3
  <1> QED
    BY <1>4 DEF Max

(* Max of an interval from 1 is its upper end.                             *)
LEMMA MaxInterval ==
    ASSUME NEW n \in Nat, n >= 1
    PROVE  Max(1..n) = n
  <1>1. (1..n) \in SUBSET (0..n) /\ n \in 1..n
    OBVIOUS
  <1>2. Max(1..n) \in 1..n /\ n <= Max(1..n)
    BY <1>1, MaxNatural
  <1> QED
    BY <1>2
-----------------------------------------------------------------------------
(* The values a Chain can have.                                            *)

BlockTables == UNION {[1..n -> Blocks] : n \in Nat}

DomainTables == UNION {[D -> Rows] : D \in SUBSET Nat}

FullBlocks == {b \in Blocks : IsFull(b)}

SignerCaches == [index : Nat, signers : SUBSET Keys]

ChainValues ==
    [blocks          : BlockTables,
     domains         : DomainTables,
     last_block      : Blocks \cup {NoBlock},
     last_full_block : FullBlocks \cup {NoBlock},
     signers         : SignerCaches,
     max_height      : Nat]

LinkedBlocks(f) ==
    \A i \in DOMAIN f :
        /\ f[i].index = i
        /\ i > 1 => f[i].prev_block_hash = f[i - 1].hash

SoundChain(c) == c \in ChainValues /\ LinkedBlocks(c.blocks)

Top(c) == c.last_block = load_last_block(c)

(* A block is not the absent block.                                        *)
LEMMA BlockFacts ==
    ASSUME NEW b \in Blocks
    PROVE  b # NoBlock /\ b \in BlockRecords /\ b.index \in Nat
  BY BlocksAssumption, AbsentAssumption DEF BlockRecords

(* A block of index 0 may lie below the rows of a chain: tables of the     *)
(* rows from 1 to n, with or without a row 0, and the chain values that    *)
(* have such tables.                                                       *)
RowsTo(n) == [1..n -> Blocks] \cup [0..n -> Blocks]

RowTables == UNION {RowsTo(n) : n \in Nat}

RowValues ==
    [blocks          : RowTables,
     domains         : DomainTables,
     last_block      : Blocks \cup {NoBlock},
     last_full_block : FullBlocks \cup {NoBlock},
     signers         : SignerCaches,
     max_height      : Nat]

(* The rows of the chain itself.                                           *)
Upper(f) == [i \in DOMAIN f \ {0} |-> f[i]]

KeptChain(c) ==
    /\ c \in RowValues /\ LinkedBlocks(Upper(c.blocks))
    /\ 0 \in DOMAIN c.blocks => c.blocks[0].index = 0

KeptTop(c) ==
    \/ c.last_block = load_last_block(c)
    \/ 0 \in DOMAIN c.blocks /\ c.last_block = c.blocks[0]

(* The rows of such a table.                                               *)
LEMMA RowsToFacts ==
    ASSUME NEW n \in Nat, NEW f \in RowsTo(n)
    PROVE  /\ DOMAIN f = 1..n \/ DOMAIN f = 0..n
           /\ \A i \in DOMAIN f : f[i] \in Blocks /\ i \in 0..n
           /\ \A i \in 1..n : i \in DOMAIN f
           /\ Upper(f) \in [1..n -> Blocks]
           /\ \A i \in 1..n : Upper(f)[i] = f[i]
           /\ f \in RowTables
           /\ 0 \notin DOMAIN f => f \in [1..n -> Blocks] /\ Upper(f) = f
  <1>1. DOMAIN f = 1..n \/ DOMAIN f = 0..n
    BY DEF RowsTo
  <1>2. /\ \A i \in DOMAIN f : f[i] \in Blocks /\ i \in 0..n
        /\ \A i \in 1..n : i \in DOMAIN f
    BY <1>1 DEF RowsTo
  <1>3. DOMAIN f \ {0} = 1..n
    BY <1>1
  <1>4. Upper(f) = [i \in 1..n |-> f[i]]
    BY <1>3 DEF Upper
  <1>5. f \in RowTables
    BY DEF RowTables
  <1>6. 0 \notin DOMAIN f => f \in [1..n -> Blocks] /\ Upper(f) = f
    <2>1. ASSUME f \in [0..n -> Blocks] PROVE 0 \in DOMAIN f
      BY <2>1
    <2>2. ASSUME f \in [1..n -> Blocks] PROVE f = [i \in 1..n |-> f[i]]
      BY <2>2
    <2> QED
      BY <1>4, <2>1, <2>2 DEF RowsTo
  <1> QED
    BY <1>1, <1>2, <1>4, <1>5, <1>6

(* A chain without a row 0 is one of them, and one of them without a row 0 *)
(* is a chain.                                                             *)
LEMMA SoundIsKept ==
    ASSUME NEW c
    PROVE  /\ SoundChain(c) <=> KeptChain(c) /\ 0 \notin DOMAIN c.blocks
           /\ Top(c) => KeptTop(c)
           /\ KeptTop(c) /\ 0 \notin DOMAIN c.blocks => Top(c)
  <1>1. ASSUME SoundChain(c) PROVE KeptChain(c) /\ 0 \notin DOMAIN c.blocks
    <2>1. PICK n \in Nat : c.blocks \in [1..n -> Blocks]
      BY <1>1 DEF SoundChain, ChainValues, BlockTables
    <2>2. c.blocks \in RowsTo(n) /\ 0 \notin DOMAIN c.blocks
      BY <2>1 DEF RowsTo
    <2>3. c.blocks \in RowTables /\ Upper(c.blocks) = c.blocks
      BY <2>2, RowsToFacts
    <2> QED
      BY <1>1, <2>2, <2>3 DEF SoundChain, ChainValues, KeptChain, RowValues
  <1>2. ASSUME KeptChain(c), 0 \notin DOMAIN c.blocks PROVE SoundChain(c)
    <2>1. PICK n \in Nat : c.blocks \in RowsTo(n)
      BY <1>2 DEF KeptChain, RowValues, RowTables
    <2>2. c.blocks \in [1..n -> Blocks] /\ Upper(c.blocks) = c.blocks
      BY <1>2, <2>1, RowsToFacts
    <2>3. c.blocks \in BlockTables
      BY <2>2 DEF BlockTables
    <2> QED
      BY <1>2, <2>2, <2>3 DEF SoundChain, ChainValues, KeptChain, RowValues
  <1> QED
    BY <1>1, <1>2 DEF Top, KeptTop

(* Any table of blocks is one of these tables.                             *)
LEMMA TablesAreRowTables ==
    ASSUME NEW f \in BlockTables
    PROVE  f \in RowTables
  BY DEF BlockTables, RowTables, RowsTo

-----------------------------------------------------------------------------
(* Reading.                                                                *)

(* The last block loaded from the table is its top row.                    *)
LEMMA LoadLastBlock ==
    ASSUME NEW c, NEW n \in Nat, c.blocks \in [1..n -> Blocks]
    PROVE  load_last_block(c) = IF n = 0 THEN NoBlock ELSE c.blocks[n]
  <1>1. DOMAIN c.blocks = 1..n
    OBVIOUS
  <1>2. (1..n = {}) <=> n = 0
    OBVIOUS
  <1>3. n # 0 => Max(1..n) = n
    BY MaxInterval
  <1> QED
    BY <1>1, <1>2, <1>3 DEF load_last_block

(* With a current last_block, get_height is the number of rows.            *)
LEMMA HeightIsLength ==
    ASSUME NEW c, SoundChain(c), Top(c),
           NEW n \in Nat, c.blocks \in [1..n -> Blocks]
    PROVE  /\ get_height(c) = n
           /\ c.last_block = IF n = 0 THEN NoBlock ELSE c.blocks[n]
  <1>1. c.last_block = IF n = 0 THEN NoBlock ELSE c.blocks[n]
    BY LoadLastBlock DEF Top
  <1>2. CASE n = 0
    BY <1>1, <1>2 DEF get_height
  <1>3. CASE n # 0
    <2>1. n \in DOMAIN c.blocks /\ c.blocks[n] \in Blocks
      BY <1>3
    <2>2. c.blocks[n].index = n /\ c.blocks[n] # NoBlock
      BY <2>1, BlockFacts DEF SoundChain, LinkedBlocks
    <2> QED
      BY <1>1, <1>3, <2>2 DEF get_height
  <1> QED
    BY <1>2, <1>3

(* The table answers with a full block, or none.                           *)
LEMMA StoredFullBlockType ==
    ASSUME NEW c, c.blocks \in RowTables, NEW before, NEW keys
    PROVE  StoredFullBlock(c, before, keys) \in FullBlocks \cup {NoBlock}
  <1> DEFINE ids == {i \in DOMAIN c.blocks : /\ i < before
                                             /\ IsFull(c.blocks[i])
                                             /\ c.blocks[i].pub_key \in keys}
  <1>1. PICK n \in Nat : c.blocks \in RowsTo(n)
    BY DEF RowTables
  <1>2. ids \in SUBSET (0..n)
    BY <1>1, RowsToFacts
  <1>3. ASSUME ids # {} PROVE c.blocks[Max(ids)] \in FullBlocks
    <2>1. Max(ids) \in ids
      BY <1>2, <1>3, MaxNatural
    <2> QED
      BY <1>1, <2>1, RowsToFacts DEF FullBlocks
  <1> QED
    BY <1>3 DEF StoredFullBlock

(* And so does get_last_full_block, with or without its cache.             *)
LEMMA GetLastFullBlockType ==
    ASSUME NEW c, c.blocks \in RowTables, c.last_full_block \in FullBlocks \cup {NoBlock},
           NEW before, NEW keys
    PROVE  get_last_full_block(c, before, keys) \in FullBlocks \cup {NoBlock}
  BY StoredFullBlockType DEF get_last_full_block

-----------------------------------------------------------------------------
(* Checking a block.                                                       *)

(* A search finds public keys.                                             *)
LEMMA SearchedSignersType ==
    ASSUME NEW c, NEW full
    PROVE  SearchedSigners(c, full) \subseteq Keys
  <1>1. DOMAIN FirstProbes(c, full) \subseteq Seasoned(c, full)
    BY DEF FirstProbes
  <1> QED
    BY <1>1 DEF SearchedSigners, Seasoned

(* A check changes nothing but the cache of signers.                       *)
LEMMA CheckedChangesSignersOnly ==
    ASSUME NEW c, c \in RowValues, NEW b, NEW last, NEW now0,
           NEW full \in Blocks \cup {NoBlock}
    PROVE  \E s \in SignerCaches : Checked(c, b, last, full, now0) = [c EXCEPT !.signers = s]
  <1>1. CASE Searches(c, b, last, full, now0)
    <2>1. full \in Blocks
      BY <1>1 DEF Searches, AsksForSearch
    <2>2. [index |-> full.index, signers |-> SearchedSigners(c, full)] \in SignerCaches
      BY <2>1, SearchedSignersType, BlockFacts DEF SignerCaches
    <2> QED
      BY <1>1, <2>2 DEF Checked, SignersCached
  <1>2. CASE ~Searches(c, b, last, full, now0)
    <2>1. c.signers \in SignerCaches /\ c = [c EXCEPT !.signers = c.signers]
      BY DEF RowValues
    <2> QED
      BY <1>2, <2>1 DEF Checked
  <1> QED
    BY <1>1, <1>2

(* Changing the cache of signers keeps a chain as it is.                   *)
LEMMA SignersDoNotMatterToRows ==
    ASSUME NEW c, KeptChain(c), NEW s \in SignerCaches
    PROVE  LET d == [c EXCEPT !.signers = s]
           IN  /\ KeptChain(d)
               /\ d.blocks = c.blocks /\ d.domains = c.domains
               /\ d.last_block = c.last_block /\ d.last_full_block = c.last_full_block
               /\ KeptTop(c) => KeptTop(d)
  BY DEF KeptChain, RowValues, KeptTop, load_last_block

LEMMA SignersDoNotMatter ==
    ASSUME NEW c, SoundChain(c), NEW s \in SignerCaches
    PROVE  LET d == [c EXCEPT !.signers = s]
           IN  /\ SoundChain(d)
               /\ d.blocks = c.blocks /\ d.domains = c.domains
               /\ d.last_block = c.last_block /\ d.last_full_block = c.last_full_block
               /\ Top(c) => Top(d)
  BY DEF SoundChain, ChainValues, Top, load_last_block

(* A block found good continues the chain, unless it claims index 0.       *)
LEMMA GoodContinues ==
    ASSUME NEW c, SoundChain(c), Top(c),
           NEW n \in Nat, c.blocks \in [1..n -> Blocks],
           NEW b \in Blocks, b.index # 0, NEW now0, check_new_block(c, b, now0) = "Good"
    PROVE  b.index = n + 1 /\ (n > 0 => b.prev_block_hash = c.blocks[n].hash)
  <1>1. c.last_block = IF n = 0 THEN NoBlock ELSE c.blocks[n]
    BY HeightIsLength
  <1>2. CASE n = 0
    BY <1>1, <1>2 DEF check_new_block, check_block, Screen, is_genesis
  <1>3. CASE n # 0
    <2>1. c.blocks[n] \in Blocks /\ c.blocks[n].index = n /\ c.blocks[n] # NoBlock
      BY <1>3, BlockFacts DEF SoundChain, LinkedBlocks
    <2>2. /\ Screen(c, b, c.last_block, now0) = "Pass"
          /\ Placement(c, b, c.last_block) = "Good"
          /\ b.index <= n + 1
      BY <1>1, <1>3, <2>1, BlockFacts DEF check_new_block, check_block, Screen
    <2>3. ~ (b.index <= n)
      <3>1. ASSUME b.index <= n PROVE get_block(c, b.index) # NoBlock
        BY <3>1, BlockFacts DEF get_block
      <3> QED
        BY <1>1, <1>3, <2>1, <2>2, <3>1 DEF Placement
    <2> QED
      BY <1>1, <1>3, <2>1, <2>2, <2>3, BlockFacts DEF Placement
  <1> QED
    BY <1>2, <1>3

(* A fork lies within the chain and continues what is below it.            *)
LEMMA ForkContinues ==
    ASSUME NEW c, SoundChain(c), Top(c),
           NEW n \in Nat, c.blocks \in [1..n -> Blocks],
           NEW b \in Blocks, NEW now0, check_new_block(c, b, now0) = "Fork"
    PROVE  /\ b.index \in 1..n
           /\ b.index > 1 => b.prev_block_hash = c.blocks[b.index - 1].hash
  <1>1. c.last_block = IF n = 0 THEN NoBlock ELSE c.blocks[n]
    BY HeightIsLength
  <1>2. /\ Screen(c, b, c.last_block, now0) = "Pass"
        /\ Placement(c, b, c.last_block) = "Fork"
    BY DEF check_new_block, check_block, Screen
  <1>3. n # 0
    BY <1>1, <1>2 DEF Screen
  <1>4. c.blocks[n] \in Blocks /\ c.blocks[n].index = n
    BY <1>3 DEF SoundChain, LinkedBlocks
  <1>5. b.index \in 1..n
    <2>1. b.index <= n /\ get_block(c, b.index) # NoBlock
      BY <1>1, <1>2, <1>3, <1>4, BlockFacts DEF Placement
    <2>2. b.index \in DOMAIN c.blocks
      BY <2>1 DEF get_block
    <2> QED
      BY <2>2
  <1>6. ASSUME b.index > 1
        PROVE  get_block(c, b.index - 1) = c.blocks[b.index - 1] /\ get_block(c, b.index - 1) # NoBlock
    BY <1>5, <1>6, BlockFacts DEF get_block
  <1>7. get_block(c, b.index - 1) # NoBlock =>
            b.prev_block_hash = get_block(c, b.index - 1).hash
    BY <1>2 DEF Screen
  <1> QED
    BY <1>5, <1>6, <1>7

-----------------------------------------------------------------------------
(* Changing the tables.                                                    *)

(* What is below a row is a table.                                         *)
LEMMA BelowIsTable ==
    ASSUME NEW n \in Nat, NEW f \in [1..n -> Blocks], LinkedBlocks(f),
           NEW m \in 1..(n + 1)
    PROVE  /\ Below(f, m) \in [1..(m - 1) -> Blocks]
           /\ \A i \in 1..(m - 1) : Below(f, m)[i] = f[i]
           /\ LinkedBlocks(Below(f, m))
  <1>1. {k \in DOMAIN f : k < m} = 1..(m - 1)
    OBVIOUS
  <1>2. Below(f, m) = [j \in 1..(m - 1) |-> f[j]]
    BY <1>1 DEF Below
  <1> QED
    BY <1>2 DEF LinkedBlocks

(* Inserting a block that continues a table gives a table.                 *)
LEMMA InsertIsTable ==
    ASSUME NEW n \in Nat, NEW f \in [1..n -> Blocks], LinkedBlocks(f),
           NEW b \in Blocks, b.index = n + 1,
           n > 0 => b.prev_block_hash = f[n].hash
    PROVE  /\ Insert(f, b.index, b) \in [1..(n + 1) -> Blocks]
           /\ \A i \in 1..n : Insert(f, b.index, b)[i] = f[i]
           /\ Insert(f, b.index, b)[n + 1] = b
           /\ LinkedBlocks(Insert(f, b.index, b))
  <1>1. DOMAIN f \cup {b.index} = 1..(n + 1)
    OBVIOUS
  <1>2. Insert(f, b.index, b) = [j \in 1..(n + 1) |-> IF j = n + 1 THEN b ELSE f[j]]
    BY <1>1 DEF Insert
  <1> QED
    BY <1>2 DEF LinkedBlocks

(* The row of a domain block is a row.                                     *)
LEMMA RowOfType ==
    ASSUME NEW b \in Blocks, IsDomain(b)
    PROVE  RowOf(b) \in Rows
  <1>1. b \in BlockRecords /\ b.transaction \in Transactions
    BY BlockFacts DEF IsDomain, IsFull, BlockRecords
  <1> QED
    BY <1>1 DEF BlockRecords, Transactions, RowOf, Rows

(* Adding and removing rows of domains.                                    *)
LEMMA DomainTablesClosed ==
    ASSUME NEW f \in DomainTables
    PROVE  /\ \A i \in Nat : \A row \in Rows : Insert(f, i, row) \in DomainTables
           /\ \A i : Below(f, i) \in DomainTables
  <1>1. PICK D \in SUBSET Nat : f \in [D -> Rows]
    BY DEF DomainTables
  <1>2. ASSUME NEW i \in Nat, NEW row \in Rows PROVE Insert(f, i, row) \in DomainTables
    <2>1. Insert(f, i, row) \in [D \cup {i} -> Rows]
      BY <1>1 DEF Insert
    <2> QED
      BY <2>1 DEF DomainTables
  <1>3. ASSUME NEW i PROVE Below(f, i) \in DomainTables
    <2>1. Below(f, i) \in [{k \in D : k < i} -> Rows]
      BY <1>1 DEF Below
    <2> QED
      BY <2>1 DEF DomainTables
  <1> QED
    BY <1>2, <1>3

(* The rows of domains once block b has been added.                        *)
DomainsWith(g, b) == IF IsDomain(b) THEN Insert(g, b.index, RowOf(b)) ELSE g

(* add_block makes a block that continues the chain its new top.           *)
LEMMA AddBlockKeepsChain ==
    ASSUME NEW c, SoundChain(c), NEW n \in Nat, c.blocks \in [1..n -> Blocks],
           NEW b \in Blocks, b.index = n + 1,
           n > 0 => b.prev_block_hash = c.blocks[n].hash
    PROVE  /\ SoundChain(add_block(c, b))
           /\ Top(add_block(c, b))
           /\ add_block(c, b).blocks = Insert(c.blocks, b.index, b)
           /\ ~AddBlockPanics(c, b) => add_block(c, b).domains = DomainsWith(c.domains, b)
  <1> DEFINE d == add_block_to_table(c, b)
             e == add_transaction_to_table(d, b)
             f == Insert(c.blocks, b.index, b)
  <1>1. c \in ChainValues /\ LinkedBlocks(c.blocks)
    BY DEF SoundChain
  <1>2. /\ f \in [1..(n + 1) -> Blocks]
        /\ f[n + 1] = b
        /\ LinkedBlocks(f)
    BY <1>1, InsertIsTable
  <1>3. f \in BlockTables
    <2>1. n + 1 \in Nat
      OBVIOUS
    <2> QED
      BY <1>2, <2>1 DEF BlockTables
  <1>4. /\ d \in ChainValues
        /\ d.blocks = f /\ d.last_block = b /\ d.domains = c.domains
    BY <1>1, <1>3 DEF add_block_to_table, ChainValues, FullBlocks
  <1>5. /\ e \in ChainValues
        /\ e.blocks = f /\ e.last_block = b /\ e.domains = DomainsWith(c.domains, b)
    <2>1. IF IsDomain(b) THEN Insert(d.domains, b.index, RowOf(b)) \in DomainTables
                         ELSE d.domains \in DomainTables
      BY <1>4, RowOfType, DomainTablesClosed DEF ChainValues
    <2> QED
      BY <1>4, <2>1 DEF add_transaction_to_table, DomainsWith, ChainValues
  <1>6. add_block(c, b) \in {d, e} /\ (~AddBlockPanics(c, b) => add_block(c, b) = e)
    <2>1. b.index \notin DOMAIN c.blocks
      OBVIOUS
    <2> QED
      BY <2>1 DEF add_block
  <1>7. ASSUME NEW x \in {d, e} PROVE SoundChain(x) /\ Top(x)
    <2>1. x \in ChainValues /\ x.blocks = f /\ x.last_block = b
      BY <1>4, <1>5, <1>7
    <2>2. load_last_block(x) = f[n + 1]
      <3>1. n + 1 \in Nat /\ n + 1 # 0 /\ x.blocks \in [1..(n + 1) -> Blocks]
        BY <1>2, <2>1
      <3> QED
        BY <2>1, <3>1, LoadLastBlock
    <2> QED
      BY <1>2, <2>1, <2>2 DEF SoundChain, Top
  <1> QED
    BY <1>4, <1>5, <1>6, <1>7

(* Truncating the tables leaves a sound chain.                             *)
LEMMA TruncateKeepsChain ==
    ASSUME NEW c, SoundChain(c), NEW n \in Nat, c.blocks \in [1..n -> Blocks],
           NEW m \in 1..(n + 1)
    PROVE  LET d == truncate_db_from_block(c, m)
           IN  /\ SoundChain(d)
               /\ d.blocks = Below(c.blocks, m) /\ d.blocks \in [1..(m - 1) -> Blocks]
               /\ d.domains = Below(c.domains, m)
               /\ d.last_full_block = c.last_full_block
  <1> DEFINE d == truncate_db_from_block(c, m)
  <1>1. c \in ChainValues /\ LinkedBlocks(c.blocks) /\ c.domains \in DomainTables
    BY DEF SoundChain, ChainValues
  <1>2. Below(c.blocks, m) \in [1..(m - 1) -> Blocks] /\ LinkedBlocks(Below(c.blocks, m))
    BY <1>1, BelowIsTable
  <1>3. Below(c.blocks, m) \in BlockTables
    <2>1. m - 1 \in Nat
      OBVIOUS
    <2> QED
      BY <1>2, <2>1 DEF BlockTables
  <1>4. Below(c.domains, m) \in DomainTables
    BY <1>1, DomainTablesClosed
  <1>5. /\ d \in ChainValues
        /\ d.blocks = Below(c.blocks, m) /\ d.domains = Below(c.domains, m)
        /\ d.last_full_block = c.last_full_block
    BY <1>1, <1>3, <1>4 DEF truncate_db_from_block, TruncateBlocks, ChainValues
  <1> QED
    BY <1>2, <1>5 DEF SoundChain

(* replace_block puts a fork on what was below it.                         *)
LEMMA ReplaceBlockKeepsChain ==
    ASSUME NEW c, SoundChain(c), NEW n \in Nat, c.blocks \in [1..n -> Blocks],
           NEW b \in Blocks, b.index \in 1..n,
           b.index > 1 => b.prev_block_hash = c.blocks[b.index - 1].hash
    PROVE  /\ SoundChain(replace_block(c, b))
           /\ Top(replace_block(c, b))
           /\ replace_block(c, b).blocks = Insert(Below(c.blocks, b.index), b.index, b)
           /\ replace_block(c, b).domains = DomainsWith(Below(c.domains, b.index), b)
  <1> DEFINE m == b.index - 1
             d == SignersCleared(c)
             e == truncate_db_from_block(d, b.index)
  <1>1. NoSigners \in SignerCaches
    BY DEF NoSigners, SignerCaches
  <1>2. SoundChain(d) /\ d.blocks = c.blocks /\ d.domains = c.domains
    BY <1>1, SignersDoNotMatter DEF SignersCleared
  <1>3. /\ SoundChain(e)
        /\ e.blocks = Below(c.blocks, b.index) /\ e.domains = Below(c.domains, b.index)
        /\ e.blocks \in [1..m -> Blocks]
    BY <1>2, TruncateKeepsChain
  <1>4. m \in Nat /\ b.index = m + 1 /\ (m > 0 => b.prev_block_hash = e.blocks[m].hash)
    <2>1. b.index \in 1..(n + 1) /\ LinkedBlocks(c.blocks)
      BY DEF SoundChain
    <2>2. \A i \in 1..(b.index - 1) : Below(c.blocks, b.index)[i] = c.blocks[i]
      BY <2>1, BelowIsTable
    <2> QED
      BY <1>3, <2>2
  <1>5. ~AddBlockPanics(e, b)
    BY <1>3 DEF AddBlockPanics, Below
  <1> QED
    BY <1>3, <1>4, <1>5, AddBlockKeepsChain DEF replace_block

-----------------------------------------------------------------------------
(* Opening the database.                                                   *)

(* What is left of a stopped node is a chain without caches.               *)
LEMMA EmptyChainIsSound ==
    ASSUME NEW f \in BlockTables, LinkedBlocks(f), NEW g \in DomainTables
    PROVE  /\ SoundChain(EmptyChain(f, g))
           /\ EmptyChain(f, g).blocks = f /\ EmptyChain(f, g).domains = g
  BY DEF EmptyChain, SoundChain, ChainValues, NoSigners, SignerCaches

(* Chain::new loads a sound chain and its top.                             *)
LEMMA InitDbIsSound ==
    ASSUME NEW f \in BlockTables, LinkedBlocks(f), NEW g \in DomainTables
    PROVE  /\ SoundChain(init_db(f, g)) /\ Top(init_db(f, g))
           /\ init_db(f, g).blocks = f /\ init_db(f, g).domains = g
  <1> DEFINE c == EmptyChain(f, g)
             full == StoredFullBlock(c, Max({0} \cup DOMAIN f) + 1, Keys)
  <1>1. SoundChain(c) /\ c.blocks = f /\ c.domains = g
    BY EmptyChainIsSound
  <1>2. PICK n \in Nat : f \in [1..n -> Blocks]
    BY DEF BlockTables
  <1>3. load_last_block(c) \in Blocks \cup {NoBlock}
    BY <1>1, <1>2, LoadLastBlock
  <1>4. full \in FullBlocks \cup {NoBlock}
    BY <1>1, StoredFullBlockType, TablesAreRowTables
  <1>5. init_db(f, g) = [c EXCEPT !.last_block = load_last_block(c), !.last_full_block = full]
    BY DEF init_db
  <1> QED
    BY <1>1, <1>3, <1>4, <1>5 DEF SoundChain, ChainValues, Top, load_last_block

(* The first block that check_chain looks at.                              *)
LEMMA CheckStartRange ==
    ASSUME NEW c, NEW n \in Nat, get_height(c) = n, NEW count \in Nat \ {0}
    PROVE  CheckStart(c, count) \in 1..(n + 1) /\ n - CheckStart(c, count) < count
  BY DEF CheckStart

(* check_chain stops at one of the blocks it looks at, or past the last.   *)
LEMMA FirstFaultRange ==
    ASSUME NEW c, NEW n \in Nat, get_height(c) = n, NEW count \in Nat \ {0}, NEW now0
    PROVE  /\ FirstFault(c, count, now0) \in 1..(n + 1)
           /\ n - (FirstFault(c, count, now0) - 1) <= count
  <1> DEFINE start == CheckStart(c, count)
             S == {i \in start..n : Recheck(c, count, i, now0) # "Good"} \cup {n + 1}
  <1>1. start \in 1..(n + 1) /\ n - start < count
    BY CheckStartRange
  <1>2. S \in SUBSET Nat /\ S # {} /\ S \subseteq start..(n + 1)
    BY <1>1
  <1>3. Min(S) \in S
    BY <1>2, MinNatural
  <1>4. FirstFault(c, count, now0) = Min(S)
    BY DEF FirstFault
  <1> QED
    BY <1>1, <1>2, <1>3, <1>4

(* The start of the loop's rounds that leave a trace.                      *)
LEMMA LoopRangeStart ==
    ASSUME NEW c, NEW n \in Nat, get_height(c) = n, NEW count \in Nat \ {0}
    PROVE  Max({2, CheckStart(c, count)}) \in Nat \ {0}
  <1>1. CheckStart(c, count) \in 1..(n + 1)
    BY CheckStartRange
  <1>2. /\ n + 2 \in Nat
        /\ {2, CheckStart(c, count)} \in SUBSET (0..(n + 2))
        /\ {2, CheckStart(c, count)} # {}
    BY <1>1
  <1>3. Max({2, CheckStart(c, count)}) \in {2, CheckStart(c, count)}
    BY <1>2, MaxNatural
  <1> QED
    BY <1>1, <1>3

(* The loop's full block comes from the table.                             *)
LEMMA FullCheckedBeforeType ==
    ASSUME NEW c, NEW n \in Nat, get_height(c) = n,
           \A k \in 1..n : c.blocks[k] \in Blocks,
           NEW count \in Nat \ {0}, NEW i \in 1..(n + 1), NEW otherwise
    PROVE  FullCheckedBefore(c, count, i, otherwise) \in FullBlocks \cup {otherwise}
  <1> DEFINE from == Max({2, CheckStart(c, count)})
             ids == {j \in from..(i - 1) : IsFull(c.blocks[j])}
  <1>1. from \in Nat \ {0}
    BY LoopRangeStart
  <1> HIDE DEF from
  <1>2. ids \in SUBSET (0..n) /\ ids \subseteq 1..n
    BY <1>1
  <1>3. ASSUME ids # {} PROVE c.blocks[Max(ids)] \in FullBlocks
    <2>1. Max(ids) \in ids
      BY <1>2, <1>3, MaxNatural
    <2> QED
      BY <1>2, <2>1 DEF FullBlocks
  <1> QED
    BY <1>3 DEF FullCheckedBefore, from

(* What check_chain compares block i with is a block, if anything.         *)
LEMMA LoopFullBlockType ==
    ASSUME NEW c, c \in RowValues, NEW n \in Nat, get_height(c) = n,
           \A k \in 1..n : c.blocks[k] \in Blocks, NEW count \in Nat \ {0}, NEW i \in 1..(n + 1)
    PROVE  LoopFullBlock(c, count, i) \in Blocks \cup {NoBlock}
  <1> DEFINE start == CheckStart(c, count)
             last == get_block(c, start - 1)
             before == CASE start = 1 \/ last = NoBlock -> NoBlock
                         [] start > 1 /\ last # NoBlock /\ IsFull(last) -> last
                         [] OTHER -> get_last_full_block(c, last.index, Keys)
  <1>0. PICK k \in Nat : c.blocks \in RowsTo(k)
    BY DEF RowValues, RowTables
  <1>1. last \in Blocks \cup {NoBlock}
    BY <1>0, RowsToFacts DEF get_block
  <1>2. get_last_full_block(c, last.index, Keys) \in FullBlocks \cup {NoBlock}
    BY GetLastFullBlockType DEF RowValues
  <1>3. before \in Blocks \cup {NoBlock}
    BY <1>1, <1>2 DEF FullBlocks
  <1>4. LoopFullBlock(c, count, i) = FullCheckedBefore(c, count, i, before)
    BY DEF LoopFullBlock
  <1>5. FullCheckedBefore(c, count, i, before) \in FullBlocks \cup {before}
    BY FullCheckedBeforeType
  <1> QED
    BY <1>3, <1>4, <1>5 DEF FullBlocks

(* What check_chain leaves in the cache of signers.                        *)
LEMMA SignersAfterCheckType ==
    ASSUME NEW c, c \in RowValues, NEW n \in Nat, get_height(c) = n,
           \A k \in 1..n : c.blocks[k] \in Blocks, NEW count \in Nat \ {0}, NEW now0
    PROVE  SignersAfterCheck(c, count, now0) \in SignerCaches
  <1> DEFINE rounds == RoundsAskingForSigners(c, count, now0)
             to == Min({FirstFault(c, count, now0), n})
             full == LoopFullBlock(c, count, Max(rounds))
  <1>1. CASE rounds = {}
    BY <1>1 DEF SignersAfterCheck, RowValues
  <1>2. CASE rounds # {}
    <2>1. FirstFault(c, count, now0) \in 1..(n + 1)
      BY FirstFaultRange
    <2>2. {FirstFault(c, count, now0), n} \in SUBSET Nat
      BY <2>1
    <2>3. to \in Nat /\ to <= n
      BY <2>2, MinNatural
    <2>4. Max({2, CheckStart(c, count)}) \in Nat \ {0}
      BY LoopRangeStart
    <2>5. rounds \subseteq 1..n
      BY <2>3, <2>4 DEF RoundsAskingForSigners
    <2>6. Max(rounds) \in rounds
      <3>1. rounds \in SUBSET (0..n)
        BY <2>5
      <3> QED
        BY <1>2, <3>1, MaxNatural
    <2>7. full # NoBlock
      BY <2>6 DEF RoundsAskingForSigners, Searches, AsksForSearch
    <2>8. Max(rounds) \in 1..(n + 1)
      BY <2>5, <2>6
    <2>9. full \in Blocks
      BY <2>7, <2>8, LoopFullBlockType
    <2>10. SignersAfterCheck(c, count, now0) =
             [index |-> full.index, signers |-> SearchedSigners(c, full)]
      BY <1>2 DEF SignersAfterCheck, SignersCached, RowValues
    <2> QED
      BY <2>9, <2>10, SearchedSignersType, BlockFacts DEF SignerCaches
  <1> QED
    BY <1>1, <1>2

-----------------------------------------------------------------------------
(* Tables that may have a row 0.                                           *)

(* What is below a row from 1 on keeps row 0.                              *)
LEMMA RowsBelow ==
    ASSUME NEW n \in Nat, NEW f \in RowsTo(n), LinkedBlocks(Upper(f)), NEW m \in 1..(n + 1)
    PROVE  /\ Below(f, m) \in RowsTo(m - 1)
           /\ Upper(Below(f, m)) = Below(Upper(f), m) /\ LinkedBlocks(Upper(Below(f, m)))
           /\ 0 \in DOMAIN Below(f, m) <=> 0 \in DOMAIN f
           /\ 0 \in DOMAIN f => Below(f, m)[0] = f[0]
  <1> DEFINE g == Below(f, m)
             u == Upper(f)
  <1>1. /\ DOMAIN f = 1..n \/ DOMAIN f = 0..n
        /\ \A i \in DOMAIN f : f[i] \in Blocks
        /\ u \in [1..n -> Blocks] /\ \A i \in 1..n : u[i] = f[i]
    BY RowsToFacts
  <1>2. DOMAIN g = {k \in DOMAIN f : k < m} /\ \A i \in DOMAIN g : g[i] = f[i]
    BY DEF Below
  <1>3. DOMAIN g = IF 0 \in DOMAIN f THEN 0..(m - 1) ELSE 1..(m - 1)
    BY <1>1, <1>2
  <1>4. g = [i \in DOMAIN g |-> f[i]]
    BY <1>2 DEF Below
  <1>5. \A i \in DOMAIN g : f[i] \in Blocks
    BY <1>1, <1>2
  <1>6. g \in RowsTo(m - 1)
    BY <1>3, <1>4, <1>5 DEF RowsTo
  <1>7. DOMAIN g \ {0} = 1..(m - 1)
    BY <1>3
  <1>8. Upper(g) = [i \in 1..(m - 1) |-> f[i]]
    <2>1. Upper(g) = [i \in 1..(m - 1) |-> g[i]]
      BY <1>7 DEF Upper
    <2>2. \A i \in 1..(m - 1) : g[i] = f[i]
      BY <1>2, <1>3
    <2> QED
      BY <2>1, <2>2
  <1>9. Below(u, m) = [i \in 1..(m - 1) |-> f[i]] /\ LinkedBlocks(Below(u, m))
    <2>1. Below(u, m) \in [1..(m - 1) -> Blocks] /\ (\A i \in 1..(m - 1) : Below(u, m)[i] = u[i])
          /\ LinkedBlocks(Below(u, m))
      BY <1>1, BelowIsTable
    <2>2. \A i \in 1..(m - 1) : u[i] = f[i]
      BY <1>1
    <2> QED
      BY <2>1, <2>2
  <1>10. 0 \in DOMAIN g <=> 0 \in DOMAIN f
    BY <1>3
  <1> QED
    BY <1>2, <1>6, <1>8, <1>9, <1>10

(* Nothing is below row 0.                                                 *)
LEMMA NoRowsBelow ==
    ASSUME NEW n \in Nat, NEW f \in RowsTo(n)
    PROVE  /\ Below(f, 0) \in RowsTo(0) /\ DOMAIN Below(f, 0) = {}
           /\ Upper(Below(f, 0)) = <<>> /\ LinkedBlocks(Upper(Below(f, 0)))
  <1> DEFINE g == Below(f, 0)
  <1>1. DOMAIN f \subseteq 0..n
    BY RowsToFacts
  <1>2. DOMAIN g = {} /\ g = [i \in {} |-> f[i]]
    <2>1. {k \in DOMAIN f : k < 0} = {}
      BY <1>1
    <2> QED
      BY <2>1 DEF Below
  <1>3. g \in [1..0 -> Blocks]
    <2>1. 1..0 = {}
      OBVIOUS
    <2>2. g \in [{} -> Blocks]
      BY ONLY <1>2
    <2> QED
      BY <2>1, <2>2
  <1>4. g \in RowsTo(0)
    BY <1>3 DEF RowsTo
  <1>5. Upper(g) \in [1..0 -> Blocks] /\ DOMAIN Upper(g) = {}
    BY <1>2 DEF Upper
  <1>6. Upper(g) = <<>>
    <2>1. Upper(g) \in Seq(Blocks) /\ Len(Upper(g)) = 0
      BY <1>5
    <2> QED
      BY <2>1, EmptySeq
  <1> QED
    BY <1>2, <1>4, <1>5, <1>6 DEF LinkedBlocks

(* A block that continues the chain is added to it.                        *)
LEMMA RowsWithNext ==
    ASSUME NEW n \in Nat, NEW f \in RowsTo(n), LinkedBlocks(Upper(f)),
           NEW b \in Blocks, b.index = n + 1, n > 0 => b.prev_block_hash = f[n].hash
    PROVE  LET g == Insert(f, b.index, b)
           IN  /\ g \in RowsTo(n + 1) /\ g[n + 1] = b
               /\ Upper(g) = Insert(Upper(f), n + 1, b) /\ LinkedBlocks(Upper(g))
               /\ 0 \in DOMAIN g <=> 0 \in DOMAIN f
               /\ 0 \in DOMAIN f => g[0] = f[0]
  <1> DEFINE g == Insert(f, b.index, b)
             u == Upper(f)
             v == Insert(u, b.index, b)
  <1>1. /\ DOMAIN f = 1..n \/ DOMAIN f = 0..n
        /\ \A i \in DOMAIN f : f[i] \in Blocks
        /\ u \in [1..n -> Blocks] /\ \A i \in 1..n : u[i] = f[i]
    BY RowsToFacts
  <1>2. /\ DOMAIN g = DOMAIN f \cup {n + 1} /\ g[n + 1] = b
        /\ \A i \in DOMAIN f : i # n + 1 => g[i] = f[i]
    BY DEF Insert
  <1>3. DOMAIN g = IF 0 \in DOMAIN f THEN 0..(n + 1) ELSE 1..(n + 1)
    <2>1. (0..n) \cup {n + 1} = 0..(n + 1) /\ (1..n) \cup {n + 1} = 1..(n + 1)
      OBVIOUS
    <2>2. CASE DOMAIN f = 0..n
      <3>1. 0 \in DOMAIN f
        BY <2>2
      <3> QED
        BY <1>2, <2>1, <2>2, <3>1
    <2>3. CASE DOMAIN f = 1..n
      <3>1. 0 \notin DOMAIN f
        BY <2>3
      <3> QED
        BY <1>2, <2>1, <2>3, <3>1
    <2> QED
      BY <1>1, <2>2, <2>3
  <1>4. \A i \in DOMAIN g : g[i] \in Blocks
    BY <1>1, <1>2
  <1>5. g = [i \in DOMAIN g |-> g[i]]
    BY DEF Insert
  <1>6. g \in RowsTo(n + 1)
    BY <1>3, <1>4, <1>5 DEF RowsTo
  <1>7. n > 0 => b.prev_block_hash = u[n].hash
    BY <1>1
  <1>8. /\ v \in [1..(n + 1) -> Blocks] /\ (\A i \in 1..n : v[i] = u[i])
        /\ v[n + 1] = b /\ LinkedBlocks(v)
    BY <1>1, <1>7, InsertIsTable
  <1>9. Upper(g) = v
    <2>1. DOMAIN g \ {0} = 1..(n + 1)
      BY <1>3
    <2>2. Upper(g) = [i \in 1..(n + 1) |-> g[i]]
      BY <2>1 DEF Upper
    <2>3. \A i \in 1..(n + 1) : g[i] = v[i]
      BY <1>1, <1>2, <1>8
    <2> HIDE DEF v, g
    <2> QED
      BY <1>8, <2>2, <2>3
  <1>10. 0 \in DOMAIN g <=> 0 \in DOMAIN f
    BY <1>3
  <1>11. 0 \in DOMAIN f => g[0] = f[0]
    BY <1>2
  <1> QED
    BY <1>2, <1>6, <1>8, <1>9, <1>10, <1>11

(* A block of index 0 gets a row below the chain.                          *)
LEMMA RowsWithZero ==
    ASSUME NEW n \in Nat, NEW f \in RowsTo(n), 0 \notin DOMAIN f, NEW b \in Blocks, b.index = 0
    PROVE  LET g == Insert(f, b.index, b)
           IN  g \in RowsTo(n) /\ Upper(g) = Upper(f) /\ 0 \in DOMAIN g /\ g[0] = b
  <1> DEFINE g == Insert(f, b.index, b)
  <1>1. /\ DOMAIN f = 1..n
        /\ \A i \in DOMAIN f : f[i] \in Blocks
    BY RowsToFacts
  <1>2. /\ DOMAIN g = 0..n /\ g[0] = b
        /\ \A i \in 1..n : g[i] = f[i]
    BY <1>1 DEF Insert
  <1>3. g = [i \in 0..n |-> g[i]]
    BY <1>2 DEF Insert
  <1>4. g \in RowsTo(n)
    BY <1>1, <1>2, <1>3 DEF RowsTo
  <1>5. DOMAIN g \ {0} = 1..n /\ DOMAIN f \ {0} = 1..n
    BY <1>1, <1>2
  <1>6. Upper(g) = Upper(f)
    BY <1>2, <1>5 DEF Upper
  <1> QED
    BY <1>2, <1>4, <1>6

(* The last row.                                                           *)
LEMMA LoadLastRow ==
    ASSUME NEW c, NEW n \in Nat, c.blocks \in RowsTo(n)
    PROVE  /\ n > 0 => load_last_block(c) = c.blocks[n]
           /\ n = 0 /\ 0 \in DOMAIN c.blocks => load_last_block(c) = c.blocks[0]
           /\ n = 0 /\ 0 \notin DOMAIN c.blocks => load_last_block(c) = NoBlock
           /\ load_last_block(c) \in Blocks \cup {NoBlock}
  <1> DEFINE D == DOMAIN c.blocks
  <1>1. /\ D = 1..n \/ D = 0..n
        /\ \A i \in D : c.blocks[i] \in Blocks
    BY RowsToFacts
  <1>2. CASE D = {}
    BY <1>1, <1>2 DEF load_last_block
  <1>3. CASE D # {}
    <2>1. n \in D /\ D \in SUBSET (0..n) /\ D \subseteq Int
      BY <1>1, <1>3
    <2>2. Max(D) \in D /\ \A y \in D : y <= Max(D)
      BY <1>3, <2>1, MaxNatural
    <2>3. Max(D) = n
      <3>1. n <= Max(D)
        BY <2>1, <2>2
      <3>2. Max(D) \in 0..n
        BY <2>1, <2>2
      <3> QED
        BY <3>1, <3>2
    <2>4. load_last_block(c) = c.blocks[n]
      BY <1>3, <2>3 DEF load_last_block
    <2> QED
      BY <1>1, <1>3, <2>1, <2>4
  <1> QED
    BY <1>2, <1>3

(* What a running node takes for its last block, and its height.           *)
LEMMA KeptHeight ==
    ASSUME NEW c, KeptChain(c), KeptTop(c), NEW n \in Nat, c.blocks \in RowsTo(n)
    PROVE  /\ \/ c.last_block = NoBlock /\ n = 0 /\ 0 \notin DOMAIN c.blocks /\ get_height(c) = 0
              \/ c.last_block = c.blocks[n] /\ n > 0 /\ get_height(c) = n
              \/ c.last_block = c.blocks[0] /\ 0 \in DOMAIN c.blocks /\ get_height(c) = 0
           /\ Top(c) => get_height(c) = n
           /\ \A i \in DOMAIN c.blocks : c.blocks[i] \in Blocks /\ c.blocks[i].index = i
  <1>1. /\ \A i \in DOMAIN c.blocks : c.blocks[i] \in Blocks /\ i \in 0..n
        /\ \A i \in 1..n : i \in DOMAIN c.blocks /\ Upper(c.blocks)[i] = c.blocks[i]
        /\ DOMAIN Upper(c.blocks) = 1..n
    BY RowsToFacts
  <1>2. \A i \in 1..n : c.blocks[i].index = i
    BY <1>1 DEF KeptChain, LinkedBlocks
  <1>3. \A i \in DOMAIN c.blocks : c.blocks[i] \in Blocks /\ c.blocks[i].index = i
    <2> SUFFICES ASSUME NEW i \in DOMAIN c.blocks PROVE c.blocks[i].index = i
      BY <1>1
    <2>1. i = 0 \/ i \in 1..n
      BY <1>1
    <2> QED
      BY <1>2, <2>1 DEF KeptChain
  <1>4. n > 0 => c.blocks[n].index = n /\ c.blocks[n] # NoBlock
    BY <1>1, <1>2, BlockFacts
  <1>5. 0 \in DOMAIN c.blocks => c.blocks[0].index = 0 /\ c.blocks[0] # NoBlock
    BY <1>1, <1>3, BlockFacts
  <1>6. /\ n > 0 => load_last_block(c) = c.blocks[n]
        /\ n = 0 /\ 0 \in DOMAIN c.blocks => load_last_block(c) = c.blocks[0]
        /\ n = 0 /\ 0 \notin DOMAIN c.blocks => load_last_block(c) = NoBlock
    BY LoadLastRow
  <1>7. Top(c) => get_height(c) = n
    BY <1>4, <1>5, <1>6 DEF Top, get_height
  <1> QED
    BY <1>3, <1>4, <1>5, <1>6, <1>7 DEF KeptTop, get_height

(* A block found good continues the chain, is the first to claim index 0,  *)
(* or claims a row that is there already and will not be stored.           *)
LEMMA GoodIsPlaced ==
    ASSUME NEW c, KeptChain(c), KeptTop(c), NEW n \in Nat, c.blocks \in RowsTo(n),
           NEW b \in Blocks, NEW now0, check_new_block(c, b, now0) = "Good"
    PROVE  \/ b.index \in DOMAIN c.blocks
           \/ b.index = 0 /\ 0 \notin DOMAIN c.blocks /\ n > 0
           \/ b.index = n + 1 /\ (n > 0 => b.prev_block_hash = c.blocks[n].hash)
  <1>1. /\ \A i \in DOMAIN c.blocks : c.blocks[i] \in Blocks /\ c.blocks[i].index = i
        /\ \A i \in 1..n : i \in DOMAIN c.blocks
    BY KeptHeight, RowsToFacts
  <1>2. b.index \in Nat
    BY BlockFacts
  <1>3. CASE c.last_block = NoBlock /\ n = 0
    BY <1>3 DEF check_new_block, check_block, Screen, is_genesis
  <1>4. ASSUME NEW i \in DOMAIN c.blocks, c.last_block = c.blocks[i], i = 0 \/ (i = n /\ n > 0)
        PROVE  \/ b.index \in DOMAIN c.blocks
               \/ b.index = 0 /\ 0 \notin DOMAIN c.blocks /\ n > 0
               \/ b.index = n + 1 /\ (n > 0 => b.prev_block_hash = c.blocks[n].hash)
    <2>1. c.last_block \in Blocks /\ c.last_block.index = i /\ c.last_block # NoBlock /\ i \in 0..n
      BY <1>1, <1>4, BlockFacts
    <2>2. /\ Screen(c, b, c.last_block, now0) = "Pass"
          /\ Placement(c, b, c.last_block) = "Good"
          /\ b.index <= i + 1
      BY <1>2, <2>1 DEF check_new_block, check_block, Screen
    <2>3. CASE b.index <= i
      <3>1. get_block(c, b.index) = NoBlock
        BY <2>1, <2>2, <2>3 DEF Placement
      <3>2. b.index \notin DOMAIN c.blocks
        BY <1>1, <3>1, BlockFacts DEF get_block
      <3>3. b.index = 0
        BY <1>1, <1>2, <2>1, <2>3, <3>2
      <3> QED
        BY <1>4, <3>2, <3>3
    <2>4. CASE b.index = i + 1
      <3>1. b.prev_block_hash = c.blocks[i].hash
        BY <1>4, <2>1, <2>2, <2>4 DEF Placement
      <3>2. CASE i = n
        BY <2>4, <3>1, <3>2
      <3>3. CASE i # n
        <4>1. i = 0 /\ b.index \in 1..n
          BY <1>4, <2>4, <2>1, <3>3
        <4> QED
          BY <1>1, <4>1
      <3> QED
        BY <3>2, <3>3
    <2> QED
      BY <1>2, <2>1, <2>2, <2>3, <2>4
  <1>5. \/ c.last_block = NoBlock /\ n = 0
        \/ c.last_block = c.blocks[n] /\ n > 0
        \/ c.last_block = c.blocks[0] /\ 0 \in DOMAIN c.blocks
    BY KeptHeight
  <1>6. n > 0 => n \in DOMAIN c.blocks
    BY <1>1
  <1> QED
    BY <1>3, <1>4, <1>5, <1>6

(* A fork is about a row that is there; from row 1 on it continues what is *)
(* below it and the node knows its height.                                 *)
LEMMA ForkIsPlaced ==
    ASSUME NEW c, KeptChain(c), KeptTop(c), NEW n \in Nat, c.blocks \in RowsTo(n),
           NEW b \in Blocks, NEW now0, check_new_block(c, b, now0) = "Fork"
    PROVE  /\ b.index \in DOMAIN c.blocks /\ b.index \in 0..n
           /\ b.hash # c.blocks[b.index].hash
           /\ b.index > 1 => b.prev_block_hash = c.blocks[b.index - 1].hash
           /\ b.index > 0 => get_height(c) = n
  <1>1. /\ \A i \in DOMAIN c.blocks : c.blocks[i] \in Blocks /\ c.blocks[i].index = i /\ i \in 0..n
        /\ \A i \in 1..n : i \in DOMAIN c.blocks
    BY KeptHeight, RowsToFacts
  <1>2. /\ Screen(c, b, c.last_block, now0) = "Pass"
        /\ Placement(c, b, c.last_block) = "Fork"
    BY DEF check_new_block, check_block, Screen
  <1>3. /\ b.index <= c.last_block.index
        /\ get_block(c, b.index) # NoBlock /\ get_block(c, b.index).hash # b.hash
    BY <1>2 DEF Placement
  <1>4. b.index \in DOMAIN c.blocks /\ get_block(c, b.index) = c.blocks[b.index]
    BY <1>3 DEF get_block
  <1>5. b.index \in 0..n /\ b.index \in Nat
    BY <1>1, <1>4
  <1>6. ASSUME b.index > 1 PROVE b.prev_block_hash = c.blocks[b.index - 1].hash
    <2>1. b.index - 1 \in DOMAIN c.blocks
      BY <1>1, <1>5, <1>6
    <2>2. get_block(c, b.index - 1) = c.blocks[b.index - 1] /\ get_block(c, b.index - 1) # NoBlock
      BY <1>1, <2>1, BlockFacts DEF get_block
    <2> QED
      BY <1>2, <2>2 DEF Screen
  <1>7. ASSUME b.index > 0 PROVE get_height(c) = n
    <2>1. c.last_block # NoBlock
      BY <1>2 DEF Screen
    <2>2. ~(c.last_block = c.blocks[0] /\ 0 \in DOMAIN c.blocks)
      BY <1>1, <1>3, <1>5, <1>7
    <2> QED
      BY <2>1, <2>2, KeptHeight
  <1> QED
    BY <1>3, <1>4, <1>5, <1>6, <1>7

(* add_block on such a table.                                              *)
LEMMA AddKeepsRows ==
    ASSUME NEW c, KeptChain(c), NEW n \in Nat, c.blocks \in RowsTo(n), NEW b \in Blocks,
           \/ b.index = 0 /\ 0 \notin DOMAIN c.blocks
           \/ b.index = n + 1 /\ (n > 0 => b.prev_block_hash = c.blocks[n].hash)
    PROVE  /\ KeptChain(add_block(c, b)) /\ KeptTop(add_block(c, b))
           /\ b.index \notin DOMAIN c.blocks
           /\ add_block(c, b).blocks = Insert(c.blocks, b.index, b)
           /\ ~AddBlockPanics(c, b) => add_block(c, b).domains = DomainsWith(c.domains, b)
  <1> DEFINE d == add_block_to_table(c, b)
             e == add_transaction_to_table(d, b)
             f == Insert(c.blocks, b.index, b)
  <1>1. c \in RowValues /\ LinkedBlocks(Upper(c.blocks)) /\ DOMAIN c.blocks \subseteq 0..n
    BY RowsToFacts DEF KeptChain
  <1>2. /\ f \in RowTables /\ LinkedBlocks(Upper(f))
        /\ 0 \in DOMAIN f => f[0].index = 0
    <2>1. CASE b.index = 0 /\ 0 \notin DOMAIN c.blocks
      <3>1. f \in RowsTo(n) /\ Upper(f) = Upper(c.blocks) /\ f[0] = b
        BY <2>1, RowsWithZero
      <3> QED
        BY <1>1, <2>1, <3>1 DEF RowTables
    <2>2. CASE b.index = n + 1 /\ (n > 0 => b.prev_block_hash = c.blocks[n].hash)
      <3>1. /\ f \in RowsTo(n + 1) /\ LinkedBlocks(Upper(f))
            /\ 0 \in DOMAIN f <=> 0 \in DOMAIN c.blocks
            /\ 0 \in DOMAIN c.blocks => f[0] = c.blocks[0]
        BY <1>1, <2>2, RowsWithNext
      <3>2. n + 1 \in Nat
        OBVIOUS
      <3> HIDE DEF f
      <3> QED
        BY <3>1, <3>2 DEF RowTables, KeptChain
    <2> QED
      BY <2>1, <2>2
  <1>3. b.index \notin DOMAIN c.blocks
    BY <1>1
  <1>4. /\ d \in RowValues
        /\ d.blocks = f /\ d.last_block = b /\ d.domains = c.domains
    BY <1>1, <1>2 DEF add_block_to_table, RowValues, FullBlocks
  <1>5. /\ e \in RowValues
        /\ e.blocks = f /\ e.last_block = b /\ e.domains = DomainsWith(c.domains, b)
    <2>1. IF IsDomain(b) THEN Insert(d.domains, b.index, RowOf(b)) \in DomainTables
                         ELSE d.domains \in DomainTables
      BY <1>4, RowOfType, DomainTablesClosed, BlockFacts DEF RowValues
    <2> QED
      BY <1>4, <2>1 DEF add_transaction_to_table, DomainsWith, RowValues
  <1>6. add_block(c, b) \in {d, e} /\ (~AddBlockPanics(c, b) => add_block(c, b) = e)
    BY <1>3 DEF add_block
  <1>7. ASSUME NEW x \in {d, e} PROVE KeptChain(x) /\ KeptTop(x)
    <2>1. x \in RowValues /\ x.blocks = f /\ x.last_block = b
      BY <1>4, <1>5, <1>7
    <2>2. KeptChain(x)
      BY <1>2, <2>1 DEF KeptChain
    <2>3. CASE b.index = 0
      <3>1. 0 \in DOMAIN f /\ f[0] = b
        BY <2>3 DEF Insert
      <3> QED
        BY <2>1, <2>2, <3>1 DEF KeptTop
    <2>4. CASE b.index = n + 1 /\ (n > 0 => b.prev_block_hash = c.blocks[n].hash)
      <3>1. f \in RowsTo(n + 1) /\ f[n + 1] = b
        BY <1>1, <2>4, RowsWithNext
      <3>2. n + 1 \in Nat /\ n + 1 > 0
        OBVIOUS
      <3>3. x.blocks \in RowsTo(n + 1) /\ x.blocks[n + 1] = b
        BY <2>1, <3>1
      <3>4. load_last_block(x) = x.blocks[n + 1]
        BY <3>2, <3>3, LoadLastRow
      <3> QED
        BY <2>1, <2>2, <3>3, <3>4 DEF KeptTop
    <2> QED
      BY <2>3, <2>4
  <1> QED
    BY <1>3, <1>4, <1>5, <1>6, <1>7

(* Truncating such tables.                                                 *)
LEMMA TruncateKeepsRows ==
    ASSUME NEW c, KeptChain(c), NEW n \in Nat, c.blocks \in RowsTo(n), NEW m \in 0..(n + 1)
    PROVE  LET d == truncate_db_from_block(c, m)
           IN  /\ KeptChain(d)
               /\ d.blocks = Below(c.blocks, m) /\ d.domains = Below(c.domains, m)
               /\ d.last_full_block = c.last_full_block
  <1> DEFINE d == truncate_db_from_block(c, m)
             f == Below(c.blocks, m)
  <1>1. c \in RowValues /\ LinkedBlocks(Upper(c.blocks)) /\ c.domains \in DomainTables
    BY DEF KeptChain, RowValues
  <1>2. f \in RowTables /\ LinkedBlocks(Upper(f)) /\ (0 \in DOMAIN f => f[0].index = 0)
    <2>1. CASE m = 0
      <3>1. f \in RowsTo(0) /\ DOMAIN f = {} /\ LinkedBlocks(Upper(f))
        BY <2>1, NoRowsBelow
      <3> HIDE DEF f
      <3> QED
        BY <3>1 DEF RowTables
    <2>2. CASE m \in 1..(n + 1)
      <3>1. /\ f \in RowsTo(m - 1) /\ LinkedBlocks(Upper(f))
            /\ 0 \in DOMAIN f <=> 0 \in DOMAIN c.blocks
            /\ 0 \in DOMAIN c.blocks => f[0] = c.blocks[0]
        BY <1>1, <2>2, RowsBelow
      <3>2. m - 1 \in Nat
        BY <2>2
      <3> HIDE DEF f
      <3> QED
        BY <3>1, <3>2 DEF RowTables, KeptChain
    <2> QED
      BY <2>1, <2>2
  <1>3. Below(c.domains, m) \in DomainTables
    BY <1>1, DomainTablesClosed
  <1>4. /\ d \in RowValues
        /\ d.blocks = f /\ d.domains = Below(c.domains, m)
        /\ d.last_full_block = c.last_full_block
    BY <1>1, <1>2, <1>3 DEF truncate_db_from_block, TruncateBlocks, RowValues
  <1> QED
    BY <1>2, <1>4 DEF KeptChain

(* replace_block on such a table.                                          *)
LEMMA ReplaceKeepsRows ==
    ASSUME NEW c, KeptChain(c), NEW n \in Nat, c.blocks \in RowsTo(n),
           NEW b \in Blocks, b.index \in 0..n,
           b.index > 1 => b.prev_block_hash = c.blocks[b.index - 1].hash
    PROVE  /\ KeptChain(replace_block(c, b)) /\ KeptTop(replace_block(c, b))
           /\ replace_block(c, b).blocks = Insert(Below(c.blocks, b.index), b.index, b)
           /\ replace_block(c, b).domains = DomainsWith(Below(c.domains, b.index), b)
  <1> DEFINE d == SignersCleared(c)
             e == truncate_db_from_block(d, b.index)
  <1>1. NoSigners \in SignerCaches
    BY DEF NoSigners, SignerCaches
  <1>2. KeptChain(d) /\ d.blocks = c.blocks /\ d.domains = c.domains
    BY <1>1, SignersDoNotMatterToRows DEF SignersCleared
  <1>3. /\ KeptChain(e)
        /\ e.blocks = Below(c.blocks, b.index) /\ e.domains = Below(c.domains, b.index)
    BY <1>2, TruncateKeepsRows
  <1>4. ~AddBlockPanics(e, b)
    <2>1. b.index \notin DOMAIN e.domains
      BY <1>3 DEF Below
    <2> QED
      BY <2>1 DEF AddBlockPanics
  <1> HIDE DEF e
  <1>5. CASE b.index = 0
    <2>1. e.blocks \in RowsTo(0) /\ 0 \notin DOMAIN e.blocks
      BY <1>3, <1>5, NoRowsBelow
    <2> QED
      BY <1>3, <1>4, <1>5, <2>1, AddKeepsRows DEF replace_block, e
  <1>6. CASE b.index \in 1..n
    <2> DEFINE m == b.index - 1
    <2>1. m \in Nat /\ b.index = m + 1 /\ b.index \in 1..(n + 1)
      BY <1>6
    <2>2. Below(c.blocks, b.index) \in RowsTo(b.index - 1)
      BY <2>1, RowsBelow DEF KeptChain
    <2>3. e.blocks \in RowsTo(m)
      BY <1>3, <2>2
    <2>4. ASSUME m > 0 PROVE b.prev_block_hash = e.blocks[m].hash
      <3>1. m \in DOMAIN c.blocks /\ m < b.index
        BY <1>6, <2>4, RowsToFacts
      <3>2. e.blocks[m] = c.blocks[m]
        BY <1>3, <3>1 DEF Below
      <3> QED
        BY <2>4, <3>2
    <2> HIDE DEF m
    <2> QED
      BY <1>3, <1>4, <2>1, <2>3, <2>4, AddKeepsRows DEF replace_block, e
  <1> QED
    BY <1>5, <1>6

(* What is left of a stopped node.                                         *)
LEMMA EmptyChainIsKept ==
    ASSUME NEW f \in RowTables, LinkedBlocks(Upper(f)), 0 \in DOMAIN f => f[0].index = 0,
           NEW g \in DomainTables
    PROVE  /\ KeptChain(EmptyChain(f, g))
           /\ EmptyChain(f, g).blocks = f /\ EmptyChain(f, g).domains = g
  BY DEF EmptyChain, KeptChain, RowValues, NoSigners, SignerCaches

(* Chain::new loads such a chain and its top.                              *)
LEMMA InitDbIsKept ==
    ASSUME NEW f \in RowTables, LinkedBlocks(Upper(f)), 0 \in DOMAIN f => f[0].index = 0,
           NEW g \in DomainTables
    PROVE  /\ KeptChain(init_db(f, g)) /\ Top(init_db(f, g))
           /\ init_db(f, g).blocks = f /\ init_db(f, g).domains = g
  <1> DEFINE c == EmptyChain(f, g)
             full == StoredFullBlock(c, Max({0} \cup DOMAIN f) + 1, Keys)
  <1>1. KeptChain(c) /\ c.blocks = f /\ c.domains = g
    BY EmptyChainIsKept
  <1>2. PICK n \in Nat : f \in RowsTo(n)
    BY DEF RowTables
  <1>3. load_last_block(c) \in Blocks \cup {NoBlock}
    <2> HIDE DEF c
    <2> QED
      BY <1>1, <1>2, LoadLastRow
  <1>4. full \in FullBlocks \cup {NoBlock}
    BY <1>1, StoredFullBlockType
  <1>5. init_db(f, g) = [c EXCEPT !.last_block = load_last_block(c), !.last_full_block = full]
    BY DEF init_db
  <1> HIDE DEF full
  <1> QED
    BY <1>1, <1>3, <1>4, <1>5 DEF KeptChain, RowValues, Top, load_last_block

(* check_chain leaves such a chain: all of it, or what is below the first  *)
(* block it rejects, and row 0 in either case.                             *)
LEMMA CheckChainKeepsRows ==
    ASSUME NEW c, KeptChain(c), Top(c), NEW n \in Nat, c.blocks \in RowsTo(n),
           NEW count \in Nat \ {0}, NEW now0
    PROVE  LET d == check_chain(c, count, now0)
               fault == FirstFault(c, count, now0)
           IN  /\ KeptChain(d) /\ Top(d)
               /\ d.blocks = IF fault > n THEN c.blocks ELSE Below(c.blocks, fault)
               /\ d.domains = IF fault > n THEN c.domains ELSE Below(c.domains, fault)
  <1> DEFINE fault == FirstFault(c, count, now0)
             seen == [InRound(c, count, fault) EXCEPT !.signers = SignersAfterCheck(c, count, now0)]
             kept == IF fault > n THEN seen ELSE truncate_db_from_block(seen, fault)
             full == IF kept.last_full_block # NoBlock THEN kept.last_full_block
                     ELSE StoredFullBlock(kept, fault, Keys)
  <1>0. c \in RowValues /\ \A k \in 1..n : c.blocks[k] \in Blocks
    BY RowsToFacts DEF KeptChain
  <1>1. get_height(c) = n
    <2>1. KeptTop(c)
      BY DEF Top, KeptTop
    <2> QED
      BY <2>1, KeptHeight
  <1>2. fault \in 1..(n + 1)
    BY <1>1, FirstFaultRange
  <1>3. SignersAfterCheck(c, count, now0) \in SignerCaches
    BY <1>0, <1>1, SignersAfterCheckType
  <1>4. FullCheckedBefore(c, count, fault, c.last_full_block) \in FullBlocks \cup {NoBlock}
    <2>1. c.last_full_block \in FullBlocks \cup {NoBlock}
      BY <1>0 DEF RowValues
    <2> HIDE DEF fault
    <2>2. FullCheckedBefore(c, count, fault, c.last_full_block) \in FullBlocks \cup {c.last_full_block}
      BY <1>0, <1>1, <1>2, FullCheckedBeforeType
    <2> QED
      BY <2>1, <2>2
  <1>5. KeptChain(seen) /\ seen.blocks = c.blocks /\ seen.domains = c.domains
    BY <1>3, <1>4 DEF InRound, KeptChain, RowValues
  <1>6. /\ KeptChain(kept)
        /\ kept.blocks = IF fault > n THEN c.blocks ELSE Below(c.blocks, fault)
        /\ kept.domains = IF fault > n THEN c.domains ELSE Below(c.domains, fault)
    <2> HIDE DEF seen, fault
    <2>0. fault \in 0..(n + 1) /\ seen.blocks \in RowsTo(n)
      BY <1>2, <1>5
    <2>1. /\ KeptChain(truncate_db_from_block(seen, fault))
          /\ truncate_db_from_block(seen, fault).blocks = Below(c.blocks, fault)
          /\ truncate_db_from_block(seen, fault).domains = Below(c.domains, fault)
      BY <1>5, <2>0, TruncateKeepsRows
    <2> QED
      BY <1>5, <2>1
  <1>7. full \in FullBlocks \cup {NoBlock}
    BY <1>6, StoredFullBlockType DEF KeptChain, RowValues
  <1>8. load_last_block(kept) \in Blocks \cup {NoBlock}
    <2>1. PICK m \in Nat : kept.blocks \in RowsTo(m)
      BY <1>6 DEF KeptChain, RowValues, RowTables
    <2> HIDE DEF kept
    <2> QED
      BY <2>1, LoadLastRow
  <1>9. check_chain(c, count, now0) =
            [kept EXCEPT !.last_block = load_last_block(kept), !.last_full_block = full]
    BY <1>1 DEF check_chain
  <1> HIDE DEF kept, full
  <1> QED
    BY <1>6, <1>7, <1>8, <1>9 DEF KeptChain, RowValues, Top, load_last_block

(* check_chain leaves a sound chain: all of it, or what is below the       *)
(* first block it rejects.                                                 *)
LEMMA CheckChainKeepsChain ==
    ASSUME NEW c, SoundChain(c), Top(c), NEW n \in Nat, c.blocks \in [1..n -> Blocks],
           NEW count \in Nat \ {0}, NEW now0
    PROVE  LET d == check_chain(c, count, now0)
               fault == FirstFault(c, count, now0)
           IN  /\ SoundChain(d) /\ Top(d)
               /\ d.blocks = IF fault > n THEN c.blocks ELSE Below(c.blocks, fault)
               /\ d.domains = IF fault > n THEN c.domains ELSE Below(c.domains, fault)
  <1> DEFINE d == check_chain(c, count, now0)
             fault == FirstFault(c, count, now0)
  <1>1. KeptChain(c) /\ 0 \notin DOMAIN c.blocks /\ c.blocks \in RowsTo(n)
    BY SoundIsKept DEF RowsTo
  <1>2. /\ KeptChain(d) /\ Top(d)
        /\ d.blocks = IF fault > n THEN c.blocks ELSE Below(c.blocks, fault)
        /\ d.domains = IF fault > n THEN c.domains ELSE Below(c.domains, fault)
    BY <1>1, CheckChainKeepsRows
  <1> HIDE DEF d, fault
  <1>3. 0 \notin DOMAIN d.blocks
    BY <1>1, <1>2 DEF Below
  <1>4. SoundChain(d)
    BY <1>2, <1>3, SoundIsKept
  <1> QED
    BY <1>2, <1>4 DEF d, fault

-----------------------------------------------------------------------------
(* Tables as sequences.                                                    *)

(* A table is a sequence.                                                  *)
LEMMA TableIsSequence ==
    ASSUME NEW n \in Nat, NEW f \in [1..n -> Blocks]
    PROVE  f \in Seq(Blocks) /\ Len(f) = n
  OBVIOUS

(* Adding a row appends to it.                                             *)
LEMMA InsertIsAppend ==
    ASSUME NEW n \in Nat, NEW f \in [1..n -> Blocks], NEW b \in Blocks
    PROVE  Insert(f, n + 1, b) = Append(f, b)
  <1>1. f \in Seq(Blocks) /\ Len(f) = n
    BY TableIsSequence
  <1>2. DOMAIN f \cup {n + 1} = 1..(n + 1)
    OBVIOUS
  <1>3. Insert(f, n + 1, b) = [j \in 1..(n + 1) |-> IF j = n + 1 THEN b ELSE f[j]]
    BY <1>2 DEF Insert
  <1>4. /\ Append(f, b) \in Seq(Blocks) /\ Len(Append(f, b)) = n + 1
        /\ \A i \in 1..n : Append(f, b)[i] = f[i]
        /\ Append(f, b)[n + 1] = b
    BY <1>1, AppendProperties
  <1>5. Insert(f, n + 1, b) \in Seq(Blocks) /\ Len(Insert(f, n + 1, b)) = n + 1
    <2>1. n + 1 \in Nat /\ Insert(f, n + 1, b) \in [1..(n + 1) -> Blocks]
      BY <1>3
    <2> QED
      BY <2>1, TableIsSequence
  <1>6. \A j \in 1..(n + 1) : Append(f, b)[j] = Insert(f, n + 1, b)[j]
    BY <1>3, <1>4
  <1> QED
    BY <1>4, <1>5, <1>6, SeqEqual

(* Truncating it takes a prefix.                                           *)
LEMMA BelowIsPrefix ==
    ASSUME NEW n \in Nat, NEW f \in [1..n -> Blocks], NEW m \in 1..(n + 1)
    PROVE  /\ Below(f, m) = SubSeq(f, 1, m - 1)
           /\ Below(f, m) \in [1..(m - 1) -> Blocks]
           /\ Len(Below(f, m)) = m - 1
           /\ m > 1 => Below(f, m)[m - 1] = f[m - 1]
  <1>1. f \in Seq(Blocks) /\ Len(f) = n
    BY TableIsSequence
  <1>2. Below(f, m) = [j \in 1..(m - 1) |-> f[j]]
    <2>1. {k \in DOMAIN f : k < m} = 1..(m - 1)
      OBVIOUS
    <2> QED
      BY <2>1 DEF Below
  <1>3. SubSeq(f, 1, m - 1) = [j \in 1..(m - 1) |-> f[j]]
    BY <1>1
  <1>4. m - 1 \in Nat /\ Below(f, m) \in [1..(m - 1) -> Blocks]
    BY <1>2
  <1>5. Len(Below(f, m)) = m - 1
    BY <1>4, TableIsSequence
  <1> QED
    BY <1>2, <1>3, <1>4, <1>5

-----------------------------------------------------------------------------
(* The newest full block, and what is read below a row: it depends on the  *)
(* rows below it only.                                                     *)

(* Row i is the newest full block of one of the keys below m; there is     *)
(* none.                                                                   *)
IsNewestFull(c, i, m, keys) ==
    /\ i \in DOMAIN c.blocks /\ i < m
    /\ IsFull(c.blocks[i]) /\ c.blocks[i].pub_key \in keys
    /\ \A k \in DOMAIN c.blocks :
          i < k /\ k < m /\ IsFull(c.blocks[k]) => c.blocks[k].pub_key \notin keys

HasNoFull(c, m, keys) ==
    \A k \in DOMAIN c.blocks : k < m /\ IsFull(c.blocks[k]) => c.blocks[k].pub_key \notin keys

(* A block is signed with a key.                                           *)
LEMMA BlockKey ==
    ASSUME NEW b \in Blocks
    PROVE  b.pub_key \in Keys
  BY BlockFacts DEF BlockRecords

(* A table of n rows is a table.                                           *)
LEMMA SizedTable ==
    ASSUME NEW n \in Nat, NEW f \in [1..n -> Blocks]
    PROVE  f \in BlockTables /\ DOMAIN f = 1..n
  BY DEF BlockTables

(* StoredFullBlock answers with the newest.                                *)
LEMMA StoredFullBlockIs ==
    ASSUME NEW c, c.blocks \in BlockTables, NEW m \in Int, NEW keys,
           NEW i, IsNewestFull(c, i, m, keys)
    PROVE  StoredFullBlock(c, m, keys) = c.blocks[i]
  <1>a. PICK n \in Nat : c.blocks \in [1..n -> Blocks]
    BY DEF BlockTables
  <1> DEFINE ids == {k \in DOMAIN c.blocks : /\ k < m
                                             /\ IsFull(c.blocks[k])
                                             /\ c.blocks[k].pub_key \in keys}
  <1>1. ids \in SUBSET (0..n) /\ i \in ids /\ DOMAIN c.blocks = 1..n
    BY <1>a DEF IsNewestFull
  <1>2. Max(ids) \in ids /\ i <= Max(ids)
    BY <1>1, MaxNatural
  <1>3. ASSUME NEW k \in ids, i <= k PROVE k = i
    BY <1>1, <1>3 DEF IsNewestFull
  <1>4. Max(ids) = i
    BY <1>2, <1>3
  <1> QED
    BY <1>1, <1>4 DEF StoredFullBlock

LEMMA StoredFullBlockNone ==
    ASSUME NEW c, NEW m, NEW keys, HasNoFull(c, m, keys)
    PROVE  StoredFullBlock(c, m, keys) = NoBlock
  <1>1. {k \in DOMAIN c.blocks : /\ k < m
                                 /\ IsFull(c.blocks[k])
                                 /\ c.blocks[k].pub_key \in keys} = {}
    BY DEF HasNoFull
  <1> QED
    BY <1>1 DEF StoredFullBlock

(* Either way.                                                             *)
LEMMA StoredFullBlockCases ==
    ASSUME NEW c, c.blocks \in BlockTables, NEW m \in Int, NEW keys
    PROVE  \/ StoredFullBlock(c, m, keys) = NoBlock /\ HasNoFull(c, m, keys)
           \/ \E i \in DOMAIN c.blocks :
                IsNewestFull(c, i, m, keys) /\ StoredFullBlock(c, m, keys) = c.blocks[i]
  <1>a. PICK n \in Nat : c.blocks \in [1..n -> Blocks]
    BY DEF BlockTables
  <1> DEFINE ids == {k \in DOMAIN c.blocks : /\ k < m
                                             /\ IsFull(c.blocks[k])
                                             /\ c.blocks[k].pub_key \in keys}
  <1>1. ids \in SUBSET (0..n) /\ DOMAIN c.blocks = 1..n
    BY <1>a
  <1>2. CASE ids = {}
    BY <1>1, <1>2 DEF StoredFullBlock, HasNoFull
  <1>3. CASE ids # {}
    <2>1. Max(ids) \in ids /\ \A k \in ids : k <= Max(ids)
      BY <1>1, <1>3, MaxNatural
    <2>2. PICK i \in ids : i = Max(ids)
      BY <2>1
    <2>3. StoredFullBlock(c, m, keys) = c.blocks[i]
      BY <1>3, <2>2 DEF StoredFullBlock
    <2>4. \A k \in 1..n : i < k /\ k < m /\ IsFull(c.blocks[k]) => c.blocks[k].pub_key \notin keys
      <3> SUFFICES ASSUME NEW k \in 1..n, i < k, k < m, IsFull(c.blocks[k]), c.blocks[k].pub_key \in keys
                   PROVE  FALSE
        OBVIOUS
      <3>1. k \in ids /\ i \in 1..n
        BY <1>1
      <3>2. k <= i
        BY <2>1, <2>2, <3>1
      <3> QED
        BY <3>1, <3>2
    <2> QED
      BY <1>1, <2>2, <2>3, <2>4 DEF IsNewestFull
  <1> QED
    BY <1>2, <1>3

(* Rows without full blocks do not change the newest one.                  *)
LEMMA NoFullBetween ==
    ASSUME NEW c, c.blocks \in BlockTables, NEW m \in Int, NEW j \in Int, m <= j,
           \A k \in DOMAIN c.blocks : m <= k /\ k < j => ~IsFull(c.blocks[k])
    PROVE  StoredFullBlock(c, m, Keys) = StoredFullBlock(c, j, Keys)
  <1>1. DOMAIN c.blocks \subseteq Int
    BY DEF BlockTables
  <1>2. ASSUME HasNoFull(c, m, Keys) PROVE HasNoFull(c, j, Keys)
    BY <1>1, <1>2 DEF HasNoFull
  <1>3. ASSUME NEW i, IsNewestFull(c, i, m, Keys) PROVE IsNewestFull(c, i, j, Keys)
    BY <1>1, <1>3 DEF IsNewestFull
  <1>4. CASE StoredFullBlock(c, m, Keys) = NoBlock /\ HasNoFull(c, m, Keys)
    BY <1>2, <1>4, StoredFullBlockNone
  <1>5. ASSUME NEW i, IsNewestFull(c, i, m, Keys), StoredFullBlock(c, m, Keys) = c.blocks[i]
        PROVE  StoredFullBlock(c, m, Keys) = StoredFullBlock(c, j, Keys)
    BY <1>3, <1>5, StoredFullBlockIs
  <1> QED
    BY <1>4, <1>5, StoredFullBlockCases

(* Two tables agree below m when their truncations are equal.              *)
LEMMA BelowAgrees ==
    ASSUME NEW f, NEW g, NEW m, Below(f, m) = Below(g, m)
    PROVE  /\ {k \in DOMAIN f : k < m} = {k \in DOMAIN g : k < m}
           /\ \A k \in DOMAIN f : k < m => k \in DOMAIN g /\ f[k] = g[k]
  <1> DEFINE F == Below(f, m)
             G == Below(g, m)
  <1>1. /\ DOMAIN F = {k \in DOMAIN f : k < m} /\ (\A k \in DOMAIN F : F[k] = f[k])
        /\ DOMAIN G = {k \in DOMAIN g : k < m} /\ (\A k \in DOMAIN G : G[k] = g[k])
    BY DEF Below
  <1>2. F = G
    OBVIOUS
  <1> HIDE DEF F, G
  <1> QED
    BY <1>1, <1>2

(* Tables that agree below m agree below every earlier row.                *)
LEMMA BelowShrinks ==
    ASSUME NEW f, NEW g, DOMAIN f \subseteq Int, DOMAIN g \subseteq Int,
           NEW m \in Int, NEW j \in Int, j <= m, Below(f, m) = Below(g, m)
    PROVE  Below(f, j) = Below(g, j)
  <1>1. /\ {k \in DOMAIN f : k < m} = {k \in DOMAIN g : k < m}
        /\ \A k \in DOMAIN f : k < m => k \in DOMAIN g /\ f[k] = g[k]
    BY BelowAgrees
  <1>2. {k \in DOMAIN f : k < j} = {k \in DOMAIN g : k < j}
    BY <1>1
  <1>3. \A k \in {i \in DOMAIN f : i < j} : f[k] = g[k]
    BY <1>1
  <1> QED
    BY <1>2, <1>3 DEF Below

(* The newest full block below a row is the same.                          *)
LEMMA StoredFullBlockAgrees ==
    ASSUME NEW c, c.blocks \in BlockTables, NEW d, NEW m, NEW keys,
           Below(c.blocks, m) = Below(d.blocks, m)
    PROVE  StoredFullBlock(c, m, keys) = StoredFullBlock(d, m, keys)
  <1>a. PICK n \in Nat : c.blocks \in [1..n -> Blocks]
    BY DEF BlockTables
  <1> DEFINE C == {i \in DOMAIN c.blocks : /\ i < m
                                           /\ IsFull(c.blocks[i])
                                           /\ c.blocks[i].pub_key \in keys}
             D == {i \in DOMAIN d.blocks : /\ i < m
                                           /\ IsFull(d.blocks[i])
                                           /\ d.blocks[i].pub_key \in keys}
  <1>1. /\ {k \in DOMAIN c.blocks : k < m} = {k \in DOMAIN d.blocks : k < m}
        /\ \A k \in DOMAIN c.blocks : k < m => k \in DOMAIN d.blocks /\ c.blocks[k] = d.blocks[k]
    BY BelowAgrees
  <1>2. C = D
    BY <1>1
  <1>3. C \in SUBSET (0..n)
    BY <1>a
  <1>4. C # {} => Max(C) \in C
    BY <1>3, MaxNatural
  <1>5. C # {} => c.blocks[Max(C)] = d.blocks[Max(C)]
    BY <1>1, <1>4
  <1> QED
    BY <1>2, <1>5 DEF StoredFullBlock

(* And so is the newest row of an identity.                                *)
LEMMA LastRowAgrees ==
    ASSUME NEW c, NEW n \in Nat, DOMAIN c.domains \subseteq 1..n, NEW d, NEW m, NEW identity,
           Below(c.domains, m) = Below(d.domains, m)
    PROVE  LastRow(c, identity, m) = LastRow(d, identity, m)
  <1> DEFINE C == {i \in DOMAIN c.domains : i < m /\ c.domains[i].identity = identity}
             D == {i \in DOMAIN d.domains : i < m /\ d.domains[i].identity = identity}
  <1>1. /\ {k \in DOMAIN c.domains : k < m} = {k \in DOMAIN d.domains : k < m}
        /\ \A k \in DOMAIN c.domains : k < m => k \in DOMAIN d.domains /\ c.domains[k] = d.domains[k]
    BY BelowAgrees
  <1>2. C = D
    BY <1>1
  <1>3. C \in SUBSET (0..n)
    OBVIOUS
  <1>4. C # {} => Max(C) \in C
    BY <1>3, MaxNatural
  <1>5. C # {} => c.domains[Max(C)] = d.domains[Max(C)]
    BY <1>1, <1>4
  <1> QED
    BY <1>2, <1>5 DEF LastRow

(* A probe looks at a row of the window.                                   *)
LEMMA ProbedRowRange ==
    ASSUME NEW tail \in Nat, NEW count \in Nat, NEW window \in Nat \ {0}
    PROVE  ProbedRow(tail, count, window) \in 1..window
  <1>1. U64 \in Nat \ {0}
    BY RulesAssumption
  <1>2. tail * count \in Nat
    OBVIOUS
  <1>3. (tail * count) % U64 \in Nat
    BY <1>1, <1>2
  <1>4. ((tail * count) % U64) % window \in 0..(window - 1)
    BY <1>3
  <1> QED
    BY <1>4 DEF ProbedRow

(* The search for signers looks only below the full block.                 *)
LEMMA SearchAgrees ==
    ASSUME NEW full \in Blocks, full.index >= 2,
           NEW c, 1..(full.index - 1) \subseteq DOMAIN c.blocks,
           NEW d, Below(c.blocks, full.index) = Below(d.blocks, full.index)
    PROVE  /\ SearchedSigners(c, full) = SearchedSigners(d, full)
           /\ SearchEnds(c, full) <=> SearchEnds(d, full)
  <1> DEFINE m == full.index
             window == m - 1
             tail == full.signature
             KeyAt(e, p) == [k \in DOMAIN p |-> e.blocks[p[k]].pub_key]
             Unskipped(e) == {k \in SIGNERS_MITIGATION..(SIGNERS_MITIGATION + window) :
                                 e.blocks[ProbedRow(tail, k, window)].pub_key \in Seasoned(e, full)}
  <1>1. m \in Nat /\ window \in Nat \ {0} /\ tail \in Nat /\ SIGNERS_MITIGATION \in Nat
    BY BlockFacts, RulesAssumption DEF BlockRecords
  <1>2. /\ {k \in DOMAIN c.blocks : k < m} = {k \in DOMAIN d.blocks : k < m}
        /\ \A k \in DOMAIN c.blocks : k < m => k \in DOMAIN d.blocks /\ c.blocks[k] = d.blocks[k]
    BY BelowAgrees
  <1>3. \A k \in 1..window : c.blocks[k] = d.blocks[k]
    BY <1>1, <1>2
  <1>4. Seasoned(c, full) = Seasoned(d, full)
    <2>1. ASSUME NEW key PROVE get_user_block_count(c, key, m) = get_user_block_count(d, key, m)
      <3>1. {i \in DOMAIN c.blocks : i < m /\ c.blocks[i].pub_key = key}
              = {i \in DOMAIN d.blocks : i < m /\ d.blocks[i].pub_key = key}
        BY <1>2
      <3> QED
        BY <3>1 DEF get_user_block_count
    <2> QED
      BY <2>1 DEF Seasoned
  <1>5. Unskipped(c) = Unskipped(d)
    <2>1. ASSUME NEW k \in SIGNERS_MITIGATION..(SIGNERS_MITIGATION + window)
          PROVE  c.blocks[ProbedRow(tail, k, window)] = d.blocks[ProbedRow(tail, k, window)]
      <3>1. k \in Nat
        BY <1>1
      <3>2. ProbedRow(tail, k, window) \in 1..window
        BY <1>1, <3>1, ProbedRowRange
      <3> QED
        BY <1>3, <3>2
    <2> QED
      BY <1>4, <2>1
  <1>6. Probes(c, full) = Probes(d, full)
    BY <1>5 DEF Probes
  <1>7. \A k \in DOMAIN Probes(c, full) : Probes(c, full)[k] \in 1..window
    <2> DEFINE T(k) == IF \E x \in Unskipped(c) : x < k THEN tail \div 13 ELSE tail
    <2>1. Probes(c, full) = [k \in 1..(SIGNERS_MITIGATION + 2 * m) |-> ProbedRow(T(k), k, window)]
      BY DEF Probes
    <2>2. ASSUME NEW k \in 1..(SIGNERS_MITIGATION + 2 * m)
          PROVE  ProbedRow(T(k), k, window) \in 1..window
      <3>1. T(k) \in Nat
        BY <1>1
      <3>2. k \in Nat
        BY <1>1
      <3> HIDE DEF T
      <3> QED
        BY <1>1, <3>1, <3>2, ProbedRowRange
    <2> HIDE DEF T
    <2> QED
      BY <2>1, <2>2
  <1>8. KeyAt(c, Probes(c, full)) = KeyAt(d, Probes(d, full))
    <2> HIDE DEF window, m
    <2>1. \A k \in DOMAIN Probes(c, full) :
             c.blocks[Probes(c, full)[k]] = d.blocks[Probes(c, full)[k]]
      BY <1>3, <1>7
    <2> QED
      BY <1>6, <2>1
  <1>9. FirstProbes(c, full) = FirstProbes(d, full)
    <2> DEFINE First(p, keyAt, seasoned) ==
                 LET found == {keyAt[k] : k \in DOMAIN p} \cap (seasoned \ {full.pub_key})
                 IN  [k \in found |-> Min({i \in DOMAIN p : keyAt[i] = k})]
    <2>1. /\ FirstProbes(c, full) = First(Probes(c, full), KeyAt(c, Probes(c, full)), Seasoned(c, full))
          /\ FirstProbes(d, full) = First(Probes(d, full), KeyAt(d, Probes(d, full)), Seasoned(d, full))
      BY DEF FirstProbes
    <2> HIDE DEF KeyAt, First
    <2> QED
      BY <1>4, <1>6, <1>8, <2>1
  <1> QED
    BY <1>9 DEF SearchedSigners, SearchEnds

-----------------------------------------------------------------------------
(* The cached full block, and the loop of check_chain.                     *)

(* The rows of a chain with a current last_block.                          *)
LEMMA RowsUpToHeight ==
    ASSUME NEW c, SoundChain(c), Top(c)
    PROVE  /\ get_height(c) \in Nat /\ DOMAIN c.blocks = 1..get_height(c)
           /\ c.blocks \in [1..get_height(c) -> Blocks]
           /\ c.blocks \in BlockTables /\ LinkedBlocks(c.blocks)
           /\ c.last_block = IF get_height(c) = 0 THEN NoBlock ELSE c.blocks[get_height(c)]
  <1>1. c.blocks \in BlockTables /\ LinkedBlocks(c.blocks)
    BY DEF SoundChain, ChainValues
  <1>2. PICK n \in Nat : c.blocks \in [1..n -> Blocks]
    BY <1>1 DEF BlockTables
  <1>3. get_height(c) = n /\ c.last_block = IF n = 0 THEN NoBlock ELSE c.blocks[n]
    BY <1>2, HeightIsLength
  <1> QED
    BY <1>1, <1>2, <1>3

(* A table with one more row has that row or the same newest full block.   *)
LEMMA NewestFullExtends ==
    ASSUME NEW c, NEW n \in Nat, c.blocks \in [1..n -> Blocks],
           NEW d, d.blocks \in [1..(n + 1) -> Blocks], \A i \in 1..n : d.blocks[i] = c.blocks[i]
    PROVE  StoredFullBlock(d, n + 2, Keys) =
             IF IsFull(d.blocks[n + 1]) THEN d.blocks[n + 1] ELSE StoredFullBlock(c, n + 1, Keys)
  <1>1. DOMAIN d.blocks = 1..(n + 1) /\ DOMAIN c.blocks = 1..n
    OBVIOUS
  <1>2. CASE IsFull(d.blocks[n + 1])
    <2>1. d.blocks[n + 1].pub_key \in Keys
      BY BlockKey
    <2>2. IsNewestFull(d, n + 1, n + 2, Keys)
      BY <1>1, <1>2, <2>1 DEF IsNewestFull
    <2>3. d.blocks \in BlockTables /\ n + 2 \in Int
      <3>1. n + 1 \in Nat
        OBVIOUS
      <3> QED
        BY <3>1, SizedTable
    <2>4. StoredFullBlock(d, n + 2, Keys) = d.blocks[n + 1]
      BY <2>2, <2>3, StoredFullBlockIs
    <2> QED
      BY <1>2, <2>4
  <1>3. CASE ~IsFull(d.blocks[n + 1])
    <2> DEFINE C == {i \in DOMAIN c.blocks : /\ i < n + 1
                                             /\ IsFull(c.blocks[i])
                                             /\ c.blocks[i].pub_key \in Keys}
               D == {i \in DOMAIN d.blocks : /\ i < n + 2
                                             /\ IsFull(d.blocks[i])
                                             /\ d.blocks[i].pub_key \in Keys}
    <2>1. C = D /\ C \in SUBSET (0..n)
      BY <1>3
    <2>2. C # {} => Max(C) \in C
      BY <2>1, MaxNatural
    <2>3. C # {} => c.blocks[Max(C)] = d.blocks[Max(C)]
      BY <2>2
    <2> QED
      BY <1>3, <2>1, <2>3 DEF StoredFullBlock
  <1> QED
    BY <1>2, <1>3

(* The cached full block is the newest of the table.                       *)
FullIsCurrent(c) == c.last_full_block = StoredFullBlock(c, get_height(c) + 1, Keys)

(* Then it is the newest below m, when it is below m.                      *)
LEMMA CurrentFullBelow ==
    ASSUME NEW c, SoundChain(c), Top(c), FullIsCurrent(c), NEW m \in Int,
           c.last_full_block # NoBlock, c.last_full_block.index < m
    PROVE  c.last_full_block = StoredFullBlock(c, m, Keys)
  <1> DEFINE n == get_height(c)
  <1>1. /\ n \in Nat /\ DOMAIN c.blocks = 1..n
        /\ c.blocks \in BlockTables /\ LinkedBlocks(c.blocks)
    BY RowsUpToHeight
  <1> HIDE DEF n
  <1>2. c.last_full_block = StoredFullBlock(c, n + 1, Keys) /\ n + 1 \in Int
    BY <1>1 DEF FullIsCurrent, n
  <1>3. PICK i \in DOMAIN c.blocks : IsNewestFull(c, i, n + 1, Keys) /\ c.last_full_block = c.blocks[i]
    BY <1>1, <1>2, StoredFullBlockCases
  <1>4. i < m
    BY <1>1, <1>3 DEF LinkedBlocks
  <1>5. IsNewestFull(c, i, m, Keys)
    BY <1>1, <1>3, <1>4 DEF IsNewestFull
  <1> QED
    BY <1>1, <1>3, <1>5, StoredFullBlockIs

(* The cached block can answer for m: it is the newest full block below m, *)
(* or lies above.                                                          *)
FullFits(c, m) ==
    (c.last_full_block # NoBlock /\ c.last_full_block.index < m)
       => c.last_full_block = StoredFullBlock(c, m, Keys)

(* Then get_last_full_block answers as the table would.                    *)
LEMMA GetLastFullIsStored ==
    ASSUME NEW c, c.blocks \in BlockTables, NEW m \in Int, FullFits(c, m), NEW keys \in SUBSET Keys
    PROVE  get_last_full_block(c, m, keys) = StoredFullBlock(c, m, keys)
  <1> DEFINE full == c.last_full_block
  <1>1. CASE full # NoBlock /\ full.index < m /\ full.pub_key \in keys
    <2>1. full = StoredFullBlock(c, m, Keys) /\ full # NoBlock
      BY <1>1 DEF FullFits
    <2>2. PICK i \in DOMAIN c.blocks : IsNewestFull(c, i, m, Keys) /\ full = c.blocks[i]
      BY <2>1, StoredFullBlockCases
    <2>3. IsNewestFull(c, i, m, keys)
      BY <1>1, <2>2 DEF IsNewestFull
    <2>4. StoredFullBlock(c, m, keys) = c.blocks[i]
      BY <2>3, StoredFullBlockIs
    <2> QED
      BY <1>1, <2>2, <2>4 DEF get_last_full_block
  <1>2. CASE ~(full # NoBlock /\ full.index < m /\ full.pub_key \in keys)
    BY <1>2 DEF get_last_full_block
  <1> QED
    BY <1>1, <1>2

(* Chain::new loads the newest full block, and no signers.                 *)
LEMMA InitDbLoadsFull ==
    ASSUME NEW f \in BlockTables, LinkedBlocks(f), NEW g \in DomainTables
    PROVE  FullIsCurrent(init_db(f, g)) /\ init_db(f, g).signers = NoSigners
  <1> DEFINE c == EmptyChain(f, g)
             d == init_db(f, g)
             n == get_height(d)
  <1>1. SoundChain(d) /\ Top(d) /\ d.blocks = f
    BY InitDbIsSound
  <1>2. n \in Nat /\ DOMAIN f = 1..n
    <2> HIDE DEF d
    <2> QED
      BY <1>1, RowsUpToHeight
  <1>3. Max({0} \cup DOMAIN f) = n
    <2> HIDE DEF n
    <2>1. /\ {0} \cup DOMAIN f = 0..n
          /\ (0..n) \in SUBSET (0..n) /\ (0..n) # {} /\ n \in 0..n
      BY <1>2
    <2>2. Max(0..n) \in 0..n /\ \A y \in 0..n : y <= Max(0..n)
      BY <1>2, <2>1, MaxNatural
    <2>3. n <= Max(0..n)
      BY <2>1, <2>2
    <2>4. Max(0..n) = n
      BY <1>2, <2>2, <2>3
    <2> QED
      BY <2>1, <2>4
  <1>4. c.blocks = f /\ d.signers = NoSigners
        /\ d.last_full_block = StoredFullBlock(c, Max({0} \cup DOMAIN f) + 1, Keys)
    BY DEF EmptyChain, init_db
  <1>5. StoredFullBlock(c, n + 1, Keys) = StoredFullBlock(d, n + 1, Keys)
    <2>1. c.blocks \in BlockTables /\ Below(c.blocks, n + 1) = Below(d.blocks, n + 1)
      BY <1>1, <1>4
    <2> HIDE DEF c, d, n
    <2> QED
      BY <2>1, StoredFullBlockAgrees
  <1> HIDE DEF c, d
  <1> QED
    BY <1>3, <1>4, <1>5 DEF FullIsCurrent, d

(* The loop has met no full block before i.                                *)
MetNoFull(c, count, i) ==
    \A k \in Max({2, CheckStart(c, count)})..(i - 1) : ~IsFull(c.blocks[k])

(* The newest full block the loop has checked is the newest below i.       *)
LEMMA FullCheckedBeforeIs ==
    ASSUME NEW c, SoundChain(c), Top(c),
           NEW count \in Nat \ {0}, NEW i \in 1..(get_height(c) + 1), NEW otherwise
    PROVE  \/ /\ FullCheckedBefore(c, count, i, otherwise) = StoredFullBlock(c, i, Keys)
              /\ StoredFullBlock(c, i, Keys) # NoBlock
           \/ /\ FullCheckedBefore(c, count, i, otherwise) = otherwise
              /\ MetNoFull(c, count, i)
  <1> DEFINE n == get_height(c)
             from == Max({2, CheckStart(c, count)})
             ids == {j \in from..(i - 1) : IsFull(c.blocks[j])}
  <1>0. /\ n \in Nat /\ DOMAIN c.blocks = 1..n /\ c.blocks \in [1..n -> Blocks]
        /\ c.blocks \in BlockTables
    BY RowsUpToHeight
  <1>1. from \in Nat \ {0}
    BY <1>0, LoopRangeStart
  <1>a. i \in 1..(n + 1)
    OBVIOUS
  <1> HIDE DEF from, n
  <1>2. ids \in SUBSET (0..n) /\ ids \subseteq 1..n
    BY <1>0, <1>1, <1>a
  <1>3. CASE ids = {}
    BY <1>3 DEF FullCheckedBefore, from, MetNoFull
  <1>4. CASE ids # {}
    <2>1. Max(ids) \in ids /\ \A k \in ids : k <= Max(ids)
      BY <1>0, <1>2, <1>4, MaxNatural
    <2>2. PICK j \in ids : j = Max(ids)
      BY <2>1
    <2>3. FullCheckedBefore(c, count, i, otherwise) = c.blocks[j]
      BY <1>4, <2>2 DEF FullCheckedBefore, from
    <2>4. /\ j \in 1..n /\ j < i /\ IsFull(c.blocks[j]) /\ j >= from
          /\ c.blocks[j].pub_key \in Keys /\ c.blocks[j] # NoBlock
      BY <1>0, <1>1, <1>2, <1>a, BlockKey, BlockFacts
    <2>5. ASSUME NEW k \in 1..n, j < k, k < i, IsFull(c.blocks[k])
          PROVE  FALSE
      <3>1. k \in ids
        BY <1>0, <1>1, <1>a, <2>4, <2>5
      <3> QED
        BY <1>0, <2>1, <2>2, <2>4, <2>5, <3>1
    <2>6. IsNewestFull(c, j, i, Keys)
      BY <1>0, <2>4, <2>5 DEF IsNewestFull
    <2>7. StoredFullBlock(c, i, Keys) = c.blocks[j]
      BY <1>0, <1>a, <2>6, StoredFullBlockIs
    <2> QED
      BY <2>3, <2>4, <2>7
  <1> QED
    BY <1>3, <1>4

(* In the round of block i the cache can answer for i.                     *)
LEMMA InRoundFull ==
    ASSUME NEW c, SoundChain(c), Top(c), FullIsCurrent(c),
           NEW count \in Nat \ {0}, NEW i \in 1..(get_height(c) + 1)
    PROVE  /\ InRound(c, count, i).last_full_block \in {StoredFullBlock(c, i, Keys), c.last_full_block}
           /\ FullFits(InRound(c, count, i), i)
           /\ InRound(c, count, i).blocks = c.blocks /\ InRound(c, count, i).domains = c.domains
           /\ InRound(c, count, i).signers = c.signers
           /\ InRound(c, count, i).last_block = c.last_block
  <1> DEFINE full == FullCheckedBefore(c, count, i, c.last_full_block)
             d == InRound(c, count, i)
  <1>1. /\ d.last_full_block = full /\ d.blocks = c.blocks /\ d.domains = c.domains
        /\ d.signers = c.signers /\ d.last_block = c.last_block
    BY DEF InRound, SoundChain, ChainValues
  <1>2. full \in {StoredFullBlock(c, i, Keys), c.last_full_block}
    BY FullCheckedBeforeIs
  <1> HIDE DEF full, d
  <1>3. c.blocks \in BlockTables
    BY RowsUpToHeight
  <1>4. StoredFullBlock(d, i, Keys) = StoredFullBlock(c, i, Keys)
    BY <1>1, <1>3, StoredFullBlockAgrees
  <1>5. ASSUME full # NoBlock, full.index < i PROVE full = StoredFullBlock(c, i, Keys)
    <2>1. i \in Int
      BY RowsUpToHeight
    <2> QED
      BY <1>2, <1>5, <2>1, CurrentFullBelow
  <1>6. FullFits(d, i)
    BY <1>1, <1>4, <1>5 DEF FullFits
  <1> QED
    BY <1>1, <1>2, <1>6 DEF d

(* What check_chain compares block i with is the newest full block below   *)
(* it, or nothing when it has started from block 1 and met none.           *)
LEMMA LoopFullBlockIs ==
    ASSUME NEW c, SoundChain(c), Top(c), FullIsCurrent(c), NEW count \in Nat \ {0},
           NEW i \in 1..(get_height(c) + 1), i >= CheckStart(c, count)
    PROVE  LoopFullBlock(c, count, i) \in {StoredFullBlock(c, i, Keys), NoBlock}
  <1> DEFINE n == get_height(c)
             start == CheckStart(c, count)
             last == get_block(c, start - 1)
             before == CASE start = 1 \/ last = NoBlock -> NoBlock
                         [] start > 1 /\ last # NoBlock /\ IsFull(last) -> last
                         [] OTHER -> get_last_full_block(c, last.index, Keys)
  <1>1. /\ n \in Nat /\ DOMAIN c.blocks = 1..n /\ c.blocks \in [1..n -> Blocks]
        /\ c.blocks \in BlockTables /\ LinkedBlocks(c.blocks)
    BY RowsUpToHeight
  <1>2. start \in 1..(n + 1) /\ i \in 1..(n + 1) /\ start <= i
    BY <1>1, CheckStartRange
  <1>3. \/ LoopFullBlock(c, count, i) = StoredFullBlock(c, i, Keys)
        \/ LoopFullBlock(c, count, i) = before /\ MetNoFull(c, count, i)
    <2>1. LoopFullBlock(c, count, i) = FullCheckedBefore(c, count, i, before)
      BY DEF LoopFullBlock
    <2> HIDE DEF before
    <2> QED
      BY <2>1, FullCheckedBeforeIs
  <1>4. CASE start = 1
    <2>1. before = NoBlock
      BY <1>4
    <2> QED
      BY <1>3, <2>1
  <1>5. ASSUME start # 1, MetNoFull(c, count, i) PROVE before = StoredFullBlock(c, i, Keys)
    <2>1. Max({2, start}) = start
      <3>1. {2, start} \in SUBSET (0..(n + 2)) /\ {2, start} # {} /\ n + 2 \in Nat
        BY <1>1, <1>2
      <3>2. Max({2, start}) \in {2, start} /\ \A y \in {2, start} : y <= Max({2, start})
        BY <3>1, MaxNatural
      <3> QED
        BY <1>1, <1>2, <1>5, <3>2
    <2>2. \A k \in start..(i - 1) : ~IsFull(c.blocks[k])
      BY <1>5, <2>1 DEF MetNoFull
    <2>3. start - 1 \in 1..n /\ last = c.blocks[start - 1] /\ last \in Blocks /\ last.index = start - 1
      <3>1. start - 1 \in 1..n
        BY <1>1, <1>2, <1>5
      <3> QED
        BY <1>1, <3>1 DEF get_block, LinkedBlocks
    <2>4. last # NoBlock /\ last.pub_key \in Keys
      BY <2>3, BlockFacts, BlockKey
    <2> HIDE DEF start, last, n
    <2>5. CASE IsFull(last)
      <3>1. before = last
        BY <1>2, <1>5, <2>4, <2>5
      <3>2. IsNewestFull(c, start - 1, i, Keys)
        <4>1. \A k \in 1..n : start - 1 < k /\ k < i => ~IsFull(c.blocks[k])
          BY <1>1, <1>2, <2>2
        <4> QED
          BY <1>1, <1>2, <2>3, <2>4, <2>5, <4>1 DEF IsNewestFull
      <3>3. StoredFullBlock(c, i, Keys) = last
        BY <1>1, <1>2, <2>3, <3>2, StoredFullBlockIs
      <3> QED
        BY <3>1, <3>3
    <2>6. CASE ~IsFull(last)
      <3>1. before = get_last_full_block(c, start - 1, Keys)
        BY <2>3, <2>4, <2>6
      <3>2. start - 1 \in Int /\ i \in Int /\ start - 1 <= i
        BY <1>1, <1>2
      <3>3. FullFits(c, start - 1)
        BY <3>2, CurrentFullBelow DEF FullFits
      <3>4. get_last_full_block(c, start - 1, Keys) = StoredFullBlock(c, start - 1, Keys)
        <4>1. Keys \in SUBSET Keys
          OBVIOUS
        <4> QED
          BY <1>1, <3>2, <3>3, <4>1, GetLastFullIsStored
      <3>5. \A k \in DOMAIN c.blocks : start - 1 <= k /\ k < i => ~IsFull(c.blocks[k])
        BY <1>1, <1>2, <2>2, <2>3, <2>6
      <3>6. StoredFullBlock(c, start - 1, Keys) = StoredFullBlock(c, i, Keys)
        BY <1>1, <3>2, <3>5, NoFullBetween
      <3> QED
        BY <3>1, <3>4, <3>6
    <2> QED
      BY <2>5, <2>6
  <1> QED
    BY <1>3, <1>4, <1>5
=============================================================================

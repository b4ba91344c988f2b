------------------------------ MODULE MCChain ------------------------------
(***************************************************************************)
(* The instance of Chain that TLC explores: a tree of blocks.  The first   *)
(* four blocks are fixed, one for each key; above them every parent has    *)
(* one child of each kind that Kinds gives for its height.  A hash is the  *)
(* path from the first block, which makes hashes unique and a parent's     *)
(* hash part of its children's.  A heavier first block, not the origin,    *)
(* has no children.  Beside the tree there are blocks of index 0, each     *)
(* with a child of index 1.                                                *)
(***************************************************************************)
EXTENDS Chain, Sequences, SequencesExt, TLC

CONSTANTS
    k1, k2, k3, k4, d1, d2, d3, d4, none,
    Kinds,    \* the kinds of blocks at each height above the fixed ones
    Zeros     \* the kinds of blocks of index 0

SignedBy(k, weight) ==
    [key |-> k, transaction |-> NoTransaction, weight |-> weight, tail |-> 1,
     work |-> SIGNER_DIFFICULTY, back |-> 0]

Registers(k, d, weight, tail) ==
    [key |-> k, weight |-> weight, tail |-> tail, work |-> DOMAIN_DIFFICULTY, back |-> 0,
     transaction |-> [class |-> "domain", identity |-> d, signing |-> NoKey, data |-> "ok"]]

Kind ==
    [s1 |-> SignedBy(k1, 2), s2 |-> SignedBy(k2, 4),
     late |-> [SignedBy(k3, 5) EXCEPT !.back = 2],  \* dated before its parent
     r1 |-> Registers(k1, d3, 3, 1),   \* takes d3, which k4 has registered
     r2 |-> Registers(k2, d1, 1, 2),   \* renews d1, with a tail that can fail the search
     r3 |-> Registers(k3, d4, 2, 1),   \* registers a new domain
     t2 |-> [Registers(k2, d1, 4, 1) EXCEPT !.transaction.signing = k1],  \* gives d1 to k1
     u1 |-> [Registers(k1, d1, 1, 1) EXCEPT !.work = DOMAIN_DIFFICULTY - 1], \* k1 changes d1
     x1 |-> [Registers(k1, none, 2, 1) EXCEPT !.transaction.class = "origin",
                                              !.work = ORIGIN_DIFFICULTY],
     o3 |-> [Registers(k3, none, 3, 1) EXCEPT !.transaction.class = "origin",
                                              !.work = ORIGIN_DIFFICULTY],  \* another network's
     x2 |-> Registers(k2, d1, 2, 1), x3 |-> Registers(k3, d2, 2, 1),
     x4 |-> Registers(k4, d3, 2, 1)]

Fixed == <<"x1", "x2", "x3", "x4">>

Climbs(n) ==
    {p \in [1..n -> UNION Range(Kinds)] : \A i \in 1..n : p[i] \in Kinds[i]}

Paths ==
    {<<"o3">>} \cup {<<k>> : k \in Zeros} \cup {<<k, "x1">> : k \in Zeros}
        \cup {SubSeq(Fixed, 1, n) : n \in 1..Len(Fixed)}
        \cup {Fixed \o p : p \in UNION {Climbs(n) : n \in 1..Len(Kinds)}}

MCHashes == Paths

MCOrigin == <<"x1">>

BlockAt(path) ==
    LET kind == Kind[Last(path)]
    IN  [index |-> IF Head(path) \in Zeros THEN Len(path) - 1 ELSE Len(path),
         timestamp |-> Max({0, Len(path) - Len(Fixed) - kind.back}), version |-> 0,
         difficulty |-> kind.work, nonce |-> 0, hash |-> path,
         prev_block_hash |-> IF Len(path) = 1 THEN NoHash ELSE Front(path),
         pub_key |-> kind.key, signature |-> kind.tail, transaction |-> kind.transaction,
         hash_bits |-> kind.work, weight |-> kind.weight,
         hash_good |-> TRUE, signature_good |-> TRUE]

MCBlocks == {BlockAt(p) : p \in Paths}

(* Forks of signing and full blocks, with domains taken, renewed, given    *)
(* away and changed; and a small tree with a late-dated block for the runs *)
(* that stop between statements.                                           *)
ForkedKinds ==
    <<{"s2", "r1", "r3", "t2"}, {"s1", "s2", "r1", "r2", "u1", "r3"}, {"s1", "s2", "r1", "r2"}>>

FewKinds == <<{"s1", "s2", "r1", "late"}, {"s1", "s2", "r1", "late"}>>
=============================================================================

----------------------------- MODULE MCNetwork -----------------------------
(***************************************************************************)
(* The instance of Network that TLC explores.  All nodes start with the    *)
(* same Base blocks; above them every node may mine one block on every     *)
(* block.  A hash is the path of the block.                                *)
(***************************************************************************)
EXTENDS Network, SequencesExt, TLC

CONSTANTS
    k1, k2, k3, n1, n2, n3, none,
    Registrars,  \* keys whose blocks register a domain, with little work
    Base,        \* blocks that all nodes share
    Branches,    \* blocks that may follow them
    Alone        \* how many blocks a node may have mined before it connects

Weight == (k1 :> 1) @@ (k2 :> 2) @@ (k3 :> 3)

MCKeyOf == [n \in Nodes |-> (n1 :> k1 @@ n2 :> k2 @@ n3 :> k3)[n]]

(* n1 connects to the others, n2 to n3.                                    *)
MCBootstrap == [n \in Nodes |-> (n1 :> {n2, n3} @@ n2 :> {n3} @@ n3 :> {})[n] \cap Nodes]

Paths ==
    {[i \in 1..n |-> k1] : n \in 1..Base}
        \cup {[i \in 1..Base |-> k1] \o p :
                p \in UNION {[1..n -> Range(MCKeyOf) \cup Registrars] : n \in 1..Branches}}

MCHashes == Paths

MCOrigin == <<k1>>

BlockAt(path) ==
    [index |-> Len(path), timestamp |-> 0, version |-> 0, difficulty |-> ORIGIN_DIFFICULTY,
     nonce |-> 0, hash |-> path,
     prev_block_hash |-> IF Len(path) = 1 THEN NoHash ELSE Front(path),
     pub_key |-> Last(path), signature |-> 1,
     transaction |-> IF Len(path) > 1 /\ Last(path) \notin Registrars THEN NoTransaction
                     ELSE [class |-> IF Len(path) = 1 THEN "origin" ELSE "domain",
                           identity |-> none, signing |-> NoKey, data |-> "ok"],
     hash_bits |-> ORIGIN_DIFFICULTY,
     weight |-> IF Last(path) \in Registrars THEN 0 ELSE Weight[Last(path)],
     hash_good |-> TRUE, signature_good |-> TRUE]

MCBlocks == {BlockAt(p) : p \in Paths}

(* Each node has mined some blocks of its own on the common ones.          *)
ChainOf(path) == [i \in DOMAIN path |-> BlockAt(SubSeq(path, 1, i))]

(* One block each.                                                         *)
OneEach == (n1 :> {1} @@ n2 :> {1})

(* n2 has the better blocks, one or three of them; n1 has one or two.      *)
OneIsBetter == (n1 :> {1, 2} @@ n2 :> {1, 3})

(* n1 is ahead with the worse blocks.                                      *)
LongerIsWorse == (n1 :> {2} @@ n2 :> {1})

(* n2 is ahead with the better blocks.                                     *)
LongerIsBetter == (n1 :> {2} @@ n2 :> {3})

(* n1 may have had its blocks from a registrar.                            *)
MCFirstBlocks ==
    [n \in Nodes |->
        {ChainOf([i \in 1..(Base + l) |-> IF i <= Base THEN k1 ELSE k]) :
            l \in Alone[n], k \in {MCKeyOf[n]} \cup (IF n = n1 THEN Registrars ELSE {})}]
=============================================================================

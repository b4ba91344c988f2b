---------------------------- MODULE LinkedChain ----------------------------
(***************************************************************************)
(* What a node's chain promises whoever reads it (the resolver, the        *)
(* network, the miner): a growing sequence of linked blocks.  It says      *)
(* nothing of signers, domains, caches or the database.                    *)
(*                                                                         *)
(* A block may be appended to the chain.  A stored block gives way, with   *)
(* all above it, only to a block that continues the chain below it and     *)
(* that is_better_than it; the top block alone may give way to any.  A     *)
(* restart may drop blocks, but no more than the ones it checks again.     *)
(*                                                                         *)
(* A block of index 0 belongs to no chain and is kept beside it, where     *)
(* check_block puts it.  It stays as long as no other block of index 0     *)
(* takes its place: that one takes the whole chain with it.                *)
(***************************************************************************)
EXTENDS Block, Sequences

CONSTANT Rechecked \* how many blocks a restart checks

VARIABLES
    ledger,        \* the blocks of the chain, from the first
    stray          \* the block of index 0, if there is one

Continues(s, b) ==
    /\ b.index = Len(s) + 1
    /\ Len(s) > 0 => b.prev_block_hash = s[Len(s)].hash

Prefix(n) == SubSeq(ledger, 1, n)

(* Block b may take the place of block n + 1.                              *)
Displaces(b, n) ==
    /\ Continues(Prefix(n), b)
    /\ is_better_than(b, ledger[n + 1]) \/ n + 1 = Len(ledger)

Extend(b) ==
    /\ Continues(ledger, b)
    /\ ledger' = Append(ledger, b)
    /\ UNCHANGED stray

Reorganise(b, n) ==
    /\ Displaces(b, n)
    /\ ledger' = Append(Prefix(n), b)
    /\ UNCHANGED stray

(* What is cut off was checked again, or was about to be replaced.         *)
Cut(n) ==
    /\ \/ Len(ledger) - n <= Rechecked
       \/ \E b \in Blocks : Displaces(b, n)
    /\ ledger' = Prefix(n)
    /\ UNCHANGED stray

KeepStray(b) ==
    /\ b.index = 0 /\ stray = NoBlock /\ ledger # <<>>
    /\ stray' = b
    /\ UNCHANGED ledger

(* The node may stop before it has stored the new block.                   *)
ReplaceStray(b) ==
    /\ b.index = 0 /\ stray # NoBlock /\ b.hash # stray.hash
    /\ ledger' = <<>>
    /\ stray' \in {b, NoBlock}

LInit == ledger = <<>> /\ stray = NoBlock

LNext ==
    \/ \E b \in Blocks : Extend(b) \/ KeepStray(b) \/ ReplaceStray(b)
    \/ \E n \in 0..(Len(ledger) - 1) :
          Cut(n) \/ \E b \in Blocks : Reorganise(b, n)

LSpec == LInit /\ [][LNext]_<<ledger, stray>>
=============================================================================

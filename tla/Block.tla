------------------------------- MODULE Block -------------------------------
(***************************************************************************)
(* The blocks of the ruvname chain (blockchain/block.rs, transaction.rs,   *)
(* hash_utils.rs) as far as the rules of chain.rs can tell them apart.     *)
(*                                                                         *)
(* A block is a record.  What the code computes from the bytes of a block  *)
(* is carried by the record, because bytes are not modelled:               *)
(*   hash_bits       hash_difficulty(hash), zero bits of the hash          *)
(*   weight          the number is_better_than compares, made of the hash  *)
(*   hash_good       what check_block_hash answers                         *)
(*   signature_good  what check_block_signature answers                    *)
(*   signature       get_tail_u64 of the signature                         *)
(* and a transaction's data is "ok", "malformed" (not parsed as DomainData)*)
(* or "forbidden" (parsed, but too many, too long or clearnet records).    *)
(***************************************************************************)
EXTENDS Integers

CONSTANTS
    Blocks,        \* every block that can be mined, stored or received
    Keys,          \* public keys
    StrongKeys,    \* the keys whose hash has KEYSTORE_DIFFICULTY zero bits
    Hashes,        \* block hashes
    Identities,    \* hashes of domain names
    WRONG_HASHES,  \* hashes the code refuses by name
    Origin,        \* hash of the first block of this network, NoHash if none is set
    NoBlock, NoTransaction, NoKey, NoHash   \* absent values

Transactions ==
    [class    : {"origin", "domain", "unknown"},
     identity : Identities,
     signing  : Keys \cup {NoKey},
     data     : {"ok", "malformed", "forbidden"}]

BlockRecords ==
    [index           : Nat,
     timestamp       : Nat,
     version         : Nat,
     difficulty      : Nat,
     nonce           : Nat,
     hash            : Hashes,
     prev_block_hash : Hashes \cup {NoHash},
     pub_key         : Keys,
     signature       : Nat,
     transaction     : Transactions \cup {NoTransaction},
     hash_bits       : Nat,
     weight          : Nat,
     hash_good       : BOOLEAN,
     signature_good  : BOOLEAN]

(* A block that a peer sends may have any index, 0 among them.             *)
(* WRONG_HASHES is a short list: not every hash is refused.                *)
ASSUME BlocksAssumption ==
    /\ Blocks \subseteq BlockRecords
    /\ StrongKeys \subseteq Keys
    /\ WRONG_HASHES \subseteq Hashes /\ Hashes \ WRONG_HASHES # {}
    /\ Origin \in Hashes \cup {NoHash}

ASSUME AbsentAssumption ==
    /\ NoBlock \notin BlockRecords
    /\ NoTransaction \notin Transactions
    /\ NoKey \notin Keys
    /\ NoHash \notin Hashes

(***************************************************************************)
(* The protocol's numbers that need no scaling keep their values.          *)
(***************************************************************************)
CHAIN_VERSION     == 1
ORIGIN_DIFFICULTY == 28
DOMAIN_DIFFICULTY == 24
SIGNER_DIFFICULTY == 16

IsFull(b) == b.transaction # NoTransaction

IsDomain(b) == IsFull(b) /\ b.transaction.class = "domain"

is_genesis(b) ==
    /\ b.index = 1
    /\ IsFull(b) /\ b.transaction.class = "origin"
    /\ b.prev_block_hash = NoHash

(* A full block beats a signing block; otherwise the heavier hash wins and *)
(* equal hashes are told apart by the nonce.                               *)
is_better_than(b, other) ==
    \/ IsFull(b) /\ ~IsFull(other)
    \/ b.weight > other.weight
    \/ b.weight = other.weight /\ b.nonce < other.nonce
=============================================================================

------------------------------- MODULE Chain -------------------------------
(***************************************************************************)
(* One node's chain over its life: blocks that arrive or are mined, forks, *)
(* restarts and crashes.  Every caller of Chain holds the context lock for *)
(* the whole of an operation, so an operation is one step; the only thing  *)
(* that can divide it is a crash, because each SQL statement commits alone.*)
(***************************************************************************)
EXTENDS ChainRules

CONSTANTS
    CheckBlocks,   \* settings.check_blocks, how many blocks a start re-checks
    PeerHeights,   \* heights that peers claim
    MaxTime        \* bound on the clock

ASSUME ChainAssumption ==
    /\ CheckBlocks \in Nat \ {0}
    /\ PeerHeights \subseteq Nat
    /\ MaxTime \in Nat

VARIABLES
    chain,      \* the Chain value; only its tables survive a stop
    now,        \* Utc::now().timestamp()
    status,     \* "up", "down", "panicked", or "hung" in an endless search
    rewritten   \* history: a stored block has been removed since the first start

vars == <<chain, now, status, rewritten>>

Init ==
    /\ chain = EmptyChain(<<>>, <<>>)
    /\ now = 0
    /\ status = "up"
    /\ rewritten = FALSE

Verdict(b) == check_new_block(chain, b, now)

AfterCheck(b) == Checked(chain, b, chain.last_block, chain.last_full_block, now)

(* A block found good is added: the Good arm of Network::handle_block, its *)
(* round over future_blocks, and the miner's own block.                    *)
AddBlock(b) ==
    /\ chain' = add_block(AfterCheck(b), b)
    /\ status' = IF AddBlockPanics(chain, b) THEN "panicked" ELSE "up"
    /\ UNCHANGED <<now, rewritten>>

(* Mutant: being far behind lets a fork win anywhere.                      *)
Lagged_Anywhere(b) == b.index + LIMITED_CONFIDENCE_DEPTH <= chain.max_height

(* We are far behind and the fork is about our last block.                 *)
Lagged(b) ==
    b.index = get_height(chain) /\ b.index + LIMITED_CONFIDENCE_DEPTH <= chain.max_height

ForkWins(b) == is_better_than(b, get_block(chain, b.index)) \/ Lagged(b)

(* The Fork arm of Network::handle_block when the fork wins.               *)
ReplaceBlock(b) ==
    /\ chain' = replace_block(AfterCheck(b), b)
    /\ rewritten' = TRUE
    /\ UNCHANGED <<now, status>>

(* Any other block leaves no trace but the signers it made us search for;  *)
(* when it did not, nothing happens.                                       *)
DropBlock(b) ==
    /\ Searches(chain, b, chain.last_block, chain.last_full_block, now)
    /\ chain' = AfterCheck(b)
    /\ UNCHANGED <<now, status, rewritten>>

(* The Bad arm of Network::handle_block ends the sync when the block that  *)
(* was to be next is bad.                                                  *)
EndSync(b) ==
    /\ b.index = get_height(chain) + 1
    /\ chain' = [AfterCheck(b) EXCEPT !.max_height = get_height(chain)]
    /\ UNCHANGED <<now, status, rewritten>>

(* The search for signers never ends, with the context locked.             *)
Hang ==
    /\ status' = "hung"
    /\ UNCHANGED <<chain, now, rewritten>>

(* check_new_block and what its callers, the network and the miner, then   *)
(* do to the chain.  A block from a peer or from future_blocks, or our own *)
(* once mined: the chain cannot tell.                                      *)
BlockArrives(b) ==
    /\ status = "up"
    /\ LET verdict == Verdict(b)
       IN  \/ verdict = "Good" /\ AddBlock(b)
           \/ verdict = "Fork" /\ ForkWins(b) /\ ReplaceBlock(b)
           \/ verdict = "Fork" /\ ~ForkWins(b) /\ DropBlock(b)
           \/ verdict \in {"Twin", "Future", "Rewind", "Bad"} /\ DropBlock(b)
           \/ verdict = "Bad" /\ EndSync(b)
           \/ verdict = "Endless" /\ Hang

(* get_sign_block, called from the miner's loop, searches for signers;     *)
(* when they are cached it changes nothing.                                *)
GetSignBlock ==
    /\ status = "up"
    /\ ReadyToSign(chain, Keys, now)
    /\ SearchNeeded(chain, chain.last_full_block)
    /\ IF SearchEnds(chain, chain.last_full_block)
       THEN /\ chain' = SignersCached(chain, chain.last_full_block)
            /\ UNCHANGED <<now, status, rewritten>>
       ELSE Hang

update_max_height(h) ==
    /\ status = "up"
    /\ chain' = [chain EXCEPT !.max_height = h]
    /\ UNCHANGED <<now, status, rewritten>>

Tick ==
    /\ now < MaxTime
    /\ now' = now + 1
    /\ UNCHANGED <<chain, status, rewritten>>

(* The process ends; what is left is the tables.                           *)
Halted(blocks, domains) ==
    /\ chain' = EmptyChain(blocks, domains)
    /\ status' = "down"
    /\ UNCHANGED now

Stop ==
    /\ status # "down"
    /\ Halted(chain.blocks, chain.domains)
    /\ UNCHANGED rewritten

(* Chain::new and check_chain, as start_services calls them.               *)
Start ==
    /\ status = "down"
    /\ LET c       == init_db(chain.blocks, chain.domains)
           outcome == CheckOutcome(c, CheckBlocks, now)
       IN  CASE outcome = "Endless" -> status' = "hung" /\ chain' = c /\ UNCHANGED rewritten
             [] outcome = "Panic" -> status' = "panicked" /\ chain' = c /\ UNCHANGED rewritten
             [] OTHER -> /\ status' = "up"
                         /\ chain' = check_chain(c, CheckBlocks, now)
                         /\ rewritten' = (rewritten \/ outcome # "Good")
    /\ UNCHANGED now

Next ==
    \/ \E b \in Blocks : BlockArrives(b)
    \/ GetSignBlock
    \/ \E h \in PeerHeights : update_max_height(h)
    \/ Tick
    \/ Stop
    \/ Start

Spec == Init /\ [][Next]_vars

-----------------------------------------------------------------------------
(* Crashes between two statements that belong together.                    *)

(* add_block has stored the block and not yet its domain.                  *)
CrashInAddBlock(b) ==
    /\ status = "up"
    /\ Verdict(b) = "Good" /\ IsDomain(b) /\ b.index \notin DOMAIN chain.blocks
    /\ Halted(add_block_to_table(chain, b).blocks, chain.domains)
    /\ UNCHANGED rewritten

(* replace_block has deleted blocks and not yet their domains, or both and *)
(* not yet stored the new block.                                           *)
CrashInReplaceBlock(b) ==
    /\ status = "up"
    /\ Verdict(b) = "Fork" /\ ForkWins(b)
    /\ \/ Halted(Below(chain.blocks, b.index), chain.domains)
       \/ Halted(Below(chain.blocks, b.index), Below(chain.domains, b.index))
    /\ rewritten' = TRUE

(* check_chain has deleted blocks and not yet their domains.               *)
CrashInCheckChain ==
    /\ status = "down"
    /\ LET c == init_db(chain.blocks, chain.domains)
       IN  /\ CheckOutcome(c, CheckBlocks, now) \notin {"Good", "Endless", "Panic"}
           /\ Halted(Below(chain.blocks, FirstFault(c, CheckBlocks, now)), chain.domains)
    /\ rewritten' = TRUE

CrashNext ==
    \/ Next
    \/ \E b \in Blocks : CrashInAddBlock(b) \/ CrashInReplaceBlock(b)
    \/ CrashInCheckChain

CrashSpec == Init /\ [][CrashNext]_vars

-----------------------------------------------------------------------------
(* Properties.                                                             *)

(* The caches and tables hold blocks, rows and keys (struct Chain); what   *)
(* is cached as the last full block is full.                               *)
TypeOK ==
    /\ chain = [blocks |-> chain.blocks, domains |-> chain.domains,
                last_block |-> chain.last_block, last_full_block |-> chain.last_full_block,
                signers |-> chain.signers, max_height |-> chain.max_height]
    /\ chain.blocks \in [DOMAIN chain.blocks -> Blocks]
    /\ chain.domains \in [DOMAIN chain.domains -> Rows] /\ DOMAIN chain.domains \subseteq Nat
    /\ chain.last_block \in Blocks \cup {NoBlock}
    /\ chain.last_full_block \in {b \in Blocks : IsFull(b)} \cup {NoBlock}
    /\ chain.signers \in [index : Nat, signers : SUBSET Keys]
    /\ chain.max_height \in Nat
    /\ now \in 0..MaxTime
    /\ status \in {"up", "down", "panicked", "hung"}
    /\ rewritten \in BOOLEAN

(* check_block finds nothing at index 0 and takes a block that claims it:  *)
(* such a block gets a row below the first, where none of the rules that   *)
(* go by the order of rows has seen it.  Properties that rest on them are  *)
(* stated as long as there is no such row.                                 *)
Stray == get_block(chain, 0)

(* The rows from 1, the chain itself.                                      *)
Numbered == [i \in DOMAIN chain.blocks \ {0} |-> chain.blocks[i]]

(* The rows of the table are 1, 2, ... without a gap, each filed under its *)
(* own index, and perhaps 0.                                               *)
Contiguous ==
    /\ IsFiniteSet(DOMAIN Numbered)
    /\ DOMAIN Numbered = 1..Cardinality(DOMAIN Numbered)
    /\ \A i \in DOMAIN chain.blocks : chain.blocks[i].index = i

(* Each block names the hash of the one below it.                          *)
Linked ==
    \A i \in DOMAIN chain.blocks :
        i > 1 => chain.blocks[i].prev_block_hash = chain.blocks[i - 1].hash

(* A running node's idea of its last block is the top row, or the row 0    *)
(* that it has stored since its start.                                     *)
TopIsCached ==
    status \in {"up", "hung"} =>
        chain.last_block \in {load_last_block(chain)} \cup ({Stray} \ {NoBlock})

(* Whatever arrives, however often it forks, restarts or crashes, the      *)
(* blocks table is one unbroken chain, with at most a row 0 beside it, and *)
(* get_height is its length unless row 0 is taken for the last block: what *)
(* get_block(...).unwrap() and "Blockchain is corrupted!" rely on.         *)
ChainIntact == Contiguous /\ Linked /\ TopIsCached

(* The domains table is what the blocks say: a row for each domain block,  *)
(* for no other, and with the owner and the time of that block.            *)
DomainsMirrorBlocks ==
    /\ DOMAIN chain.domains = {i \in DOMAIN chain.blocks : IsDomain(chain.blocks[i])}
    /\ \A i \in DOMAIN chain.domains : chain.domains[i] = RowOf(chain.blocks[i])

(* Two rows of one identity with none between them.                        *)
Successive(i, j) ==
    /\ i < j
    /\ chain.domains[i].identity = chain.domains[j].identity
    /\ \A k \in DOMAIN chain.domains :
          i < k /\ k < j => chain.domains[k].identity # chain.domains[i].identity

TakenOver(i, j) ==
    /\ Successive(i, j)
    /\ chain.blocks[j].pub_key # chain.domains[i].signing
    /\ now <= chain.domains[i].timestamp + DOMAIN_LIFETIME + DOMAIN_RENEW_TIME

(* Nobody but its owner changes a domain before its lifetime and renewal   *)
(* time are over (is_id_available), the very next block excepted: its      *)
(* check does not look at the row just below.                              *)
OwnershipKept ==
    Stray = NoBlock => \A i, j \in DOMAIN chain.domains : TakenOver(i, j) => j = i + 1

(* The same without the exception: "Checks if this identity is free or is  *)
(* owned by the same pub_key".                                             *)
OwnershipAlwaysKept ==
    Stray = NoBlock => \A i, j \in DOMAIN chain.domains : ~TakenOver(i, j)

LastFullBlockIsCurrent ==
    status = "up" =>
        chain.last_full_block = StoredFullBlock(chain, get_height(chain) + 1, Keys)

(* As long as no stored block has been removed, the cached last full block *)
(* is the newest full block of the table, over restarts too.               *)
LastFullTracksChain == ~rewritten /\ Stray = NoBlock => LastFullBlockIsCurrent

(* A cached set of signers that would be used is the set a new search      *)
(* would find, although the cache is keyed by height alone.                *)
SignersAreFresh ==
    LET full == chain.last_full_block
    IN  (/\ status = "up" /\ full # NoBlock /\ Stray = NoBlock
         /\ get_height(chain) >= full.index
         /\ chain.signers.index = full.index /\ chain.signers.signers # {})
        => chain.signers.signers = SearchedSigners(chain, full)

(* The block get_sign_block prepares for one of our keys, once mined.      *)
SigningBlock(k) ==
    [index |-> get_height(chain) + 1, timestamp |-> now, version |-> 0,
     difficulty |-> SIGNER_DIFFICULTY, nonce |-> 0,
     hash |-> CHOOSE h \in Hashes : h \notin WRONG_HASHES,
     prev_block_hash |-> chain.last_block.hash, pub_key |-> k, signature |-> 0,
     transaction |-> NoTransaction, hash_bits |-> SIGNER_DIFFICULTY, weight |-> 0,
     hash_good |-> TRUE, signature_good |-> TRUE]

(* A signing block we offer to mine passes our own check_new_block: the    *)
(* filter of get_sign_block is at least as strict as is_good_sign_block,   *)
(* whatever state the caches are in.                                       *)
SignOffersAreAccepted ==
    (/\ status = "up" /\ Stray = NoBlock /\ ReadyToSign(chain, Keys, now)
     /\ SearchNeeded(chain, chain.last_full_block) => SearchEnds(chain, chain.last_full_block))
    => \A k \in SigningKeys(chain, Keys) : check_new_block(chain, SigningBlock(k), now) = "Good"

(* Until something is removed, the first BLOCK_SIGNERS_ALL blocks above a  *)
(* full block come from its signers, each signing once.                    *)
SignersSignOnce ==
    ~rewritten /\ Stray = NoBlock =>
        \A i \in DOMAIN chain.blocks :
            LET b    == chain.blocks[i]
                full == StoredFullBlock(chain, i, Keys)
            IN  (i > BLOCK_SIGNERS_START /\ ~IsFull(b) /\ i - full.index <= BLOCK_SIGNERS_ALL)
                => /\ b.pub_key \in SearchedSigners(chain, full)
                   /\ \A j \in (full.index + 1)..(i - 1) : chain.blocks[j].pub_key # b.pub_key

(* A key's block that introduces a domain is a day younger than the key's  *)
(* full block before it (can_mine_identity), until something is removed.   *)
NewDomainsAreADayApart ==
    ~rewritten /\ Stray = NoBlock =>
        \A j \in DOMAIN chain.domains :
            LET last == StoredFullBlock(chain, j, {chain.blocks[j].pub_key})
            IN  (/\ \A i \in DOMAIN chain.domains :
                       i < j => chain.domains[i].identity # chain.domains[j].identity
                 /\ last # NoBlock)
                => last.timestamp + NEW_DOMAINS_INTERVAL <= chain.blocks[j].timestamp

(* A restart comes up with every block the node has accepted: check_chain, *)
(* with another height, other caches and a later clock, agrees with the    *)
(* check_new_block that let the block in, and the searches for signers     *)
(* that ended then end again, as long as nothing was removed before.  (A   *)
(* network without an origin in its settings does not get that far:        *)
(* check_chain compares the first block with the origin all the same.)     *)
RestartKeepsChain ==
    [][(/\ status = "down" /\ status' # "down" /\ ~rewritten
        /\ Stray = NoBlock /\ Origin # NoHash) =>
            status' = "up" /\ chain'.blocks = chain.blocks]_vars

(* Readers of the chain see a LinkedChain, whatever forks, restarts and    *)
(* crashes there are.                                                      *)
Ledger ==
    INSTANCE LinkedChain WITH ledger <- Numbered, stray <- Stray, Rechecked <- CheckBlocks

IsALinkedChain == Ledger!LSpec

(* "Error adding transaction" is never met while the process is not        *)
(* killed: no fork or restart leaves behind a row of domains that a later  *)
(* block of that id would meet.  The one panic left is check_chain's, on a *)
(* first block that is not the origin: a winning fork may have put it      *)
(* there, for check_block compares with the origin on an empty chain only. *)
PanicMeansForeignOrigin ==
    status = "panicked" => 1 \in DOMAIN chain.blocks /\ chain.blocks[1].hash # Origin
=============================================================================

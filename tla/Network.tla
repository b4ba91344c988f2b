------------------------------ MODULE Network ------------------------------
(***************************************************************************)
(* Nodes that exchange blocks: the message loop of p2p/network.rs with the *)
(* parts of peers.rs, peer.rs and state.rs that decide who is asked for    *)
(* what.  Each node owns a chain record of ChainRules.  The nodes follow   *)
(* the protocol; connections break, messages are lost with them, and both  *)
(* ends act on what they knew of the other some time ago.                  *)
(*                                                                         *)
(* There is at most one connection between two nodes.  A node's end of it  *)
(* is a record of                                                          *)
(*   state      Idle, or the message that waits for the socket             *)
(*   reads      with a message waiting: is the socket registered for       *)
(*              reading too?                                               *)
(*   armed      will the poll report what there is to read?  It reports    *)
(*              edges: new data, or a new registration                     *)
(*   height, received_block, sent_height   as in struct Peer               *)
(* A socket reads one message for each report.                             *)
(***************************************************************************)
EXTENDS ChainRules, Sequences, Functions

CONSTANTS
    Nodes,
    KeyOf,      \* the key each node mines with
    Bootstrap,  \* settings.net.peers: whom each node connects to
    FirstBlocks,  \* the chains each node may have when it starts
    Now,        \* the time; all blocks are older
    MIN_CONNECTED_NODES_START_SYNC, MAX_NODES,
    MaxWire,    \* messages a socket's buffers hold
    MaxMined,   \* bound on the blocks mined
    MaxFaults,  \* bound on connections that break
    NoPeer

(* A node starts with the origin at least, and with a linked chain: what   *)
(* ChainIntact of Chain.tla says of every table a node leaves behind.      *)
ASSUME NetworkAssumption ==
    /\ IsFiniteSet(Nodes)
    /\ KeyOf \in [Nodes -> Keys] /\ Bootstrap \in [Nodes -> SUBSET Nodes]
    /\ FirstBlocks \in [Nodes -> SUBSET Seq(Blocks)]
    /\ \A n \in Nodes : \A blocks \in FirstBlocks[n] :
          /\ blocks # <<>>
          /\ \A i \in DOMAIN blocks :
                /\ blocks[i].index = i
                /\ i > 1 => blocks[i].prev_block_hash = blocks[i - 1].hash
    /\ Now \in Nat /\ MIN_CONNECTED_NODES_START_SYNC \in Nat /\ MAX_NODES \in Nat
    /\ MaxWire \in Nat \ {0} /\ MaxMined \in Nat /\ MaxFaults \in Nat

VARIABLES
    chain,    \* the Chain of each node
    seen,     \* seen_blocks, hashes
    future,   \* future_blocks, a map from indices to blocks
    peer,     \* peer[n][m]: n's end of the connection with m
    wire,     \* wire[n][m]: what n has sent to m and m has not read
    ignored,  \* Peers.ignored: the nodes each node has banned
    mined,    \* history: the blocks mined so far
    faults    \* history: how many connections have broken

vars == <<chain, seen, future, peer, wire, ignored, mined, faults>>

-----------------------------------------------------------------------------
(* Messages, and what a node does to its end of a connection.              *)

Idle == [type |-> "Idle"]
GetPeers == [type |-> "GetPeers"]
PeersMessage == [type |-> "Peers"]
Ping(c) == [type |-> "Ping", height |-> get_height(c), hash |-> c.last_block.hash]
Pong(c) == [type |-> "Pong", height |-> get_height(c), hash |-> c.last_block.hash]
GetBlock(i) == [type |-> "GetBlock", index |-> i]
BlockMessage(b) == [type |-> "Block", block |-> b]

NewPeer(height) ==
    [state |-> Idle, reads |-> FALSE, armed |-> TRUE,
     height |-> height, received_block |-> 0, sent_height |-> 0]

(* State::Message: the socket is registered for writing only.              *)
Answering(p, message) == [p EXCEPT !.state = message, !.reads = FALSE, !.armed = TRUE]

(* State::idle(): a message that was waiting is forgotten.  The socket is  *)
(* registered anew only if it was registered for writing.                  *)
Resting(p) == [p EXCEPT !.state = Idle, !.reads = FALSE, !.armed = (p.state # Idle)]

(* State::Error: nothing is changed.                                       *)
Unmoved(p) == [p EXCEPT !.armed = FALSE]

Connections(n) == {m \in Nodes \ {n} : peer[n][m] # NoPeer}

(* A node with few connections asks for the addresses of others.           *)
WantsPeers(count) == count < MAX_NODES

has_more_blocks(p, height) ==
    p.height > height /\ p.received_block <= height /\ p.state = Idle

StoredChain(blocks) ==
    init_db(blocks, [i \in {j \in DOMAIN blocks : IsDomain(blocks[j])} |-> RowOf(blocks[i])])

Init ==
    /\ chain \in [Nodes -> {StoredChain(blocks) : blocks \in UNION Range(FirstBlocks)}]
    /\ \A n \in Nodes : chain[n].blocks \in FirstBlocks[n]
    /\ seen = [n \in Nodes |-> {}]
    /\ future = [n \in Nodes |-> <<>>]
    /\ peer = [n \in Nodes |-> [m \in Nodes |-> NoPeer]]
    /\ wire = [n \in Nodes |-> [m \in Nodes |-> <<>>]]
    /\ ignored = [n \in Nodes |-> {}]
    /\ mined = {}
    /\ faults = 0

-----------------------------------------------------------------------------
(* Connections.                                                            *)

(* A node without connections connects to its bootstrap peers.  Of the     *)
(* handshakes this module keeps what the Shake messages tell it, told last *)
(* by one of those that are higher, and that it may ask for more peers.    *)
Connect(n) ==
    LET found  == {m \in Bootstrap[n] \ {n} : /\ m \notin ignored[n] /\ n \notin ignored[m]
                                            /\ peer[m][n] = NoPeer}
        higher == {m \in found : get_height(chain[m]) > get_height(chain[n])}
    IN  /\ Connections(n) = {} /\ found # {}
        /\ \E told \in IF higher = {} THEN {n} ELSE higher :
              chain' = IF told = n THEN chain
                       ELSE [chain EXCEPT ![n].max_height = get_height(chain[told])]
        /\ \E gossip \in IF WantsPeers(1) THEN SUBSET found ELSE {{}} :
              peer' = [i \in Nodes |-> [j \in Nodes |->
                        IF i = n /\ j \in found
                        THEN LET p == NewPeer(get_height(chain[j]))
                             IN  IF j \in gossip THEN Answering(p, GetPeers) ELSE p
                        ELSE IF j = n /\ i \in found THEN NewPeer(0)
                        ELSE peer[i][j]]]
        /\ wire' = [i \in Nodes |-> [j \in Nodes |->
                      IF (i = n /\ j \in found) \/ (j = n /\ i \in found) THEN <<>> ELSE wire[i][j]]]
        /\ UNCHANGED <<seen, future, ignored, mined, faults>>

(* n's end fails, or update finds it stale.                                *)
Break(n, m) ==
    /\ peer[n][m] # NoPeer /\ peer[m][n] # NoPeer /\ faults < MaxFaults
    /\ peer' = [peer EXCEPT ![n][m] = NoPeer]
    /\ wire' = [wire EXCEPT ![m][n] = <<>>]
    /\ faults' = faults + 1
    /\ UNCHANGED <<chain, seen, future, ignored, mined>>

(* n finds that m has closed; what was not read before is not read now.    *)
ReadClosed(n, m) ==
    /\ peer[n][m] # NoPeer /\ peer[m][n] = NoPeer
    /\ peer' = [peer EXCEPT ![n][m] = NoPeer]
    /\ wire' = [wire EXCEPT ![m][n] = <<>>]
    /\ UNCHANGED <<chain, seen, future, ignored, mined, faults>>

(* process_writable, once the socket's buffer has room.  What is sent to a *)
(* closed socket is lost.                                                  *)
Write(n, m) ==
    /\ peer[n][m] # NoPeer /\ peer[n][m].state # Idle
    /\ Len(wire[n][m]) < MaxWire
    /\ LET mine   == [peer[n][m] EXCEPT !.state = Idle, !.reads = FALSE, !.armed = TRUE]
           theirs == peer[m][n]
       IN  IF theirs = NoPeer
           THEN peer' = [peer EXCEPT ![n][m] = mine] /\ UNCHANGED wire
           ELSE /\ peer' = [peer EXCEPT ![n][m] = mine, ![m][n] = [theirs EXCEPT !.armed = TRUE]]
                /\ wire' = [wire EXCEPT ![n][m] = Append(@, peer[n][m].state)]
    /\ UNCHANGED <<chain, seen, future, ignored, mined, faults>>

-----------------------------------------------------------------------------
(* handle_message.  n reads the next message from m.                       *)

(* The poll reports that there is something to read.                       *)
Readable(n, m) ==
    /\ peer[n][m] # NoPeer /\ wire[m][n] # <<>> /\ peer[n][m].armed
    /\ peer[n][m].state = Idle \/ peer[n][m].reads

Reads(n, m, type) ==
    /\ Readable(n, m) /\ Head(wire[m][n]).type = type
    /\ wire' = [wire EXCEPT ![m][n] = Tail(@)]

(* Nothing left to read: whatever arrives next is reported.                *)
SetPeer(n, m, p) ==
    peer' = [peer EXCEPT ![n][m] = [p EXCEPT !.armed = @ \/ Len(wire[m][n]) = 1]]

(* Ping and Pong: m has height and hash.  If that is news, n asks for the  *)
(* block it misses or for the other block of its own height; if not, it    *)
(* gives one of the calm answers, where Idle is to give none.              *)
ReadHeight(n, m, type, calm) ==
    /\ Reads(n, m, type)
    /\ LET message == Head(wire[m][n])
           p       == [peer[n][m] EXCEPT !.height = message.height]
           mine    == get_height(chain[n])
           higher  == message.hash \notin seen[n] /\ message.height > mine
           Answer(a) == SetPeer(n, m, IF a = Idle THEN Resting(p) ELSE Answering(p, a))
       IN  /\ chain' = IF higher THEN [chain EXCEPT ![n].max_height = message.height] ELSE chain
           /\ CASE message.hash \in seen[n] -> Answer(IF type = "Ping" THEN Pong(chain[n]) ELSE Idle)
                [] higher -> Answer(GetBlock(mine + 1))
                [] /\ message.hash \notin seen[n]
                   /\ message.height = mine /\ message.hash # chain[n].last_block.hash ->
                     Answer(GetBlock(mine))
                [] OTHER -> \E a \in calm : Answer(a)
    /\ UNCHANGED <<seen, future, ignored, mined, faults>>

ReadPing(n, m) == ReadHeight(n, m, "Ping", {Pong(chain[n])})

ReadPong(n, m) ==
    ReadHeight(n, m, "Pong",
               {Idle} \cup IF WantsPeers(Cardinality(Connections(n))) THEN {GetPeers} ELSE {})

ReadGetPeers(n, m) ==
    /\ Reads(n, m, "GetPeers")
    /\ SetPeer(n, m, Answering(peer[n][m], PeersMessage))
    /\ UNCHANGED <<chain, seen, future, ignored, mined, faults>>

ReadPeers(n, m) ==
    /\ Reads(n, m, "Peers")
    /\ SetPeer(n, m, Resting(peer[n][m]))
    /\ UNCHANGED <<chain, seen, future, ignored, mined, faults>>

(* A block that n does not have is not answered for.                       *)
ReadGetBlock(n, m) ==
    /\ Reads(n, m, "GetBlock")
    /\ LET b == get_block(chain[n], Head(wire[m][n]).index)
       IN  SetPeer(n, m, IF b = NoBlock THEN Unmoved(peer[n][m])
                                        ELSE Answering(peer[n][m], BlockMessage(b)))
    /\ UNCHANGED <<chain, seen, future, ignored, mined, faults>>

-----------------------------------------------------------------------------
(* handle_block.                                                           *)

Verdict(c, b) == check_new_block(c, b, Now)

AfterCheck(c, b) == Checked(c, b, c.last_block, c.last_full_block, Now)

(* One round of the loop that adds consecutive blocks of future_blocks.    *)
FutureRound(s) ==
    IF s.over \/ s.next \notin DOMAIN s.future THEN s
    ELSE LET b    == s.future[s.next]
             good == Verdict(s.chain, b) = "Good"
         IN  [chain  |-> IF good THEN add_block(AfterCheck(s.chain, b), b)
                                 ELSE AfterCheck(s.chain, b),
              future |-> [i \in DOMAIN s.future \ {s.next} |-> s.future[i]],
              next   |-> s.next + 1,
              over   |-> ~good]

AddFutureBlocks(c, blocks, next) ==
    LET rounds == Cardinality(DOMAIN blocks)
        after[k \in 0..rounds] ==
            IF k = 0 THEN [chain |-> c, future |-> blocks, next |-> next, over |-> FALSE]
                     ELSE FutureRound(after[k - 1])
    IN  after[rounds]

BlockIsGood(n, m, p, b) ==
    LET s == AddFutureBlocks(add_block(AfterCheck(chain[n], b), b), future[n], b.index + 1)
    IN  /\ chain' = [chain EXCEPT ![n] = s.chain]
        /\ future' = [future EXCEPT ![n] =
                         IF get_height(s.chain) = chain[n].max_height THEN <<>> ELSE s.future]
        /\ SetPeer(n, m, Resting(p))
        /\ UNCHANGED ignored

BlockIsTwin(n, m, p, b) ==
    /\ SetPeer(n, m, Resting(p))
    /\ chain' = [chain EXCEPT ![n] = AfterCheck(@, b)]
    /\ UNCHANGED <<future, ignored>>

(* Mutant: the block is kept for the round that asked for its parent.      *)
BlockIsFuture_Below(n, m, p, b) ==
    /\ future' = [future EXCEPT ![n] = Insert(@, b.index - 1, b)]
    /\ SetPeer(n, m, Resting(p))
    /\ UNCHANGED <<chain, ignored>>

BlockIsFuture(n, m, p, b) ==
    /\ future' = [future EXCEPT ![n] = Insert(@, b.index, b)]
    /\ SetPeer(n, m, Resting(p))
    /\ UNCHANGED <<chain, ignored>>

(* The sender is banned and its connection closed.                         *)
BlockIsBad(n, m, b) ==
    LET c == AfterCheck(chain[n], b)
    IN  /\ chain' = [chain EXCEPT ![n] =
                        IF get_height(c) + 1 = b.index
                        THEN [c EXCEPT !.max_height = get_height(c)] ELSE c]
        /\ ignored' = [ignored EXCEPT ![n] = @ \cup {m}]
        /\ peer' = [peer EXCEPT ![n][m] = NoPeer]
        /\ UNCHANGED future

BlockIsOrphan(n, m, p, b) ==
    /\ SetPeer(n, m, Answering(p, GetBlock(b.index - 1)))
    /\ UNCHANGED <<chain, future, ignored>>

Lagged(c, b) == b.index = get_height(c) /\ b.index + LIMITED_CONFIDENCE_DEPTH <= c.max_height

(* Mutant: a fork that loses is dropped without an answer.                 *)
BlockIsFork_Silent(n, m, p, b) ==
    LET c    == AfterCheck(chain[n], b)
        ours == get_block(c, b.index)
    IN  /\ IF is_better_than(b, ours) \/ Lagged(c, b)
           THEN chain' = [chain EXCEPT ![n] = replace_block(c, b)] /\ SetPeer(n, m, Resting(p))
           ELSE chain' = [chain EXCEPT ![n] = c] /\ SetPeer(n, m, Resting(p))
        /\ UNCHANGED <<future, ignored>>

(* Mutant: the fork that comes last wins.                                  *)
BlockIsFork_Latest(n, m, p, b) ==
    /\ chain' = [chain EXCEPT ![n] = replace_block(AfterCheck(@, b), b)]
    /\ SetPeer(n, m, Resting(p))
    /\ UNCHANGED <<future, ignored>>

(* The better block stays; m is told of ours if it is the better one.      *)
BlockIsFork(n, m, p, b) ==
    LET c    == AfterCheck(chain[n], b)
        ours == get_block(c, b.index)
    IN  /\ IF is_better_than(b, ours) \/ Lagged(c, b)
           THEN chain' = [chain EXCEPT ![n] = replace_block(c, b)] /\ SetPeer(n, m, Resting(p))
           ELSE chain' = [chain EXCEPT ![n] = c] /\ SetPeer(n, m, Answering(p, BlockMessage(ours)))
        /\ UNCHANGED <<future, ignored>>

(* A node whose search for signers never ends reads nothing more.          *)
handle_block(n, m, b) ==
    LET p       == [peer[n][m] EXCEPT !.received_block = b.index]
        verdict == Verdict(chain[n], b)
    IN  /\ seen' = [seen EXCEPT ![n] = @ \cup {b.hash}]
        /\ \/ verdict = "Good" /\ BlockIsGood(n, m, p, b)
           \/ verdict = "Twin" /\ BlockIsTwin(n, m, p, b)
           \/ verdict = "Future" /\ BlockIsFuture(n, m, p, b)
           \/ verdict = "Bad" /\ BlockIsBad(n, m, b)
           \/ verdict = "Rewind" /\ BlockIsOrphan(n, m, p, b)
           \/ verdict = "Fork" /\ BlockIsFork(n, m, p, b)

(* A block seen since the last time seen_blocks was cleared is dropped.    *)
ReadBlock(n, m) ==
    /\ Reads(n, m, "Block")
    /\ LET b == Head(wire[m][n]).block
       IN  IF b.hash \in seen[n]
           THEN SetPeer(n, m, Resting(peer[n][m])) /\ UNCHANGED <<chain, seen, future, ignored>>
           ELSE handle_block(n, m, b)
    /\ UNCHANGED <<mined, faults>>

-----------------------------------------------------------------------------
(* What the loop does between events.                                      *)

(* Peers::update, in the order of the code, on n's ends of its             *)
(* connections.  What depends on the time and on chance is chosen freely:  *)
(* who has been idle long enough, who is asked for peers instead of being  *)
(* pinged, whether blocks are asked for, whose ban is over.  It comes after*)
(* the events of a poll, so what the poll reported has been read; what     *)
(* arrives in between might as well arrive after it.                       *)
Pinged(n, idle, gossip) ==
    [m \in Connections(n) |->
        LET p == peer[n][m]
        IN  IF p.state # Idle THEN [p EXCEPT !.reads = FALSE, !.armed = TRUE]
            ELSE IF m \notin idle THEN p
            ELSE [p EXCEPT !.state = IF m \in gossip THEN GetPeers ELSE Ping(chain[n]),
                           !.reads = TRUE, !.armed = TRUE]]

(* The peers to ask for blocks, in the order in which they are asked.      *)
Asked(n, ends) ==
    LET height == get_height(chain[n])
        behind == chain[n].max_height - height
        able   == {m \in DOMAIN ends : has_more_blocks(ends[m], height)}
        count  == Min({behind, Cardinality(DOMAIN ends), Cardinality(able)})
    IN  IF behind <= 0 \/ Cardinality(DOMAIN ends) < MIN_CONNECTED_NODES_START_SYNC THEN {<<>>}
        ELSE {<<>>} \cup {s \in [1..count -> able] : \A i, j \in 1..count : s[i] = s[j] => i = j}

ask_blocks_from_peers(n, ends, order) ==
    [m \in DOMAIN ends |->
        LET turn  == {i \in DOMAIN order : order[i] = m}
            index == get_height(chain[n]) + Max(turn \cup {0})
        IN  IF turn = {} \/ index \in DOMAIN future[n] THEN ends[m]
            ELSE Answering(ends[m], GetBlock(index))]

(* One of those who have fewer blocks than we, to be told of ours.         *)
Lower(n, ends) ==
    {m \in DOMAIN ends : /\ ends[m].height < get_height(chain[n])
                         /\ ends[m].state = Idle
                         /\ ends[m].sent_height < get_height(chain[n])}

TellBehind(n, ends, told) ==
    [m \in DOMAIN ends |->
        IF m \notin told THEN ends[m]
        ELSE [Answering(ends[m], Ping(chain[n])) EXCEPT !.sent_height = get_height(chain[n])]]

update(n, idle, gossip) ==
    /\ \A m \in Nodes : ~Readable(n, m)
    /\ \E order \in Asked(n, Pinged(n, idle, gossip)), purged \in SUBSET ignored[n] :
          LET ends == ask_blocks_from_peers(n, Pinged(n, idle, gossip), order)
          IN  \E told \in {{}} \cup {{m} : m \in Lower(n, ends)} :
                  /\ peer' = [peer EXCEPT ![n] =
                                 [m \in Nodes |-> IF m \in Connections(n)
                                                  THEN TellBehind(n, ends, told)[m] ELSE NoPeer]]
                  /\ ignored' = [ignored EXCEPT ![n] = @ \ purged]
    /\ UNCHANGED <<chain, seen, future, wire, mined, faults>>

Update(n) ==
    LET idle == {m \in Connections(n) : peer[n][m].state = Idle}
    IN  \E long \in SUBSET idle :
            \E gossip \in IF WantsPeers(Cardinality(Connections(n))) THEN SUBSET long ELSE {{}} :
                update(n, long, gossip)

(* Every minute.                                                           *)
ClearSeen(n) ==
    /\ seen[n] # {}
    /\ seen' = [seen EXCEPT ![n] = {}]
    /\ UNCHANGED <<chain, future, peer, wire, ignored, mined, faults>>

(* The miner of n finds a block for its chain.                             *)
Mine(n, b) ==
    /\ b \notin mined /\ Cardinality(mined) < MaxMined
    /\ b.pub_key = KeyOf[n] /\ b.index = get_height(chain[n]) + 1
    /\ Verdict(chain[n], b) = "Good"
    /\ chain' = [chain EXCEPT ![n] = add_block(AfterCheck(@, b), b)]
    /\ mined' = mined \cup {b}
    /\ UNCHANGED <<seen, future, peer, wire, ignored, faults>>

Read(n, m) ==
    \/ ReadPing(n, m) \/ ReadPong(n, m) \/ ReadGetPeers(n, m) \/ ReadPeers(n, m)
    \/ ReadGetBlock(n, m) \/ ReadBlock(n, m)

Next ==
    \/ \E n, m \in Nodes : Break(n, m) \/ ReadClosed(n, m) \/ Write(n, m) \/ Read(n, m)
    \/ \E n \in Nodes : \/ Connect(n) \/ Update(n) \/ ClearSeen(n)
                        \/ \E b \in Blocks : Mine(n, b)

Spec == Init /\ [][Next]_vars

(* Each node's loop goes round: it reads, writes, connects and clears what *)
(* it has seen; a connection that is idle again and again is pinged again  *)
(* and again, and a ban ends.                                              *)
PingsPeer(n, m) ==
    /\ m \in Connections(n) /\ peer[n][m].state = Idle
    /\ update(n, {m}, {})

Forgives(n) == ignored[n] # {} /\ update(n, {}, {}) /\ ignored'[n] = {}

FairSpec ==
    /\ Spec
    /\ \A n \in Nodes : \A m \in Nodes \ {n} :
          /\ WF_vars(Read(n, m)) /\ WF_vars(Write(n, m)) /\ WF_vars(ReadClosed(n, m))
          /\ SF_vars(PingsPeer(n, m))
    /\ \A n \in Nodes : WF_vars(Connect(n)) /\ WF_vars(ClearSeen(n)) /\ SF_vars(Forgives(n))

-----------------------------------------------------------------------------
(* Properties.                                                             *)

(* The blocks that nodes make and pass on: the node that mines a block     *)
(* numbers it above its chain (miner.rs:232), so none of them is 0.        *)
MinedBlocks == {b \in Blocks : b.index >= 1}

Messages ==
    [type : {"Idle", "GetPeers", "Peers"}]
        \cup [type : {"Ping", "Pong"}, height : Nat, hash : Hashes]
        \cup [type : {"GetBlock"}, index : Nat]
        \cup [type : {"Block"}, block : MinedBlocks]

Peer ==
    [state : Messages, reads : BOOLEAN, armed : BOOLEAN, height : Nat,
     received_block : Nat, sent_height : Nat]

(* Every node's state has its type, and each block that waits in           *)
(* future_blocks waits under its own index.                                *)
TypeOK ==
    /\ \A n \in Nodes : chain[n].last_block \in Blocks /\ chain[n].max_height \in Nat
    /\ \A n \in Nodes : \A i \in DOMAIN future[n] :
          future[n][i] \in MinedBlocks /\ future[n][i].index = i
    /\ seen \in [Nodes -> SUBSET Hashes]
    /\ \A n, m \in Nodes : peer[n][m] \in Peer \cup {NoPeer} /\ wire[n][m] \in Seq(Messages)
    /\ ignored \in [Nodes -> SUBSET Nodes]
    /\ mined \subseteq MinedBlocks /\ faults \in 0..MaxFaults

(* Whatever order forks, orphans and future blocks come in from a peer     *)
(* whose chain changes meanwhile, and whatever is mined in between, a node *)
(* stores one linked chain and its cached last block is the top of it.     *)
ChainsStayLinked ==
    \A n \in Nodes :
        LET c == chain[n]
        IN  /\ DOMAIN c.blocks = 1..get_height(c)
            /\ c.blocks[get_height(c)] = c.last_block
            /\ \A i \in 2..get_height(c) : c.blocks[i].prev_block_hash = c.blocks[i - 1].hash

Agree == \A n, m \in Nodes : chain[n].blocks = chain[m].blocks

(* Once the miners are done, all nodes come to hold the same chain for     *)
(* good: pings, requests, orphans and forks of both ends, crossing on the  *)
(* wire or lost with a connection, end in one table of blocks.             *)
NodesConverge == <>[]Agree

(* What nodes have agreed on, no late message undoes: blocks of a fork     *)
(* that has lost may still be on the wire or waiting to be sent.           *)
AgreementIsStable == [][Agree /\ mined' = mined => Agree']_vars

(* docs/about_ru.md:47-49: of two blocks of one height a node that has got *)
(* both can tell without ambiguity which one is better.  So a node that    *)
(* gives up a block of its chain for another does not give up the better   *)
(* one, unless it lags and takes what the others have (BlockIsFork).       *)
ForksAreDecided ==
    [][\A n \in Nodes : \A i \in DOMAIN chain[n].blocks \cap DOMAIN chain'[n].blocks :
          LET ours == chain[n].blocks[i]
              its  == chain'[n].blocks[i]
          IN  its # ours => Lagged(chain[n], its) \/ ~is_better_than(ours, its)]_vars

(* A node is not for ever behind the height it is syncing to: once it has  *)
(* what there is, it stops to call itself syncing and may sign again.      *)
SyncEnds == <>[](\A n \in Nodes : get_height(chain[n]) >= chain[n].max_height)
=============================================================================

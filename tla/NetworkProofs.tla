--------------------------- MODULE NetworkProofs ---------------------------
(***************************************************************************)
(* Proofs about Network, for any number of nodes and any blocks: whatever  *)
(* the nodes read, in whatever order, each of them stores one linked chain *)
(* whose top is its cached last block, and keeps waiting blocks under      *)
(* their own index.                                                        *)
(***************************************************************************)
EXTENDS Network, ChainRulesProofs

-----------------------------------------------------------------------------
(* The values of a node's state.                                           *)

(* A node's chain: sound, with a true last block, and never empty.         *)
NodeChain(c) == SoundChain(c) /\ Top(c) /\ get_height(c) >= 1

(* future_blocks: finitely many blocks, each under its own index.          *)
Waiting(f) ==
    /\ DOMAIN f \subseteq Nat /\ IsFiniteSet(DOMAIN f)
    /\ f \in [DOMAIN f -> MinedBlocks]
    /\ \A i \in DOMAIN f : f[i].index = i

NodeChains == {c \in ChainValues : NodeChain(c)}

WaitingBlocks == {f \in UNION {[D -> MinedBlocks] : D \in SUBSET Nat} : Waiting(f)}

PeerEnds == Peer \cup {NoPeer}

NInv ==
    /\ chain \in [Nodes -> NodeChains]
    /\ future \in [Nodes -> WaitingBlocks]
    /\ seen \in [Nodes -> SUBSET Hashes]
    /\ peer \in [Nodes -> [Nodes -> PeerEnds]]
    /\ wire \in [Nodes -> [Nodes -> Seq(Messages)]]
    /\ ignored \in [Nodes -> SUBSET Nodes]
    /\ mined \subseteq MinedBlocks /\ faults \in 0..MaxFaults

(* The sets and the predicates say the same.                               *)
LEMMA InNodeChains ==
    ASSUME NEW c
    PROVE  c \in NodeChains <=> NodeChain(c)
  BY DEF NodeChains, NodeChain, SoundChain

LEMMA InWaitingBlocks ==
    ASSUME NEW f
    PROVE  f \in WaitingBlocks <=> Waiting(f)
  <1>1. Waiting(f) => f \in UNION {[D -> MinedBlocks] : D \in SUBSET Nat}
    BY DEF Waiting
  <1> QED
    BY <1>1 DEF WaitingBlocks

LEMMA MinedBlockFacts ==
    ASSUME NEW b \in MinedBlocks
    PROVE  /\ b \in Blocks /\ b # NoBlock /\ b \in BlockRecords
           /\ b.index \in Nat /\ b.index # 0 /\ b.index - 1 \in Nat
  BY BlockFacts DEF MinedBlocks

(* The top of a node's chain.                                              *)
LEMMA NodeChainTop ==
    ASSUME NEW c, NodeChain(c)
    PROVE  /\ get_height(c) \in Nat /\ DOMAIN c.blocks = 1..get_height(c)
           /\ c.blocks \in [1..get_height(c) -> Blocks] /\ LinkedBlocks(c.blocks)
           /\ c.last_block = c.blocks[get_height(c)] /\ c.last_block \in Blocks
           /\ c.last_block.index = get_height(c) /\ c.last_block.hash \in Hashes
           /\ c.max_height \in Nat
  <1>1. /\ get_height(c) \in Nat /\ DOMAIN c.blocks = 1..get_height(c) /\ get_height(c) >= 1
        /\ c.blocks \in [1..get_height(c) -> Blocks] /\ LinkedBlocks(c.blocks)
        /\ c.last_block = IF get_height(c) = 0 THEN NoBlock ELSE c.blocks[get_height(c)]
    BY RowsUpToHeight DEF NodeChain
  <1>2. c.last_block = c.blocks[get_height(c)] /\ c.last_block \in Blocks
    BY <1>1
  <1>3. c.last_block.index = get_height(c)
    BY <1>1, <1>2 DEF LinkedBlocks
  <1>4. c.last_block.hash \in Hashes
    BY <1>2, BlocksAssumption DEF BlockRecords
  <1>5. c.max_height \in Nat
    BY DEF NodeChain, SoundChain, ChainValues
  <1> QED
    BY <1>1, <1>2, <1>3, <1>4, <1>5

(* Only the claimed height changes.                                        *)
LEMMA MaxHeightDoesNotMatter ==
    ASSUME NEW c, NodeChain(c), NEW h \in Nat
    PROVE  NodeChain([c EXCEPT !.max_height = h])
  <1> DEFINE d == [c EXCEPT !.max_height = h]
  <1>1. c \in ChainValues
    BY DEF NodeChain, SoundChain
  <1>2. /\ d \in ChainValues /\ d.blocks = c.blocks /\ d.last_block = c.last_block
    BY <1>1 DEF ChainValues
  <1> HIDE DEF d
  <1>3. SoundChain(d) /\ Top(d) /\ get_height(d) = get_height(c)
    BY <1>2 DEF NodeChain, SoundChain, Top, load_last_block, get_height
  <1> QED
    BY <1>3 DEF NodeChain, d

(* A check leaves a node's chain a node's chain, with the same tables.     *)
LEMMA AfterCheckKeeps ==
    ASSUME NEW c, NodeChain(c), NEW b
    PROVE  /\ NodeChain(AfterCheck(c, b))
           /\ AfterCheck(c, b).blocks = c.blocks
           /\ get_height(AfterCheck(c, b)) = get_height(c)
  <1> DEFINE a == AfterCheck(c, b)
  <1>1. SoundChain(c) /\ Top(c) /\ c.last_full_block \in Blocks \cup {NoBlock}
        /\ c \in RowValues
    <2>1. SoundChain(c) /\ Top(c) /\ c.last_full_block \in Blocks \cup {NoBlock}
      BY DEF NodeChain, SoundChain, ChainValues, FullBlocks
    <2>2. c \in RowValues
      BY <2>1, SoundIsKept DEF KeptChain
    <2> QED
      BY <2>1, <2>2
  <1>2. PICK s \in SignerCaches : a = [c EXCEPT !.signers = s]
    BY <1>1, CheckedChangesSignersOnly DEF AfterCheck
  <1>3. /\ SoundChain(a) /\ Top(a) /\ a.blocks = c.blocks /\ a.last_block = c.last_block
    BY <1>1, <1>2, SignersDoNotMatter
  <1> HIDE DEF a
  <1>4. get_height(a) = get_height(c)
    BY <1>3 DEF get_height
  <1> QED
    BY <1>3, <1>4 DEF NodeChain, a

(* A block found good is added.                                            *)
LEMMA GoodBlockKeeps ==
    ASSUME NEW c, NodeChain(c), NEW b \in MinedBlocks, Verdict(c, b) = "Good"
    PROVE  NodeChain(add_block(AfterCheck(c, b), b))
  <1> DEFINE a == AfterCheck(c, b)
             n == get_height(c)
             d == add_block(a, b)
  <1>1. SoundChain(c) /\ Top(c) /\ n \in Nat /\ c.blocks \in [1..n -> Blocks]
    BY NodeChainTop DEF NodeChain
  <1>2. b.index = n + 1 /\ (n > 0 => b.prev_block_hash = c.blocks[n].hash)
    <2>1. b \in Blocks /\ b.index # 0
      BY MinedBlockFacts
    <2> QED
      BY <1>1, <2>1, GoodContinues DEF Verdict
  <1>3. SoundChain(a) /\ a.blocks = c.blocks
    BY AfterCheckKeeps DEF NodeChain
  <1> HIDE DEF a
  <1>4. SoundChain(d) /\ Top(d) /\ d.blocks = Insert(c.blocks, b.index, b)
    BY MinedBlockFacts, <1>1, <1>2, <1>3, AddBlockKeepsChain
  <1>5. d.blocks \in [1..(n + 1) -> Blocks]
    BY MinedBlockFacts, <1>1, <1>2, <1>4, InsertIsTable DEF SoundChain
  <1> HIDE DEF d
  <1>6. get_height(d) = n + 1
    BY <1>1, <1>4, <1>5, HeightIsLength
  <1> QED
    BY <1>1, <1>4, <1>6 DEF NodeChain, d, a

(* A fork takes the place of a block of the chain.                         *)
LEMMA ForkKeeps ==
    ASSUME NEW c, NodeChain(c), NEW b \in MinedBlocks, Verdict(c, b) = "Fork"
    PROVE  /\ NodeChain(replace_block(AfterCheck(c, b), b))
           /\ get_block(AfterCheck(c, b), b.index) \in MinedBlocks
  <1> DEFINE a == AfterCheck(c, b)
             n == get_height(c)
             d == replace_block(a, b)
  <1>1. SoundChain(c) /\ Top(c) /\ n \in Nat /\ c.blocks \in [1..n -> Blocks] /\ LinkedBlocks(c.blocks)
    BY NodeChainTop DEF NodeChain
  <1>2. b.index \in 1..n /\ (b.index > 1 => b.prev_block_hash = c.blocks[b.index - 1].hash)
    BY MinedBlockFacts, <1>1, ForkContinues DEF Verdict
  <1>3. SoundChain(a) /\ a.blocks = c.blocks
    BY AfterCheckKeeps DEF NodeChain
  <1> HIDE DEF a
  <1>4. get_block(a, b.index) \in MinedBlocks
    <2>1. get_block(a, b.index) = c.blocks[b.index] /\ c.blocks[b.index] \in Blocks
      BY <1>1, <1>2, <1>3 DEF get_block
    <2>2. c.blocks[b.index].index = b.index
      BY <1>1, <1>2 DEF LinkedBlocks
    <2> QED
      BY <1>2, <2>1, <2>2 DEF MinedBlocks
  <1>5. /\ SoundChain(d) /\ Top(d)
        /\ d.blocks = Insert(Below(c.blocks, b.index), b.index, b)
    BY MinedBlockFacts, <1>1, <1>2, <1>3, ReplaceBlockKeepsChain
  <1>6. d.blocks \in [1..b.index -> Blocks]
    <2>1. Below(c.blocks, b.index) = [j \in 1..(b.index - 1) |-> c.blocks[j]]
      BY <1>1, <1>2 DEF Below
    <2> QED
      BY MinedBlockFacts, <1>1, <1>2, <1>5, <2>1 DEF Insert
  <1> HIDE DEF d
  <1>7. get_height(d) = b.index
    BY <1>2, <1>5, <1>6, HeightIsLength
  <1> QED
    BY <1>2, <1>4, <1>5, <1>7 DEF NodeChain, d, a

-----------------------------------------------------------------------------
(* The loop over future_blocks.                                            *)

RoundState(s) == NodeChain(s.chain) /\ Waiting(s.future) /\ s.next \in Nat

(* A block less waits.                                                     *)
LEMMA OneLessWaiting ==
    ASSUME NEW f, Waiting(f), NEW x
    PROVE  Waiting([i \in DOMAIN f \ {x} |-> f[i]])
  <1>1. IsFiniteSet(DOMAIN f \ {x})
    BY FS_Subset DEF Waiting
  <1> QED
    BY <1>1 DEF Waiting

LEMMA RoundKeeps ==
    ASSUME NEW s, RoundState(s)
    PROVE  RoundState(FutureRound(s))
  <1>1. CASE s.over \/ s.next \notin DOMAIN s.future
    BY <1>1 DEF FutureRound
  <1>2. CASE ~(s.over \/ s.next \notin DOMAIN s.future)
    <2> DEFINE b == s.future[s.next]
               good == Verdict(s.chain, b) = "Good"
               r == FutureRound(s)
    <2>1. b \in MinedBlocks
      BY <1>2 DEF RoundState, Waiting
    <2>2. r = [chain  |-> IF good THEN add_block(AfterCheck(s.chain, b), b) ELSE AfterCheck(s.chain, b),
               future |-> [i \in DOMAIN s.future \ {s.next} |-> s.future[i]],
               next   |-> s.next + 1,
               over   |-> ~good]
      BY <1>2 DEF FutureRound
    <2>3. NodeChain(r.chain)
      <3>1. CASE good
        BY <2>1, <2>2, <3>1, GoodBlockKeeps DEF RoundState
      <3>2. CASE ~good
        BY <2>2, <3>2, AfterCheckKeeps DEF RoundState
      <3> QED
        BY <3>1, <3>2
    <2>4. Waiting(r.future)
      BY <2>2, OneLessWaiting DEF RoundState
    <2>5. r.next \in Nat
      BY <2>2 DEF RoundState
    <2> QED
      BY <2>3, <2>4, <2>5 DEF RoundState
  <1> QED
    BY <1>1, <1>2

(* The rounds are well defined: there is a function that follows them.     *)
LEMMA RoundsExist ==
    ASSUME NEW start, NEW N \in Nat
    PROVE  \E f : f = [k \in 0..N |-> IF k = 0 THEN start ELSE FutureRound(f[k - 1])]
  <1> DEFINE Follows(f, m) == f = [k \in 0..m |-> IF k = 0 THEN start ELSE FutureRound(f[k - 1])]
             Missing == {m \in Nat : ~ \E f : Follows(f, m)}
  <1>1. SUFFICES ASSUME Missing # {} PROVE FALSE
    OBVIOUS
  <1>2. PICK m \in Missing : \A y \in Missing : m <= y
    BY <1>1, LeastNatural
  <1>3. m \in Nat
    OBVIOUS
  <1>4. CASE m = 0
    <2>1. Follows([k \in 0..0 |-> start], 0)
      OBVIOUS
    <2> QED
      BY <1>4, <2>1
  <1>5. CASE m # 0
    <2>1. m - 1 \in Nat /\ ~(m <= m - 1)
      BY <1>3, <1>5
    <2>2. PICK g : Follows(g, m - 1)
      BY <1>2, <2>1
    <2> DEFINE f == [k \in 0..m |-> IF k = m THEN FutureRound(g[m - 1]) ELSE g[k]]
    <2>3. \A k \in 0..(m - 1) : g[k] = IF k = 0 THEN start ELSE FutureRound(g[k - 1])
      <3>1. g = [k \in 0..(m - 1) |-> IF k = 0 THEN start ELSE FutureRound(g[k - 1])]
        BY <2>2
      <3> QED
        BY ONLY <3>1
    <2>4. ASSUME NEW k \in 0..m
          PROVE  f[k] = IF k = 0 THEN start ELSE FutureRound(f[k - 1])
      <3>1. CASE k = m
        <4>1. m - 1 \in 0..m /\ m - 1 # m
          BY <2>1, <1>3
        <4>2. f[m - 1] = g[m - 1] /\ f[m] = FutureRound(g[m - 1])
          BY <1>3, <4>1
        <4> QED
          BY <1>5, <3>1, <4>2
      <3>2. CASE k # m
        <4>1. k \in 0..(m - 1) /\ f[k] = g[k]
          BY <1>3, <2>4, <3>2
        <4>2. k # 0 => k - 1 \in 0..m /\ k - 1 # m
          BY <1>3, <2>4
        <4>3. k # 0 => f[k - 1] = g[k - 1]
          BY <4>2
        <4> QED
          BY <2>3, <4>1, <4>3
      <3> QED
        BY <3>1, <3>2
    <2>5. Follows(f, m)
      <3> DEFINE h == [k \in 0..m |-> IF k = 0 THEN start ELSE FutureRound(f[k - 1])]
      <3>1. \A k \in 0..m : f[k] = h[k]
        BY <2>4
      <3>2. DOMAIN f = 0..m /\ DOMAIN h = 0..m
        OBVIOUS
      <3>3. f = [k \in 0..m |-> f[k]] /\ h = [k \in 0..m |-> h[k]]
        OBVIOUS
      <3> HIDE DEF f, h
      <3>4. f = h
        BY <3>1, <3>3
      <3> QED
        BY <3>4 DEF h
    <2> QED
      BY <2>5
  <1> QED
    BY <1>4, <1>5

(* The loop ends with a node's chain and blocks that wait.                 *)
LEMMA FutureBlocksKeep ==
    ASSUME NEW c, NodeChain(c), NEW f, Waiting(f), NEW i \in Nat
    PROVE  LET s == AddFutureBlocks(c, f, i)
           IN  NodeChain(s.chain) /\ Waiting(s.future)
  <1> DEFINE rounds == Cardinality(DOMAIN f)
             start == [chain |-> c, future |-> f, next |-> i, over |-> FALSE]
             after == CHOOSE g : g = [k \in 0..rounds |->
                                        IF k = 0 THEN start ELSE FutureRound(g[k - 1])]
  <1>1. rounds \in Nat
    BY FS_CardinalityType DEF Waiting
  <1> HIDE DEF rounds
  <1>2. RoundState(start)
    BY DEF RoundState
  <1> HIDE DEF start
  <1>3. after = [k \in 0..rounds |-> IF k = 0 THEN start ELSE FutureRound(after[k - 1])]
    BY <1>1, RoundsExist
  <1>4. AddFutureBlocks(c, f, i) = after[rounds]
    BY DEF AddFutureBlocks, rounds, start
  <1> HIDE DEF after
  <1>5. \A k \in 0..rounds : after[k] = IF k = 0 THEN start ELSE FutureRound(after[k - 1])
    BY ONLY <1>3
  <1> DEFINE Unsound == {k \in 0..rounds : ~RoundState(after[k])}
  <1>6. Unsound = {}
    <2>1. SUFFICES ASSUME Unsound # {} PROVE FALSE
      OBVIOUS
    <2>2. PICK m \in Unsound : \A y \in Unsound : m <= y
      <3>1. Unsound \in SUBSET Nat
        BY <1>1
      <3> HIDE DEF Unsound
      <3> QED
        BY <2>1, <3>1, LeastNatural
    <2>3. CASE m = 0
      BY <1>2, <1>5, <2>3
    <2>4. CASE m # 0
      <3>1. m - 1 \in 0..rounds /\ ~(m <= m - 1)
        BY <1>1, <2>4
      <3>2. RoundState(after[m - 1])
        BY <2>2, <3>1
      <3> QED
        BY <1>5, <2>4, <3>2, RoundKeeps
    <2> QED
      BY <2>3, <2>4
  <1>7. RoundState(after[rounds])
    BY <1>1, <1>6
  <1> QED
    BY <1>4, <1>7 DEF RoundState

-----------------------------------------------------------------------------
(* Messages and the ends of connections.                                   *)

LEMMA MessageTypes ==
    /\ Idle \in Messages /\ GetPeers \in Messages /\ PeersMessage \in Messages
    /\ \A i \in Nat : GetBlock(i) \in Messages
    /\ \A b \in MinedBlocks : BlockMessage(b) \in Messages
    /\ \A c \in NodeChains : Ping(c) \in Messages /\ Pong(c) \in Messages
  <1>1. Idle \in Messages /\ GetPeers \in Messages /\ PeersMessage \in Messages
    BY DEF Messages, Idle, GetPeers, PeersMessage
  <1>2. \A i \in Nat : GetBlock(i) \in Messages
    BY DEF Messages, GetBlock
  <1>3. \A b \in MinedBlocks : BlockMessage(b) \in Messages
    BY DEF Messages, BlockMessage
  <1>4. ASSUME NEW c \in NodeChains PROVE Ping(c) \in Messages /\ Pong(c) \in Messages
    <2>1. get_height(c) \in Nat /\ c.last_block.hash \in Hashes
      BY NodeChainTop, InNodeChains
    <2> QED
      BY <2>1 DEF Messages, Ping, Pong
  <1> QED
    BY <1>1, <1>2, <1>3, <1>4

(* What a message of a type carries.                                       *)
LEMMA MessageParts ==
    ASSUME NEW x \in Messages
    PROVE  /\ x.type \in {"Ping", "Pong"} => x.height \in Nat /\ x.hash \in Hashes
           /\ x.type = "GetBlock" => x.index \in Nat
           /\ x.type = "Block" => x.block \in MinedBlocks
  BY DEF Messages

LEMMA EndTypes ==
    ASSUME NEW p \in Peer
    PROVE  /\ \A x \in Messages : Answering(p, x) \in Peer
           /\ Resting(p) \in Peer /\ Unmoved(p) \in Peer
  <1>1. Idle \in Messages
    BY MessageTypes
  <1>2. (p.state # Idle) \in BOOLEAN /\ TRUE \in BOOLEAN /\ FALSE \in BOOLEAN
    OBVIOUS
  <1> QED
    BY <1>1, <1>2 DEF Peer, Answering, Resting, Unmoved

(* The fields of an end, one by one.                                       *)
LEMMA EndFields ==
    ASSUME NEW p \in Peer
    PROVE  /\ \A h \in Nat : [p EXCEPT !.height = h] \in Peer
           /\ \A h \in Nat : [p EXCEPT !.received_block = h] \in Peer
           /\ \A h \in Nat : [p EXCEPT !.sent_height = h] \in Peer
           /\ \A x \in BOOLEAN : [p EXCEPT !.armed = x] \in Peer
           /\ \A x \in Messages : \A y, z \in BOOLEAN :
                 [p EXCEPT !.state = x, !.reads = y, !.armed = z] \in Peer
  BY DEF Peer

LEMMA NewPeerType ==
    ASSUME NEW h \in Nat
    PROVE  NewPeer(h) \in Peer
  BY MessageTypes DEF NewPeer, Peer

(* A node's end that is not absent is an end.                              *)
LEMMA EndIsPeer ==
    ASSUME NInv, NEW n \in Nodes, NEW m \in Nodes, peer[n][m] # NoPeer
    PROVE  peer[n][m] \in Peer
  BY DEF NInv, PeerEnds

LEMMA SetPeerKeeps ==
    ASSUME NInv, NEW n \in Nodes, NEW m \in Nodes, NEW q \in Peer, SetPeer(n, m, q)
    PROVE  peer' \in [Nodes -> [Nodes -> PeerEnds]]
  <1> DEFINE r == [q EXCEPT !.armed = q.armed \/ Len(wire[m][n]) = 1]
  <1>1. (q.armed \/ Len(wire[m][n]) = 1) \in BOOLEAN
    OBVIOUS
  <1>2. r \in PeerEnds
    BY <1>1, EndFields DEF PeerEnds
  <1>3. peer' = [peer EXCEPT ![n][m] = r]
    BY DEF SetPeer
  <1> HIDE DEF r
  <1> QED
    BY <1>2, <1>3 DEF NInv

LEMMA ReadsKeeps ==
    ASSUME NInv, NEW n \in Nodes, NEW m \in Nodes, NEW type, Reads(n, m, type)
    PROVE  /\ wire' \in [Nodes -> [Nodes -> Seq(Messages)]]
           /\ Head(wire[m][n]) \in Messages /\ Head(wire[m][n]).type = type
           /\ peer[n][m] \in Peer
  <1>1. wire[m][n] \in Seq(Messages) /\ wire[m][n] # <<>> /\ peer[n][m] # NoPeer
    BY DEF NInv, Reads, Readable
  <1>2. Head(wire[m][n]) \in Messages /\ Tail(wire[m][n]) \in Seq(Messages)
    BY <1>1
  <1>3. peer[n][m] \in Peer
    BY <1>1, EndIsPeer
  <1> QED
    BY <1>2, <1>3 DEF Reads, NInv

-----------------------------------------------------------------------------
(* The start.                                                              *)

LEMMA StoredChainIsNodeChain ==
    ASSUME NEW n \in Nodes, NEW blocks \in FirstBlocks[n]
    PROVE  NodeChain(StoredChain(blocks)) /\ StoredChain(blocks).blocks = blocks
  <1> DEFINE D == {j \in DOMAIN blocks : IsDomain(blocks[j])}
             g == [i \in D |-> RowOf(blocks[i])]
             c == init_db(blocks, g)
  <1>1. blocks \in Seq(Blocks) /\ blocks # <<>> /\ LinkedBlocks(blocks)
    BY NetworkAssumption DEF LinkedBlocks
  <1>2. PICK k \in Nat : blocks \in [1..k -> Blocks] /\ k >= 1
    <2> DEFINE k == Len(blocks)
    <2>1. k \in Nat /\ blocks \in [1..k -> Blocks] /\ k # 0
      BY <1>1
    <2> HIDE DEF k
    <2> QED
      BY ONLY <2>1
  <1>3. blocks \in BlockTables
    BY <1>2 DEF BlockTables
  <1>4. g \in DomainTables
    <2>1. \A i \in D : RowOf(blocks[i]) \in Rows
      BY <1>2, RowOfType
    <2>2. D \in SUBSET Nat
      BY <1>2
    <2> HIDE DEF D
    <2>3. g \in [D -> Rows]
      BY <2>1
    <2> QED
      BY <2>2, <2>3 DEF DomainTables
  <1> HIDE DEF g
  <1>5. SoundChain(c) /\ Top(c) /\ c.blocks = blocks
    BY <1>1, <1>3, <1>4, InitDbIsSound
  <1> HIDE DEF c
  <1>6. get_height(c) = k
    BY <1>2, <1>5, HeightIsLength
  <1> QED
    BY <1>2, <1>5, <1>6 DEF NodeChain, StoredChain, c, g

LEMMA EmptyWaits == <<>> \in WaitingBlocks
  <1>1. DOMAIN <<>> = {}
    OBVIOUS
  <1>2. Waiting(<<>>)
    BY <1>1, FS_EmptySet DEF Waiting
  <1> QED
    BY <1>2, InWaitingBlocks

LEMMA InitNInv == Init => NInv
  <1> SUFFICES ASSUME Init PROVE NInv
    OBVIOUS
  <1>1. chain \in [Nodes -> NodeChains]
    <2>1. ASSUME NEW n \in Nodes PROVE chain[n] \in NodeChains
      <3>1. PICK m \in Nodes : \E blocks \in FirstBlocks[m] : chain[n] = StoredChain(blocks)
        <4>1. DOMAIN FirstBlocks = Nodes
          BY NetworkAssumption
        <4>2. \A S \in Range(FirstBlocks) : \E m \in Nodes : S = FirstBlocks[m]
          BY <4>1 DEF Range
        <4>3. chain[n] \in {StoredChain(blocks) : blocks \in UNION Range(FirstBlocks)}
          BY DEF Init
        <4> QED
          BY <4>2, <4>3
      <3> QED
        BY <3>1, StoredChainIsNodeChain, InNodeChains
    <2>2. chain = [n \in Nodes |-> chain[n]]
      BY DEF Init
    <2> QED
      BY <2>1, <2>2
  <1>2. future \in [Nodes -> WaitingBlocks]
    BY EmptyWaits DEF Init
  <1>3. seen \in [Nodes -> SUBSET Hashes] /\ ignored \in [Nodes -> SUBSET Nodes]
    BY DEF Init
  <1>4. peer \in [Nodes -> [Nodes -> PeerEnds]]
    BY DEF Init, PeerEnds
  <1>5. wire \in [Nodes -> [Nodes -> Seq(Messages)]]
    <2>1. <<>> \in Seq(Messages)
      OBVIOUS
    <2> QED
      BY <2>1 DEF Init
  <1>6. mined \subseteq MinedBlocks /\ faults \in 0..MaxFaults
    BY NetworkAssumption DEF Init
  <1> QED
    BY <1>1, <1>2, <1>3, <1>4, <1>5, <1>6 DEF NInv

-----------------------------------------------------------------------------
(* Connections.                                                            *)

LEMMA ConnectKeeps ==
    ASSUME NInv, NEW n \in Nodes, Connect(n)
    PROVE  NInv'
  <1> DEFINE found  == {m \in Bootstrap[n] \ {n} : /\ m \notin ignored[n] /\ n \notin ignored[m]
                                                 /\ peer[m][n] = NoPeer}
             higher == {m \in found : get_height(chain[m]) > get_height(chain[n])}
  <1>1. found \subseteq Nodes /\ higher \subseteq Nodes
    BY NetworkAssumption
  <1>2. PICK told \in IF higher = {} THEN {n} ELSE higher :
           chain' = IF told = n THEN chain
                    ELSE [chain EXCEPT ![n].max_height = get_height(chain[told])]
    BY DEF Connect
  <1>3. PICK gossip \in SUBSET found :
           peer' = [i \in Nodes |-> [j \in Nodes |->
                     IF i = n /\ j \in found
                     THEN LET p == NewPeer(get_height(chain[j]))
                          IN  IF j \in gossip THEN Answering(p, GetPeers) ELSE p
                     ELSE IF j = n /\ i \in found THEN NewPeer(0)
                     ELSE peer[i][j]]]
    <2>1. (IF WantsPeers(1) THEN SUBSET found ELSE {{}}) \subseteq SUBSET found
      OBVIOUS
    <2> HIDE DEF found
    <2> QED
      BY <2>1 DEF Connect, found
  <1>4. wire' = [i \in Nodes |-> [j \in Nodes |->
                   IF (i = n /\ j \in found) \/ (j = n /\ i \in found) THEN <<>> ELSE wire[i][j]]]
    BY DEF Connect
  <1>5. UNCHANGED <<seen, future, ignored, mined, faults>>
    BY DEF Connect
  <1> HIDE DEF found, higher
  <1>6. \A m \in Nodes : NodeChain(chain[m]) /\ get_height(chain[m]) \in Nat
    BY InNodeChains, NodeChainTop DEF NInv
  <1>7. chain' \in [Nodes -> NodeChains]
    <2>1. told \in Nodes
      BY <1>1
    <2>2. [chain[n] EXCEPT !.max_height = get_height(chain[told])] \in NodeChains
      BY <1>6, <2>1, MaxHeightDoesNotMatter, InNodeChains
    <2> QED
      BY <1>2, <2>2 DEF NInv
  <1>8. peer' \in [Nodes -> [Nodes -> PeerEnds]]
    <2>1. ASSUME NEW i \in Nodes, NEW j \in Nodes PROVE peer'[i][j] \in PeerEnds
      <3>1. NewPeer(get_height(chain[j])) \in Peer /\ NewPeer(0) \in Peer
        BY <1>6, NewPeerType
      <3>2. Answering(NewPeer(get_height(chain[j])), GetPeers) \in Peer
        BY <3>1, EndTypes, MessageTypes
      <3>3. peer[i][j] \in PeerEnds
        BY DEF NInv
      <3> QED
        BY <1>3, <3>1, <3>2, <3>3 DEF PeerEnds
    <2> QED
      BY <1>3, <2>1
  <1>9. wire' \in [Nodes -> [Nodes -> Seq(Messages)]]
    <2>1. ASSUME NEW i \in Nodes, NEW j \in Nodes PROVE wire'[i][j] \in Seq(Messages)
      <3>1. wire[i][j] \in Seq(Messages) /\ <<>> \in Seq(Messages)
        BY DEF NInv
      <3> QED
        BY <1>4, <3>1
    <2> QED
      BY <1>4, <2>1
  <1> QED
    BY <1>5, <1>7, <1>8, <1>9 DEF NInv

LEMMA BreakKeeps ==
    ASSUME NInv, NEW n \in Nodes, NEW m \in Nodes, Break(n, m) \/ ReadClosed(n, m)
    PROVE  NInv'
  <1>1. /\ peer' = [peer EXCEPT ![n][m] = NoPeer]
        /\ wire' = [wire EXCEPT ![m][n] = <<>>]
        /\ UNCHANGED <<chain, seen, future, ignored, mined>>
    BY DEF Break, ReadClosed
  <1>2. peer' \in [Nodes -> [Nodes -> PeerEnds]]
    BY <1>1 DEF NInv, PeerEnds
  <1>3. wire' \in [Nodes -> [Nodes -> Seq(Messages)]]
    <2>1. <<>> \in Seq(Messages)
      OBVIOUS
    <2> QED
      BY <1>1, <2>1 DEF NInv
  <1>4. faults' \in 0..MaxFaults
    BY NetworkAssumption DEF NInv, Break, ReadClosed
  <1> QED
    BY <1>1, <1>2, <1>3, <1>4 DEF NInv

LEMMA WriteKeeps ==
    ASSUME NInv, NEW n \in Nodes, NEW m \in Nodes, Write(n, m)
    PROVE  NInv'
  <1> DEFINE mine   == [peer[n][m] EXCEPT !.state = Idle, !.reads = FALSE, !.armed = TRUE]
             theirs == peer[m][n]
             armed  == [theirs EXCEPT !.armed = TRUE]
  <1>1. peer[n][m] \in Peer
    BY EndIsPeer DEF Write
  <1>2. mine \in PeerEnds
    <2>1. Idle \in Messages /\ TRUE \in BOOLEAN /\ FALSE \in BOOLEAN
      BY MessageTypes
    <2> QED
      BY <1>1, <2>1, EndFields DEF PeerEnds
  <1>3. theirs # NoPeer => armed \in PeerEnds
    BY EndIsPeer, EndFields DEF PeerEnds
  <1>4. \/ peer' = [peer EXCEPT ![n][m] = mine] /\ UNCHANGED wire
        \/ /\ theirs # NoPeer
           /\ peer' = [peer EXCEPT ![n][m] = mine, ![m][n] = armed]
           /\ wire' = [wire EXCEPT ![n][m] = Append(@, peer[n][m].state)]
    BY DEF Write
  <1>5. UNCHANGED <<chain, seen, future, ignored, mined, faults>>
    BY DEF Write
  <1> HIDE DEF mine, theirs, armed
  <1>6. peer' \in [Nodes -> [Nodes -> PeerEnds]]
    <2> DEFINE q == [peer EXCEPT ![n][m] = mine]
    <2>1. q \in [Nodes -> [Nodes -> PeerEnds]]
      BY <1>2 DEF NInv
    <2> HIDE DEF q
    <2>2. theirs # NoPeer => [q EXCEPT ![m][n] = armed] \in [Nodes -> [Nodes -> PeerEnds]]
      BY <1>3, <2>1
    <2>3. peer' = q \/ (theirs # NoPeer /\ peer' = [q EXCEPT ![m][n] = armed])
      BY <1>4 DEF q
    <2> QED
      BY <2>1, <2>2, <2>3
  <1>7. wire' \in [Nodes -> [Nodes -> Seq(Messages)]]
    <2>1. Append(wire[n][m], peer[n][m].state) \in Seq(Messages)
      <3>1. peer[n][m].state \in Messages /\ wire[n][m] \in Seq(Messages)
        BY <1>1 DEF NInv, Peer
      <3> QED
        BY <3>1
    <2> DEFINE x == Append(wire[n][m], peer[n][m].state)
               S == Seq(Messages)
    <2>2. wire' = wire \/ wire' = [wire EXCEPT ![n][m] = x]
      BY <1>4
    <2>3. x \in S /\ wire \in [Nodes -> [Nodes -> S]]
      BY <2>1 DEF NInv
    <2> HIDE DEF x, S
    <2>4. wire' \in [Nodes -> [Nodes -> S]]
      BY <2>2, <2>3
    <2> QED
      BY <2>4 DEF S
  <1> QED
    BY <1>5, <1>6, <1>7 DEF NInv

-----------------------------------------------------------------------------
(* Reading messages other than blocks.                                     *)

LEMMA ReadHeightKeeps ==
    ASSUME NInv, NEW n \in Nodes, NEW m \in Nodes,
           NEW type \in {"Ping", "Pong"}, NEW calm \in SUBSET Messages,
           ReadHeight(n, m, type, calm)
    PROVE  NInv'
  <1> DEFINE message == Head(wire[m][n])
             p       == [peer[n][m] EXCEPT !.height = message.height]
             mine    == get_height(chain[n])
             higher  == message.hash \notin seen[n] /\ message.height > mine
             Answer(a) == SetPeer(n, m, IF a = Idle THEN Resting(p) ELSE Answering(p, a))
  <1>1. /\ Reads(n, m, type)
        /\ chain' = IF higher THEN [chain EXCEPT ![n].max_height = message.height] ELSE chain
        /\ CASE message.hash \in seen[n] -> Answer(IF type = "Ping" THEN Pong(chain[n]) ELSE Idle)
             [] higher -> Answer(GetBlock(mine + 1))
             [] /\ message.hash \notin seen[n]
                /\ message.height = mine /\ message.hash # chain[n].last_block.hash ->
                  Answer(GetBlock(mine))
             [] OTHER -> \E a \in calm : Answer(a)
        /\ UNCHANGED <<seen, future, ignored, mined, faults>>
    BY DEF ReadHeight
  <1>2. /\ wire' \in [Nodes -> [Nodes -> Seq(Messages)]]
        /\ message \in Messages /\ message.type = type /\ peer[n][m] \in Peer
    BY <1>1, ReadsKeeps
  <1>3. message.height \in Nat
    BY <1>2, MessageParts
  <1>4. NodeChain(chain[n]) /\ chain[n] \in NodeChains /\ mine \in Nat
    BY InNodeChains, NodeChainTop DEF NInv
  <1>5. p \in Peer
    BY <1>2, <1>3, EndFields
  <1> HIDE DEF p, mine, message
  <1>6. chain' \in [Nodes -> NodeChains]
    <2>1. [chain[n] EXCEPT !.max_height = message.height] \in NodeChains
      BY <1>3, <1>4, MaxHeightDoesNotMatter, InNodeChains
    <2> QED
      BY <1>1, <2>1 DEF NInv
  <1>7. \E a \in Messages : Answer(a)
    <2>1. /\ Pong(chain[n]) \in Messages /\ Idle \in Messages
          /\ GetBlock(mine + 1) \in Messages /\ GetBlock(mine) \in Messages
      BY <1>4, MessageTypes
    <2> HIDE DEF Answer, higher
    <2> QED
      BY <1>1, <2>1
  <1>8. PICK a \in Messages : Answer(a)
    BY <1>7
  <1>9. peer' \in [Nodes -> [Nodes -> PeerEnds]]
    <2>1. (IF a = Idle THEN Resting(p) ELSE Answering(p, a)) \in Peer
      BY <1>5, EndTypes
    <2> QED
      BY <1>8, <2>1, SetPeerKeeps
  <1> QED
    BY <1>1, <1>2, <1>6, <1>9 DEF NInv

LEMMA ReadPingPongKeeps ==
    ASSUME NInv, NEW n \in Nodes, NEW m \in Nodes, ReadPing(n, m) \/ ReadPong(n, m)
    PROVE  NInv'
  <1>1. Pong(chain[n]) \in Messages /\ Idle \in Messages /\ GetPeers \in Messages
    BY MessageTypes DEF NInv
  <1>2. CASE ReadPing(n, m)
    <2>1. {Pong(chain[n])} \in SUBSET Messages
      BY <1>1
    <2> QED
      BY <1>2, <2>1, ReadHeightKeeps DEF ReadPing
  <1>3. CASE ReadPong(n, m)
    <2> DEFINE calm == {Idle} \cup IF WantsPeers(Cardinality(Connections(n))) THEN {GetPeers} ELSE {}
    <2>1. calm \in SUBSET Messages
      BY <1>1
    <2>2. ReadHeight(n, m, "Pong", calm)
      BY <1>3 DEF ReadPong
    <2> HIDE DEF calm
    <2> QED
      BY <2>1, <2>2, ReadHeightKeeps
  <1> QED
    BY <1>2, <1>3

LEMMA ReadRequestKeeps ==
    ASSUME NInv, NEW n \in Nodes, NEW m \in Nodes,
           ReadGetPeers(n, m) \/ ReadPeers(n, m) \/ ReadGetBlock(n, m)
    PROVE  NInv'
  <1>1. PICK type \in {"GetPeers", "Peers", "GetBlock"} :
           /\ Reads(n, m, type)
           /\ UNCHANGED <<chain, seen, future, ignored, mined, faults>>
    BY DEF ReadGetPeers, ReadPeers, ReadGetBlock
  <1>2. wire' \in [Nodes -> [Nodes -> Seq(Messages)]] /\ peer[n][m] \in Peer
    BY <1>1, ReadsKeeps
  <1>3. peer' \in [Nodes -> [Nodes -> PeerEnds]]
    <2>1. CASE ReadGetPeers(n, m)
      <3>1. Answering(peer[n][m], PeersMessage) \in Peer
        BY <1>2, EndTypes, MessageTypes
      <3> QED
        BY <2>1, <3>1, SetPeerKeeps DEF ReadGetPeers
    <2>2. CASE ReadPeers(n, m)
      <3>1. Resting(peer[n][m]) \in Peer
        BY <1>2, EndTypes
      <3> QED
        BY <2>2, <3>1, SetPeerKeeps DEF ReadPeers
    <2>3. CASE ReadGetBlock(n, m)
      <3> DEFINE i == Head(wire[m][n]).index
                 b == get_block(chain[n], i)
                 q == IF b = NoBlock THEN Unmoved(peer[n][m])
                                     ELSE Answering(peer[n][m], BlockMessage(b))
      <3>1. b \in MinedBlocks \cup {NoBlock}
        <4>1. DOMAIN chain[n].blocks = 1..get_height(chain[n])
              /\ chain[n].blocks \in [1..get_height(chain[n]) -> Blocks]
              /\ LinkedBlocks(chain[n].blocks) /\ get_height(chain[n]) \in Nat
          BY InNodeChains, NodeChainTop DEF NInv
        <4>2. \A j \in DOMAIN chain[n].blocks : chain[n].blocks[j] \in MinedBlocks
          BY <4>1 DEF LinkedBlocks, MinedBlocks
        <4> QED
          BY <4>2 DEF get_block
      <3> HIDE DEF b
      <3>2. q \in Peer
        BY <1>2, <3>1, EndTypes, MessageTypes
      <3>3. SetPeer(n, m, q)
        BY <2>3 DEF ReadGetBlock, b
      <3> HIDE DEF q
      <3> QED
        BY <3>2, <3>3, SetPeerKeeps
    <2> QED
      BY <2>1, <2>2, <2>3
  <1> QED
    BY <1>1, <1>2, <1>3 DEF NInv

-----------------------------------------------------------------------------
(* Reading a block.                                                        *)

(* A block comes to wait.                                                  *)
LEMMA OneMoreWaiting ==
    ASSUME NEW f, Waiting(f), NEW b \in MinedBlocks
    PROVE  Waiting(Insert(f, b.index, b))
  <1> DEFINE g == Insert(f, b.index, b)
  <1>1. b.index \in Nat
    BY MinedBlockFacts
  <1>2. g = [i \in DOMAIN f \cup {b.index} |-> IF i = b.index THEN b ELSE f[i]]
    BY DEF Insert
  <1>3. IsFiniteSet(DOMAIN f \cup {b.index})
    BY FS_AddElement DEF Waiting
  <1>4. DOMAIN g = DOMAIN f \cup {b.index}
    BY <1>2
  <1>5. \A i \in DOMAIN g : g[i] \in MinedBlocks /\ g[i].index = i
    BY <1>2 DEF Waiting
  <1>6. g \in [DOMAIN g -> MinedBlocks]
    <2>1. g = [i \in DOMAIN g |-> g[i]]
      BY <1>2
    <2> HIDE DEF g
    <2> QED
      BY <1>5, <2>1
  <1> HIDE DEF g
  <1> QED
    BY <1>1, <1>3, <1>4, <1>5, <1>6 DEF Waiting, g

(* What handle_block must leave behind, whatever the verdict.              *)
Handled ==
    /\ chain' \in [Nodes -> NodeChains]
    /\ future' \in [Nodes -> WaitingBlocks]
    /\ peer' \in [Nodes -> [Nodes -> PeerEnds]]
    /\ ignored' \in [Nodes -> SUBSET Nodes]

LEMMA GoodIsHandled ==
    ASSUME NInv, NEW n \in Nodes, NEW m \in Nodes, NEW p \in Peer, NEW b \in MinedBlocks,
           Verdict(chain[n], b) = "Good", BlockIsGood(n, m, p, b)
    PROVE  Handled
  <1> DEFINE d == add_block(AfterCheck(chain[n], b), b)
             s == AddFutureBlocks(d, future[n], b.index + 1)
  <1>1. NodeChain(chain[n]) /\ Waiting(future[n])
    BY InNodeChains, InWaitingBlocks DEF NInv
  <1>2. NodeChain(d)
    BY <1>1, GoodBlockKeeps
  <1>3. b.index + 1 \in Nat
    BY MinedBlockFacts
  <1> HIDE DEF d
  <1>4. NodeChain(s.chain) /\ Waiting(s.future)
    BY <1>1, <1>2, <1>3, FutureBlocksKeep
  <1>5. /\ chain' = [chain EXCEPT ![n] = s.chain]
        /\ future' = [future EXCEPT ![n] =
                         IF get_height(s.chain) = chain[n].max_height THEN <<>> ELSE s.future]
        /\ SetPeer(n, m, Resting(p))
        /\ UNCHANGED ignored
    BY DEF BlockIsGood, d
  <1> HIDE DEF s
  <1>6. s.chain \in NodeChains /\ s.future \in WaitingBlocks /\ <<>> \in WaitingBlocks
    BY <1>4, InNodeChains, InWaitingBlocks, EmptyWaits
  <1>7. peer' \in [Nodes -> [Nodes -> PeerEnds]]
    <2>1. Resting(p) \in Peer
      BY EndTypes
    <2> QED
      BY <1>5, <2>1, SetPeerKeeps
  <1> QED
    BY <1>5, <1>6, <1>7 DEF Handled, NInv

LEMMA BadIsHandled ==
    ASSUME NInv, NEW n \in Nodes, NEW m \in Nodes, NEW b \in MinedBlocks, BlockIsBad(n, m, b)
    PROVE  Handled
  <1> DEFINE c == AfterCheck(chain[n], b)
             d == IF get_height(c) + 1 = b.index
                  THEN [c EXCEPT !.max_height = get_height(c)] ELSE c
  <1>1. NodeChain(c)
    BY InNodeChains, AfterCheckKeeps DEF NInv
  <1>2. /\ chain' = [chain EXCEPT ![n] = d]
        /\ ignored' = [ignored EXCEPT ![n] = @ \cup {m}]
        /\ peer' = [peer EXCEPT ![n][m] = NoPeer]
        /\ UNCHANGED future
    BY DEF BlockIsBad
  <1> HIDE DEF c
  <1>3. d \in NodeChains
    BY <1>1, NodeChainTop, MaxHeightDoesNotMatter, InNodeChains
  <1> HIDE DEF d
  <1> QED
    BY <1>2, <1>3 DEF Handled, NInv, PeerEnds

LEMMA ForkIsHandled ==
    ASSUME NInv, NEW n \in Nodes, NEW m \in Nodes, NEW p \in Peer, NEW b \in MinedBlocks,
           Verdict(chain[n], b) = "Fork", BlockIsFork(n, m, p, b)
    PROVE  Handled
  <1> DEFINE c    == AfterCheck(chain[n], b)
             ours == get_block(c, b.index)
             d    == replace_block(c, b)
  <1>1. NodeChain(chain[n])
    BY InNodeChains DEF NInv
  <1>2. c \in NodeChains /\ d \in NodeChains /\ ours \in MinedBlocks
    BY <1>1, AfterCheckKeeps, ForkKeeps, InNodeChains
  <1>3. /\ \/ chain' = [chain EXCEPT ![n] = d] /\ SetPeer(n, m, Resting(p))
           \/ chain' = [chain EXCEPT ![n] = c] /\ SetPeer(n, m, Answering(p, BlockMessage(ours)))
        /\ UNCHANGED <<future, ignored>>
    BY DEF BlockIsFork
  <1> HIDE DEF c, d, ours
  <1>4. chain' \in [Nodes -> NodeChains]
    BY <1>2, <1>3 DEF NInv
  <1>5. peer' \in [Nodes -> [Nodes -> PeerEnds]]
    <2>1. Resting(p) \in Peer /\ Answering(p, BlockMessage(ours)) \in Peer
      BY <1>2, EndTypes, MessageTypes
    <2> QED
      BY <1>3, <2>1, SetPeerKeeps
  <1> QED
    BY <1>3, <1>4, <1>5 DEF Handled, NInv

(* A twin, a block of the future, an orphan.                               *)
LEMMA OthersAreHandled ==
    ASSUME NInv, NEW n \in Nodes, NEW m \in Nodes, NEW p \in Peer, NEW b \in MinedBlocks,
           BlockIsTwin(n, m, p, b) \/ BlockIsFuture(n, m, p, b) \/ BlockIsOrphan(n, m, p, b)
    PROVE  Handled
  <1>1. NodeChain(chain[n]) /\ Waiting(future[n])
    BY InNodeChains, InWaitingBlocks DEF NInv
  <1>2. \E q \in Peer : SetPeer(n, m, q)
    <2>1. b.index - 1 \in Nat
      BY MinedBlockFacts
    <2>2. Resting(p) \in Peer /\ Answering(p, GetBlock(b.index - 1)) \in Peer
      BY <2>1, EndTypes, MessageTypes
    <2> QED
      BY <2>2 DEF BlockIsTwin, BlockIsFuture, BlockIsOrphan
  <1>3. peer' \in [Nodes -> [Nodes -> PeerEnds]]
    BY <1>2, SetPeerKeeps
  <1>4. AfterCheck(chain[n], b) \in NodeChains
    BY <1>1, AfterCheckKeeps, InNodeChains
  <1>5. Insert(future[n], b.index, b) \in WaitingBlocks
    BY <1>1, OneMoreWaiting, InWaitingBlocks
  <1>6. /\ chain' = [chain EXCEPT ![n] = AfterCheck(@, b)] \/ UNCHANGED chain
        /\ future' = [future EXCEPT ![n] = Insert(@, b.index, b)] \/ UNCHANGED future
        /\ UNCHANGED ignored
    BY DEF BlockIsTwin, BlockIsFuture, BlockIsOrphan
  <1>7. chain' \in [Nodes -> NodeChains]
    BY <1>4, <1>6 DEF NInv
  <1>8. future' \in [Nodes -> WaitingBlocks]
    BY <1>5, <1>6 DEF NInv
  <1> QED
    BY <1>3, <1>6, <1>7, <1>8 DEF Handled, NInv

LEMMA ReadBlockKeeps ==
    ASSUME NInv, NEW n \in Nodes, NEW m \in Nodes, ReadBlock(n, m)
    PROVE  NInv'
  <1> DEFINE b == Head(wire[m][n]).block
             p == [peer[n][m] EXCEPT !.received_block = b.index]
  <1>1. Reads(n, m, "Block") /\ UNCHANGED <<mined, faults>>
    BY DEF ReadBlock
  <1>2. /\ wire' \in [Nodes -> [Nodes -> Seq(Messages)]]
        /\ b \in MinedBlocks /\ peer[n][m] \in Peer
    BY <1>1, ReadsKeeps, MessageParts
  <1>3. CASE b.hash \in seen[n]
    <2>1. Resting(peer[n][m]) \in Peer
      BY <1>2, EndTypes
    <2>2. SetPeer(n, m, Resting(peer[n][m])) /\ UNCHANGED <<chain, seen, future, ignored>>
      BY <1>3 DEF ReadBlock
    <2>3. peer' \in [Nodes -> [Nodes -> PeerEnds]]
      BY <2>1, <2>2, SetPeerKeeps
    <2> QED
      BY <1>1, <1>2, <2>2, <2>3 DEF NInv
  <1>4. CASE b.hash \notin seen[n]
    <2>1. handle_block(n, m, b)
      BY <1>4 DEF ReadBlock
    <2>2. p \in Peer /\ b.hash \in Hashes
      BY <1>2, EndFields, MinedBlockFacts DEF BlockRecords
    <2> HIDE DEF b
    <2>3. /\ seen' = [seen EXCEPT ![n] = @ \cup {b.hash}]
          /\ \/ Verdict(chain[n], b) = "Good" /\ BlockIsGood(n, m, p, b)
             \/ Verdict(chain[n], b) = "Fork" /\ BlockIsFork(n, m, p, b)
             \/ BlockIsTwin(n, m, p, b) \/ BlockIsFuture(n, m, p, b) \/ BlockIsOrphan(n, m, p, b)
             \/ BlockIsBad(n, m, b)
      BY <2>1 DEF handle_block
    <2> HIDE DEF p
    <2>4. Handled
      BY <1>2, <2>2, <2>3, GoodIsHandled, ForkIsHandled, OthersAreHandled, BadIsHandled
    <2>5. seen' \in [Nodes -> SUBSET Hashes]
      BY <2>2, <2>3 DEF NInv
    <2> QED
      BY <1>1, <1>2, <2>4, <2>5 DEF Handled, NInv
  <1> QED
    BY <1>3, <1>4

-----------------------------------------------------------------------------
(* Peers::update.                                                          *)

LEMMA PingedType ==
    ASSUME NInv, NEW n \in Nodes, NEW idle, NEW gossip
    PROVE  Pinged(n, idle, gossip) \in [Connections(n) -> Peer]
  <1>1. ASSUME NEW m \in Connections(n) PROVE Pinged(n, idle, gossip)[m] \in Peer
    <2> DEFINE p == peer[n][m]
               message == IF m \in gossip THEN GetPeers ELSE Ping(chain[n])
    <2>1. p \in Peer
      BY EndIsPeer DEF Connections
    <2>2. message \in Messages
      BY MessageTypes DEF NInv
    <2>3. Pinged(n, idle, gossip)[m] =
             IF p.state # Idle THEN [p EXCEPT !.reads = FALSE, !.armed = TRUE]
             ELSE IF m \notin idle THEN p
             ELSE [p EXCEPT !.state = message, !.reads = TRUE, !.armed = TRUE]
      BY DEF Pinged
    <2> HIDE DEF p, message
    <2> QED
      BY <2>1, <2>2, <2>3 DEF Peer
  <1>2. Pinged(n, idle, gossip) = [m \in Connections(n) |-> Pinged(n, idle, gossip)[m]]
    BY DEF Pinged
  <1> QED
    BY <1>1, <1>2

(* The order in which peers are asked is finite, so a turn is a number.    *)
LEMMA AskedOrder ==
    ASSUME NInv, NEW n \in Nodes, NEW ends \in [Connections(n) -> Peer],
           NEW order \in Asked(n, ends)
    PROVE  \E k \in Nat : DOMAIN order \subseteq 1..k
  <1> DEFINE height == get_height(chain[n])
             behind == chain[n].max_height - height
             able   == {m \in DOMAIN ends : has_more_blocks(ends[m], height)}
             count  == Min({behind, Cardinality(DOMAIN ends), Cardinality(able)})
  <1>1. CASE order = <<>>
    <2>1. DOMAIN order \subseteq 1..0
      BY <1>1
    <2> QED
      BY <2>1
  <1>2. CASE order # <<>>
    <2>1. ~(behind <= 0) /\ order \in [1..count -> able]
      <3> DEFINE all == {s \in [1..count -> able] : \A i, j \in 1..count : s[i] = s[j] => i = j}
      <3>1. order \in IF behind <= 0 \/ Cardinality(DOMAIN ends) < MIN_CONNECTED_NODES_START_SYNC
                     THEN {<<>>} ELSE {<<>>} \cup all
        BY DEF Asked
      <3>2. \A s \in all : s \in [1..count -> able]
        OBVIOUS
      <3> HIDE DEF all, behind, count, able
      <3> QED
        BY <1>2, <3>1, <3>2
    <2>2. height \in Nat /\ chain[n].max_height \in Nat
      BY InNodeChains, NodeChainTop DEF NInv
    <2>3. DOMAIN ends \subseteq Nodes /\ able \subseteq Nodes
      BY DEF Connections
    <2>4. Cardinality(DOMAIN ends) \in Nat /\ Cardinality(able) \in Nat
      BY <2>3, NetworkAssumption, FS_Subset, FS_CardinalityType
    <2>5. count \in Nat
      <3> DEFINE S == {behind, Cardinality(DOMAIN ends), Cardinality(able)}
      <3>1. S \in SUBSET Nat /\ S # {}
        BY <2>1, <2>2, <2>4
      <3> HIDE DEF S
      <3>2. \E x \in S : \A y \in S : x =< y
        BY <3>1, LeastNatural
      <3>3. Min(S) \in S
        BY <3>2 DEF Min
      <3> QED
        BY <3>1, <3>3 DEF S
    <2> HIDE DEF count, able
    <2> QED
      BY <2>1, <2>5
  <1> QED
    BY <1>1, <1>2

LEMMA AskedType ==
    ASSUME NInv, NEW n \in Nodes, NEW ends \in [Connections(n) -> Peer],
           NEW order \in Asked(n, ends)
    PROVE  ask_blocks_from_peers(n, ends, order) \in [Connections(n) -> Peer]
  <1> DEFINE asked == ask_blocks_from_peers(n, ends, order)
  <1>1. PICK k \in Nat : DOMAIN order \subseteq 1..k
    BY AskedOrder
  <1>2. ASSUME NEW m \in Connections(n) PROVE asked[m] \in Peer
    <2> DEFINE turn  == {i \in DOMAIN order : order[i] = m}
               index == get_height(chain[n]) + Max(turn \cup {0})
    <2>1. turn \cup {0} \in SUBSET (0..k) /\ turn \cup {0} # {}
      BY <1>1
    <2> HIDE DEF turn
    <2>2. Max(turn \cup {0}) \in 0..k
      BY <1>1, <2>1, MaxNatural
    <2>3. get_height(chain[n]) \in Nat
      BY InNodeChains, NodeChainTop DEF NInv
    <2>4. index \in Nat
      BY <1>1, <2>2, <2>3
    <2>5. asked[m] = IF turn = {} \/ index \in DOMAIN future[n] THEN ends[m]
                     ELSE Answering(ends[m], GetBlock(index))
      BY DEF ask_blocks_from_peers, turn
    <2> HIDE DEF index, asked
    <2>6. ends[m] \in Peer /\ GetBlock(index) \in Messages
      BY <2>4, MessageTypes
    <2> QED
      BY <2>5, <2>6, EndTypes
  <1>3. asked = [m \in Connections(n) |-> asked[m]]
    BY DEF ask_blocks_from_peers
  <1> HIDE DEF asked
  <1>4. asked \in [Connections(n) -> Peer]
    BY <1>2, <1>3
  <1> QED
    BY <1>4 DEF asked

LEMMA TellBehindType ==
    ASSUME NInv, NEW n \in Nodes, NEW ends \in [Connections(n) -> Peer], NEW told
    PROVE  TellBehind(n, ends, told) \in [Connections(n) -> Peer]
  <1> DEFINE all == TellBehind(n, ends, told)
  <1>1. ASSUME NEW m \in Connections(n) PROVE all[m] \in Peer
    <2> DEFINE q == Answering(ends[m], Ping(chain[n]))
               h == get_height(chain[n])
    <2>1. ends[m] \in Peer /\ Ping(chain[n]) \in Messages /\ h \in Nat
      BY InNodeChains, NodeChainTop, MessageTypes DEF NInv
    <2>2. q \in Peer
      BY <2>1, EndTypes
    <2>3. all[m] = IF m \notin told THEN ends[m] ELSE [q EXCEPT !.sent_height = h]
      BY DEF TellBehind
    <2> HIDE DEF q, h, all
    <2>4. [q EXCEPT !.sent_height = h] \in Peer
      BY <2>1, <2>2 DEF Peer
    <2> QED
      BY <2>1, <2>3, <2>4
  <1>2. all = [m \in Connections(n) |-> all[m]]
    BY DEF TellBehind
  <1> HIDE DEF all
  <1>3. all \in [Connections(n) -> Peer]
    BY <1>1, <1>2
  <1> QED
    BY <1>3 DEF all

LEMMA UpdateKeeps ==
    ASSUME NInv, NEW n \in Nodes, NEW idle, NEW gossip, update(n, idle, gossip)
    PROVE  NInv'
  <1> DEFINE pinged == Pinged(n, idle, gossip)
  <1>1. PICK order \in Asked(n, pinged), purged \in SUBSET ignored[n] :
          LET ends == ask_blocks_from_peers(n, pinged, order)
          IN  \E told \in {{}} \cup {{m} : m \in Lower(n, ends)} :
                  /\ peer' = [peer EXCEPT ![n] =
                                 [m \in Nodes |-> IF m \in Connections(n)
                                                  THEN TellBehind(n, ends, told)[m] ELSE NoPeer]]
                  /\ ignored' = [ignored EXCEPT ![n] = @ \ purged]
    BY DEF update
  <1>2. UNCHANGED <<chain, seen, future, wire, mined, faults>>
    BY DEF update
  <1>3. pinged \in [Connections(n) -> Peer]
    BY PingedType
  <1> HIDE DEF pinged
  <1> DEFINE ends == ask_blocks_from_peers(n, pinged, order)
  <1>4. ends \in [Connections(n) -> Peer]
    BY <1>3, AskedType
  <1>5. PICK told :
           /\ peer' = [peer EXCEPT ![n] =
                          [m \in Nodes |-> IF m \in Connections(n)
                                           THEN TellBehind(n, ends, told)[m] ELSE NoPeer]]
           /\ ignored' = [ignored EXCEPT ![n] = @ \ purged]
    BY <1>1
  <1> HIDE DEF ends
  <1> DEFINE all == TellBehind(n, ends, told)
             row == [m \in Nodes |-> IF m \in Connections(n) THEN all[m] ELSE NoPeer]
  <1>6. all \in [Connections(n) -> Peer]
    BY <1>4, TellBehindType
  <1> HIDE DEF all
  <1>7. row \in [Nodes -> PeerEnds]
    BY <1>6 DEF PeerEnds
  <1>8. peer' = [peer EXCEPT ![n] = row]
    BY <1>5 DEF all
  <1> HIDE DEF row
  <1>9. peer' \in [Nodes -> [Nodes -> PeerEnds]]
    BY <1>7, <1>8 DEF NInv
  <1>10. ignored' \in [Nodes -> SUBSET Nodes]
    BY <1>5 DEF NInv
  <1> QED
    BY <1>2, <1>9, <1>10 DEF NInv

-----------------------------------------------------------------------------
(* Every step.                                                             *)

LEMMA MineKeeps ==
    ASSUME NInv, NEW n \in Nodes, NEW b \in Blocks, Mine(n, b)
    PROVE  NInv'
  <1> DEFINE d == add_block(AfterCheck(chain[n], b), b)
  <1>1. b \in MinedBlocks
    <2>1. get_height(chain[n]) \in Nat
      BY InNodeChains, NodeChainTop DEF NInv
    <2>2. b.index = get_height(chain[n]) + 1
      BY DEF Mine
    <2> QED
      BY <2>1, <2>2 DEF MinedBlocks
  <1>2. d \in NodeChains
    BY <1>1, InNodeChains, GoodBlockKeeps DEF NInv, Mine
  <1>3. /\ chain' = [chain EXCEPT ![n] = d] /\ mined' = mined \cup {b}
        /\ UNCHANGED <<seen, future, peer, wire, ignored, faults>>
    BY DEF Mine
  <1> HIDE DEF d
  <1> QED
    BY <1>1, <1>2, <1>3 DEF NInv

LEMMA NextNInv == NInv /\ [Next]_vars => NInv'
  <1> SUFFICES ASSUME NInv, [Next]_vars PROVE NInv'
    OBVIOUS
  <1>1. ASSUME NEW n \in Nodes, NEW m \in Nodes,
               Break(n, m) \/ ReadClosed(n, m) \/ Write(n, m) \/ Read(n, m)
        PROVE  NInv'
    BY <1>1, BreakKeeps, WriteKeeps, ReadPingPongKeeps, ReadRequestKeeps, ReadBlockKeeps DEF Read
  <1>2. ASSUME NEW n \in Nodes, Connect(n)
        PROVE  NInv'
    BY <1>2, ConnectKeeps
  <1>3. ASSUME NEW n \in Nodes, Update(n)
        PROVE  NInv'
    <2>1. \E idle, gossip : update(n, idle, gossip)
      BY <1>3 DEF Update
    <2> QED
      BY <2>1, UpdateKeeps
  <1>4. ASSUME NEW n \in Nodes, ClearSeen(n)
        PROVE  NInv'
    BY <1>4 DEF ClearSeen, NInv
  <1>5. ASSUME NEW n \in Nodes, NEW b \in Blocks, Mine(n, b)
        PROVE  NInv'
    BY <1>5, MineKeeps
  <1>6. CASE UNCHANGED vars
    BY <1>6 DEF vars, NInv
  <1> QED
    BY <1>1, <1>2, <1>3, <1>4, <1>5, <1>6 DEF Next

LEMMA NInvHolds == Spec => []NInv
  <1>1. Init => NInv
    BY InitNInv
  <1>2. NInv /\ [Next]_vars => NInv'
    BY NextNInv
  <1> QED
    BY <1>1, <1>2, PTL DEF Spec

-----------------------------------------------------------------------------
(* What every node always has.                                             *)

(* Every node's state has its type in every reachable state; a block that  *)
(* waits in future_blocks waits under its own index, although the loop of  *)
(* handle_block takes blocks away while it adds them.                      *)
THEOREM NetworkTypes == Spec => []TypeOK
  <1>1. NInv => TypeOK
    <2> SUFFICES ASSUME NInv PROVE TypeOK
      OBVIOUS
    <2>1. \A n \in Nodes : chain[n].last_block \in Blocks /\ chain[n].max_height \in Nat
      BY InNodeChains, NodeChainTop DEF NInv
    <2>2. \A n \in Nodes : \A i \in DOMAIN future[n] :
             future[n][i] \in MinedBlocks /\ future[n][i].index = i
      <3>1. \A n \in Nodes : Waiting(future[n])
        BY InWaitingBlocks DEF NInv
      <3> QED
        BY <3>1 DEF Waiting
    <2> QED
      BY <2>1, <2>2 DEF NInv, PeerEnds, TypeOK
  <1> QED
    BY <1>1, NInvHolds, PTL

(* Whatever blocks handle_block is given, in whatever order, by peers that *)
(* connect, break off and change their own chains meanwhile, every node    *)
(* stores one linked chain from its first block to its cached last block.  *)
THEOREM ChainsAlwaysLinked == Spec => []ChainsStayLinked
  <1>1. NInv => ChainsStayLinked
    <2> SUFFICES ASSUME NInv, NEW n \in Nodes
                 PROVE  LET c == chain[n]
                        IN  /\ DOMAIN c.blocks = 1..get_height(c)
                            /\ c.blocks[get_height(c)] = c.last_block
                            /\ \A i \in 2..get_height(c) :
                                  c.blocks[i].prev_block_hash = c.blocks[i - 1].hash
      BY DEF ChainsStayLinked
    <2> DEFINE c == chain[n]
    <2>1. /\ get_height(c) \in Nat /\ DOMAIN c.blocks = 1..get_height(c)
          /\ LinkedBlocks(c.blocks) /\ c.last_block = c.blocks[get_height(c)]
      BY InNodeChains, NodeChainTop DEF NInv
    <2> HIDE DEF c
    <2>2. \A i \in 2..get_height(c) : c.blocks[i].prev_block_hash = c.blocks[i - 1].hash
      BY <2>1 DEF LinkedBlocks
    <2> QED
      BY <2>1, <2>2 DEF c
  <1> QED
    BY <1>1, NInvHolds, PTL
=============================================================================

-------------------------- MODULE DnsServerProofs --------------------------
(***************************************************************************)
(* Proofs about DnsServer, for any number of workers and any world of      *)
(* zones, hosts, domains and servers: what the cache holds, how stale it   *)
(* can be, and about which names others are believed.                      *)
(***************************************************************************)
EXTENDS DnsServer, Integers, FiniteSetTheorems, SequenceTheorems, WellFoundedInduction, TLAPS

-----------------------------------------------------------------------------
(* What the server's state is made of, at time t, with the chain at        *)
(* version v, under strategy s, with cache c and workers W.                *)

IsSeq(s) == Len(s) \in Nat /\ s = [i \in 1..Len(s) |-> s[i]]

RequestOK(r) == r.name = NoName \/ IsName(r.name)

(* The record was told by a server.                                        *)
Foreign(r) == r.origin.from \notin {"hosts", "chain", "zone"}

(* resolve has got as far as perform with this name.                       *)
Vetted(name, v) == ZonesFor(name) = {} /\ ~InHosts(name) /\ LeftToOthers(name, v)

GoodRecord(r, t, v) ==
    IsRecord(r) /\ r.origin.at \in 0..t /\ (Foreign(r) => Vetted(r.origin.about, v))

Hosted(r) == r.origin.from = "hosts" => InHosts(r.domain)

GoodPacket(p, t, v) ==
    /\ IsPacket(p)
    /\ \A r \in p.answers \cup p.authorities \cup p.resources : GoodRecord(r, t, v)
    /\ \A r \in p.answers : Hosted(r)

(* A worker has missed the key and may look for it once more.              *)
Waiting(x, k) ==
    x.pc \in {"cname", "filter", "perform"} /\ x.q.name = k[1] /\ x.q.type = k[2]

Waiters(k, W) == {w \in Workers : Waiting(W[w], k)}

(* How often a record of the key may have been prolonged: every waiter may *)
(* still do so once.                                                       *)
Room(k, W) == Cardinality(Workers) - 1 - Cardinality(Waiters(k, W))

Fits(r, t, n) == t - r.origin.at <= n * r.ttl

EntryOK(k, e, t, v, W) ==
    /\ e = [record |-> e.record, timestamp |-> e.timestamp]
    /\ GoodRecord(e.record, t, v) /\ Hosted(e.record) /\ Key(e.record) = k
    /\ e.timestamp \in 0..t
    /\ e.record.origin.from = "hosts" => e.timestamp = e.record.origin.at
    /\ Fits(e.record, e.timestamp, Cardinality(Workers) - 1)
    /\ Valid(e, t) => Fits(e.record, e.timestamp, Room(k, W))

Distinct(S) == \A r, s \in S : SameRecord(r, s) => r = s

CachedSetOK(k, set, t, v, W) ==
    \/ set.kind = "none" /\ set.ttl \in Nat /\ set.timestamp \in 0..t
    \/ /\ set.kind = "records" /\ set.entries # {}
       /\ \A e \in set.entries :
             /\ EntryOK(k, e, t, v, W)
             /\ \A f \in set.entries : SameRecord(e.record, f.record) => e = f

CacheOK(c, t, v, W) == \A k \in DOMAIN c : CachedSetOK(k, c[k], t, v, W)

(* Some record of the key is still valid.                                  *)
IsFresh(c, k, t) ==
    k \in DOMAIN c /\ c[k].kind = "records" /\ \E e \in c[k].entries : Valid(e, t)

(* A record about to be stored is new, or was found by a second look while *)
(* it was valid.                                                           *)
InHand(x, r, t, s, c, W) ==
    \/ r.origin.at = t
    \/ /\ s = "Forward" /\ r.origin.from # "hosts"
       /\ Key(r) = <<x.q.name, x.q.type>> /\ Fits(r, t, Room(Key(r), W)) /\ IsFresh(c, Key(r), t)

HandOK(x, t, s, c, W) ==
    x.pc = "store" =>
        /\ x.result # NoPacket /\ Distinct(x.result.answers)
        /\ \A r \in x.result.answers : InHand(x, r, t, s, c, W)

CallOK(call, t, v) ==
    IsName(call.q.name) /\ Vetted(call.q.name, v) /\ GoodPacket(call.response, t, v)

CallsOK(calls, t, v) == IsSeq(calls) /\ \A i \in 1..Len(calls) : CallOK(calls[i], t, v)

DepthOK(d) == d \in 0..(CNAME_DEPTH + 1)

ReplyOK(reply) ==
    /\ reply = [rescode |-> reply.rescode, answers |-> reply.answers,
                authoritative_answer |-> reply.authoritative_answer]
    /\ reply.rescode \in RESCODES

TodoOK(todo) == \A u \in todo : IsName(u.host) /\ DepthOK(u.depth)

ResultOK(p, t, v) == p = NoPacket \/ GoodPacket(p, t, v)

AWorker(pc, request, q, depth, result, reply, todo, ns, calls) ==
    [pc |-> pc, request |-> request, q |-> q, depth |-> depth, result |-> result,
     reply |-> reply, todo |-> todo, ns |-> ns, calls |-> calls]

IsWorker(x) ==
    x = AWorker(x.pc, x.request, x.q, x.depth, x.result, x.reply, x.todo, x.ns, x.calls)

WorkFields(x, t, v) ==
    /\ IsWorker(x)
    /\ ReplyOK(x.reply) /\ DepthOK(x.depth) /\ TodoOK(x.todo)
    /\ ResultOK(x.result, t, v) /\ CallsOK(x.calls, t, v)

(* What a worker knows at each point of resolve.                           *)
WorkPoint(x, v, s) ==
    /\ x.pc = "read" => RequestOK(x.request)
    /\ x.pc \in {"resolve", "cname", "filter", "store", "perform", "ask", "query", "return"} =>
          IsName(x.q.name)
    /\ x.pc \in {"cname", "filter"} => ZonesFor(x.q.name) = {}
    /\ x.pc \in {"perform", "ask", "query"} => Vetted(x.q.name, v)
    /\ (x.pc = "query" \/ x.calls # <<>>) => s = "Recursive"

Serving(t, v, s, c, W) ==
    /\ CacheOK(c, t, v, W)
    /\ DOMAIN W = Workers
    /\ \A w \in Workers :
          WorkFields(W[w], t, v) /\ WorkPoint(W[w], v, s) /\ HandOK(W[w], t, s, c, W)

IdsOK ==
    /\ IsSeq(working_ids) /\ Len(working_ids) <= WORKING_IDS
    /\ \A i, j \in 1..Len(working_ids) :
          /\ working_ids[i].time \in 0..clock
          /\ working_ids[i].key = working_ids[j].key => i = j

RequestsOK(s) == IsSeq(s) /\ \A i \in 1..Len(s) : RequestOK(s[i])

QueuesOK ==
    /\ \A r \in DOMAIN sends : RequestOK(r)
    /\ RequestsOK(queue)
    /\ DOMAIN streams = TcpWorkers
    /\ \A w \in TcpWorkers : RequestsOK(streams[w]) /\ (~Alive(w) => streams[w] = <<>>)

SInv ==
    /\ clock \in 0..MaxTime /\ version \in 1..Len(Versions)
    /\ Serving(clock, version, strategy, cache, worker)
    /\ IdsOK
    /\ QueuesOK

-----------------------------------------------------------------------------
(* Room.                                                                   *)

LEMMA WorkersFinite ==
    IsFiniteSet(Workers) /\ Cardinality(Workers) \in Nat
  BY DnsServerAssumption, FS_Union, FS_CardinalityType DEF Workers

LEMMA WaitersFinite ==
    ASSUME NEW k, NEW W
    PROVE  /\ IsFiniteSet(Waiters(k, W)) /\ Cardinality(Waiters(k, W)) \in Nat
           /\ Room(k, W) \in Int /\ Room(k, W) <= Cardinality(Workers) - 1
  <1>1. Waiters(k, W) \in SUBSET Workers
    BY DEF Waiters
  <1>2. IsFiniteSet(Waiters(k, W))
    BY <1>1, WorkersFinite, FS_Subset
  <1>3. Cardinality(Waiters(k, W)) \in Nat
    BY <1>2, FS_CardinalityType
  <1> QED
    BY <1>2, <1>3, WorkersFinite DEF Room

(* A worker that does not wait leaves room for what it stores.             *)
LEMMA RoomForAStorer ==
    ASSUME NEW k, NEW W, NEW w \in Workers, ~Waiting(W[w], k)
    PROVE  Room(k, W) \in Nat
  <1>1. Waiters(k, W) \in SUBSET (Workers \ {w})
    BY DEF Waiters
  <1>2. IsFiniteSet(Workers \ {w}) /\ Cardinality(Workers \ {w}) = Cardinality(Workers) - 1
    BY WorkersFinite, FS_RemoveElement
  <1>3. Cardinality(Waiters(k, W)) <= Cardinality(Workers \ {w})
    BY <1>1, <1>2, FS_Subset
  <1> QED
    BY <1>2, <1>3, WaitersFinite, WorkersFinite DEF Room

LEMMA RoomGrows ==
    ASSUME NEW k, NEW W, NEW V, Waiters(k, V) \subseteq Waiters(k, W)
    PROVE  Room(k, W) <= Room(k, V)
  <1>1. Cardinality(Waiters(k, V)) <= Cardinality(Waiters(k, W))
    BY WaitersFinite, FS_Subset
  <1> QED
    BY <1>1, WaitersFinite, WorkersFinite DEF Room

(* A waiter that no longer waits makes room for one more.                  *)
LEMMA RoomForOneMore ==
    ASSUME NEW k, NEW W, NEW w \in Workers, NEW y, DOMAIN W = Workers,
           Waiting(W[w], k), ~Waiting(y, k)
    PROVE  Room(k, [W EXCEPT ![w] = y]) = Room(k, W) + 1
  <1> DEFINE V == [W EXCEPT ![w] = y]
  <1>1. \A u \in Workers : V[u] = IF u = w THEN y ELSE W[u]
    OBVIOUS
  <1> HIDE DEF V
  <1>2. Waiters(k, V) = Waiters(k, W) \ {w} /\ w \in Waiters(k, W)
    BY <1>1 DEF Waiters
  <1>3. Cardinality(Waiters(k, V)) = Cardinality(Waiters(k, W)) - 1
    BY <1>2, WaitersFinite, FS_RemoveElement
  <1> QED
    BY <1>3, WaitersFinite, WorkersFinite DEF Room, V

LEMMA FitsMore ==
    ASSUME NEW r, NEW t \in Nat, r.ttl \in Nat, r.origin.at \in Nat,
           NEW m \in Int, NEW n \in Int, m <= n, Fits(r, t, m)
    PROVE  Fits(r, t, n)
  <1>1. \A a \in Nat : m * a <= n * a
    OBVIOUS
  <1>2. m * r.ttl <= n * r.ttl /\ m * r.ttl \in Int /\ n * r.ttl \in Int
    BY <1>1
  <1> QED
    BY <1>2 DEF Fits

(* A valid record found again at time u is one ttl older at most.          *)
LEMMA FitsAgain ==
    ASSUME NEW r, NEW t \in Nat, NEW u \in Nat, r.ttl \in Nat, r.origin.at \in Nat,
           NEW m \in Int, t + r.ttl >= u, Fits(r, t, m)
    PROVE  Fits(r, u, m + 1)
  <1>1. \A a \in Nat : (m + 1) * a = m * a + a
    OBVIOUS
  <1>2. (m + 1) * r.ttl = m * r.ttl + r.ttl /\ m * r.ttl \in Int
    BY <1>1
  <1> QED
    BY <1>2 DEF Fits

LEMMA FitsNew ==
    ASSUME NEW r, NEW t \in Nat, r.ttl \in Nat, r.origin.at = t, NEW m \in Nat
    PROVE  Fits(r, t, m)
  <1>1. \A a \in Nat : 0 <= m * a
    OBVIOUS
  <1> QED
    BY <1>1 DEF Fits

-----------------------------------------------------------------------------
(* Time passes, the chain grows.                                           *)

LEMMA VettedStays ==
    ASSUME NEW v \in Nat, NEW u \in Nat, v <= u, NEW name, Vetted(name, v)
    PROVE  Vetted(name, u)
  <1> DEFINE Left(i) ==
               LET data == IF Len(name) > 1 /\ TopDomain(name) \in DOMAIN Versions[i]
                           THEN Versions[i][TopDomain(name)] ELSE NoData
               IN  CASE data = NoData -> ~InChainZone(name)
                     [] data = BadData -> TRUE
                     [] OTHER -> GlueServers(data, TopDomain(name)) # {}
  <1>1. \E i \in 1..v : Left(i)
    BY DEF Vetted, LeftToOthers
  <1> HIDE DEF Left
  <1>2. \E i \in 1..u : Left(i)
    BY <1>1
  <1>3. LeftToOthers(name, u)
    BY <1>2 DEF LeftToOthers, Left
  <1> QED
    BY <1>3 DEF Vetted

LEMMA RecordStays ==
    ASSUME NEW v \in Nat, NEW u \in Nat, v <= u, NEW t \in Nat, NEW l \in Nat, t <= l,
           NEW r, GoodRecord(r, t, v)
    PROVE  GoodRecord(r, l, u)
  BY VettedStays DEF GoodRecord

LEMMA PacketStays ==
    ASSUME NEW v \in Nat, NEW u \in Nat, v <= u, NEW t \in Nat, NEW l \in Nat, t <= l,
           NEW p, GoodPacket(p, t, v)
    PROVE  GoodPacket(p, l, u)
  BY RecordStays DEF GoodPacket

LEMMA WorkStays ==
    ASSUME NEW v \in Nat, NEW u \in Nat, v <= u, NEW t \in Nat, NEW l \in Nat, t <= l,
           NEW s, NEW x, WorkFields(x, t, v), WorkPoint(x, v, s)
    PROVE  WorkFields(x, l, u) /\ WorkPoint(x, u, s)
  <1>1. ResultOK(x.result, l, u)
    BY PacketStays DEF WorkFields, ResultOK
  <1>2. ASSUME NEW call, CallOK(call, t, v) PROVE CallOK(call, l, u)
    BY <1>2, PacketStays, VettedStays DEF CallOK
  <1>3. CallsOK(x.calls, l, u)
    BY <1>2 DEF WorkFields, CallsOK
  <1>4. WorkFields(x, l, u)
    BY <1>1, <1>3 DEF WorkFields
  <1>5. WorkPoint(x, u, s)
    BY VettedStays DEF WorkPoint
  <1> QED
    BY <1>4, <1>5

(* What EntryOK says of numbers.                                           *)
LEMMA EntryNumbers ==
    ASSUME NEW k, NEW e, NEW t \in Nat, NEW v, NEW W, EntryOK(k, e, t, v, W)
    PROVE  /\ e.record.ttl \in Nat /\ e.record.origin.at \in Nat /\ e.timestamp \in Nat
           /\ e.record.origin.at <= t /\ e.timestamp <= t
  BY DEF EntryOK, GoodRecord, IsRecord

(* An entry stays good while its key loses waiters, or once it is invalid. *)
LEMMA EntryStays ==
    ASSUME NEW v \in Nat, NEW u \in Nat, v <= u, NEW t \in Nat, NEW l \in Nat, t <= l,
           NEW k, NEW e, NEW W, NEW V, EntryOK(k, e, t, v, W),
           Valid(e, l) => Room(k, W) <= Room(k, V)
    PROVE  EntryOK(k, e, l, u, V)
  <1>1. GoodRecord(e.record, l, u)
    BY RecordStays DEF EntryOK
  <1>2. ASSUME Valid(e, l) PROVE Fits(e.record, e.timestamp, Room(k, V))
    <2>1. Valid(e, t)
      BY <1>2, EntryNumbers DEF Valid
    <2>2. Fits(e.record, e.timestamp, Room(k, W))
      BY <2>1 DEF EntryOK
    <2>3. Room(k, W) \in Int /\ Room(k, V) \in Int /\ Room(k, W) <= Room(k, V)
      BY <1>2, WaitersFinite
    <2> QED
      BY <2>2, <2>3, EntryNumbers, FitsMore
  <1>3. e.timestamp \in 0..l
    BY EntryNumbers
  <1> QED
    BY <1>1, <1>2, <1>3 DEF EntryOK

LEMMA CacheStays ==
    ASSUME NEW v \in Nat, NEW u \in Nat, v <= u, NEW t \in Nat, NEW l \in Nat, t <= l,
           NEW c, NEW W, NEW V, CacheOK(c, t, v, W),
           \A k \in DOMAIN c : IsFresh(c, k, l) => Room(k, W) <= Room(k, V)
    PROVE  CacheOK(c, l, u, V)
  <1>1. SUFFICES ASSUME NEW k \in DOMAIN c PROVE CachedSetOK(k, c[k], l, u, V)
    BY DEF CacheOK
  <1>2. CachedSetOK(k, c[k], t, v, W)
    BY DEF CacheOK
  <1>3. CASE c[k].kind = "none" /\ c[k].ttl \in Nat /\ c[k].timestamp \in 0..t
    BY <1>3 DEF CachedSetOK
  <1>4. CASE /\ c[k].kind = "records" /\ c[k].entries # {}
             /\ \A e \in c[k].entries :
                   /\ EntryOK(k, e, t, v, W)
                   /\ \A f \in c[k].entries : SameRecord(e.record, f.record) => e = f
    <2>1. ASSUME NEW e \in c[k].entries PROVE EntryOK(k, e, l, u, V)
      <3>1. EntryOK(k, e, t, v, W)
        BY <1>4
      <3>2. Valid(e, l) => Room(k, W) <= Room(k, V)
        BY <1>4 DEF IsFresh
      <3> QED
        BY <3>1, <3>2, EntryStays
    <2> QED
      BY <2>1, <1>4 DEF CachedSetOK
  <1> QED
    BY <1>2, <1>3, <1>4 DEF CachedSetOK

LEMMA TimePasses ==
    ASSUME NEW t \in Nat, NEW v \in Nat, NEW s, NEW c, NEW W, Serving(t, v, s, c, W),
           \A w \in Workers : W[w].pc # "store"
    PROVE  Serving(t + 1, v, s, c, W)
  <1>1. CacheOK(c, t + 1, v, W)
    <2>1. \A k \in DOMAIN c : Room(k, W) <= Room(k, W)
      BY WaitersFinite
    <2> QED
      BY <2>1, CacheStays DEF Serving
  <1>2. ASSUME NEW w \in Workers
        PROVE  WorkFields(W[w], t + 1, v) /\ WorkPoint(W[w], v, s) /\ HandOK(W[w], t + 1, s, c, W)
    BY WorkStays DEF Serving, HandOK
  <1> QED
    BY <1>1, <1>2 DEF Serving

LEMMA ChainGrows ==
    ASSUME NEW t \in Nat, NEW v \in Nat, NEW s, NEW c, NEW W, Serving(t, v, s, c, W)
    PROVE  Serving(t, v + 1, s, c, W)
  <1>1. CacheOK(c, t, v + 1, W)
    <2>1. \A k \in DOMAIN c : Room(k, W) <= Room(k, W)
      BY WaitersFinite
    <2> QED
      BY <2>1, CacheStays DEF Serving
  <1>2. ASSUME NEW w \in Workers
        PROVE  WorkFields(W[w], t, v + 1) /\ WorkPoint(W[w], v + 1, s) /\ HandOK(W[w], t, s, c, W)
    BY WorkStays DEF Serving
  <1> QED
    BY <1>1, <1>2 DEF Serving

-----------------------------------------------------------------------------
(* A worker moves on.                                                      *)

LEMMA HandStays ==
    ASSUME NEW t \in Nat, NEW v, NEW s, NEW x, NEW c, NEW d, NEW W, NEW V,
           HandOK(x, t, s, c, W), WorkFields(x, t, v),
           \A k : IsFresh(c, k, t) => Room(k, W) <= Room(k, V),
           s = "Forward" => \A k : IsFresh(c, k, t) => IsFresh(d, k, t)
    PROVE  HandOK(x, t, s, d, V)
  <1>1. SUFFICES ASSUME x.pc = "store", NEW r \in x.result.answers
                 PROVE  InHand(x, r, t, s, d, V)
    BY DEF HandOK
  <1>2. InHand(x, r, t, s, c, W) /\ x.result # NoPacket
    BY <1>1 DEF HandOK
  <1>3. CASE r.origin.at = t
    BY <1>3 DEF InHand
  <1>4. CASE /\ s = "Forward" /\ r.origin.from # "hosts"
             /\ Key(r) = <<x.q.name, x.q.type>>
             /\ Fits(r, t, Room(Key(r), W)) /\ IsFresh(c, Key(r), t)
    <2>1. r.ttl \in Nat /\ r.origin.at \in Nat
      BY <1>1, <1>2 DEF WorkFields, ResultOK, GoodPacket, GoodRecord, IsRecord
    <2>2. /\ Room(Key(r), W) \in Int /\ Room(Key(r), V) \in Int
          /\ Room(Key(r), W) <= Room(Key(r), V)
      BY <1>4, WaitersFinite
    <2>3. Fits(r, t, Room(Key(r), V))
      BY <2>1, <2>2, <1>4, FitsMore
    <2>4. IsFresh(d, Key(r), t)
      BY <1>4
    <2> QED
      BY <2>3, <2>4, <1>4 DEF InHand
  <1> QED
    BY <1>2, <1>3, <1>4 DEF InHand

LEMMA WorkerMoves ==
    ASSUME NEW t \in Nat, NEW v \in Nat, NEW s, NEW c, NEW W, Serving(t, v, s, c, W),
           NEW w \in Workers, NEW y, WorkFields(y, t, v), WorkPoint(y, v, s),
           HandOK(y, t, s, c, [W EXCEPT ![w] = y]),
           \A k : Waiting(y, k) /\ ~Waiting(W[w], k) => ~IsFresh(c, k, t)
    PROVE  Serving(t, v, s, c, [W EXCEPT ![w] = y])
  <1> DEFINE V == [W EXCEPT ![w] = y]
  <1>1. DOMAIN V = Workers /\ \A u \in Workers : V[u] = IF u = w THEN y ELSE W[u]
    BY DEF Serving
  <1>2. HandOK(y, t, s, c, V)
    OBVIOUS
  <1> HIDE DEF V
  <1>3. ASSUME NEW k, IsFresh(c, k, t) PROVE Room(k, W) <= Room(k, V)
    <2>1. Waiters(k, V) \subseteq Waiters(k, W)
      BY <1>1, <1>3 DEF Waiters
    <2> QED
      BY <2>1, RoomGrows
  <1>4. CacheOK(c, t, v, V)
    BY <1>3, CacheStays DEF Serving
  <1>5. ASSUME NEW u \in Workers
        PROVE  WorkFields(V[u], t, v) /\ WorkPoint(V[u], v, s) /\ HandOK(V[u], t, s, c, V)
    <2>1. CASE u = w
      BY <2>1, <1>1, <1>2
    <2>2. CASE u # w
      <3>1. WorkFields(W[u], t, v) /\ WorkPoint(W[u], v, s) /\ HandOK(W[u], t, s, c, W)
        BY DEF Serving
      <3>2. HandOK(W[u], t, s, c, V)
        BY <3>1, <1>3, HandStays
      <3> QED
        BY <3>1, <3>2, <2>2, <1>1
    <2> QED
      BY <2>1, <2>2
  <1>6. Serving(t, v, s, c, V)
    BY <1>1, <1>4, <1>5 DEF Serving
  <1> QED
    BY <1>6 DEF V

(* Most steps: the worker neither waits for another key nor has something  *)
(* to store.                                                               *)
LEMMA WorkerMovesOn ==
    ASSUME NEW t \in Nat, NEW v \in Nat, NEW s, NEW c, NEW W, Serving(t, v, s, c, W),
           NEW w \in Workers, NEW y, WorkFields(y, t, v), WorkPoint(y, v, s),
           y.pc \notin {"cname", "filter", "perform", "store"}
    PROVE  Serving(t, v, s, c, [W EXCEPT ![w] = y])
  <1>1. \A V : HandOK(y, t, s, c, V)
    BY DEF HandOK
  <1>2. \A k : ~Waiting(y, k)
    BY DEF Waiting
  <1> QED
    BY <1>1, <1>2, WorkerMoves

-----------------------------------------------------------------------------
(* The cache.                                                              *)

(* What may be stored.                                                     *)
Storable(S, t, v, W) ==
    /\ Distinct(S)
    /\ \A r \in S : /\ GoodRecord(r, t, v) /\ Hosted(r)
                    /\ r.origin.from = "hosts" => r.origin.at = t
                    /\ Fits(r, t, Room(Key(r), W))

LEMMA NewEntryOK ==
    ASSUME NEW t \in Nat, NEW v, NEW W, NEW S, Storable(S, t, v, W), NEW r \in S
    PROVE  EntryOK(Key(r), [record |-> r, timestamp |-> t], t, v, W)
  <1> DEFINE e == [record |-> r, timestamp |-> t]
  <1>1. /\ GoodRecord(r, t, v) /\ Hosted(r) /\ Fits(r, t, Room(Key(r), W))
        /\ r.origin.from = "hosts" => r.origin.at = t
    BY DEF Storable
  <1>2. r.ttl \in Nat /\ r.origin.at \in Nat
    BY <1>1 DEF GoodRecord, IsRecord
  <1>3. Fits(r, t, Cardinality(Workers) - 1)
    BY <1>1, <1>2, WaitersFinite, WorkersFinite, FitsMore
  <1>4. e.record = r /\ e.timestamp = t /\ e = [record |-> e.record, timestamp |-> e.timestamp]
    OBVIOUS
  <1> HIDE DEF e
  <1>5. EntryOK(Key(r), e, t, v, W)
    BY <1>1, <1>3, <1>4 DEF EntryOK
  <1> QED
    BY <1>5 DEF e

LEMMA StoreRecordOK ==
    ASSUME NEW t \in Nat, NEW v, NEW W, NEW S, Storable(S, t, v, W), NEW k,
           NEW N \in SUBSET S, N # {}, \A r \in N : Key(r) = k,
           NEW set, set = NotCached \/ CachedSetOK(k, set, t, v, W)
    PROVE  /\ CachedSetOK(k, store_record(set, N, t), t, v, W)
           /\ store_record(set, N, t).kind = "records"
           /\ \E e \in store_record(set, N, t).entries : Valid(e, t)
  <1> DEFINE E == {[record |-> r, timestamp |-> t] : r \in N}
             K == IF set.kind # "records" THEN {}
                  ELSE {e \in set.entries : ~ \E r \in N : SameRecord(e.record, r)}
  <1>1. store_record(set, N, t) = Records(K \cup E)
    BY DEF store_record
  <1>2. Records(K \cup E).kind = "records" /\ Records(K \cup E).entries = K \cup E
    BY DEF Records
  <1>3. ASSUME NEW e \in E PROVE EntryOK(k, e, t, v, W) /\ Valid(e, t)
    <2>1. PICK r \in N : e = [record |-> r, timestamp |-> t]
      OBVIOUS
    <2>2. EntryOK(k, e, t, v, W)
      BY <2>1, NewEntryOK
    <2> QED
      BY <2>1, <2>2, EntryNumbers DEF Valid
  <1>4. NotCached.kind # "records"
    BY DEF NotCached
  <1>5. ASSUME NEW e \in K
        PROVE  /\ EntryOK(k, e, t, v, W) /\ ~ \E r \in N : SameRecord(e.record, r)
               /\ \A f \in K : SameRecord(e.record, f.record) => e = f
    <2>1. /\ CachedSetOK(k, set, t, v, W) /\ set.kind = "records"
          /\ e \in set.entries /\ ~ \E r \in N : SameRecord(e.record, r)
          /\ K \subseteq set.entries
      BY <1>4
    <2> QED
      BY <2>1 DEF CachedSetOK
  <1>6. ASSUME NEW e \in E, NEW f \in E, SameRecord(e.record, f.record) PROVE e = f
    <2>1. PICK r \in N : e = [record |-> r, timestamp |-> t]
      OBVIOUS
    <2>2. PICK q \in N : f = [record |-> q, timestamp |-> t]
      OBVIOUS
    <2> QED
      BY <2>1, <2>2, <1>6 DEF Storable, Distinct
  <1>7. ASSUME NEW e \in E, NEW f \in K
        PROVE  ~SameRecord(e.record, f.record) /\ ~SameRecord(f.record, e.record)
    <2>1. PICK r \in N : e = [record |-> r, timestamp |-> t]
      OBVIOUS
    <2> QED
      BY <2>1, <1>5 DEF SameRecord
  <1>8. E # {}
    OBVIOUS
  <1> HIDE DEF E, K
  <1>9. ASSUME NEW e \in K \cup E, NEW f \in K \cup E, SameRecord(e.record, f.record)
        PROVE  e = f
    BY <1>5, <1>6, <1>7, <1>9
  <1>10. CachedSetOK(k, Records(K \cup E), t, v, W)
    BY <1>2, <1>3, <1>5, <1>8, <1>9 DEF CachedSetOK
  <1> QED
    BY <1>1, <1>2, <1>3, <1>8, <1>10

LEMMA StoreKeepsCache ==
    ASSUME NEW t \in Nat, NEW v, NEW W, NEW S, Storable(S, t, v, W), NEW c, CacheOK(c, t, v, W)
    PROVE  /\ CacheOK(store(c, S, t), t, v, W)
           /\ \A k : IsFresh(c, k, t) => IsFresh(store(c, S, t), k, t)
  <1> DEFINE N(k) == {r \in S : HasDomain(r) /\ Key(r) = k}
             D == DOMAIN c \cup {Key(r) : r \in {x \in S : HasDomain(x)}}
             d == store(c, S, t)
  <1>1. DOMAIN d = D /\ \A k \in D : d[k] = IF N(k) = {} THEN c[k]
                                            ELSE store_record(At(c, k[1], k[2]), N(k), t)
    BY DEF store
  <1> HIDE DEF d
  <1>2. ASSUME NEW k \in D, N(k) # {}
        PROVE  /\ CachedSetOK(k, d[k], t, v, W)
               /\ d[k].kind = "records" /\ \E e \in d[k].entries : Valid(e, t)
    <2>1. N(k) \in SUBSET S /\ \A r \in N(k) : Key(r) = k
      OBVIOUS
    <2>2. k = <<k[1], k[2]>>
      BY <1>2, <2>1 DEF Key
    <2>3. At(c, k[1], k[2]) = NotCached \/ CachedSetOK(k, At(c, k[1], k[2]), t, v, W)
      BY <2>2 DEF At, CacheOK
    <2>4. d[k] = store_record(At(c, k[1], k[2]), N(k), t)
      BY <1>1, <1>2
    <2> HIDE DEF N
    <2> QED
      BY <2>1, <2>3, <2>4, <1>2, StoreRecordOK
  <1>3. ASSUME NEW k \in D, N(k) = {} PROVE k \in DOMAIN c /\ d[k] = c[k]
    BY <1>1, <1>3
  <1> HIDE DEF N
  <1>4. CacheOK(d, t, v, W)
    BY <1>1, <1>2, <1>3 DEF CacheOK
  <1>5. ASSUME NEW k, IsFresh(c, k, t) PROVE IsFresh(d, k, t)
    BY <1>1, <1>2, <1>3, <1>5 DEF IsFresh
  <1> QED
    BY <1>4, <1>5 DEF d

LEMMA StoreKeepsServing ==
    ASSUME NEW t \in Nat, NEW v, NEW s, NEW c, NEW W, Serving(t, v, s, c, W),
           NEW S, Storable(S, t, v, W)
    PROVE  Serving(t, v, s, store(c, S, t), W)
  <1> DEFINE d == store(c, S, t)
  <1>1. CacheOK(d, t, v, W) /\ \A k : IsFresh(c, k, t) => IsFresh(d, k, t)
    BY StoreKeepsCache DEF Serving
  <1> HIDE DEF d
  <1>2. \A k : Room(k, W) <= Room(k, W)
    BY WaitersFinite
  <1>3. ASSUME NEW w \in Workers PROVE HandOK(W[w], t, s, d, W)
    <2>1. WorkFields(W[w], t, v) /\ HandOK(W[w], t, s, c, W)
      BY DEF Serving
    <2> QED
      BY <2>1, <1>1, <1>2, HandStays
  <1>4. Serving(t, v, s, d, W)
    BY <1>1, <1>3 DEF Serving
  <1> QED
    BY <1>4 DEF d

LEMMA NxdomainKeepsServing ==
    ASSUME NEW t \in Nat, NEW v, NEW c, NEW W, Serving(t, v, "Recursive", c, W),
           NEW name, NEW type, NEW ttl \in Nat
    PROVE  Serving(t, v, "Recursive", store_nxdomain(c, name, type, ttl, t), W)
  <1> DEFINE d == store_nxdomain(c, name, type, ttl, t)
             D == DOMAIN c \cup {<<name, type>>}
  <1>1. DOMAIN d = D /\ \A k \in D : d[k] = IF k = <<name, type>> THEN NoRecords(ttl, t) ELSE c[k]
    BY DEF store_nxdomain
  <1>2. \A k : CachedSetOK(k, NoRecords(ttl, t), t, v, W)
    BY DEF CachedSetOK, NoRecords
  <1> HIDE DEF d
  <1>3. CacheOK(d, t, v, W)
    BY <1>1, <1>2 DEF CacheOK, Serving
  <1>4. \A k : Room(k, W) <= Room(k, W)
    BY WaitersFinite
  <1>5. ASSUME NEW w \in Workers PROVE HandOK(W[w], t, "Recursive", d, W)
    BY <1>4, HandStays DEF Serving
  <1>6. Serving(t, v, "Recursive", d, W)
    BY <1>3, <1>5 DEF Serving
  <1> QED
    BY <1>6 DEF d

-----------------------------------------------------------------------------
(* What the sources say.                                                   *)

LEMMA LeastNatural ==
    ASSUME NEW S \in SUBSET Nat, S # {}
    PROVE  \E x \in S : \A y \in S : x <= y
  <1>1. PICK x \in S : \A y \in S : ~ (<<y, x>> \in OpToRel(<, Nat))
    BY NatLessThanWellFounded, WFMin
  <1>2. ASSUME NEW y \in S  PROVE x <= y
    <2>1. ~ (<<y, x>> \in OpToRel(<, Nat))
      BY <1>1
    <2>2. ~ (y < x)
      BY <2>1 DEF OpToRel
    <2> QED
      BY <2>2
  <1> QED
    BY <1>2

(* A packet read just now: one section at least is ready to be stored.     *)
Now(S, t) == Distinct(S) /\ \A r \in S : r.origin.at = t

NewPacket(p, t, v) == p # NoPacket /\ GoodPacket(p, t, v) /\ Now(p.answers, t)

LEMMA PacketFields ==
    ASSUME NEW rescode, NEW aa, NEW A, NEW B, NEW C
    PROVE  LET p == DnsPacket(rescode, aa, A, B, C)
           IN  /\ p.rescode = rescode /\ p.authoritative_answer = aa
               /\ p.answers = A /\ p.authorities = B /\ p.resources = C
               /\ p # NoPacket
               /\ p = DnsPacket(p.rescode, p.authoritative_answer, p.answers, p.authorities, p.resources)
  BY DEF DnsPacket, NoPacket

LEMMA MakesPacket ==
    ASSUME NEW rescode \in RESCODES, NEW aa, NEW A, NEW B, NEW C, NEW t, NEW v,
           \A r \in A \cup B \cup C : GoodRecord(r, t, v), \A r \in A : Hosted(r)
    PROVE  GoodPacket(DnsPacket(rescode, aa, A, B, C), t, v)
  <1> DEFINE p == DnsPacket(rescode, aa, A, B, C)
  <1>1. /\ p.rescode = rescode /\ p.authoritative_answer = aa
        /\ p.answers = A /\ p.authorities = B /\ p.resources = C
        /\ p = DnsPacket(p.rescode, p.authoritative_answer, p.answers, p.authorities, p.resources)
    BY PacketFields
  <1> HIDE DEF p
  <1>2. GoodPacket(p, t, v)
    BY <1>1 DEF GoodPacket, GoodRecord, IsPacket
  <1> QED
    BY <1>2 DEF p

LEMMA EmptyPacketOK ==
    ASSUME NEW rescode \in RESCODES, NEW t, NEW v
    PROVE  NewPacket(EmptyPacket(rescode), t, v) /\ EmptyPacket(rescode).authorities = {}
                                                 /\ EmptyPacket(rescode).resources = {}
  <1>1. GoodPacket(EmptyPacket(rescode), t, v)
    BY MakesPacket DEF EmptyPacket
  <1>2. /\ EmptyPacket(rescode).answers = {} /\ EmptyPacket(rescode) # NoPacket
        /\ EmptyPacket(rescode).authorities = {} /\ EmptyPacket(rescode).resources = {}
    BY DEF EmptyPacket, DnsPacket, NoPacket
  <1> QED
    BY <1>1, <1>2 DEF NewPacket, Now, Distinct

(* Records with one origin that are equal to the cache are equal.          *)
LEMMA OneOriginIsDistinct ==
    ASSUME NEW S, NEW o, \A r \in S : IsRecord(r) /\ r.origin = o
    PROVE  Distinct(S)
  BY DEF Distinct, SameRecord, IsRecord, DnsRecord

LEMMA OriginFields ==
    ASSUME NEW from, NEW about, NEW at
    PROVE  /\ Origin(from, about, at).from = from
           /\ Origin(from, about, at).about = about
           /\ Origin(from, about, at).at = at
  BY DEF Origin

LEMMA RecordFields ==
    ASSUME NEW domain, NEW type, NEW value, NEW ttl, NEW origin
    PROVE  LET r == DnsRecord(domain, type, value, ttl, origin)
           IN  /\ r.domain = domain /\ r.type = type /\ r.value = value /\ r.ttl = ttl
               /\ r.origin = origin
               /\ r = DnsRecord(r.domain, r.type, r.value, r.ttl, r.origin)
  BY DEF DnsRecord

LEMMA StampedRecord ==
    ASSUME NEW r, IsRecord(r), NEW o
    PROVE  LET q == [r EXCEPT !.origin = o]
           IN  /\ IsRecord(q) /\ q.origin = o /\ q.domain = r.domain
               /\ q.type = r.type /\ q.value = r.value
  <1> DEFINE q == [r EXCEPT !.origin = o]
  <1>1. r = DnsRecord(r.domain, r.type, r.value, r.ttl, r.origin)
    BY DEF IsRecord
  <1>2. q = DnsRecord(r.domain, r.type, r.value, r.ttl, o)
    BY <1>1 DEF DnsRecord
  <1> HIDE DEF q
  <1>3. /\ q.domain = r.domain /\ q.type = r.type /\ q.value = r.value /\ q.ttl = r.ttl /\ q.origin = o
        /\ q = DnsRecord(q.domain, q.type, q.value, q.ttl, q.origin)
    BY <1>2, RecordFields
  <1>4. IsRecord(q)
    BY <1>3 DEF IsRecord
  <1> QED
    BY <1>3, <1>4 DEF q

Renamed(r, name, o) == [r EXCEPT !.domain = name, !.origin = o]

LEMMA RenamedRecord ==
    ASSUME NEW r, IsRecord(r), NEW o, NEW name
    PROVE  IsRecord(Renamed(r, name, o)) /\ Renamed(r, name, o).origin = o
  <1> DEFINE a == [r EXCEPT !.domain = name]
             q == Renamed(r, name, o)
  <1>1. r = DnsRecord(r.domain, r.type, r.value, r.ttl, r.origin)
    BY DEF IsRecord
  <1>2. a = DnsRecord(name, r.type, r.value, r.ttl, r.origin)
    BY <1>1 DEF DnsRecord
  <1>3. q = [a EXCEPT !.origin = o]
    BY DEF Renamed
  <1> HIDE DEF a, q
  <1>4. /\ a.type = r.type /\ a.value = r.value /\ a.ttl = r.ttl
        /\ a = DnsRecord(a.domain, a.type, a.value, a.ttl, a.origin)
    BY <1>2, RecordFields
  <1>5. IsRecord(a)
    BY <1>4 DEF IsRecord
  <1>6. IsRecord(q) /\ q.origin = o
    BY <1>3, <1>5, StampedRecord, Zenon
  <1> QED
    BY <1>6 DEF q

(* A local source: what it says needs no vetting.                          *)
LEMMA LocalRecord ==
    ASSUME NEW r, IsRecord(r), NEW from \in {"hosts", "chain", "zone"}, NEW about,
           NEW t \in Nat, NEW v, r.origin = Origin(from, about, t)
    PROVE  GoodRecord(r, t, v) /\ r.origin.at = t /\ r.origin.from = from
  BY OriginFields DEF GoodRecord, Foreign

LEMMA SoaRecordOK ==
    ASSUME NEW zone, NEW minimum \in Nat, NEW o
    PROVE  IsRecord(SoaRecord(zone, minimum, o)) /\ SoaRecord(zone, minimum, o).origin = o
  <1> DEFINE q == SoaRecord(zone, minimum, o)
  <1>1. /\ q.type = "SOA" /\ q.value = minimum /\ q.ttl = minimum /\ q.origin = o
        /\ q = DnsRecord(q.domain, q.type, q.value, q.ttl, q.origin)
    BY RecordFields DEF SoaRecord
  <1> HIDE DEF q
  <1>2. IsRecord(q)
    BY <1>1, WorldAssumption DEF IsRecord
  <1> QED
    BY <1>1, <1>2 DEF q

LEMMA NsRecordOK ==
    ASSUME NEW zone, NEW value, IsName(value), NEW o
    PROVE  LET q == DnsRecord(zone, "NS", value, NS_TTL, o)
           IN  IsRecord(q) /\ q.origin = o
  <1> DEFINE q == DnsRecord(zone, "NS", value, NS_TTL, o)
  <1>1. /\ q.type = "NS" /\ q.value = value /\ q.ttl = NS_TTL /\ q.origin = o
        /\ q = DnsRecord(q.domain, q.type, q.value, q.ttl, q.origin)
    BY RecordFields
  <1> HIDE DEF q
  <1>2. IsRecord(q)
    BY <1>1, WorldAssumption DEF IsRecord, NS_TTL
  <1> QED
    BY <1>1, <1>2 DEF q

LEMMA BestZoneExists ==
    ASSUME NEW qname, ZonesFor(qname) # {}
    PROVE  BestZone(qname) \in ZonesFor(qname)
  <1> DEFINE S == {n \in Nat : \E z \in ZonesFor(qname) : n = 255 - z.len}
  <1>1. \A z \in ZonesFor(qname) : z.len \in 0..255
    BY WorldAssumption DEF ZonesFor
  <1>2. S \in SUBSET Nat /\ S # {}
    <2>1. PICK z \in ZonesFor(qname) : TRUE
      OBVIOUS
    <2>2. z.len \in Nat /\ z.len <= 255
      BY <1>1
    <2>3. 255 - z.len \in S
      BY <2>2
    <2> QED
      BY <2>3
  <1>3. PICK n \in S : \A m \in S : n <= m
    <2> HIDE DEF S
    <2> QED
      BY <1>2, LeastNatural
  <1>4. PICK z \in ZonesFor(qname) : n = 255 - z.len
    OBVIOUS
  <1>5. ASSUME NEW y \in ZonesFor(qname) PROVE y.len <= z.len
    <2>1. 255 - y.len \in S
      BY <1>1
    <2>2. 255 - z.len <= 255 - y.len
      BY <2>1, <1>3, <1>4
    <2>3. y.len \in Nat /\ z.len \in Nat
      BY <1>1
    <2> QED
      BY <2>2, <2>3
  <1> QED
    BY <1>4, <1>5 DEF BestZone

LEMMA QueryOK ==
    ASSUME NEW qname, NEW qtype, NEW t \in Nat, NEW v
    PROVE  /\ query(qname, qtype, t) = NoPacket \/ NewPacket(query(qname, qtype, t), t, v)
           /\ query(qname, qtype, t) = NoPacket => ZonesFor(qname) = {}
  <1> DEFINE zone == BestZone(qname)
             o == Origin("zone", qname, t)
             X == {x \in zone.records :
                      x.domain = qname /\ (x.type = qtype \/ (qtype = "A" /\ x.type = "CNAME"))}
             A == {[r EXCEPT !.origin = o] : r \in X}
             soa == SoaRecord(zone.domain, zone.minimum, o)
             p1 == DnsPacket("NOERROR", TRUE, A, {}, {})
             p2 == DnsPacket("NXDOMAIN", TRUE, {}, {soa}, {})
  <1>1. query(qname, qtype, t) = IF ZonesFor(qname) = {} THEN NoPacket
                                 ELSE IF A # {} THEN p1 ELSE p2
    BY Zenon DEF query
  <1>2. SUFFICES ASSUME ZonesFor(qname) # {} PROVE NewPacket(p1, t, v) /\ NewPacket(p2, t, v)
    <2> HIDE DEF A, p1, p2
    <2> QED
      BY <1>1, <1>2 DEF NewPacket
  <1>3. zone \in Zones
    BY <1>2, BestZoneExists DEF ZonesFor
  <1>4. zone.minimum \in Nat /\ \A r \in zone.records : IsRecord(r)
    BY <1>3, WorldAssumption
  <1>5. ASSUME NEW q \in A PROVE IsRecord(q) /\ q.origin = o
    <2>1. PICK r \in X : q = [r EXCEPT !.origin = o]
      OBVIOUS
    <2>2. IsRecord(r)
      BY <1>4
    <2> QED
      BY <2>1, <2>2, StampedRecord, Zenon
  <1>6. IsRecord(soa) /\ soa.origin = o
    BY <1>4, SoaRecordOK
  <1>7. p1.answers = A /\ p1 # NoPacket /\ p2.answers = {} /\ p2 # NoPacket
    BY DEF DnsPacket, NoPacket
  <1> HIDE DEF A, soa
  <1>8. ASSUME NEW r \in A \cup {soa}
        PROVE  GoodRecord(r, t, v) /\ Hosted(r) /\ r.origin.at = t
    <2>1. IsRecord(r) /\ r.origin = Origin("zone", qname, t)
      BY <1>5, <1>6
    <2> QED
      BY <2>1, LocalRecord DEF Hosted
  <1>9. GoodPacket(p1, t, v) /\ GoodPacket(p2, t, v)
    BY <1>8, MakesPacket DEF RESCODES
  <1>10. Now(A, t) /\ Now({}, t)
    BY <1>5, <1>8, OneOriginIsDistinct DEF Now, Distinct
  <1> HIDE DEF p1, p2
  <1> QED
    BY <1>7, <1>9, <1>10 DEF NewPacket

LEMMA HostLineExists ==
    ASSUME NEW qname, InHosts(qname)
    PROVE  \E i \in DOMAIN HostsFile : HostLine(qname) = HostsFile[i]
  <1> DEFINE S == {i \in DOMAIN HostsFile : HostsFile[i].domain = qname}
             First(i) == /\ HostsFile[i].domain = qname
                         /\ \A j \in 1..(i - 1) : HostsFile[j].domain # qname
  <1>1. S # {} /\ S \in SUBSET Nat /\ S \subseteq DOMAIN HostsFile
    BY WorldAssumption DEF InHosts
  <1>2. PICK i \in S : \A j \in S : i <= j
    <2> HIDE DEF S
    <2> QED
      BY <1>1, LeastNatural
  <1>3. First(i)
    <2>1. ASSUME NEW j \in 1..(i - 1) PROVE HostsFile[j].domain # qname
      <3>1. i \in 1..Len(HostsFile) /\ Len(HostsFile) \in Nat
        BY WorldAssumption
      <3>2. j \in DOMAIN HostsFile /\ ~ (i <= j)
        BY <3>1, WorldAssumption
      <3> QED
        BY <3>2, <1>2
    <2> QED
      BY <2>1
  <1> DEFINE c == CHOOSE j \in DOMAIN HostsFile : First(j)
  <1>4. c \in DOMAIN HostsFile
    <2> HIDE DEF First
    <2> QED
      BY <1>1, <1>3
  <1>5. HostLine(qname) = HostsFile[c]
    BY Zenon DEF HostLine
  <1> QED
    BY <1>4, <1>5

LEMMA HostsLookupOK ==
    ASSUME NEW qname, NEW qtype, NEW t \in Nat, NEW v, InHosts(qname)
    PROVE  NewPacket(hosts_lookup(qname, qtype, t), t, v)
  <1> DEFINE o == Origin("hosts", qname, t)
             line == HostLine(qname)
             a == DnsRecord(qname, qtype, line.value, HOSTS_TTL, o)
             A == IF line.type # qtype THEN {} ELSE {a}
             ns == DnsRecord(<<"hosts">>, "NS", <<"hosts">>, NS_TTL, o)
             p == DnsPacket("NOERROR", TRUE, A, {ns}, {})
  <1>1. hosts_lookup(qname, qtype, t) = p
    BY Zenon DEF hosts_lookup
  <1>2. line.type \in Types \ {"CNAME", "NS", "SOA"} /\ HOSTS_TTL \in Nat
    BY HostLineExists, WorldAssumption
  <1>3. IsRecord(ns) /\ ns.origin = o
    <2>1. IsName(<<"hosts">>)
      BY DEF IsName
    <2> QED
      BY <2>1, NsRecordOK
  <1>4. /\ a.domain = qname /\ a.type = qtype /\ a.ttl = HOSTS_TTL /\ a.origin = o
        /\ a = DnsRecord(a.domain, a.type, a.value, a.ttl, a.origin)
    BY RecordFields
  <1>5. p.answers = A /\ p # NoPacket
    BY DEF DnsPacket, NoPacket
  <1> HIDE DEF a, ns
  <1>6. A \subseteq {a} /\ (A # {} => IsRecord(a))
    BY <1>2, <1>4 DEF IsRecord
  <1>7. \A r \in A \cup {ns} : /\ IsRecord(r) /\ r.origin = o
    BY <1>3, <1>4, <1>6
  <1>8. \A r \in A : Hosted(r)
    BY <1>6, <1>4 DEF Hosted
  <1> HIDE DEF A
  <1>9. ASSUME NEW r \in A \cup {ns} PROVE GoodRecord(r, t, v) /\ r.origin.at = t
    <2>1. IsRecord(r) /\ r.origin = Origin("hosts", qname, t)
      BY <1>7
    <2> QED
      BY <2>1, LocalRecord
  <1>10. GoodPacket(p, t, v)
    BY <1>8, <1>9, MakesPacket DEF RESCODES
  <1>11. Now(A, t)
    BY <1>7, <1>9, OneOriginIsDistinct DEF Now
  <1> HIDE DEF p
  <1> QED
    BY <1>1, <1>5, <1>10, <1>11 DEF NewPacket

(* A server's packet can be stored as a whole.                             *)
TakenPacket(p, t, v) ==
    /\ NewPacket(p, t, v) /\ Now(p.authorities, t) /\ Now(p.resources, t)
    /\ \A r \in p.answers \cup p.authorities \cup p.resources : r.origin.from # "hosts"

LEMMA StampedPacket ==
    ASSUME NEW b, IsPacket(b), NEW o
    PROVE  Stamped(b, o) =
              DnsPacket(b.rescode, b.authoritative_answer,
                        {[r EXCEPT !.origin = o] : r \in b.answers},
                        {[r EXCEPT !.origin = o] : r \in b.authorities},
                        {[r EXCEPT !.origin = o] : r \in b.resources})
  <1> DEFINE F(S) == {[r EXCEPT !.origin = o] : r \in S}
             b1 == [b EXCEPT !.answers = F(@)]
             b2 == [b1 EXCEPT !.authorities = F(@)]
             b3 == [b2 EXCEPT !.resources = F(@)]
  <1>1. Stamped(b, o) = b3
    BY DEF Stamped
  <1> HIDE DEF F
  <1>2. b = DnsPacket(b.rescode, b.authoritative_answer, b.answers, b.authorities, b.resources)
    BY DEF IsPacket
  <1>3. b1 = DnsPacket(b.rescode, b.authoritative_answer, F(b.answers), b.authorities, b.resources)
    BY <1>2 DEF DnsPacket
  <1> HIDE DEF b1
  <1>4. b2 = DnsPacket(b.rescode, b.authoritative_answer, F(b.answers), F(b.authorities), b.resources)
    BY <1>3 DEF DnsPacket
  <1> HIDE DEF b2
  <1>5. b3 = DnsPacket(b.rescode, b.authoritative_answer, F(b.answers), F(b.authorities), F(b.resources))
    BY <1>4 DEF DnsPacket
  <1> QED
    BY <1>1, <1>5 DEF F

LEMMA AskedOK ==
    ASSUME NEW server, NEW qname, NEW qtype, NEW t \in Nat, NEW v, Vetted(qname, v),
           NEW p \in Asked(server, qname, qtype, t)
    PROVE  TakenPacket(p, t, v)
  <1> DEFINE o == Origin(server, qname, t)
             K == {r \in Replies : r.server = server /\ r.name = qname /\ r.type = qtype}
  <1>1. p = EmptyPacket("NXDOMAIN") \/ \E r \in K : p = Stamped(r.packet, o)
    BY DEF Asked
  <1>2. CASE p = EmptyPacket("NXDOMAIN")
    <2>1. NewPacket(p, t, v) /\ p.authorities = {} /\ p.resources = {} /\ p.answers = {}
      <3>1. "NXDOMAIN" \in RESCODES
        BY DEF RESCODES
      <3>2. p.answers = {}
        BY <1>2 DEF EmptyPacket, DnsPacket
      <3> QED
        BY <1>2, <3>1, <3>2, EmptyPacketOK
    <2> QED
      BY <2>1 DEF TakenPacket, Now, Distinct
  <1>3. CASE \E r \in K : p = Stamped(r.packet, o)
    <2>1. PICK r \in K : p = Stamped(r.packet, o)
      BY <1>3
    <2> DEFINE b == r.packet
               All(S) == {[x EXCEPT !.origin = o] : x \in S}
    <2>2. IsPacket(b) /\ server # "hosts"
      BY WorldAssumption
    <2>3. p = DnsPacket(b.rescode, b.authoritative_answer,
                        All(b.answers), All(b.authorities), All(b.resources))
      BY <2>1, <2>2, StampedPacket, Zenon
    <2>4. ASSUME NEW S, NEW q \in All(S), \A x \in S : IsRecord(x)
          PROVE  IsRecord(q) /\ q.origin = o
      <3>1. PICK x \in S : q = [x EXCEPT !.origin = o]
        OBVIOUS
      <3> QED
        BY <2>4, <3>1, StampedRecord, Zenon
    <2> HIDE DEF All
    <2>5. /\ \A x \in b.answers : IsRecord(x)
          /\ \A x \in b.authorities : IsRecord(x)
          /\ \A x \in b.resources : IsRecord(x)
          /\ b.rescode \in RESCODES
      BY <2>2 DEF IsPacket
    <2>6. /\ \A x \in All(b.answers) : IsRecord(x) /\ x.origin = o
          /\ \A x \in All(b.authorities) : IsRecord(x) /\ x.origin = o
          /\ \A x \in All(b.resources) : IsRecord(x) /\ x.origin = o
      BY <2>4, <2>5
    <2>7. ASSUME NEW x, IsRecord(x), x.origin = o
          PROVE  GoodRecord(x, t, v) /\ Hosted(x) /\ x.origin.at = t /\ x.origin.from # "hosts"
      BY <2>2, <2>7, OriginFields DEF GoodRecord, Hosted
    <2>8. Now(All(b.answers), t) /\ Now(All(b.authorities), t) /\ Now(All(b.resources), t)
      BY <2>6, <2>7, OneOriginIsDistinct DEF Now
    <2>9. GoodPacket(p, t, v)
      BY <2>3, <2>5, <2>6, <2>7, MakesPacket
    <2>10. /\ p.answers = All(b.answers) /\ p.authorities = All(b.authorities)
           /\ p.resources = All(b.resources) /\ p # NoPacket
      BY <2>3 DEF DnsPacket, NoPacket
    <2> QED
      BY <2>6, <2>7, <2>8, <2>9, <2>10 DEF TakenPacket, NewPacket
  <1> QED
    BY <1>1, <1>2, <1>3

LEMMA OwnAnswersOK ==
    ASSUME NEW data, \A r \in data : IsRecord(r), NEW qname, NEW qtype, NEW o,
           NEW S, S \in OwnAnswers(data, qname, qtype, o) \/ S = WildAnswers(data, qname, qtype, o)
    PROVE  \A q \in S : IsRecord(q) /\ q.origin = o
  <1> DEFINE P(x) == /\ x.type \in {qtype, "CNAME"}
                     /\ \/ x.domain \in {Subdomain(qname), qname}
                        \/ (x.domain = Apex /\ Subdomain(qname) = <<>>)
             X == {x \in data : P(x)}
             Y == {x \in data : x.type = qtype /\ x.domain = Wildcard}
             N == {Renamed(r, qname, o) : r \in X}
             D == {r \in N : r.type # "CNAME"}
  <1>1. OwnAnswers(data, qname, qtype, o) = IF D # {} \/ N = {} THEN {D} ELSE {{r} : r \in N}
    BY Zenon DEF OwnAnswers, Renamed
  <1>2. WildAnswers(data, qname, qtype, o) = {Renamed(r, qname, o) : r \in Y}
    BY Zenon DEF WildAnswers, Renamed
  <1>3. X \subseteq data /\ Y \subseteq data
    OBVIOUS
  <1> HIDE DEF X, Y
  <1>4. ASSUME NEW q \in S PROVE q \in N \/ q \in {Renamed(r, qname, o) : r \in Y}
    BY <1>1, <1>2
  <1>5. ASSUME NEW q \in S PROVE \E r \in data : q = Renamed(r, qname, o)
    BY <1>3, <1>4
  <1> QED
    BY <1>5, RenamedRecord

LEMMA CreatePacketOK ==
    ASSUME NEW data, \A r \in data : IsRecord(r), NEW qname, NEW qtype, NEW t \in Nat, NEW v,
           NEW own \in OwnAnswers(data, qname, qtype, Origin("chain", qname, t))
    PROVE  NewPacket(create_packet(data, qname, own, qtype, Origin("chain", qname, t)), t, v)
  <1> DEFINE o == Origin("chain", qname, t)
             A == IF own # {} THEN own ELSE WildAnswers(data, qname, qtype, o)
             exists == \/ own # {}
                       \/ Subdomain(qname) = <<>>
                       \/ \E r \in data : r.domain \in {Subdomain(qname), Wildcard}
             code == IF exists THEN "NOERROR" ELSE "NXDOMAIN"
             ns == DnsRecord(ZoneOf(qname), "NS", <<"ns", "ruvcha", "in">>, NS_TTL, o)
             soa == SoaRecord(ZoneOf(qname), SOA_MINIMUM, o)
             p1 == DnsPacket("NOERROR", TRUE, A, {ns}, {})
             p2 == DnsPacket(code, TRUE, {}, {soa}, {})
  <1>1. create_packet(data, qname, own, qtype, o) = IF A # {} THEN p1 ELSE p2
    BY Zenon DEF create_packet
  <1>2. ASSUME NEW q \in A PROVE IsRecord(q) /\ q.origin = o
    <2>1. A \in OwnAnswers(data, qname, qtype, o) \/ A = WildAnswers(data, qname, qtype, o)
      OBVIOUS
    <2> HIDE DEF A, o
    <2>2. \A x \in A : IsRecord(x) /\ x.origin = o
      BY <2>1, OwnAnswersOK
    <2> QED
      BY <2>2
  <1>3. IsRecord(ns) /\ ns.origin = o
    <2>1. IsName(<<"ns", "ruvcha", "in">>)
      BY DEF IsName
    <2> QED
      BY <2>1, NsRecordOK
  <1>4. IsRecord(soa) /\ soa.origin = o
    BY SoaRecordOK DEF SOA_MINIMUM
  <1>5. code \in RESCODES
    BY DEF RESCODES
  <1> HIDE DEF A, ns, soa, code
  <1>6. p1.answers = A /\ p1 # NoPacket /\ p2.answers = {} /\ p2 # NoPacket
    BY DEF DnsPacket, NoPacket
  <1>7. ASSUME NEW r \in A \cup {ns, soa}
        PROVE  GoodRecord(r, t, v) /\ Hosted(r) /\ r.origin.at = t
    <2>1. IsRecord(r) /\ r.origin = Origin("chain", qname, t)
      BY <1>2, <1>3, <1>4
    <2> QED
      BY <2>1, LocalRecord DEF Hosted
  <1>8. GoodPacket(p1, t, v) /\ GoodPacket(p2, t, v)
    BY <1>5, <1>7, MakesPacket DEF RESCODES
  <1>9. Now(A, t) /\ Now({}, t)
    BY <1>2, <1>7, OneOriginIsDistinct DEF Now, Distinct
  <1> HIDE DEF p1, p2
  <1>10. NewPacket(p1, t, v) /\ NewPacket(p2, t, v)
    BY <1>6, <1>8, <1>9 DEF NewPacket
  <1> QED
    BY <1>1, <1>10

(* A query that goes through the filters unanswered is for others; one     *)
(* that a domain's own name servers answer was theirs to answer.           *)
LEMMA FilteredOK ==
    ASSUME NEW qname, IsName(qname), NEW qtype, NEW t \in Nat, NEW v \in 1..Len(Versions),
           ZonesFor(qname) = {}, NEW p \in filtered(Versions[v], qname, qtype, t)
    PROVE  (p = NoPacket /\ Vetted(qname, v)) \/ NewPacket(p, t, v)
  <1> DEFINE o == Origin("chain", qname, t)
             soa == {SoaRecord(ZoneOf(qname), SOA_MINIMUM, o)}
             top == TopDomain(qname)
             domains == Versions[v]
             data == IF top \in DOMAIN domains THEN domains[top] ELSE NoData
             C1 == ~InChainZone(qname) /\ (Len(qname) < 2 \/ data = NoData)
             C2 == Len(qname) = 1
             p2 == DnsPacket("NOERROR", FALSE, {}, soa, {})
             p3 == DnsPacket("NXDOMAIN", TRUE, {}, soa, {})
             glue == GlueServers(data, top)
             mine == IF Len(qname) > 1 /\ top \in DOMAIN domains THEN domains[top] ELSE NoData
             left == CASE mine = NoData -> ~InChainZone(qname)
                       [] mine = BadData -> TRUE
                       [] OTHER -> GlueServers(mine, top) # {}
  <1>1. CASE InHosts(qname)
    <2>1. p = hosts_lookup(qname, qtype, t)
      BY <1>1 DEF filtered
    <2> QED
      BY <1>1, <2>1, HostsLookupOK
  <1>2. CASE ~InHosts(qname)
    <2>1. p \in chain_lookup(domains, qname, qtype, t)
      BY <1>2 DEF filtered
    <2>2. chain_lookup(domains, qname, qtype, t) =
             IF C1 THEN {NoPacket} ELSE IF C2 THEN {p2} ELSE IF data = NoData THEN {p3}
             ELSE IF data = BadData THEN {NoPacket}
             ELSE IF glue # {} THEN lookup_from_ns(glue, qname, qtype, t)
             ELSE {create_packet(data, qname, own, qtype, o) : own \in OwnAnswers(data, qname, qtype, o)}
      BY Zenon DEF chain_lookup
    <2>3. ASSUME left PROVE Vetted(qname, v)
      <3>1. v \in 1..v
        BY WorldAssumption
      <3>2. LeftToOthers(qname, v)
        BY <3>1, <2>3, Zenon DEF LeftToOthers
      <3> QED
        BY <3>2, <1>2 DEF Vetted
    <2>4. NewPacket(p2, t, v) /\ NewPacket(p3, t, v)
      <3>1. ASSUME NEW r \in soa PROVE GoodRecord(r, t, v)
        <4>1. IsRecord(r) /\ r.origin = o
          BY SoaRecordOK DEF SOA_MINIMUM
        <4> QED
          BY <4>1, LocalRecord
      <3> HIDE DEF soa
      <3>2. GoodPacket(p2, t, v) /\ GoodPacket(p3, t, v)
        BY <3>1, MakesPacket DEF RESCODES
      <3>3. p2.answers = {} /\ p2 # NoPacket /\ p3.answers = {} /\ p3 # NoPacket
        BY DEF DnsPacket, NoPacket
      <3> HIDE DEF p2, p3
      <3> QED
        BY <3>2, <3>3 DEF NewPacket, Now, Distinct
    <2>5. Len(qname) \in Nat
      BY DEF IsName
    <2> HIDE DEF left
    <2>6. CASE C1
      <3>1. left
        <4>1. mine = NoData
          BY <2>5, <2>6
        <4> HIDE DEF mine
        <4> QED
          BY <4>1, <2>6, Zenon DEF left
      <3> QED
        BY <2>1, <2>2, <2>3, <2>6, <3>1
    <2>7. CASE ~C1 /\ C2
      <3> HIDE DEF C1, C2, p2
      <3> QED
        BY <2>1, <2>2, <2>4, <2>7
    <2>8. CASE ~C1 /\ ~C2 /\ data = NoData
      <3> HIDE DEF C1, C2, p3, data
      <3> QED
        BY <2>1, <2>2, <2>4, <2>8
    <2>9. CASE ~C1 /\ ~C2 /\ data # NoData
      <3>1. mine = data
        <4>1. Len(qname) > 1
          <5>1. Len(qname) # 0
            BY <2>5, <2>9 DEF InChainZone
          <5>2. Len(qname) # 1
            BY <2>9
          <5>3. \A n \in Nat : n # 0 /\ n # 1 => n > 1
            OBVIOUS
          <5> QED
            BY <2>5, <5>1, <5>2, <5>3
        <4> QED
          BY <4>1
      <3>2. CASE data = BadData
        <4>1. left
          <5> HIDE DEF mine, data
          <5> QED
            BY <3>1, <3>2, <2>9, Zenon DEF left
        <4>2. p = NoPacket
          <5> HIDE DEF C1, C2, data
          <5> QED
            BY <2>1, <2>2, <2>9, <3>2
        <4> QED
          BY <4>1, <4>2, <2>3
      <3>3. CASE data # BadData /\ glue # {}
        <4>1. left
          <5>1. GlueServers(mine, top) # {}
            BY <3>1, <3>3, Zenon
          <5> HIDE DEF mine, data
          <5> QED
            BY <3>1, <3>3, <2>9, <5>1, Zenon DEF left
        <4>2. p \in lookup_from_ns(glue, qname, qtype, t)
          <5> HIDE DEF C1, C2, data, glue
          <5> QED
            BY <2>1, <2>2, <2>9, <3>3
        <4>3. p = NoPacket \/ \E s \in glue : p \in Asked(s, qname, qtype, t)
          BY <4>2 DEF lookup_from_ns
        <4>4. Vetted(qname, v)
          BY <4>1, <2>3
        <4> HIDE DEF glue
        <4> QED
          BY <4>3, <4>4, AskedOK DEF TakenPacket
      <3>4. CASE data # BadData /\ glue = {}
        <4>1. top \in DOMAIN domains /\ data = domains[top]
          BY <2>9
        <4>2. \A r \in data : IsRecord(r)
          BY <4>1, <2>9, <3>4, WorldAssumption
        <4> HIDE DEF C1, C2, data, glue
        <4>3. PICK own \in OwnAnswers(data, qname, qtype, o) :
                 p = create_packet(data, qname, own, qtype, o)
          BY <2>1, <2>2, <2>9, <3>4
        <4> QED
          BY <4>2, <4>3, CreatePacketOK
      <3> QED
        BY <3>2, <3>3, <3>4
    <2> QED
      BY <2>6, <2>7, <2>8, <2>9
  <1> QED
    BY <1>1, <1>2

-----------------------------------------------------------------------------
(* Looking into the cache.                                                 *)

LEMMA AtKey ==
    ASSUME NEW c, NEW name, NEW type
    PROVE  At(c, name, type) = IF <<name, type>> \in DOMAIN c THEN c[<<name, type>>] ELSE NotCached
  BY Zenon DEF At

LEMMA FillIsCached ==
    ASSUME NEW c, NEW name, NEW type, NEW t, NEW r \in fill_queryresult(At(c, name, type), t)
    PROVE  LET k == <<name, type>>
           IN  /\ k \in DOMAIN c /\ c[k].kind = "records"
               /\ \E e \in c[k].entries : Valid(e, t) /\ r = e.record
  <1> DEFINE set == At(c, name, type)
  <1>1. set.kind = "records" /\ \E e \in set.entries : Valid(e, t) /\ r = e.record
    BY DEF fill_queryresult
  <1>2. NotCached.kind # "records"
    BY DEF NotCached
  <1>3. set = IF <<name, type>> \in DOMAIN c THEN c[<<name, type>>] ELSE NotCached
    BY AtKey
  <1> HIDE DEF set
  <1> QED
    BY <1>1, <1>2, <1>3

LEMMA FillIsGood ==
    ASSUME NEW c, NEW name, NEW type, NEW t, NEW v, NEW W, CacheOK(c, t, v, W),
           NEW r \in fill_queryresult(At(c, name, type), t)
    PROVE  GoodRecord(r, t, v) /\ Hosted(r)
  <1> DEFINE k == <<name, type>>
  <1>1. PICK e \in c[k].entries : Valid(e, t) /\ r = e.record
    BY FillIsCached
  <1>2. k \in DOMAIN c /\ c[k].kind = "records"
    BY FillIsCached
  <1> HIDE DEF k
  <1>3. EntryOK(k, e, t, v, W)
    BY <1>2 DEF CacheOK, CachedSetOK
  <1> QED
    BY <1>1, <1>3 DEF EntryOK

(* The three results of a lookup.                                          *)
LEMMA LookupCases ==
    ASSUME NEW c, NEW name, NEW type, NEW now, NEW t
    PROVE  LET found == DnsPacket("NOERROR", FALSE, fill_queryresult(At(c, name, type), t),
                                  fill_queryresult(At(c, name, "NS"), t), {})
               p == lookup(c, name, type, now, t)
           IN  /\ p \in {found, EmptyPacket("NXDOMAIN"), NoPacket}
               /\ p = found <=> get_cache_state(At(c, name, type), now) = "PositiveCache"
               /\ p = EmptyPacket("NXDOMAIN")
                    <=> get_cache_state(At(c, name, type), now) = "NegativeCache"
  <1> DEFINE found == DnsPacket("NOERROR", FALSE, fill_queryresult(At(c, name, type), t),
                                fill_queryresult(At(c, name, "NS"), t), {})
             p == lookup(c, name, type, now, t)
             g == get_cache_state(At(c, name, type), now)
  <1>1. p = CASE g = "PositiveCache" -> found
              [] g = "NegativeCache" -> EmptyPacket("NXDOMAIN")
              [] OTHER -> NoPacket
    BY Zenon DEF lookup
  <1>2. found # NoPacket /\ EmptyPacket("NXDOMAIN") # NoPacket /\ found # EmptyPacket("NXDOMAIN")
    BY DEF DnsPacket, EmptyPacket, NoPacket
  <1> HIDE DEF found, p, g
  <1>3. /\ g = "PositiveCache" => p = found
        /\ g = "NegativeCache" => p = EmptyPacket("NXDOMAIN")
        /\ g \notin {"PositiveCache", "NegativeCache"} => p = NoPacket
    BY <1>1
  <1>4. /\ p \in {found, EmptyPacket("NXDOMAIN"), NoPacket}
        /\ p = found <=> g = "PositiveCache"
        /\ p = EmptyPacket("NXDOMAIN") <=> g = "NegativeCache"
    BY <1>2, <1>3
  <1> QED
    BY <1>4 DEF found, p, g

(* What a lookup has found it delivers, however late.                      *)
LEMMA FoundLater ==
    ASSUME NEW c, NEW name, NEW type, NEW now, NEW t, NEW u,
           lookup(c, name, type, now, t) # NoPacket
    PROVE  lookup(c, name, type, now, u) # NoPacket
  <1> DEFINE F(l) == DnsPacket("NOERROR", FALSE, fill_queryresult(At(c, name, type), l),
                               fill_queryresult(At(c, name, "NS"), l), {})
             g == get_cache_state(At(c, name, type), now)
             P(l) == lookup(c, name, type, now, l)
             E == EmptyPacket("NXDOMAIN")
  <1>1. ASSUME NEW l
        PROVE  P(l) \in {F(l), E, NoPacket} /\ (P(l) = F(l) <=> g = "PositiveCache")
               /\ (P(l) = E <=> g = "NegativeCache")
    BY LookupCases, Zenon
  <1>2. ASSUME NEW l PROVE F(l) # NoPacket /\ E # NoPacket
    BY DEF DnsPacket, EmptyPacket, NoPacket
  <1>3. P(t) # NoPacket
    OBVIOUS
  <1> HIDE DEF F, g, P, E
  <1>4. P(u) # NoPacket
    BY <1>1, <1>2, <1>3
  <1> QED
    BY <1>4 DEF P

LEMMA LookupOK ==
    ASSUME NEW c, NEW name, NEW type, NEW now, NEW t, NEW v, NEW W, CacheOK(c, t, v, W)
    PROVE  ResultOK(lookup(c, name, type, now, t), t, v)
  <1> DEFINE A == fill_queryresult(At(c, name, type), t)
             B == fill_queryresult(At(c, name, "NS"), t)
             p == lookup(c, name, type, now, t)
  <1>1. p = DnsPacket("NOERROR", FALSE, A, B, {}) \/ p = EmptyPacket("NXDOMAIN") \/ p = NoPacket
    BY LookupCases
  <1>2. \A r \in A \cup B : GoodRecord(r, t, v) /\ Hosted(r)
    BY FillIsGood
  <1> HIDE DEF A, B, p
  <1>3. "NOERROR" \in RESCODES /\ "NXDOMAIN" \in RESCODES
    BY DEF RESCODES
  <1>4. GoodPacket(DnsPacket("NOERROR", FALSE, A, B, {}), t, v)
    BY <1>2, <1>3, MakesPacket
  <1>5. ResultOK(p, t, v)
    BY <1>1, <1>3, <1>4, EmptyPacketOK DEF ResultOK, NewPacket
  <1> QED
    BY <1>5 DEF p

LEMMA MissIsStale ==
    ASSUME NEW c, NEW name, NEW type, NEW t, lookup(c, name, type, t, t) = NoPacket
    PROVE  ~IsFresh(c, <<name, type>>, t)
  <1> DEFINE set == At(c, name, type)
             k == <<name, type>>
  <1>1. get_cache_state(set, t) # "PositiveCache"
    <2>1. DnsPacket("NOERROR", FALSE, fill_queryresult(At(c, name, type), t),
                                  fill_queryresult(At(c, name, "NS"), t), {}) # NoPacket
      BY DEF DnsPacket, NoPacket
    <2> QED
      BY <2>1, LookupCases
  <1>2. set = IF k \in DOMAIN c THEN c[k] ELSE NotCached
    BY AtKey
  <1> HIDE DEF set, k
  <1>3. ~ (set.kind = "records" /\ \E e \in set.entries : Valid(e, t))
    BY <1>1 DEF get_cache_state
  <1>4. ~IsFresh(c, k, t)
    BY <1>2, <1>3 DEF IsFresh
  <1> QED
    BY <1>4 DEF k

(* What a second look finds is prolonged by a worker that no longer waits. *)
LEMMA SecondLookOK ==
    ASSUME NEW t \in Nat, NEW v \in Nat, NEW c, NEW W, Serving(t, v, "Forward", c, W),
           NEW w \in Workers, W[w].pc = "perform", NEW now, NEW y, y.pc = "store", y.q = W[w].q,
           y.result = lookup(c, y.q.name, y.q.type, now, t), y.result # NoPacket
    PROVE  HandOK(y, t, "Forward", c, [W EXCEPT ![w] = y])
  <1> DEFINE p == lookup(c, y.q.name, y.q.type, now, t)
             k == <<y.q.name, y.q.type>>
             A == fill_queryresult(At(c, y.q.name, y.q.type), t)
             V == [W EXCEPT ![w] = y]
  <1>1. p.answers \subseteq A
    <2> DEFINE f == DnsPacket("NOERROR", FALSE, A, fill_queryresult(At(c, y.q.name, "NS"), t), {})
    <2>1. p = f \/ p = EmptyPacket("NXDOMAIN") \/ p = NoPacket
      BY LookupCases
    <2>2. f.answers = A /\ EmptyPacket("NXDOMAIN").answers = {}
      BY DEF DnsPacket, EmptyPacket
    <2> HIDE DEF f, p, A
    <2> QED
      BY <2>1, <2>2 DEF p
  <1>2. Room(k, V) = Room(k, W) + 1
    <2>1. Waiting(W[w], k) /\ ~Waiting(y, k) /\ DOMAIN W = Workers
      BY DEF Waiting, Serving
    <2> QED
      BY <2>1, RoomForOneMore
  <1>3. ASSUME NEW r \in A PROVE \E e \in c[k].entries : Valid(e, t) /\ r = e.record
    BY FillIsCached
  <1>4. A # {} => k \in DOMAIN c /\ c[k].kind = "records"
    BY FillIsCached
  <1>5. ~InHosts(k[1])
    BY DEF Serving, WorkPoint, Vetted
  <1>6. k = <<y.q.name, y.q.type>>
    OBVIOUS
  <1>7. y.result = p
    OBVIOUS
  <1> HIDE DEF k, A, V, p
  <1>8. ASSUME NEW r \in A
        PROVE  \E e \in c[k].entries : EntryOK(k, e, t, v, W) /\ Valid(e, t) /\ r = e.record
    BY <1>3, <1>4, <1>8 DEF Serving, CacheOK, CachedSetOK
  <1>9. ASSUME NEW r \in A PROVE InHand(y, r, t, "Forward", c, V)
    <2>1. PICK e \in c[k].entries : EntryOK(k, e, t, v, W) /\ Valid(e, t) /\ r = e.record
      BY <1>8
    <2>2. r.origin.from # "hosts" /\ Key(r) = k
      BY <2>1, <1>5 DEF EntryOK, Hosted, Key
    <2>3. IsFresh(c, k, t)
      BY <1>4, <1>9, <2>1 DEF IsFresh
    <2>4. Fits(r, t, Room(k, V))
      <3>1. /\ Fits(r, e.timestamp, Room(k, W)) /\ r.ttl \in Nat /\ r.origin.at \in Nat
            /\ e.timestamp \in Nat /\ e.timestamp + r.ttl >= t
        BY <2>1, EntryNumbers DEF EntryOK, Valid
      <3>2. Room(k, W) \in Int
        BY WaitersFinite
      <3> QED
        BY <3>1, <3>2, <1>2, FitsAgain
    <2> QED
      BY <2>2, <2>3, <2>4, <1>6 DEF InHand
  <1>10. Distinct(A)
    <2>1. SUFFICES ASSUME NEW r \in A, NEW q \in A, SameRecord(r, q) PROVE r = q
      BY DEF Distinct
    <2>2. PICK e \in c[k].entries : r = e.record
      BY <1>8
    <2>3. PICK f \in c[k].entries : q = f.record
      BY <1>8
    <2> QED
      BY <2>1, <2>2, <2>3, <1>4 DEF Serving, CacheOK, CachedSetOK
  <1>11. HandOK(y, t, "Forward", c, V)
    BY <1>1, <1>7, <1>9, <1>10 DEF HandOK, Distinct
  <1> QED
    BY <1>11 DEF V

-----------------------------------------------------------------------------
(* The fields of a worker.                                                 *)

LEMMA WorkerFields ==
    ASSUME NEW a, NEW b, NEW c, NEW d, NEW e, NEW f, NEW g, NEW h, NEW i
    PROVE  LET y == AWorker(a, b, c, d, e, f, g, h, i)
           IN  /\ IsWorker(y) /\ y.pc = a /\ y.request = b /\ y.q = c /\ y.depth = d
               /\ y.result = e /\ y.reply = f /\ y.todo = g /\ y.ns = h /\ y.calls = i
  BY DEF AWorker, IsWorker

LEMMA SetPc ==
    ASSUME NEW x, IsWorker(x), NEW z
    PROVE  [x EXCEPT !.pc = z] =
              AWorker(z, x.request, x.q, x.depth, x.result, x.reply, x.todo, x.ns, x.calls)
  BY DEF IsWorker, AWorker

LEMMA SetNs ==
    ASSUME NEW x, IsWorker(x), NEW z
    PROVE  [x EXCEPT !.ns = z] =
              AWorker(x.pc, x.request, x.q, x.depth, x.result, x.reply, x.todo, z, x.calls)
  BY DEF IsWorker, AWorker

LEMMA SetResult ==
    ASSUME NEW x, IsWorker(x), NEW p
    PROVE  [x EXCEPT !.result = p] =
              AWorker(x.pc, x.request, x.q, x.depth, p, x.reply, x.todo, x.ns, x.calls)
  BY DEF IsWorker, AWorker

LEMMA SetPcResult ==
    ASSUME NEW x, IsWorker(x), NEW z, NEW p
    PROVE  [x EXCEPT !.pc = z, !.result = p] =
              AWorker(z, x.request, x.q, x.depth, p, x.reply, x.todo, x.ns, x.calls)
  <1> DEFINE a1 == [x EXCEPT !.pc = z]
             a2 == [a1 EXCEPT !.result = p]
  <1>1. [x EXCEPT !.pc = z, !.result = p] = a2
    OBVIOUS
  <1>2. a1 =
           AWorker(z, x.request, x.q, x.depth, x.result, x.reply, x.todo, x.ns, x.calls)
    BY DEF IsWorker, AWorker
  <1> HIDE DEF a1
  <1>3. a2 =
           AWorker(z, x.request, x.q, x.depth, p, x.reply, x.todo, x.ns, x.calls)
    BY <1>2 DEF AWorker
  <1> QED
    BY <1>1, <1>3, Zenon

LEMMA SetResultPc ==
    ASSUME NEW x, IsWorker(x), NEW p, NEW z
    PROVE  [x EXCEPT !.result = p, !.pc = z] =
              AWorker(z, x.request, x.q, x.depth, p, x.reply, x.todo, x.ns, x.calls)
  <1> DEFINE a1 == [x EXCEPT !.result = p]
             a2 == [a1 EXCEPT !.pc = z]
  <1>1. [x EXCEPT !.result = p, !.pc = z] = a2
    OBVIOUS
  <1>2. a1 =
           AWorker(x.pc, x.request, x.q, x.depth, p, x.reply, x.todo, x.ns, x.calls)
    BY DEF IsWorker, AWorker
  <1> HIDE DEF a1
  <1>3. a2 =
           AWorker(z, x.request, x.q, x.depth, p, x.reply, x.todo, x.ns, x.calls)
    BY <1>2 DEF AWorker
  <1> QED
    BY <1>1, <1>3, Zenon

LEMMA SetPcNs ==
    ASSUME NEW x, IsWorker(x), NEW z, NEW a
    PROVE  [x EXCEPT !.pc = z, !.ns = a] =
              AWorker(z, x.request, x.q, x.depth, x.result, x.reply, x.todo, a, x.calls)
  <1> DEFINE a1 == [x EXCEPT !.pc = z]
             a2 == [a1 EXCEPT !.ns = a]
  <1>1. [x EXCEPT !.pc = z, !.ns = a] = a2
    OBVIOUS
  <1>2. a1 =
           AWorker(z, x.request, x.q, x.depth, x.result, x.reply, x.todo, x.ns, x.calls)
    BY DEF IsWorker, AWorker
  <1> HIDE DEF a1
  <1>3. a2 =
           AWorker(z, x.request, x.q, x.depth, x.result, x.reply, x.todo, a, x.calls)
    BY <1>2 DEF AWorker
  <1> QED
    BY <1>1, <1>3, Zenon

LEMMA SetCalls ==
    ASSUME NEW x, IsWorker(x), NEW c
    PROVE  [x EXCEPT !.calls = c] =
              AWorker(x.pc, x.request, x.q, x.depth, x.result, x.reply, x.todo, x.ns, c)
  BY DEF IsWorker, AWorker

Calling(x, z, k, c) == [x EXCEPT !.pc = z, !.q = k, !.calls = c]

LEMMA SetCall ==
    ASSUME NEW x, IsWorker(x), NEW z, NEW k, NEW c
    PROVE  Calling(x, z, k, c) =
              AWorker(z, x.request, k, x.depth, x.result, x.reply, x.todo, x.ns, c)
  <1> DEFINE a1 == [x EXCEPT !.pc = z]
             a2 == [a1 EXCEPT !.q = k]
             a3 == [a2 EXCEPT !.calls = c]
  <1>1. Calling(x, z, k, c) = a3
    BY DEF Calling
  <1>2. a1 = AWorker(z, x.request, x.q, x.depth, x.result, x.reply, x.todo, x.ns, x.calls)
    BY DEF IsWorker, AWorker
  <1> HIDE DEF a1
  <1>3. a2 = AWorker(z, x.request, k, x.depth, x.result, x.reply, x.todo, x.ns, x.calls)
    BY <1>2 DEF AWorker
  <1> HIDE DEF a2
  <1>4. a3 = AWorker(z, x.request, k, x.depth, x.result, x.reply, x.todo, x.ns, c)
    BY <1>3 DEF AWorker
  <1> QED
    BY <1>1, <1>4, Zenon

LEMMA SetBack ==
    ASSUME NEW x, IsWorker(x), NEW k
    PROVE  [x EXCEPT !.q = k, !.calls = Tail(@)] =
              AWorker(x.pc, x.request, k, x.depth, x.result, x.reply, x.todo, x.ns, Tail(x.calls))
  <1> DEFINE a1 == [x EXCEPT !.q = k]
             a2 == [a1 EXCEPT !.calls = Tail(@)]
  <1>1. [x EXCEPT !.q = k, !.calls = Tail(@)] = a2
    OBVIOUS
  <1>2. a1 = AWorker(x.pc, x.request, k, x.depth, x.result, x.reply, x.todo, x.ns, x.calls)
    BY DEF IsWorker, AWorker
  <1> HIDE DEF a1
  <1>3. /\ IsWorker(a1) /\ a1.pc = x.pc /\ a1.request = x.request /\ a1.q = k
        /\ a1.depth = x.depth /\ a1.result = x.result /\ a1.reply = x.reply
        /\ a1.todo = x.todo /\ a1.ns = x.ns /\ a1.calls = x.calls
    BY <1>2, WorkerFields
  <1>4. a2 = AWorker(a1.pc, a1.request, a1.q, a1.depth, a1.result, a1.reply, a1.todo, a1.ns,
                     Tail(a1.calls))
    BY <1>3, SetCalls, Zenon
  <1> QED
    BY <1>1, <1>3, <1>4, Zenon

Ended(x, r, p, a, c) == [x EXCEPT !.reply = r, !.result = p, !.ns = a, !.calls = c]

LEMMA SetNext ==
    ASSUME NEW x, IsWorker(x), NEW r, NEW p, NEW a, NEW c
    PROVE  Ended(x, r, p, a, c) =
              AWorker(x.pc, x.request, x.q, x.depth, p, r, x.todo, a, c)
  <1> DEFINE a1 == [x EXCEPT !.reply = r]
             a2 == [a1 EXCEPT !.result = p]
             a3 == [a2 EXCEPT !.ns = a]
             a4 == [a3 EXCEPT !.calls = c]
  <1>1. Ended(x, r, p, a, c) = a4
    BY DEF Ended
  <1>2. a1 =
           AWorker(x.pc, x.request, x.q, x.depth, x.result, r, x.todo, x.ns, x.calls)
    BY DEF IsWorker, AWorker
  <1> HIDE DEF a1
  <1>3. a2 =
           AWorker(x.pc, x.request, x.q, x.depth, p, r, x.todo, x.ns, x.calls)
    BY <1>2 DEF AWorker
  <1> HIDE DEF a2
  <1>4. a3 =
           AWorker(x.pc, x.request, x.q, x.depth, p, r, x.todo, a, x.calls)
    BY <1>3 DEF AWorker
  <1> HIDE DEF a3
  <1>5. a4 =
           AWorker(x.pc, x.request, x.q, x.depth, p, r, x.todo, a, c)
    BY <1>4 DEF AWorker
  <1> QED
    BY <1>1, <1>5, Zenon

Tasked(x, z, u, d, k) == [x EXCEPT !.pc = z, !.todo = u, !.depth = d, !.q = k]

LEMMA SetTask ==
    ASSUME NEW x, IsWorker(x), NEW z, NEW u, NEW d, NEW k
    PROVE  Tasked(x, z, u, d, k) =
              AWorker(z, x.request, k, d, x.result, x.reply, u, x.ns, x.calls)
  <1> DEFINE a1 == [x EXCEPT !.pc = z]
             a2 == [a1 EXCEPT !.todo = u]
             a3 == [a2 EXCEPT !.depth = d]
             a4 == [a3 EXCEPT !.q = k]
  <1>1. Tasked(x, z, u, d, k) = a4
    BY DEF Tasked
  <1>2. a1 =
           AWorker(z, x.request, x.q, x.depth, x.result, x.reply, x.todo, x.ns, x.calls)
    BY DEF IsWorker, AWorker
  <1> HIDE DEF a1
  <1>3. a2 =
           AWorker(z, x.request, x.q, x.depth, x.result, x.reply, u, x.ns, x.calls)
    BY <1>2 DEF AWorker
  <1> HIDE DEF a2
  <1>4. a3 =
           AWorker(z, x.request, x.q, d, x.result, x.reply, u, x.ns, x.calls)
    BY <1>3 DEF AWorker
  <1> HIDE DEF a3
  <1>5. a4 =
           AWorker(z, x.request, k, d, x.result, x.reply, u, x.ns, x.calls)
    BY <1>4 DEF AWorker
  <1> QED
    BY <1>1, <1>5, Zenon

LEMMA SetRequest ==
    ASSUME NEW x, IsWorker(x), NEW z, NEW r
    PROVE  [x EXCEPT !.pc = z, !.request = r] =
              AWorker(z, r, x.q, x.depth, x.result, x.reply, x.todo, x.ns, x.calls)
  <1> DEFINE a1 == [x EXCEPT !.pc = z]
             a2 == [a1 EXCEPT !.request = r]
  <1>1. [x EXCEPT !.pc = z, !.request = r] = a2
    OBVIOUS
  <1>2. a1 =
           AWorker(z, x.request, x.q, x.depth, x.result, x.reply, x.todo, x.ns, x.calls)
    BY DEF IsWorker, AWorker
  <1> HIDE DEF a1
  <1>3. a2 =
           AWorker(z, r, x.q, x.depth, x.result, x.reply, x.todo, x.ns, x.calls)
    BY <1>2 DEF AWorker
  <1> QED
    BY <1>1, <1>3, Zenon

LEMMA SetQuestion ==
    ASSUME NEW x, IsWorker(x), NEW z, NEW r, NEW k
    PROVE  [x EXCEPT !.pc = z, !.request = r, !.q = k] =
              AWorker(z, r, k, x.depth, x.result, x.reply, x.todo, x.ns, x.calls)
  <1> DEFINE a1 == [x EXCEPT !.pc = z]
             a2 == [a1 EXCEPT !.request = r]
             a3 == [a2 EXCEPT !.q = k]
  <1>1. [x EXCEPT !.pc = z, !.request = r, !.q = k] = a3
    OBVIOUS
  <1>2. a1 =
           AWorker(z, x.request, x.q, x.depth, x.result, x.reply, x.todo, x.ns, x.calls)
    BY DEF IsWorker, AWorker
  <1> HIDE DEF a1
  <1>3. a2 =
           AWorker(z, r, x.q, x.depth, x.result, x.reply, x.todo, x.ns, x.calls)
    BY <1>2 DEF AWorker
  <1> HIDE DEF a2
  <1>4. a3 =
           AWorker(z, r, k, x.depth, x.result, x.reply, x.todo, x.ns, x.calls)
    BY <1>3 DEF AWorker
  <1> QED
    BY <1>1, <1>4, Zenon

-----------------------------------------------------------------------------
(* Sequences.                                                              *)

LEMMA IsSeqProperties ==
    ASSUME NEW s, IsSeq(s)
    PROVE  \E S : s \in Seq(S) /\ \A x : x \in S <=> \E i \in 1..Len(s) : x = s[i]
  <1> DEFINE n == Len(s)
             S == {s[i] : i \in 1..n}
  <1>1. n \in Nat /\ s = [i \in 1..n |-> s[i]]
    BY DEF IsSeq
  <1> HIDE DEF n
  <1>2. s \in [1..n -> S]
    BY <1>1
  <1> HIDE DEF S
  <1>3. s \in Seq(S)
    BY <1>1, <1>2
  <1>4. \A x : x \in S <=> \E i \in 1..n : x = s[i]
    BY DEF S
  <1> QED
    BY <1>3, <1>4 DEF n

LEMMA SeqIsSeq ==
    ASSUME NEW S, NEW s \in Seq(S)
    PROVE  IsSeq(s) /\ \A i \in 1..Len(s) : s[i] \in S
  BY DEF IsSeq

LEMMA HeadAndTail ==
    ASSUME NEW s, IsSeq(s), s # <<>>
    PROVE  /\ 1 \in 1..Len(s) /\ Head(s) = s[1]
           /\ IsSeq(Tail(s)) /\ Len(Tail(s)) = Len(s) - 1
           /\ \A i \in 1..Len(Tail(s)) : i + 1 \in 1..Len(s) /\ Tail(s)[i] = s[i + 1]
  <1>1. PICK S : s \in Seq(S)
    BY IsSeqProperties
  <1>2. Len(s) \in Nat /\ Len(s) # 0
    BY <1>1
  <1>3. Head(s) = s[1]
    BY <1>1
  <1>4. /\ Tail(s) \in Seq(S) /\ Len(Tail(s)) = Len(s) - 1
        /\ \A i \in 1..Len(Tail(s)) : Tail(s)[i] = s[i + 1]
    BY <1>1, HeadTailProperties
  <1>5. IsSeq(Tail(s))
    BY <1>4, SeqIsSeq
  <1> QED
    BY <1>2, <1>3, <1>4, <1>5

LEMMA Appended ==
    ASSUME NEW s, IsSeq(s), NEW r
    PROVE  /\ IsSeq(Append(s, r)) /\ Len(Append(s, r)) = Len(s) + 1
           /\ \A i \in 1..Len(s) : Append(s, r)[i] = s[i]
           /\ Append(s, r)[Len(s) + 1] = r
  <1>1. PICK S : s \in Seq(S)
    BY IsSeqProperties
  <1> DEFINE T == S \cup {r}
  <1>2. s \in Seq(T) /\ r \in T
    BY <1>1, SeqMonotonic
  <1> HIDE DEF T
  <1>3. /\ Append(s, r) \in Seq(T) /\ Len(Append(s, r)) = Len(s) + 1
        /\ \A i \in 1..Len(s) : Append(s, r)[i] = s[i]
        /\ Append(s, r)[Len(s) + 1] = r
    BY <1>2, AppendProperties
  <1> QED
    BY <1>3, SeqIsSeq

LEMMA Prepended ==
    ASSUME NEW s, IsSeq(s), NEW r
    PROVE  /\ IsSeq(<<r>> \o s) /\ Len(<<r>> \o s) = Len(s) + 1 /\ (<<r>> \o s)[1] = r
           /\ \A i \in 1..Len(s) : (<<r>> \o s)[i + 1] = s[i]
  <1>1. PICK S : s \in Seq(S)
    BY IsSeqProperties
  <1> DEFINE T == S \cup {r}
  <1>2. s \in Seq(T) /\ <<r>> \in Seq(T) /\ Len(<<r>>) = 1 /\ <<r>>[1] = r /\ Len(s) \in Nat
    BY <1>1, SeqMonotonic
  <1> HIDE DEF T
  <1>3. /\ <<r>> \o s \in Seq(T) /\ Len(<<r>> \o s) = 1 + Len(s)
        /\ \A i \in 1..(1 + Len(s)) : (<<r>> \o s)[i] = IF i <= 1 THEN <<r>>[i] ELSE s[i - 1]
    BY <1>2, ConcatProperties
  <1>4. IsSeq(<<r>> \o s)
    BY <1>3, SeqIsSeq
  <1>5. (<<r>> \o s)[1] = r
    BY <1>2, <1>3
  <1>6. ASSUME NEW i \in 1..Len(s) PROVE (<<r>> \o s)[i + 1] = s[i]
    <2>1. i + 1 \in 1..(1 + Len(s)) /\ ~ (i + 1 <= 1) /\ (i + 1) - 1 = i
      BY <1>2
    <2> QED
      BY <2>1, <1>3
  <1> QED
    BY <1>2, <1>3, <1>4, <1>5, <1>6

LEMMA RequestsTaken ==
    ASSUME NEW s, RequestsOK(s), s # <<>>
    PROVE  RequestOK(Head(s)) /\ RequestsOK(Tail(s))
  BY HeadAndTail DEF RequestsOK

LEMMA RequestAdded ==
    ASSUME NEW s, RequestsOK(s), NEW r, RequestOK(r)
    PROVE  RequestsOK(Append(s, r))
  <1>1. /\ IsSeq(Append(s, r)) /\ Len(Append(s, r)) = Len(s) + 1 /\ Len(s) \in Nat
        /\ \A i \in 1..Len(s) : Append(s, r)[i] = s[i]
        /\ Append(s, r)[Len(s) + 1] = r
    BY Appended DEF RequestsOK, IsSeq
  <1>2. ASSUME NEW i \in 1..(Len(s) + 1) PROVE RequestOK(Append(s, r)[i])
    <2>1. i \in 1..Len(s) \/ i = Len(s) + 1
      BY <1>1
    <2> QED
      BY <2>1, <1>1 DEF RequestsOK
  <1> QED
    BY <1>1, <1>2 DEF RequestsOK

-----------------------------------------------------------------------------
(* The frame of a worker's step.                                           *)

LEMMA QueuesStay ==
    ASSUME QueuesOK, NEW w \in Workers, NEW y, DOMAIN worker = Workers, Set(w, y),
           y.pc # "dead", UNCHANGED <<sends, queue, streams>>
    PROVE  QueuesOK'
  <1>1. \A u \in Workers : worker'[u] = IF u = w THEN y ELSE worker[u]
    BY DEF Set
  <1>2. \A u \in TcpWorkers : ~ (worker'[u].pc # "dead") => ~ (worker[u].pc # "dead")
    BY <1>1 DEF Workers
  <1> QED
    BY <1>2 DEF QueuesOK, Alive

LEMMA IdsStay ==
    ASSUME IdsOK, clock \in Nat, clock' \in Nat, clock <= clock', UNCHANGED working_ids
    PROVE  IdsOK'
  <1>1. ASSUME NEW i \in 1..Len(working_ids) PROVE working_ids[i].time \in 0..clock'
    <2>1. working_ids[i].time \in 0..clock
      BY DEF IdsOK
    <2> QED
      BY <2>1
  <1> QED
    BY <1>1 DEF IdsOK

LEMMA StepOK ==
    ASSUME SInv, NEW w \in Workers, NEW y, Set(w, y), y.pc # "dead",
           clock' \in 0..MaxTime, clock <= clock',
           UNCHANGED <<strategy, version, sends, working_ids, queue, streams>>,
           Serving(clock', version, strategy, cache', worker),
           WorkFields(y, clock', version), WorkPoint(y, version, strategy),
           HandOK(y, clock', strategy, cache', [worker EXCEPT ![w] = y]),
           \A k : Waiting(y, k) /\ ~Waiting(worker[w], k) => ~IsFresh(cache', k, clock')
    PROVE  SInv'
  <1>1. clock \in Nat /\ clock' \in Nat /\ version \in Nat /\ DOMAIN worker = Workers
    BY DnsServerAssumption, WorldAssumption DEF SInv, Serving
  <1>2. Serving(clock', version, strategy, cache', [worker EXCEPT ![w] = y])
    BY <1>1, WorkerMoves
  <1>3. Serving(clock', version', strategy', cache', worker')
    BY <1>2 DEF Set
  <1>4. IdsOK'
    BY <1>1, IdsStay DEF SInv
  <1>5. QueuesOK'
    BY <1>1, QueuesStay DEF SInv
  <1> QED
    BY <1>3, <1>4, <1>5 DEF SInv

LEMMA PlainStepOK ==
    ASSUME SInv, NEW w \in Workers, NEW y, Set(w, y), UNCHANGED shared,
           y.pc \notin {"cname", "filter", "perform", "store", "dead"},
           Serving(clock, version, strategy, cache', worker),
           WorkFields(y, clock, version), WorkPoint(y, version, strategy)
    PROVE  SInv'
  <1>1. /\ clock' = clock /\ clock' \in 0..MaxTime /\ clock <= clock'
        /\ UNCHANGED <<strategy, version, sends, working_ids, queue, streams>>
    BY DnsServerAssumption DEF SInv, shared
  <1>2. HandOK(y, clock', strategy, cache', [worker EXCEPT ![w] = y])
    BY DEF HandOK
  <1>3. \A k : ~Waiting(y, k)
    BY DEF Waiting
  <1>4. /\ Serving(clock', version, strategy, cache', worker)
        /\ WorkFields(y, clock', version) /\ y.pc # "dead"
    BY <1>1
  <1> QED
    BY <1>1, <1>2, <1>3, <1>4, StepOK

(* What is known of a worker.                                              *)
LEMMA WorkerKnown ==
    ASSUME SInv, NEW w \in Workers
    PROVE  /\ WorkFields(worker[w], clock, version) /\ WorkPoint(worker[w], version, strategy)
           /\ HandOK(worker[w], clock, strategy, cache, worker)
           /\ IsWorker(worker[w]) /\ clock \in Nat /\ version \in Nat
           /\ version \in 1..Len(Versions)
           /\ Serving(clock, version, strategy, cache, worker)
  BY DnsServerAssumption, WorldAssumption DEF SInv, Serving, WorkFields

-----------------------------------------------------------------------------
(* Taking requests.                                                        *)

LEMMA IdleOK ==
    ASSUME NEW t, NEW v, NEW s
    PROVE  /\ IsWorker(Idle) /\ WorkFields(Idle, t, v) /\ WorkPoint(Idle, v, s)
           /\ Idle.pc = "recv" /\ Idle.calls = <<>> /\ Idle.depth = 0 /\ Idle.todo = {}
           /\ Idle.result = NoPacket /\ Idle.reply = NoReply
  <1>1. /\ IsWorker(Idle) /\ Idle.pc = "recv" /\ Idle.calls = <<>> /\ Idle.depth = 0
        /\ Idle.todo = {} /\ Idle.result = NoPacket /\ Idle.reply = NoReply
    BY DEF Idle, AWorker, IsWorker
  <1>2. ReplyOK(NoReply)
    BY DEF ReplyOK, NoReply, RESCODES
  <1>3. DepthOK(0) /\ TodoOK({}) /\ ResultOK(NoPacket, t, v)
    BY DnsServerAssumption DEF DepthOK, TodoOK, ResultOK
  <1>4. CallsOK(<<>>, t, v)
    BY DEF CallsOK, IsSeq
  <1>5. WorkFields(Idle, t, v)
    BY <1>1, <1>2, <1>3, <1>4 DEF WorkFields
  <1>6. WorkPoint(Idle, v, s)
    BY <1>1 DEF WorkPoint
  <1> QED
    BY <1>1, <1>5, <1>6

LEMMA SetCode ==
    ASSUME NEW a, NEW b, NEW c, NEW code
    PROVE  [[rescode |-> a, authoritative_answer |-> b, answers |-> c] EXCEPT !.rescode = code] =
              [rescode |-> code, authoritative_answer |-> b, answers |-> c]
  OBVIOUS

LEMMA ReplyOfIdle ==
    ASSUME NEW code \in RESCODES
    PROVE  ReplyOK([NoReply EXCEPT !.rescode = code])
  <1> DEFINE reply == [NoReply EXCEPT !.rescode = code]
  <1>1. reply = [rescode |-> code, authoritative_answer |-> FALSE, answers |-> {}]
    BY SetCode, Zenon DEF NoReply
  <1> HIDE DEF reply
  <1>2. ReplyOK(reply)
    BY <1>1 DEF ReplyOK
  <1> QED
    BY <1>2 DEF reply

LEMMA BegunOK ==
    ASSUME NEW r, RequestOK(r), NEW t, NEW v, NEW s
    PROVE  /\ WorkFields(Begun(r), t, v) /\ WorkPoint(Begun(r), v, s)
           /\ Begun(r).pc \in {"send", "resolve"}
  <1> DEFINE Refused(code) == [Idle EXCEPT !.pc = "send", !.request = r, !.reply.rescode = code]
             k == Question(r.name, r.type, r.recursion_desired)
             asked == [Idle EXCEPT !.pc = "resolve", !.request = r, !.q = k]
             OK(y) == /\ WorkFields(y, t, v) /\ WorkPoint(y, v, s)
                      /\ y.pc \in {"send", "resolve"}
  <1>1. /\ IsWorker(Idle) /\ WorkFields(Idle, t, v) /\ WorkPoint(Idle, v, s)
        /\ Idle.pc = "recv" /\ Idle.calls = <<>> /\ Idle.depth = 0 /\ Idle.todo = {}
        /\ Idle.result = NoPacket /\ Idle.reply = NoReply
    BY IdleOK
  <1>2. ASSUME NEW code \in RESCODES PROVE OK(Refused(code))
    <2> DEFINE a == [Idle EXCEPT !.pc = "send", !.request = r]
               y == [a EXCEPT !.reply.rescode = code]
               reply == [NoReply EXCEPT !.rescode = code]
    <2>1. Refused(code) = y
      OBVIOUS
    <2>2. a = AWorker("send", r, Idle.q, Idle.depth, Idle.result, Idle.reply, Idle.todo, Idle.ns, Idle.calls)
      BY <1>1, SetRequest, Zenon
    <2> HIDE DEF a
    <2>3. a.reply = NoReply
      BY <2>2, <1>1, WorkerFields
    <2>4. y = [a EXCEPT !.reply = reply]
      BY <2>3
    <2>5. ReplyOK(reply)
      BY ReplyOfIdle, Zenon
    <2> HIDE DEF y, reply
    <2>6. y = AWorker("send", r, Idle.q, Idle.depth, Idle.result, reply, Idle.todo, Idle.ns, Idle.calls)
      BY <2>2, <2>4 DEF AWorker
    <2>7. /\ IsWorker(y) /\ y.pc = "send" /\ y.reply = reply /\ y.depth = Idle.depth
          /\ y.result = Idle.result /\ y.todo = Idle.todo /\ y.calls = Idle.calls
      BY <2>6, WorkerFields
    <2>8. OK(y)
      BY <2>5, <2>7, <1>1 DEF WorkFields, WorkPoint
    <2> QED
      BY <2>1, <2>8, Zenon
  <1>3. ASSUME IsName(r.name) PROVE OK(asked)
    <2>1. asked = AWorker("resolve", r, k, Idle.depth, Idle.result, Idle.reply, Idle.todo, Idle.ns, Idle.calls)
      BY <1>1, SetQuestion, Zenon
    <2>2. k.name = r.name
      BY DEF Question
    <2> HIDE DEF asked, k
    <2>3. /\ IsWorker(asked) /\ asked.pc = "resolve" /\ asked.reply = Idle.reply
          /\ asked.depth = Idle.depth /\ asked.q = k
          /\ asked.result = Idle.result /\ asked.todo = Idle.todo /\ asked.calls = Idle.calls
      BY <2>1, WorkerFields
    <2> QED
      BY <2>2, <2>3, <1>1, <1>3 DEF WorkFields, WorkPoint
  <1>4. Begun(r) = IF r.recursion_desired /\ ~ALLOW_RECURSIVE THEN Refused("REFUSED")
                   ELSE IF r.name = NoName THEN Refused("FORMERR") ELSE asked
    BY Zenon DEF Begun
  <1>5. "REFUSED" \in RESCODES /\ "FORMERR" \in RESCODES
    BY DEF RESCODES
  <1> HIDE DEF Refused, asked
  <1> QED
    BY <1>2, <1>3, <1>4, <1>5 DEF RequestOK

LEMMA ReadQueryOK ==
    ASSUME SInv, NEW w \in Workers, ReadQuery(w)
    PROVE  SInv'
  <1> DEFINE y == Begun(worker[w].request)
  <1>1. RequestOK(worker[w].request)
    BY WorkerKnown DEF ReadQuery, WorkPoint
  <1>2. /\ WorkFields(y, clock, version) /\ WorkPoint(y, version, strategy)
        /\ y.pc \in {"send", "resolve"}
    BY <1>1, BegunOK
  <1>3. Set(w, y) /\ UNCHANGED shared /\ cache' = cache
    BY DEF ReadQuery
  <1> HIDE DEF y
  <1> QED
    BY <1>2, <1>3, WorkerKnown, PlainStepOK

LEMMA TakeUdpOK ==
    ASSUME SInv, NEW w \in Workers, TakeUdp(w)
    PROVE  SInv'
  <1> DEFINE y == Begun(Head(queue))
  <1>1. RequestOK(Head(queue)) /\ RequestsOK(Tail(queue))
    BY RequestsTaken DEF TakeUdp, SInv, QueuesOK
  <1>2. /\ WorkFields(y, clock, version) /\ WorkPoint(y, version, strategy)
        /\ y.pc \in {"send", "resolve"}
    BY <1>1, BegunOK
  <1>3. /\ Set(w, y) /\ queue' = Tail(queue)
        /\ UNCHANGED <<clock, strategy, cache, version, sends, working_ids, streams>>
    BY DEF TakeUdp
  <1> HIDE DEF y
  <1>4. Serving(clock, version, strategy, cache, [worker EXCEPT ![w] = y])
    BY <1>2, WorkerKnown, WorkerMovesOn
  <1>5. Serving(clock', version', strategy', cache', worker')
    BY <1>3, <1>4 DEF Set
  <1>6. QueuesOK'
    <2>1. \A u \in Workers : worker'[u] = IF u = w THEN y ELSE worker[u]
      BY <1>3, WorkerKnown DEF Set, Serving
    <2>2. \A u \in TcpWorkers : ~ (worker'[u].pc # "dead") => ~ (worker[u].pc # "dead")
      BY <2>1, <1>2 DEF Workers
    <2> QED
      BY <2>2, <1>1, <1>3 DEF QueuesOK, Alive, SInv
  <1>7. IdsOK'
    BY <1>3, WorkerKnown, IdsStay DEF SInv
  <1> QED
    BY <1>3, <1>5, <1>6, <1>7 DEF SInv

LEMMA TakeTcpOK ==
    ASSUME SInv, NEW w \in TcpWorkers, TakeTcp(w)
    PROVE  SInv'
  <1> DEFINE y == [Idle EXCEPT !.pc = "read", !.request = Head(streams[w])]
  <1>0. w \in Workers
    BY DEF Workers
  <1>1. RequestOK(Head(streams[w])) /\ RequestsOK(Tail(streams[w]))
    BY RequestsTaken DEF TakeTcp, SInv, QueuesOK
  <1>2. /\ WorkFields(y, clock, version) /\ WorkPoint(y, version, strategy) /\ y.pc = "read"
    <2>1. /\ IsWorker(Idle) /\ WorkFields(Idle, clock, version) /\ Idle.calls = <<>>
      BY IdleOK
    <2>2. y = AWorker("read", Head(streams[w]), Idle.q, Idle.depth, Idle.result, Idle.reply,
                      Idle.todo, Idle.ns, Idle.calls)
      BY <2>1, SetRequest, Zenon
    <2> HIDE DEF y
    <2>3. /\ IsWorker(y) /\ y.pc = "read" /\ y.reply = Idle.reply /\ y.request = Head(streams[w])
          /\ y.depth = Idle.depth
          /\ y.result = Idle.result /\ y.todo = Idle.todo /\ y.calls = Idle.calls
      BY <2>2, WorkerFields
    <2> QED
      BY <2>1, <2>3, <1>1 DEF WorkFields, WorkPoint
  <1>3. /\ Set(w, y) /\ streams' = [streams EXCEPT ![w] = Tail(@)]
        /\ UNCHANGED <<clock, strategy, cache, version, sends, working_ids, queue>>
        /\ worker[w].pc = "recv"
    BY Zenon DEF TakeTcp
  <1> HIDE DEF y
  <1>4. Serving(clock, version, strategy, cache, [worker EXCEPT ![w] = y])
    BY <1>0, <1>2, WorkerKnown, WorkerMovesOn
  <1>5. Serving(clock', version', strategy', cache', worker')
    BY <1>3, <1>4 DEF Set
  <1>6. QueuesOK'
    <2>1. \A u \in Workers : worker'[u] = IF u = w THEN y ELSE worker[u]
      BY <1>0, <1>3, WorkerKnown DEF Set, Serving
    <2>2. \A u \in TcpWorkers : worker'[u].pc = "dead" => worker[u].pc = "dead" /\ u # w
      BY <2>1, <1>2 DEF Workers
    <2>3. DOMAIN streams = TcpWorkers
      BY DEF SInv, QueuesOK
    <2>4. /\ DOMAIN streams' = TcpWorkers
          /\ \A u \in TcpWorkers : streams'[u] = IF u = w THEN Tail(streams[w]) ELSE streams[u]
      BY <2>3, <1>3
    <2>5. ASSUME NEW u \in TcpWorkers
          PROVE  RequestsOK(streams'[u]) /\ (worker'[u].pc = "dead" => streams'[u] = <<>>)
      <3>1. RequestsOK(streams[u]) /\ (worker[u].pc = "dead" => streams[u] = <<>>)
        BY DEF SInv, QueuesOK, Alive
      <3> QED
        BY <3>1, <2>2, <2>4, <1>1
    <2>6. (\A r \in DOMAIN sends : RequestOK(r)) /\ RequestsOK(queue)
      BY DEF SInv, QueuesOK
    <2> QED
      BY <2>4, <2>5, <2>6, <1>3 DEF QueuesOK, Alive
  <1>7. IdsOK'
    BY <1>0, <1>3, WorkerKnown, IdsStay DEF SInv
  <1> QED
    BY <1>3, <1>5, <1>6, <1>7 DEF SInv

-----------------------------------------------------------------------------
(* resolve.                                                                *)

(* A worker whose point of work and result alone have changed.             *)
LEMMA MovedOK ==
    ASSUME NEW x, NEW t, NEW v, WorkFields(x, t, v), NEW z, NEW p, ResultOK(p, t, v),
           NEW y, y = AWorker(z, x.request, x.q, x.depth, p, x.reply, x.todo, x.ns, x.calls)
    PROVE  /\ WorkFields(y, t, v) /\ y.pc = z /\ y.result = p /\ y.q = x.q /\ y.calls = x.calls
           /\ y.request = x.request
  <1>1. /\ IsWorker(y) /\ y.pc = z /\ y.request = x.request /\ y.q = x.q /\ y.depth = x.depth
        /\ y.result = p /\ y.reply = x.reply /\ y.todo = x.todo /\ y.calls = x.calls
    BY WorkerFields
  <1> QED
    BY <1>1 DEF WorkFields

LEMMA ReturnedOK ==
    ASSUME SInv, NEW w \in Workers, NEW p, ResultOK(p, clock, version),
           IsName(worker[w].q.name), worker[w].calls # <<>> => strategy = "Recursive"
    PROVE  LET y == Returned(w, p)
           IN  /\ WorkFields(y, clock, version) /\ WorkPoint(y, version, strategy)
               /\ y.pc = "return"
  <1> DEFINE y == Returned(w, p)
             x == worker[w]
  <1>1. y = AWorker("return", x.request, x.q, x.depth, p, x.reply, x.todo, x.ns, x.calls)
    BY WorkerKnown, SetPcResult, Zenon DEF Returned
  <1> HIDE DEF y
  <1>2. /\ WorkFields(y, clock, version) /\ y.pc = "return" /\ y.q = x.q /\ y.calls = x.calls
    BY <1>1, WorkerKnown, MovedOK
  <1>3. WorkPoint(y, version, strategy)
    BY <1>2 DEF WorkPoint
  <1> QED
    BY <1>2, <1>3 DEF y

LEMMA ReturnedStepOK ==
    ASSUME SInv, NEW w \in Workers, NEW p, ResultOK(p, clock, version),
           worker[w].pc \in {"resolve", "perform", "ask", "query"},
           Set(w, Returned(w, p)), UNCHANGED shared,
           Serving(clock, version, strategy, cache', worker)
    PROVE  SInv'
  <1> DEFINE y == Returned(w, p)
  <1>1. IsName(worker[w].q.name) /\ (worker[w].calls # <<>> => strategy = "Recursive")
    BY WorkerKnown DEF WorkPoint
  <1>2. /\ WorkFields(y, clock, version) /\ WorkPoint(y, version, strategy) /\ y.pc = "return"
    BY <1>1, ReturnedOK
  <1>3. Set(w, y)
    OBVIOUS
  <1> HIDE DEF y
  <1> QED
    BY <1>2, <1>3, PlainStepOK

LEMMA AnswerEarlyOK ==
    ASSUME SInv, NEW w \in Workers, AnswerEarly(w)
    PROVE  SInv'
  <1> DEFINE q == worker[w].q
             p == EarlyAnswer(q)
  <1>1. ResultOK(p, clock, version)
    <2>1. /\ query(q.name, q.type, clock) = NoPacket
                \/ NewPacket(query(q.name, q.type, clock), clock, version)
      BY WorkerKnown, QueryOK
    <2>2. "NOTIMP" \in RESCODES /\ "REFUSED" \in RESCODES
      BY DEF RESCODES
    <2>3. /\ NewPacket(EmptyPacket("NOTIMP"), clock, version)
          /\ NewPacket(EmptyPacket("REFUSED"), clock, version)
      BY <2>2, EmptyPacketOK
    <2> HIDE DEF q
    <2> QED
      BY <2>1, <2>3 DEF EarlyAnswer, NewPacket, ResultOK
  <1>2. /\ Set(w, Returned(w, p)) /\ UNCHANGED shared /\ cache' = cache
        /\ worker[w].pc = "resolve"
    BY DEF AnswerEarly
  <1> HIDE DEF p
  <1> QED
    BY <1>1, <1>2, WorkerKnown, ReturnedStepOK

(* Only who has gone past the local zones looks into the cache.            *)
LEMMA PastZones ==
    ASSUME NEW q, clock \in Nat, EarlyAnswer(q) = NoPacket
    PROVE  ZonesFor(q.name) = {}
  <1>1. EmptyPacket("NOTIMP") # NoPacket
    BY DEF EmptyPacket, DnsPacket, NoPacket
  <1>2. query(q.name, q.type, clock) = NoPacket
    BY <1>1 DEF EarlyAnswer
  <1> QED
    BY <1>2, QueryOK

(* The clock may move during a lookup.                                     *)
LEMMA MomentsOK ==
    ASSUME SInv, clock' \in Moments
    PROVE  /\ clock' \in 0..MaxTime /\ clock <= clock' /\ clock' \in Nat
           /\ Serving(clock', version, strategy, cache, worker)
  <1>1. clock \in Nat /\ clock \in 0..MaxTime /\ version \in Nat /\ MaxTime \in Nat
        /\ Serving(clock, version, strategy, cache, worker)
    BY DnsServerAssumption, WorldAssumption DEF SInv
  <1>2. CASE clock' = clock
    BY <1>1, <1>2
  <1>3. CASE clock' = clock + 1 /\ MayTick
    <2>1. Serving(clock + 1, version, strategy, cache, worker)
      BY <1>1, <1>3, TimePasses DEF MayTick
    <2>2. clock + 1 \in 0..MaxTime
      BY <1>1, <1>3 DEF MayTick
    <2> QED
      BY <1>1, <1>3, <2>1, <2>2
  <1> QED
    BY <1>2, <1>3 DEF Moments

LEMMA HitOK ==
    ASSUME SInv, NEW w \in Workers, NEW type, Hit(w, type, "return"),
           worker[w].pc \in {"resolve", "cname"}
    PROVE  SInv'
  <1> DEFINE x == worker[w]
             p == lookup(cache, x.q.name, type, clock, clock')
             y == [x EXCEPT !.pc = "return", !.result = p]
  <1>1. /\ clock' \in Moments /\ Set(w, y)
        /\ UNCHANGED <<strategy, cache, version, sends, working_ids, queue, streams>>
    BY Zenon DEF Hit
  <1>2. /\ clock' \in 0..MaxTime /\ clock <= clock' /\ clock' \in Nat
        /\ Serving(clock', version, strategy, cache, worker)
    BY <1>1, MomentsOK
  <1>3. ResultOK(p, clock', version)
    BY <1>2, LookupOK DEF Serving
  <1>4. WorkFields(x, clock', version) /\ WorkPoint(x, version, strategy) /\ IsWorker(x)
    BY <1>2 DEF Serving, WorkFields
  <1>5. y = AWorker("return", x.request, x.q, x.depth, p, x.reply, x.todo, x.ns, x.calls)
    BY <1>4, SetPcResult, Zenon
  <1> HIDE DEF y, p
  <1>6. WorkFields(y, clock', version) /\ y.pc = "return" /\ y.q = x.q /\ y.calls = x.calls
    BY <1>3, <1>4, <1>5, MovedOK
  <1>7. WorkPoint(y, version, strategy)
    BY <1>4, <1>6 DEF WorkPoint
  <1>8. \A k, V : ~Waiting(y, k) /\ HandOK(y, clock', strategy, cache', V)
    BY <1>6 DEF Waiting, HandOK
  <1>9. Serving(clock', version, strategy, cache', worker) /\ y.pc # "dead"
        /\ UNCHANGED <<strategy, version, sends, working_ids, queue, streams>>
    BY <1>1, <1>2, <1>6
  <1> QED
    BY <1>1, <1>2, <1>6, <1>7, <1>8, <1>9, StepOK

(* A worker moves with its result and has nothing to store.                *)
LEMMA MissOK ==
    ASSUME SInv, NEW w \in Workers, NEW type, NEW pc, Miss(w, type, pc),
           \/ /\ worker[w].pc = "resolve" /\ pc \in {"cname", "filter"}
              /\ type = worker[w].q.type /\ ZonesFor(worker[w].q.name) = {}
           \/ worker[w].pc = "cname" /\ pc = "filter"
           \/ worker[w].pc = "perform" /\ pc = "ask"
    PROVE  SInv'
  <1> DEFINE x == worker[w]
             y == [x EXCEPT !.pc = pc]
  <1>1. Set(w, y) /\ UNCHANGED shared /\ cache' = cache
        /\ lookup(cache, x.q.name, type, clock, clock) = NoPacket
    BY Zenon DEF Miss
  <1>2. /\ WorkFields(x, clock, version) /\ WorkPoint(x, version, strategy) /\ IsWorker(x)
        /\ clock \in Nat /\ Serving(clock, version, strategy, cache, worker)
    BY WorkerKnown
  <1>3. y = AWorker(pc, x.request, x.q, x.depth, x.result, x.reply, x.todo, x.ns, x.calls)
    BY <1>2, SetPc, Zenon
  <1>4. ResultOK(x.result, clock, version)
    BY <1>2 DEF WorkFields
  <1> HIDE DEF y
  <1>5. WorkFields(y, clock, version) /\ y.pc = pc /\ y.q = x.q /\ y.calls = x.calls
    BY <1>2, <1>3, <1>4, MovedOK
  <1>6. WorkPoint(y, version, strategy)
    BY <1>2, <1>5 DEF WorkPoint
  <1>7. \A V : HandOK(y, clock, strategy, cache, V)
    BY <1>5 DEF HandOK
  <1>8. ASSUME NEW k, Waiting(y, k), ~Waiting(x, k) PROVE ~IsFresh(cache, k, clock)
    <2>1. x.pc = "resolve" /\ type = x.q.type /\ k[1] = x.q.name /\ k[2] = x.q.type
      BY <1>5, <1>8 DEF Waiting
    <2>2. ~IsFresh(cache, <<x.q.name, x.q.type>>, clock)
      BY <1>1, <2>1, MissIsStale
    <2>3. ASSUME IsFresh(cache, k, clock) PROVE k = <<k[1], k[2]>>
      <3>1. PICK e \in cache[k].entries : TRUE
        BY <2>3 DEF IsFresh
      <3>2. EntryOK(k, e, clock, version, worker)
        BY <2>3, <1>2 DEF IsFresh, Serving, CacheOK, CachedSetOK
      <3> QED
        BY <3>2 DEF EntryOK, Key
    <2> QED
      BY <2>1, <2>2, <2>3
  <1>9. /\ clock' = clock /\ cache' = cache /\ clock' \in 0..MaxTime /\ clock <= clock'
        /\ UNCHANGED <<strategy, version, sends, working_ids, queue, streams>>
    BY <1>1, <1>2 DEF SInv, shared
  <1>10. /\ Serving(clock', version, strategy, cache', worker) /\ y.pc # "dead"
         /\ WorkFields(y, clock', version)
         /\ HandOK(y, clock', strategy, cache', [worker EXCEPT ![w] = y])
         /\ \A k : Waiting(y, k) /\ ~Waiting(worker[w], k) => ~IsFresh(cache', k, clock')
    BY <1>2, <1>5, <1>7, <1>8, <1>9
  <1> QED
    BY <1>1, <1>6, <1>9, <1>10, StepOK

LEMMA LookUpOK ==
    ASSUME SInv, NEW w \in Workers, LookUp(w)
    PROVE  SInv'
  <1> DEFINE next == IF worker[w].q.type \in {"A", "AAAA"} THEN "cname" ELSE "filter"
  <1>1. worker[w].pc = "resolve" /\ EarlyAnswer(worker[w].q) = NoPacket
    BY DEF LookUp
  <1>2. ZonesFor(worker[w].q.name) = {}
    BY <1>1, WorkerKnown, PastZones
  <1>3. next \in {"cname", "filter"}
    OBVIOUS
  <1>4. Hit(w, worker[w].q.type, "return") \/ Miss(w, worker[w].q.type, next)
    BY DEF LookUp
  <1> HIDE DEF next
  <1> QED
    BY <1>1, <1>2, <1>3, <1>4, HitOK, MissOK

LEMMA LookUpCnameOK ==
    ASSUME SInv, NEW w \in Workers, LookUpCname(w)
    PROVE  SInv'
  BY HitOK, MissOK DEF LookUpCname

(* The second look: what it finds will be stored again.                    *)
LEMMA LookUpAgainOK ==
    ASSUME SInv, NEW w \in Workers, LookUpAgain(w)
    PROVE  SInv'
  <1> DEFINE x == worker[w]
             p == lookup(cache, x.q.name, x.q.type, clock, clock')
             y == [x EXCEPT !.pc = "store", !.result = p]
  <1>1. x.pc = "perform" /\ strategy = "Forward"
    BY DEF LookUpAgain
  <1>2. CASE Miss(w, x.q.type, "ask")
    BY <1>1, <1>2, MissOK
  <1>3. CASE Hit(w, x.q.type, "store")
    <2>1. /\ clock' \in Moments /\ Set(w, y)
          /\ UNCHANGED <<strategy, cache, version, sends, working_ids, queue, streams>>
          /\ lookup(cache, x.q.name, x.q.type, clock, clock) # NoPacket
      BY <1>3, Zenon DEF Hit
    <2>2. /\ clock' \in 0..MaxTime /\ clock <= clock' /\ clock' \in Nat /\ version \in Nat
          /\ Serving(clock', version, strategy, cache, worker)
      BY <2>1, MomentsOK, WorkerKnown
    <2>3. ResultOK(p, clock', version)
      BY <2>2, LookupOK DEF Serving
    <2>4. p # NoPacket
      BY <2>1, FoundLater
    <2>5. WorkFields(x, clock', version) /\ WorkPoint(x, version, strategy) /\ IsWorker(x)
      BY <2>2 DEF Serving, WorkFields
    <2>6. y = AWorker("store", x.request, x.q, x.depth, p, x.reply, x.todo, x.ns, x.calls)
      BY <2>5, SetPcResult, Zenon
    <2>7. p = lookup(cache, x.q.name, x.q.type, clock, clock')
      OBVIOUS
    <2> HIDE DEF y, p
    <2>8. WorkFields(y, clock', version) /\ y.pc = "store" /\ y.q = x.q /\ y.calls = x.calls
          /\ y.result = p
      BY <2>3, <2>5, <2>6, MovedOK
    <2>9. WorkPoint(y, version, strategy)
      BY <1>1, <2>5, <2>8 DEF WorkPoint
    <2>10. HandOK(y, clock', "Forward", cache, [worker EXCEPT ![w] = y])
      <3>1. y.result = lookup(cache, y.q.name, y.q.type, clock, clock') /\ y.result # NoPacket
        BY <2>4, <2>7, <2>8
      <3>2. Serving(clock', version, "Forward", cache, worker)
        BY <2>2, <1>1
      <3> QED
        BY <3>1, <3>2, <1>1, <2>2, <2>8, SecondLookOK
    <2>11. \A k : ~Waiting(y, k)
      BY <2>8 DEF Waiting
    <2>12. /\ Serving(clock', version, strategy, cache', worker) /\ y.pc # "dead"
           /\ HandOK(y, clock', strategy, cache', [worker EXCEPT ![w] = y])
           /\ UNCHANGED <<strategy, version, sends, working_ids, queue, streams>>
      BY <1>1, <2>1, <2>2, <2>8, <2>10
    <2> QED
      BY <2>1, <2>2, <2>8, <2>9, <2>11, <2>12, StepOK
  <1> QED
    BY <1>2, <1>3 DEF LookUpAgain

(* A new packet in hand.                                                   *)
LEMMA InHandOK ==
    ASSUME SInv, NEW w \in Workers, NEW y, Set(w, y), UNCHANGED <<shared, cache>>,
           WorkFields(y, clock, version), y.q = worker[w].q, y.calls = worker[w].calls,
           worker[w].pc \in {"filter", "ask"}, y.pc = "store", NewPacket(y.result, clock, version)
    PROVE  SInv'
  <1>1. \A V : HandOK(y, clock, strategy, cache, V)
    BY DEF HandOK, InHand, NewPacket, Now
  <1>2. WorkPoint(y, version, strategy)
    BY WorkerKnown DEF WorkPoint
  <1>3. /\ clock' = clock /\ cache' = cache /\ clock' \in 0..MaxTime /\ clock <= clock'
        /\ UNCHANGED <<strategy, version, sends, working_ids, queue, streams>>
    BY WorkerKnown DEF SInv, shared
  <1>4. \A k : ~Waiting(y, k)
    BY DEF Waiting
  <1>5. /\ Serving(clock', version, strategy, cache', worker) /\ y.pc # "dead"
        /\ WorkFields(y, clock', version)
        /\ HandOK(y, clock', strategy, cache', [worker EXCEPT ![w] = y])
    BY <1>1, <1>3, WorkerKnown
  <1> QED
    BY <1>2, <1>3, <1>4, <1>5, StepOK

LEMMA FilterOK ==
    ASSUME SInv, NEW w \in Workers, Filter(w)
    PROVE  SInv'
  <1> DEFINE x == worker[w]
  <1>1. PICK p \in filtered(Domains, x.q.name, x.q.type, clock) :
           Set(w, [x EXCEPT !.result = p, !.pc = IF p = NoPacket THEN "perform" ELSE "store"])
    BY Zenon DEF Filter
  <1> DEFINE z == IF p = NoPacket THEN "perform" ELSE "store"
             y == [x EXCEPT !.result = p, !.pc = z]
  <1>2. Set(w, y) /\ UNCHANGED <<shared, cache>> /\ x.pc = "filter"
    BY <1>1, Zenon DEF Filter
  <1>3. /\ WorkFields(x, clock, version) /\ WorkPoint(x, version, strategy) /\ IsWorker(x)
        /\ clock \in Nat /\ Serving(clock, version, strategy, cache, worker)
        /\ version \in 1..Len(Versions)
    BY WorkerKnown
  <1>4. IsName(x.q.name) /\ ZonesFor(x.q.name) = {}
    BY <1>2, <1>3 DEF WorkPoint
  <1>5. (p = NoPacket /\ Vetted(x.q.name, version)) \/ NewPacket(p, clock, version)
    BY <1>3, <1>4, FilteredOK DEF Domains
  <1>6. ResultOK(p, clock, version)
    BY <1>5 DEF NewPacket, ResultOK
  <1>7. y = AWorker(z, x.request, x.q, x.depth, p, x.reply, x.todo, x.ns, x.calls)
    BY <1>3, SetResultPc, Zenon
  <1>71. (p = NoPacket => z = "perform") /\ (p # NoPacket => z = "store")
    OBVIOUS
  <1> HIDE DEF y, z
  <1>8. /\ WorkFields(y, clock, version) /\ y.pc = z /\ y.result = p
        /\ y.q = x.q /\ y.calls = x.calls
    <2>1. WorkFields(x, clock, version)
      BY <1>3
    <2> HIDE DEF x
    <2> QED
      BY <2>1, <1>6, <1>7, MovedOK
  <1>9. CASE p # NoPacket
    BY <1>2, <1>5, <1>71, <1>8, <1>9, InHandOK
  <1>10. CASE p = NoPacket
    <2>1. y.pc = "perform" /\ Vetted(y.q.name, version)
      BY <1>5, <1>71, <1>8, <1>10 DEF NewPacket
    <2>2. WorkPoint(y, version, strategy)
      BY <1>2, <1>3, <1>8, <2>1 DEF WorkPoint
    <2>3. \A k : Waiting(y, k) => Waiting(x, k)
      BY <1>2, <1>8, <2>1 DEF Waiting
    <2>4. /\ clock' = clock /\ cache' = cache /\ clock' \in 0..MaxTime /\ clock <= clock'
          /\ UNCHANGED <<strategy, version, sends, working_ids, queue, streams>>
      BY <1>2, <1>3 DEF SInv, shared
    <2>5. /\ Serving(clock', version, strategy, cache', worker) /\ y.pc # "dead"
          /\ WorkFields(y, clock', version)
          /\ HandOK(y, clock', strategy, cache', [worker EXCEPT ![w] = y])
      BY <1>3, <1>8, <2>1, <2>4 DEF HandOK
    <2> QED
      BY <1>2, <2>2, <2>3, <2>4, <2>5, StepOK
  <1> QED
    BY <1>9, <1>10

LEMMA AskOK ==
    ASSUME SInv, NEW w \in Workers, Ask(w)
    PROVE  SInv'
  <1> DEFINE x == worker[w]
  <1>0. PICK u \in Upstreams : \E p \in Asked(u, x.q.name, x.q.type, clock) :
           Set(w, [x EXCEPT !.pc = "store", !.result = p])
    BY Zenon DEF Ask
  <1>1. PICK p \in Asked(u, x.q.name, x.q.type, clock) :
           Set(w, [x EXCEPT !.pc = "store", !.result = p])
    BY <1>0, Zenon
  <1> DEFINE y == [x EXCEPT !.pc = "store", !.result = p]
  <1>2. Set(w, y) /\ UNCHANGED <<shared, cache>> /\ x.pc = "ask"
    BY <1>1, Zenon DEF Ask
  <1>3. /\ WorkFields(x, clock, version) /\ WorkPoint(x, version, strategy) /\ IsWorker(x)
        /\ clock \in Nat
    BY WorkerKnown
  <1>4. NewPacket(p, clock, version)
    BY <1>2, <1>3, AskedOK DEF WorkPoint, TakenPacket
  <1>5. ResultOK(p, clock, version)
    BY <1>4 DEF NewPacket, ResultOK
  <1>6. y = AWorker("store", x.request, x.q, x.depth, p, x.reply, x.todo, x.ns, x.calls)
    BY <1>3, SetPcResult, Zenon
  <1> HIDE DEF y
  <1>7. /\ WorkFields(y, clock, version) /\ y.pc = "store" /\ y.result = p
        /\ y.q = x.q /\ y.calls = x.calls
    BY <1>3, <1>5, <1>6, MovedOK
  <1> QED
    BY <1>2, <1>4, <1>7, InHandOK

LEMMA AskFailsOK ==
    ASSUME SInv, NEW w \in Workers, AskFails(w)
    PROVE  SInv'
  <1>1. /\ Set(w, Returned(w, NoPacket)) /\ UNCHANGED shared /\ cache' = cache
        /\ worker[w].pc \in {"resolve", "perform", "ask", "query"}
    BY DEF AskFails
  <1>2. ResultOK(NoPacket, clock, version)
    BY DEF ResultOK
  <1> QED
    BY <1>1, <1>2, WorkerKnown, ReturnedStepOK

LEMMA StoreOK ==
    ASSUME SInv, NEW w \in Workers, Store(w)
    PROVE  SInv'
  <1> DEFINE x == worker[w]
             A == x.result.answers
             y == [x EXCEPT !.pc = "return"]
  <1>1. /\ cache' = store(cache, A, clock) /\ Set(w, y) /\ UNCHANGED shared /\ x.pc = "store"
    BY Zenon DEF Store
  <1>2. /\ WorkFields(x, clock, version) /\ WorkPoint(x, version, strategy) /\ IsWorker(x)
        /\ clock \in Nat /\ HandOK(x, clock, strategy, cache, worker)
        /\ Serving(clock, version, strategy, cache, worker)
    BY WorkerKnown
  <1>3. Storable(A, clock, version, worker)
    <2>1. GoodPacket(x.result, clock, version) /\ Distinct(A)
      BY <1>1, <1>2 DEF HandOK, WorkFields, ResultOK
    <2>2. ASSUME NEW r \in A
          PROVE  /\ GoodRecord(r, clock, version) /\ Hosted(r)
                 /\ r.origin.from = "hosts" => r.origin.at = clock
                 /\ Fits(r, clock, Room(Key(r), worker))
      <3>1. GoodRecord(r, clock, version) /\ Hosted(r)
        BY <2>1 DEF GoodPacket
      <3>2. InHand(x, r, clock, strategy, cache, worker)
        BY <1>1, <1>2 DEF HandOK
      <3>3. r.ttl \in Nat
        BY <3>1 DEF GoodRecord, IsRecord
      <3>4. Room(Key(r), worker) \in Nat
        <4>1. ~Waiting(worker[w], Key(r))
          BY <1>1 DEF Waiting
        <4> QED
          BY <4>1, RoomForAStorer
      <3>5. r.origin.at = clock => Fits(r, clock, Room(Key(r), worker))
        BY <1>2, <3>3, <3>4, FitsNew
      <3> QED
        BY <3>1, <3>2, <3>5 DEF InHand
    <2> QED
      BY <2>1, <2>2 DEF Storable
  <1>4. Serving(clock, version, strategy, cache', worker)
    BY <1>1, <1>2, <1>3, StoreKeepsServing
  <1>5. y = AWorker("return", x.request, x.q, x.depth, x.result, x.reply, x.todo, x.ns, x.calls)
    BY <1>2, SetPc, Zenon
  <1>6. ResultOK(x.result, clock, version)
    BY <1>2 DEF WorkFields
  <1> HIDE DEF y
  <1>7. WorkFields(y, clock, version) /\ y.pc = "return" /\ y.q = x.q /\ y.calls = x.calls
    BY <1>2, <1>5, <1>6, MovedOK
  <1>8. WorkPoint(y, version, strategy)
    BY <1>1, <1>2, <1>7 DEF WorkPoint
  <1> QED
    BY <1>1, <1>4, <1>7, <1>8, PlainStepOK

LEMMA StartAtClosestOK ==
    ASSUME SInv, NEW w \in Workers, StartAtClosest(w)
    PROVE  SInv'
  <1> DEFINE x == worker[w]
  <1>1. PICK a : Set(w, IF a = NoAddr THEN Returned(w, NoPacket) ELSE [x EXCEPT !.pc = "query", !.ns = a])
    BY Zenon DEF StartAtClosest
  <1>2. UNCHANGED shared /\ cache' = cache /\ x.pc = "perform" /\ strategy = "Recursive"
    BY DEF StartAtClosest
  <1>3. CASE a = NoAddr
    <2>1. Set(w, Returned(w, NoPacket)) /\ ResultOK(NoPacket, clock, version)
      BY <1>1, <1>3 DEF ResultOK
    <2> QED
      BY <2>1, <1>2, WorkerKnown, ReturnedStepOK
  <1>4. CASE a # NoAddr
    <2> DEFINE y == [x EXCEPT !.pc = "query", !.ns = a]
    <2>1. Set(w, y)
      BY <1>1, <1>4, Zenon
    <2>2. /\ WorkFields(x, clock, version) /\ WorkPoint(x, version, strategy) /\ IsWorker(x)
          /\ Serving(clock, version, strategy, cache, worker)
      BY WorkerKnown
    <2>3. y = AWorker("query", x.request, x.q, x.depth, x.result, x.reply, x.todo, a, x.calls)
      BY <2>2, SetPcNs, Zenon
    <2> HIDE DEF y
    <2>4. /\ IsWorker(y) /\ y.pc = "query" /\ y.q = x.q /\ y.depth = x.depth
          /\ y.result = x.result /\ y.reply = x.reply /\ y.todo = x.todo /\ y.calls = x.calls
      BY <2>3, WorkerFields
    <2>5. WorkFields(y, clock, version) /\ WorkPoint(y, version, strategy)
      BY <1>2, <2>2, <2>4 DEF WorkFields, WorkPoint
    <2> QED
      BY <1>2, <2>1, <2>2, <2>4, <2>5, PlainStepOK
  <1> QED
    BY <1>3, <1>4

-----------------------------------------------------------------------------
(* The loop of the recursive resolver.                                     *)

LEMMA TakenIsStorable ==
    ASSUME NEW p, NEW t \in Nat, NEW v, TakenPacket(p, t, v), NEW W,
           NEW w \in Workers, W[w].pc = "query",
           NEW S \in {p.answers, p.authorities, p.resources}
    PROVE  Storable(S, t, v, W)
  <1>1. Distinct(S) /\ \A r \in S : r.origin.at = t
    BY DEF TakenPacket, NewPacket, Now
  <1>2. ASSUME NEW r \in S
        PROVE  GoodRecord(r, t, v) /\ r.origin.from # "hosts" /\ Fits(r, t, Room(Key(r), W))
    <2>1. GoodRecord(r, t, v) /\ r.origin.from # "hosts"
      BY DEF TakenPacket, NewPacket, GoodPacket
    <2>2. r.ttl \in Nat
      BY <2>1 DEF GoodRecord, IsRecord
    <2>3. Room(Key(r), W) \in Nat
      <3>1. ~Waiting(W[w], Key(r))
        BY DEF Waiting
      <3> QED
        BY <3>1, RoomForAStorer
    <2> QED
      BY <1>1, <2>1, <2>2, <2>3, FitsNew
  <1> QED
    BY <1>1, <1>2 DEF Storable, Hosted

LEMMA StoreAllOK ==
    ASSUME SInv, NEW w \in Workers, worker[w].pc = "query", NEW p, TakenPacket(p, clock, version)
    PROVE  Serving(clock, version, strategy, StoreAll(p), worker)
  <1> DEFINE c1 == store(cache, p.answers, clock)
             c2 == store(c1, p.authorities, clock)
             c3 == store(c2, p.resources, clock)
  <1>1. /\ Storable(p.answers, clock, version, worker)
        /\ Storable(p.authorities, clock, version, worker)
        /\ Storable(p.resources, clock, version, worker)
    BY WorkerKnown, TakenIsStorable
  <1>2. Serving(clock, version, strategy, c1, worker)
    BY <1>1, WorkerKnown, StoreKeepsServing
  <1> HIDE DEF c1
  <1>3. Serving(clock, version, strategy, c2, worker)
    BY <1>1, <1>2, WorkerKnown, StoreKeepsServing
  <1> HIDE DEF c2
  <1>4. Serving(clock, version, strategy, c3, worker)
    BY <1>1, <1>3, WorkerKnown, StoreKeepsServing
  <1>5. StoreAll(p) = c3
    BY DEF StoreAll, c1, c2
  <1> QED
    BY <1>4, <1>5

LEMMA QueryServerOK ==
    ASSUME SInv, NEW w \in Workers, QueryServer(w)
    PROVE  SInv'
  <1> DEFINE x == worker[w]
             qname == x.q.name
  <1>0. x.pc = "query" /\ UNCHANGED shared
    BY DEF QueryServer
  <1>1. PICK p \in Asked(x.ns, qname, x.q.type, clock) :
           \/ cache' = StoreAll(p) /\ Set(w, Returned(w, p))
           \/ /\ \/ cache' = cache
                 \/ \E ttl \in get_ttl_from_soa(p) :
                       cache' = store_nxdomain(cache, qname, x.q.type, ttl, clock)
              /\ Set(w, Returned(w, p))
           \/ \E a \in get_resolved_ns(p, qname) :
                 cache' = StoreAll(p) /\ Set(w, [x EXCEPT !.ns = a])
           \/ \E host \in get_unresolved_ns(p, qname) :
                 /\ Set(w, [x EXCEPT !.pc = "resolve", !.q = Question(host, "A", TRUE),
                               !.calls = <<[q |-> x.q, response |-> p]>> \o @])
                 /\ cache' = cache
           \/ cache' = cache /\ Set(w, Returned(w, p))
    BY Zenon DEF QueryServer
  <1>2. /\ WorkFields(x, clock, version) /\ WorkPoint(x, version, strategy) /\ IsWorker(x)
        /\ clock \in Nat /\ Serving(clock, version, strategy, cache, worker)
    BY WorkerKnown
  <1>3. strategy = "Recursive" /\ Vetted(qname, version) /\ IsName(qname)
    BY <1>0, <1>2 DEF WorkPoint
  <1>4. TakenPacket(p, clock, version)
    BY <1>2, <1>3, AskedOK
  <1>5. GoodPacket(p, clock, version) /\ ResultOK(p, clock, version)
    BY <1>4 DEF TakenPacket, NewPacket, ResultOK
  <1>6. Serving(clock, version, strategy, StoreAll(p), worker)
    BY <1>0, <1>4, StoreAllOK
  <1>7. ASSUME Set(w, Returned(w, p)), Serving(clock, version, strategy, cache', worker)
        PROVE  SInv'
    BY <1>0, <1>5, <1>7, ReturnedStepOK
  <1>8. CASE \E ttl \in get_ttl_from_soa(p) :
                /\ cache' = store_nxdomain(cache, qname, x.q.type, ttl, clock)
                /\ Set(w, Returned(w, p))
    <2>1. PICK ttl \in get_ttl_from_soa(p) :
             /\ cache' = store_nxdomain(cache, qname, x.q.type, ttl, clock)
             /\ Set(w, Returned(w, p))
      BY <1>8
    <2>2. PICK r \in p.authorities : r.type = "SOA" /\ ttl = r.value
      BY DEF get_ttl_from_soa
    <2>3. ttl \in Nat
      BY <2>2, <1>5 DEF GoodPacket, IsPacket, IsRecord
    <2>4. Serving(clock, version, "Recursive", cache', worker)
      <3>1. Serving(clock, version, "Recursive", cache, worker)
        BY <1>2, <1>3
      <3> QED
        BY <2>1, <2>3, <3>1, <1>2, NxdomainKeepsServing
    <2> QED
      BY <1>3, <1>7, <2>1, <2>4
  <1>9. CASE \E a \in get_resolved_ns(p, qname) :
                 cache' = StoreAll(p) /\ Set(w, [x EXCEPT !.ns = a])
    <2>1. PICK a : cache' = StoreAll(p) /\ Set(w, [x EXCEPT !.ns = a])
      BY <1>9, Zenon
    <2> DEFINE y == [x EXCEPT !.ns = a]
    <2>2. y = AWorker(x.pc, x.request, x.q, x.depth, x.result, x.reply, x.todo, a, x.calls)
      BY <1>2, SetNs, Zenon
    <2>3. Set(w, y)
      BY <2>1, Zenon
    <2>4. cache' = StoreAll(p)
      BY <2>1, Zenon
    <2> HIDE DEF y
    <2>5. /\ IsWorker(y) /\ y.pc = x.pc /\ y.q = x.q /\ y.depth = x.depth /\ y.request = x.request
          /\ y.result = x.result /\ y.reply = x.reply /\ y.todo = x.todo /\ y.calls = x.calls
      BY <2>2, WorkerFields
    <2>6. WorkFields(y, clock, version) /\ WorkPoint(y, version, strategy)
      BY <1>2, <2>5 DEF WorkFields, WorkPoint
    <2>7. Serving(clock, version, strategy, cache', worker)
      BY <2>4, <1>6
    <2> QED
      BY <1>0, <2>3, <2>5, <2>6, <2>7, PlainStepOK
  <1>10. CASE \E host \in get_unresolved_ns(p, qname) :
                 /\ Set(w, [x EXCEPT !.pc = "resolve", !.q = Question(host, "A", TRUE),
                               !.calls = <<[q |-> x.q, response |-> p]>> \o @])
                 /\ cache' = cache
    <2>1. PICK host \in get_unresolved_ns(p, qname) :
                 /\ Set(w, [x EXCEPT !.pc = "resolve", !.q = Question(host, "A", TRUE),
                               !.calls = <<[q |-> x.q, response |-> p]>> \o @])
                 /\ cache' = cache
      BY <1>10, Zenon
    <2> DEFINE call == [q |-> x.q, response |-> p]
               k == Question(host, "A", TRUE)
               calls == <<call>> \o x.calls
               y == [x EXCEPT !.pc = "resolve", !.q = k, !.calls = calls]
    <2>2. IsName(host)
      <3>1. PICK r \in p.authorities : r.type = "NS" /\ host = r.value
        BY DEF get_unresolved_ns, NameServersFor
      <3> QED
        BY <3>1, <1>5 DEF GoodPacket, IsPacket, IsRecord
    <2>3. y = AWorker("resolve", x.request, k, x.depth, x.result, x.reply, x.todo, x.ns, calls)
      <3>1. IsWorker(x)
        BY <1>2
      <3>2. y = Calling(x, "resolve", k, calls)
        BY Zenon DEF Calling
      <3> HIDE DEF x, k, calls, y
      <3>3. Calling(x, "resolve", k, calls) =
               AWorker("resolve", x.request, k, x.depth, x.result, x.reply, x.todo, x.ns, calls)
        BY <3>1, SetCall
      <3> QED
        BY <3>2, <3>3
    <2>4. Set(w, y)
      BY <2>1, Zenon
    <2>5. cache' = cache
      BY <2>1, Zenon
    <2>6. k.name = host
      BY DEF Question
    <2>7. CallsOK(calls, clock, version)
      <3>1. call.q = x.q /\ call.response = p
        OBVIOUS
      <3> HIDE DEF call
      <3>2. CallOK(call, clock, version)
        BY <3>1, <1>3, <1>5 DEF CallOK
      <3>3. CallsOK(x.calls, clock, version)
        BY <1>2 DEF WorkFields
      <3>4. Len(x.calls) \in Nat
        BY <3>3 DEF CallsOK, IsSeq
      <3>5. /\ IsSeq(calls) /\ Len(calls) = Len(x.calls) + 1 /\ calls[1] = call
            /\ \A i \in 1..Len(x.calls) : calls[i + 1] = x.calls[i]
        BY <3>3, Prepended DEF CallsOK
      <3> HIDE DEF calls
      <3>6. ASSUME NEW i \in 1..Len(calls) PROVE CallOK(calls[i], clock, version)
        <4>1. CASE i = 1
          BY <4>1, <3>2, <3>5
        <4>2. CASE i # 1
          <5>1. i - 1 \in 1..Len(x.calls) /\ (i - 1) + 1 = i
            BY <4>2, <3>4, <3>5
          <5>2. calls[i] = x.calls[i - 1]
            BY <5>1, <3>5
          <5> QED
            BY <5>1, <5>2, <3>3 DEF CallsOK
        <4> QED
          BY <4>1, <4>2
      <3> QED
        BY <3>5, <3>6 DEF CallsOK
    <2> HIDE DEF y, k, calls, call
    <2>8. /\ IsWorker(y) /\ y.pc = "resolve" /\ y.q = k /\ y.depth = x.depth
          /\ y.result = x.result /\ y.reply = x.reply /\ y.todo = x.todo /\ y.calls = calls
      BY <2>3, WorkerFields
    <2>9. WorkFields(y, clock, version) /\ WorkPoint(y, version, strategy)
      BY <1>2, <1>3, <2>2, <2>6, <2>7, <2>8 DEF WorkFields, WorkPoint
    <2> QED
      BY <1>0, <1>2, <2>4, <2>5, <2>8, <2>9, PlainStepOK
  <1>11. CASE cache' = cache /\ Set(w, Returned(w, p))
    BY <1>2, <1>7, <1>11
  <1>12. CASE cache' = StoreAll(p) /\ Set(w, Returned(w, p))
    BY <1>6, <1>7, <1>12
  <1> QED
    BY <1>1, <1>8, <1>9, <1>10, <1>11, <1>12, Zenon

LEMMA ReturnToLoopOK ==
    ASSUME SInv, NEW w \in Workers, ReturnToLoop(w)
    PROVE  SInv'
  <1> DEFINE x == worker[w]
             call == Head(x.calls)
             back == [x EXCEPT !.q = call.q, !.calls = Tail(@)]
  <1>0. x.pc = "return" /\ x.calls # <<>> /\ UNCHANGED shared /\ cache' = cache
    BY DEF ReturnToLoop
  <1>1. PICK a : Set(w, IF a # NoAddr THEN [back EXCEPT !.pc = "query", !.ns = a]
                        ELSE [back EXCEPT !.result = call.response])
    BY Zenon DEF ReturnToLoop
  <1>2. /\ WorkFields(x, clock, version) /\ WorkPoint(x, version, strategy) /\ IsWorker(x)
        /\ clock \in Nat /\ Serving(clock, version, strategy, cache, worker)
    BY WorkerKnown
  <1>3. CallOK(call, clock, version) /\ CallsOK(Tail(x.calls), clock, version)
    BY <1>0, <1>2, HeadAndTail DEF WorkFields, CallsOK
  <1>4. strategy = "Recursive"
    BY <1>0, <1>2 DEF WorkPoint
  <1>5. back = AWorker(x.pc, x.request, call.q, x.depth, x.result, x.reply, x.todo, x.ns, Tail(x.calls))
    BY <1>2, SetBack, Zenon
  <1> HIDE DEF back, call
  <1>6. /\ IsWorker(back) /\ back.pc = "return" /\ back.q = call.q /\ back.depth = x.depth
        /\ back.result = x.result /\ back.reply = x.reply /\ back.todo = x.todo
        /\ back.calls = Tail(x.calls)
    BY <1>0, <1>5, WorkerFields
  <1>7. WorkFields(back, clock, version)
    BY <1>2, <1>3, <1>6 DEF WorkFields
  <1>8. CASE a # NoAddr
    <2> DEFINE y == [back EXCEPT !.pc = "query", !.ns = a]
    <2>1. Set(w, y)
      BY <1>1, <1>8, Zenon
    <2>2. y = AWorker("query", back.request, back.q, back.depth, back.result, back.reply, back.todo,
                      a, back.calls)
      BY <1>6, SetPcNs, Zenon
    <2> HIDE DEF y
    <2>3. /\ IsWorker(y) /\ y.pc = "query" /\ y.q = back.q /\ y.depth = back.depth
          /\ y.result = back.result /\ y.reply = back.reply /\ y.todo = back.todo
          /\ y.calls = back.calls
      BY <2>2, WorkerFields
    <2>4. WorkFields(y, clock, version) /\ WorkPoint(y, version, strategy)
      BY <1>3, <1>4, <1>6, <1>7, <2>3 DEF WorkFields, WorkPoint, CallOK
    <2> QED
      BY <1>0, <1>2, <2>1, <2>3, <2>4, PlainStepOK
  <1>9. CASE a = NoAddr
    <2> DEFINE y == [back EXCEPT !.result = call.response]
    <2>1. Set(w, y)
      BY <1>1, <1>9, Zenon
    <2>2. y = AWorker(back.pc, back.request, back.q, back.depth, call.response, back.reply, back.todo,
                      back.ns, back.calls)
      BY <1>6, SetResult, Zenon
    <2> HIDE DEF y
    <2>3. /\ IsWorker(y) /\ y.pc = back.pc /\ y.q = back.q /\ y.depth = back.depth
          /\ y.result = call.response /\ y.reply = back.reply /\ y.todo = back.todo
          /\ y.calls = back.calls
      BY <2>2, WorkerFields
    <2>4. ResultOK(call.response, clock, version)
      BY <1>3 DEF CallOK, ResultOK
    <2>5. WorkFields(y, clock, version) /\ WorkPoint(y, version, strategy)
      BY <1>3, <1>4, <1>6, <1>7, <2>3, <2>4 DEF WorkFields, WorkPoint, CallOK
    <2> QED
      BY <1>0, <1>2, <1>6, <2>1, <2>3, <2>5, PlainStepOK
  <1> QED
    BY <1>8, <1>9

-----------------------------------------------------------------------------
(* A resolve is over: its result joins the reply, and the CNAMEs in it are *)
(* what is left to do.                                                     *)

LEMMA AnswersAdded ==
    ASSUME NEW reply, ReplyOK(reply), NEW z
    PROVE  ReplyOK([reply EXCEPT !.answers = z])
  <1> DEFINE y == [reply EXCEPT !.answers = z]
  <1>1. y = [rescode |-> reply.rescode, answers |-> z,
             authoritative_answer |-> reply.authoritative_answer]
    BY DEF ReplyOK
  <1> HIDE DEF y
  <1>2. ReplyOK(y)
    BY <1>1 DEF ReplyOK
  <1> QED
    BY <1>2 DEF y

LEMMA ReplyWithOK ==
    ASSUME NEW x, NEW t, NEW v, WorkFields(x, t, v)
    PROVE  ReplyOK(ReplyWith(x))
  <1> DEFINE p == x.result
             more == {r \in p.answers : ~ \E s \in x.reply.answers : SameRecord(r, s)}
             first == [rescode |-> p.rescode, authoritative_answer |-> p.authoritative_answer,
                       answers |-> p.answers]
  <1>1. ReplyWith(x) =
           IF p = NoPacket
           THEN IF x.depth = 0 THEN [NoReply EXCEPT !.rescode = "SERVFAIL"] ELSE x.reply
           ELSE IF x.depth = 0 THEN first
           ELSE [x.reply EXCEPT !.answers = x.reply.answers \cup more]
    BY Zenon DEF ReplyWith
  <1>2. ReplyOK(x.reply) /\ ResultOK(p, t, v)
    BY DEF WorkFields
  <1>3. ReplyOK([NoReply EXCEPT !.rescode = "SERVFAIL"])
    <2>1. "SERVFAIL" \in RESCODES
      BY DEF RESCODES
    <2> QED
      BY <2>1, ReplyOfIdle, Zenon
  <1>4. ASSUME p # NoPacket PROVE ReplyOK(first)
    <2>1. p.rescode \in RESCODES
      BY <1>2, <1>4 DEF ResultOK, GoodPacket, IsPacket
    <2> QED
      BY <2>1 DEF ReplyOK
  <1>5. ReplyOK([x.reply EXCEPT !.answers = x.reply.answers \cup more])
    BY <1>2, AnswersAdded, Zenon
  <1> DEFINE full == [x.reply EXCEPT !.answers = x.reply.answers \cup more]
             failed == [NoReply EXCEPT !.rescode = "SERVFAIL"]
  <1>6. ReplyOK(full) /\ ReplyOK(failed)
    BY <1>3, <1>5
  <1>7. ReplyWith(x) = IF p = NoPacket THEN IF x.depth = 0 THEN failed ELSE x.reply
                       ELSE IF x.depth = 0 THEN first ELSE full
    BY <1>1
  <1> HIDE DEF p, first, full, failed
  <1> QED
    BY <1>2, <1>4, <1>6, <1>7, Zenon

LEMMA UnresolvedOK ==
    ASSUME NEW x, NEW t, NEW v, WorkFields(x, t, v)
    PROVE  TodoOK(Unresolved(x))
  <1>1. SUFFICES ASSUME NEW u \in Unresolved(x) PROVE IsName(u.host) /\ DepthOK(u.depth)
    BY DEF TodoOK
  <1>2. x.result # NoPacket /\ ~ (x.depth > CNAME_DEPTH)
    BY DEF Unresolved
  <1>3. PICK r \in get_unresolved_cnames(x.result, x.request.type) :
           u = [host |-> r.value, depth |-> x.depth + 1]
    BY <1>2 DEF Unresolved
  <1>4. u.host = r.value /\ u.depth = x.depth + 1
    BY <1>3
  <1>5. r \in x.result.answers /\ r.type = "CNAME"
    BY DEF get_unresolved_cnames
  <1>6. IsName(r.value)
    BY <1>2, <1>5 DEF WorkFields, ResultOK, GoodPacket, GoodRecord, IsRecord
  <1>7. DepthOK(x.depth + 1)
    BY <1>2, DnsServerAssumption DEF WorkFields, DepthOK
  <1> QED
    BY <1>4, <1>6, <1>7

LEMMA ReturnOK ==
    ASSUME SInv, NEW w \in Workers, Return(w)
    PROVE  SInv'
  <1> DEFINE x == worker[w]
             todo == x.todo \cup Unresolved(x)
             reply == ReplyWith(x)
             next == [x EXCEPT !.reply = reply, !.result = NoPacket, !.ns = NoAddr, !.calls = <<>>]
  <1>0. x.pc = "return" /\ UNCHANGED shared /\ cache' = cache
    BY DEF Return
  <1>1. \/ todo = {} /\ Set(w, [next EXCEPT !.pc = "send"])
        \/ \E t \in todo : Set(w, Tasked(next, "resolve", todo \ {t}, t.depth,
                                         Question(t.host, x.request.type, TRUE)))
    BY Zenon DEF Return, Tasked
  <1>2. /\ WorkFields(x, clock, version) /\ IsWorker(x)
        /\ clock \in Nat /\ Serving(clock, version, strategy, cache, worker)
    BY WorkerKnown
  <1>3. ReplyOK(reply) /\ TodoOK(todo)
    <2>1. ReplyOK(reply) /\ TodoOK(Unresolved(x)) /\ TodoOK(x.todo)
      BY <1>2, ReplyWithOK, UnresolvedOK DEF WorkFields
    <2> QED
      BY <2>1 DEF TodoOK
  <1>4. CallsOK(<<>>, clock, version) /\ ResultOK(NoPacket, clock, version)
    BY IdleOK DEF WorkFields
  <1>5. next = Ended(x, reply, NoPacket, NoAddr, <<>>)
    BY Zenon DEF Ended
  <1> HIDE DEF x, next, todo, reply
  <1>6. next = AWorker(x.pc, x.request, x.q, x.depth, NoPacket, reply, x.todo, NoAddr, <<>>)
    BY <1>2, <1>5, SetNext
  <1>7. /\ IsWorker(next) /\ next.depth = x.depth /\ next.result = NoPacket /\ next.reply = reply
        /\ next.todo = x.todo /\ next.calls = <<>>
    BY <1>6, WorkerFields
  <1>8. CASE Set(w, [next EXCEPT !.pc = "send"])
    <2> DEFINE y == [next EXCEPT !.pc = "send"]
    <2>1. y = AWorker("send", next.request, next.q, next.depth, next.result, next.reply, next.todo,
                      next.ns, next.calls)
      BY <1>7, SetPc, Zenon
    <2>2. Set(w, y)
      BY <1>8
    <2> HIDE DEF y
    <2>3. /\ IsWorker(y) /\ y.pc = "send" /\ y.depth = next.depth /\ y.result = next.result
          /\ y.reply = next.reply /\ y.todo = next.todo /\ y.calls = next.calls
      BY <2>1, WorkerFields
    <2>4. WorkFields(y, clock, version) /\ WorkPoint(y, version, strategy)
      BY <1>2, <1>3, <1>4, <1>7, <2>3 DEF WorkFields, WorkPoint
    <2> QED
      BY <1>0, <1>2, <2>2, <2>3, <2>4, PlainStepOK
  <1>9. ASSUME NEW t \in todo,
               Set(w, Tasked(next, "resolve", todo \ {t}, t.depth,
                             Question(t.host, x.request.type, TRUE)))
        PROVE  SInv'
    <2> DEFINE k == Question(t.host, x.request.type, TRUE)
               left == todo \ {t}
               y == Tasked(next, "resolve", left, t.depth, k)
    <2>1. Set(w, y)
      BY <1>9
    <2>2. TodoOK(left) /\ IsName(t.host) /\ DepthOK(t.depth)
      BY <1>3 DEF TodoOK
    <2>3. k.name = t.host
      BY DEF Question
    <2> HIDE DEF k, left
    <2>4. y = AWorker("resolve", next.request, k, t.depth, next.result, next.reply, left,
                      next.ns, next.calls)
      BY <1>7, SetTask
    <2> HIDE DEF y
    <2>5. /\ IsWorker(y) /\ y.pc = "resolve" /\ y.depth = t.depth /\ y.result = next.result
          /\ y.reply = next.reply /\ y.todo = left /\ y.calls = next.calls /\ y.q = k
      BY <2>4, WorkerFields
    <2>6. WorkFields(y, clock, version) /\ WorkPoint(y, version, strategy)
      BY <1>3, <1>4, <1>7, <2>2, <2>3, <2>5 DEF WorkFields, WorkPoint
    <2> QED
      BY <1>0, <1>2, <2>1, <2>5, <2>6, PlainStepOK
  <1> QED
    BY <1>1, <1>8, <1>9

LEMMA SendOK ==
    ASSUME SInv, NEW w \in Workers, Send(w)
    PROVE  SInv'
  <1>1. Set(w, Idle) /\ UNCHANGED shared /\ cache' = cache
    BY DEF Send
  <1>2. /\ WorkFields(Idle, clock, version) /\ WorkPoint(Idle, version, strategy)
        /\ Idle.pc = "recv"
    BY IdleOK
  <1>3. Serving(clock, version, strategy, cache, worker)
    BY WorkerKnown
  <1> QED
    BY <1>1, <1>2, <1>3, PlainStepOK

-----------------------------------------------------------------------------
(* Workers that end, the clock, the chain.                                 *)

LEMMA DeadOK ==
    ASSUME NEW t, NEW v, NEW s
    PROVE  WorkFields(Dead, t, v) /\ WorkPoint(Dead, v, s) /\ Dead.pc = "dead"
  <1>1. /\ IsWorker(Idle) /\ WorkFields(Idle, t, v) /\ Idle.calls = <<>>
    BY IdleOK
  <1>2. Dead = AWorker("dead", Idle.request, Idle.q, Idle.depth, Idle.result, Idle.reply, Idle.todo,
                       Idle.ns, Idle.calls)
    BY <1>1, SetPc, Zenon DEF Dead
  <1>3. /\ IsWorker(Dead) /\ Dead.pc = "dead" /\ Dead.reply = Idle.reply /\ Dead.depth = Idle.depth
        /\ Dead.result = Idle.result /\ Dead.todo = Idle.todo /\ Dead.calls = Idle.calls
    BY <1>2, WorkerFields
  <1> QED
    BY <1>1, <1>3 DEF WorkFields, WorkPoint

LEMMA WorkerEndsOK ==
    ASSUME SInv, NEW w \in Workers, WorkerEnds(w)
    PROVE  SInv'
  <1>1. /\ Set(w, Dead)
        /\ streams' = [v \in TcpWorkers |-> IF v = w THEN <<>> ELSE streams[v]]
        /\ UNCHANGED <<clock, strategy, cache, version, sends, working_ids, queue>>
    BY DEF WorkerEnds
  <1>2. /\ WorkFields(Dead, clock, version) /\ WorkPoint(Dead, version, strategy)
        /\ Dead.pc = "dead"
    BY DeadOK
  <1>3. Serving(clock, version, strategy, cache, [worker EXCEPT ![w] = Dead])
    BY <1>2, WorkerKnown, WorkerMovesOn
  <1>4. Serving(clock', version', strategy', cache', worker')
    BY <1>1, <1>3 DEF Set
  <1>5. QueuesOK'
    <2>1. \A u \in Workers : worker'[u] = IF u = w THEN Dead ELSE worker[u]
      BY <1>1, WorkerKnown DEF Set, Serving
    <2>2. DOMAIN streams' = TcpWorkers
      BY <1>1
    <2>3. ASSUME NEW u \in TcpWorkers
          PROVE  RequestsOK(streams'[u]) /\ (worker'[u].pc = "dead" => streams'[u] = <<>>)
      <3>1. RequestsOK(streams[u]) /\ (worker[u].pc = "dead" => streams[u] = <<>>)
        BY DEF SInv, QueuesOK, Alive
      <3>2. streams'[u] = (IF u = w THEN <<>> ELSE streams[u]) /\ u \in Workers
        BY <1>1 DEF Workers
      <3>3. RequestsOK(<<>>)
        BY DEF RequestsOK, IsSeq
      <3> QED
        BY <3>1, <3>2, <3>3, <2>1
    <2>4. (\A r \in DOMAIN sends : RequestOK(r)) /\ RequestsOK(queue)
      BY DEF SInv, QueuesOK
    <2> QED
      BY <2>2, <2>3, <2>4, <1>1 DEF QueuesOK, Alive
  <1>6. IdsOK'
    BY <1>1, WorkerKnown, IdsStay DEF SInv
  <1> QED
    BY <1>1, <1>4, <1>5, <1>6 DEF SInv

LEMMA StateKnown ==
    ASSUME SInv
    PROVE  /\ clock \in Nat /\ clock \in 0..MaxTime /\ MaxTime \in Nat
           /\ version \in Nat /\ version \in 1..Len(Versions) /\ Len(Versions) \in Nat
           /\ Serving(clock, version, strategy, cache, worker)
           /\ DOMAIN worker = Workers /\ IdsOK /\ QueuesOK
  BY DnsServerAssumption, WorldAssumption DEF SInv, Serving

LEMMA TickOK ==
    ASSUME SInv, Tick
    PROVE  SInv'
  <1>1. /\ clock < MaxTime /\ (\A w \in Workers : worker[w].pc # "store") /\ clock' = clock + 1
        /\ UNCHANGED <<strategy, cache, version, sends, working_ids, queue, streams, worker>>
    BY DEF Tick, MayTick
  <1>2. Serving(clock + 1, version, strategy, cache, worker)
    BY <1>1, StateKnown, TimePasses
  <1>3. IdsOK'
    <2>1. clock \in Nat /\ clock' \in Nat /\ clock <= clock' /\ working_ids' = working_ids
      BY <1>1, StateKnown
    <2> QED
      BY <2>1, StateKnown, IdsStay
  <1>4. QueuesOK'
    BY <1>1, StateKnown DEF QueuesOK, Alive
  <1>5. clock' \in 0..MaxTime
    BY <1>1, StateKnown
  <1>6. Serving(clock', version', strategy', cache', worker')
    BY <1>1, <1>2
  <1>7. version' \in 1..Len(Versions)
    BY <1>1, StateKnown
  <1> QED
    BY <1>3, <1>4, <1>5, <1>6, <1>7 DEF SInv

LEMMA ChainMovesOK ==
    ASSUME SInv, ChainMoves
    PROVE  SInv'
  <1>1. /\ version < Len(Versions) /\ version' = version + 1
        /\ UNCHANGED <<clock, strategy, cache, sends, working_ids, queue, streams, worker>>
    BY DEF ChainMoves
  <1>2. Serving(clock, version + 1, strategy, cache, worker)
    BY StateKnown, ChainGrows
  <1>3. IdsOK' /\ QueuesOK'
    BY <1>1, StateKnown DEF IdsOK, QueuesOK, Alive
  <1>4. version' \in 1..Len(Versions) /\ clock' \in 0..MaxTime
    BY <1>1, StateKnown
  <1>5. Serving(clock', version', strategy', cache', worker')
    BY <1>1, <1>2
  <1> QED
    BY <1>3, <1>4, <1>5 DEF SInv

LEMMA UnchangedOK ==
    ASSUME SInv, UNCHANGED vars
    PROVE  SInv'
  <1>1. UNCHANGED <<clock, strategy, cache, version, sends, working_ids, queue, streams, worker>>
    BY DEF vars
  <1>2. IdsOK' /\ QueuesOK'
    BY <1>1, StateKnown DEF IdsOK, QueuesOK, Alive
  <1> QED
    BY <1>1, <1>2 DEF SInv

LEMMA AcceptTcpOK ==
    ASSUME SInv, NEW r \in DOMAIN sends, NEW w \in TcpWorkers, AcceptTcp(r, w)
    PROVE  SInv'
  <1>1. /\ sends' = [sends EXCEPT ![r] = @ + 1]
        /\ streams' = IF worker[w].pc # "dead" THEN [streams EXCEPT ![w] = Append(@, r)] ELSE streams
        /\ UNCHANGED <<clock, strategy, cache, version, working_ids, queue, worker>>
    BY DEF AcceptTcp, Alive
  <1>2. DOMAIN sends' = DOMAIN sends
    BY <1>1
  <1>3. /\ DOMAIN streams = TcpWorkers /\ RequestsOK(queue) /\ \A q \in DOMAIN sends : RequestOK(q)
        /\ \A u \in TcpWorkers : RequestsOK(streams[u]) /\ (worker[u].pc = "dead" => streams[u] = <<>>)
    BY StateKnown DEF QueuesOK, Alive
  <1>4. RequestsOK(Append(streams[w], r))
    BY <1>3, RequestAdded
  <1>5. /\ DOMAIN streams' = TcpWorkers
        /\ \A u \in TcpWorkers :
              streams'[u] = IF u = w /\ worker[w].pc # "dead" THEN Append(streams[w], r) ELSE streams[u]
    BY <1>1, <1>3
  <1>6. ASSUME NEW u \in TcpWorkers
        PROVE  RequestsOK(streams'[u]) /\ (worker'[u].pc = "dead" => streams'[u] = <<>>)
    BY <1>1, <1>3, <1>4, <1>5
  <1>7. QueuesOK'
    BY <1>1, <1>2, <1>3, <1>5, <1>6 DEF QueuesOK, Alive
  <1>8. IdsOK'
    BY <1>1, StateKnown DEF IdsOK
  <1> QED
    BY <1>1, <1>7, <1>8 DEF SInv

-----------------------------------------------------------------------------
(* The table of recent requests.                                           *)

LEMMA FirstsOf ==
    ASSUME NEW s, IsSeq(s), NEW n \in Nat
    PROVE  /\ IsSeq(Firsts(s, n)) /\ Len(Firsts(s, n)) <= n /\ Len(Firsts(s, n)) <= Len(s)
           /\ \A i \in 1..Len(Firsts(s, n)) : Firsts(s, n)[i] = s[i]
  <1>1. PICK S : s \in Seq(S)
    BY IsSeqProperties
  <1> DEFINE m == IF Len(s) < n THEN Len(s) ELSE n
             f == SubSeq(s, 1, m)
  <1>2. /\ Len(s) \in Nat /\ m \in Nat /\ m \in Int /\ m <= n /\ m <= Len(s) /\ m - 1 + 1 = m
        /\ (IF 1 <= m THEN m - 1 + 1 ELSE 0) = m
    BY <1>1
  <1>3. Firsts(s, n) = f
    BY DEF Firsts
  <1>4. \A i \in 1..m : s[i] \in S
    BY <1>1, <1>2
  <1> HIDE DEF m
  <1>5. /\ f \in Seq(S) /\ Len(f) = IF 1 <= m THEN m - 1 + 1 ELSE 0
        /\ \A i \in 1..(m - 1 + 1) : f[i] = s[1 + i - 1]
    BY <1>2, <1>4, SubSeqProperties
  <1>6. Len(f) = m /\ \A i \in 1..m : f[i] = s[i]
    BY <1>2, <1>5
  <1>7. IsSeq(f)
    BY <1>5, SeqIsSeq
  <1> HIDE DEF f
  <1> QED
    BY <1>2, <1>3, <1>6, <1>7

LEMMA RemovedAt ==
    ASSUME NEW s, IsSeq(s), NEW n \in 1..Len(s)
    PROVE  /\ IsSeq(RemoveAt(s, n)) /\ Len(RemoveAt(s, n)) = Len(s) - 1
           /\ \A i \in 1..(Len(s) - 1) : RemoveAt(s, n)[i] = s[IF i < n THEN i ELSE i + 1]
  <1> DEFINE l == Len(s)
             a == SubSeq(s, 1, n - 1)
             b == SubSeq(s, n + 1, l)
  <1>1. PICK S : s \in Seq(S)
    BY IsSeqProperties
  <1>2. l \in Nat /\ n \in Nat /\ n \in 1..l
    BY <1>1
  <1>3. \A i \in 1..l : s[i] \in S
    BY <1>1
  <1>4. RemoveAt(s, n) = a \o b
    BY DEF RemoveAt
  <1> HIDE DEF l
  <1>5. a \in Seq(S) /\ Len(a) = n - 1 /\ \A i \in 1..(n - 1) : a[i] = s[i]
    <2>1. n - 1 \in Int /\ 1 \in Int /\ \A i \in 1..(n - 1) : s[i] \in S
      BY <1>2, <1>3
    <2>2. /\ a \in Seq(S) /\ Len(a) = IF 1 <= n - 1 THEN (n - 1) - 1 + 1 ELSE 0
          /\ \A i \in 1..((n - 1) - 1 + 1) : a[i] = s[1 + i - 1]
      BY <2>1, SubSeqProperties
    <2> HIDE DEF a
    <2> QED
      BY <1>2, <2>2
  <1>6. b \in Seq(S) /\ Len(b) = l - n /\ \A i \in 1..(l - n) : b[i] = s[n + i]
    <2>1. n + 1 \in Int /\ l \in Int /\ \A i \in (n + 1)..l : s[i] \in S
      BY <1>2, <1>3
    <2>2. /\ b \in Seq(S) /\ Len(b) = IF n + 1 <= l THEN l - (n + 1) + 1 ELSE 0
          /\ \A i \in 1..(l - (n + 1) + 1) : b[i] = s[(n + 1) + i - 1]
      BY <2>1, SubSeqProperties
    <2> HIDE DEF b
    <2>3. l - (n + 1) + 1 = l - n /\ \A i \in 1..(l - n) : (n + 1) + i - 1 = n + i
      BY <1>2
    <2> QED
      BY <1>2, <2>2, <2>3
  <1> HIDE DEF a, b
  <1>7. /\ a \o b \in Seq(S) /\ Len(a \o b) = Len(a) + Len(b)
        /\ \A i \in 1..(Len(a) + Len(b)) : (a \o b)[i] = IF i <= Len(a) THEN a[i] ELSE b[i - Len(a)]
    BY <1>5, <1>6, ConcatProperties
  <1> DEFINE c == a \o b
  <1>8. /\ c \in Seq(S) /\ Len(c) = Len(a) + Len(b)
        /\ \A i \in 1..(Len(a) + Len(b)) : c[i] = IF i <= Len(a) THEN a[i] ELSE b[i - Len(a)]
    BY <1>7
  <1>9. RemoveAt(s, n) = c
    BY <1>4
  <1> HIDE DEF c
  <1>10. Len(a) + Len(b) = l - 1
    BY <1>2, <1>5, <1>6
  <1>11. ASSUME NEW i \in 1..(l - 1) PROVE c[i] = s[IF i < n THEN i ELSE i + 1]
    <2>1. c[i] = IF i <= n - 1 THEN a[i] ELSE b[i - (n - 1)]
      BY <1>5, <1>8, <1>10
    <2>2. CASE i < n
      <3>1. i <= n - 1 /\ i \in 1..(n - 1)
        BY <1>2, <2>2
      <3> QED
        BY <2>1, <2>2, <3>1, <1>5
    <2>3. CASE ~ (i < n)
      <3>1. ~ (i <= n - 1) /\ i - (n - 1) \in 1..(l - n) /\ n + (i - (n - 1)) = i + 1
        BY <1>2, <2>3
      <3>2. b[i - (n - 1)] = s[n + (i - (n - 1))]
        BY <3>1, <1>6
      <3> QED
        BY <2>1, <2>3, <3>1, <3>2
    <2> QED
      BY <2>2, <2>3
  <1>12. IsSeq(c)
    BY <1>8, SeqIsSeq
  <1> QED
    BY <1>8, <1>9, <1>10, <1>11, <1>12 DEF l

(* One entry for each key, all of the past.                                *)
Ids(s, t) ==
    /\ IsSeq(s)
    /\ \A i, j \in 1..Len(s) : s[i].time \in 0..t /\ (s[i].key = s[j].key => i = j)

LEMMA IdRemoved ==
    ASSUME NEW s, NEW t, Ids(s, t), NEW n \in 1..Len(s)
    PROVE  /\ Ids(RemoveAt(s, n), t)
           /\ \A i \in 1..Len(RemoveAt(s, n)) : RemoveAt(s, n)[i].key # s[n].key
  <1> DEFINE c == RemoveAt(s, n)
             At1(i) == IF i < n THEN i ELSE i + 1
  <1>1. /\ IsSeq(c) /\ Len(c) = Len(s) - 1 /\ Len(s) \in Nat
        /\ \A i \in 1..(Len(s) - 1) : c[i] = s[At1(i)]
    BY RemovedAt DEF Ids, IsSeq
  <1>2. \A i \in 1..(Len(s) - 1) : At1(i) \in 1..Len(s) /\ At1(i) # n
    BY <1>1
  <1>3. \A i, j \in 1..(Len(s) - 1) : At1(i) = At1(j) => i = j
    BY <1>1
  <1> HIDE DEF c, At1
  <1>4. Ids(c, t)
    <2>1. ASSUME NEW i \in 1..(Len(s) - 1), NEW j \in 1..(Len(s) - 1)
          PROVE  c[i].time \in 0..t /\ (c[i].key = c[j].key => i = j)
      <3>1. /\ c[i] = s[At1(i)] /\ At1(i) \in 1..Len(s)
            /\ c[j] = s[At1(j)] /\ At1(j) \in 1..Len(s)
        BY <1>1, <1>2
      <3> QED
        BY <3>1, <1>3 DEF Ids
    <2> QED
      BY <1>1, <2>1 DEF Ids
  <1>5. \A i \in 1..Len(c) : c[i].key # s[n].key
    BY <1>1, <1>2 DEF Ids
  <1> QED
    BY <1>4, <1>5 DEF c

LEMMA IdPrepended ==
    ASSUME NEW s, NEW t, Ids(s, t), NEW e, e.time \in 0..t,
           \A i \in 1..Len(s) : s[i].key # e.key
    PROVE  Ids(<<e>> \o s, t)
  <1> DEFINE c == <<e>> \o s
  <1>1. /\ IsSeq(c) /\ Len(c) = Len(s) + 1 /\ c[1] = e /\ Len(s) \in Nat
        /\ \A i \in 1..Len(s) : c[i + 1] = s[i]
    BY Prepended DEF Ids, IsSeq
  <1> HIDE DEF c
  <1>2. ASSUME NEW i \in 1..Len(c), i # 1
        PROVE  i - 1 \in 1..Len(s) /\ c[i] = s[i - 1]
    <2>1. i - 1 \in 1..Len(s) /\ (i - 1) + 1 = i
      BY <1>1, <1>2
    <2> QED
      BY <2>1, <1>1
  <1>3. ASSUME NEW i \in 1..Len(c), NEW j \in 1..Len(c)
        PROVE  c[i].time \in 0..t /\ (c[i].key = c[j].key => i = j)
    <2>1. CASE i = 1 /\ j = 1
      BY <2>1, <1>1
    <2>2. CASE i = 1 /\ j # 1
      BY <2>2, <1>1, <1>2
    <2>3. CASE i # 1 /\ j = 1
      BY <2>3, <1>1, <1>2 DEF Ids
    <2>4. CASE i # 1 /\ j # 1
      <3>1. /\ i - 1 \in 1..Len(s) /\ c[i] = s[i - 1]
            /\ j - 1 \in 1..Len(s) /\ c[j] = s[j - 1]
        BY <2>4, <1>2
      <3>2. s[i - 1].time \in 0..t /\ (s[i - 1].key = s[j - 1].key => i - 1 = j - 1)
        BY <3>1 DEF Ids
      <3> QED
        BY <3>1, <3>2, <1>1
    <2> QED
      BY <2>1, <2>2, <2>3, <2>4
  <1>4. Ids(c, t)
    BY <1>1, <1>3 DEF Ids
  <1> QED
    BY <1>4 DEF c

LEMMA IdsCut ==
    ASSUME NEW s, NEW t, Ids(s, t), NEW n \in Nat
    PROVE  Ids(Firsts(s, n), t) /\ Len(Firsts(s, n)) <= n
  <1> DEFINE c == Firsts(s, n)
  <1>1. /\ IsSeq(c) /\ Len(c) <= n /\ Len(c) <= Len(s) /\ Len(s) \in Nat /\ Len(c) \in Nat
        /\ \A i \in 1..Len(c) : c[i] = s[i]
    BY FirstsOf DEF Ids, IsSeq
  <1> HIDE DEF c
  <1>2. \A i \in 1..Len(c) : i \in 1..Len(s)
    BY <1>1
  <1>3. Ids(c, t)
    BY <1>1, <1>2 DEF Ids
  <1> QED
    BY <1>1, <1>3 DEF c

LEMMA ReceiveUdpOK ==
    ASSUME SInv, NEW r \in DOMAIN sends, ReceiveUdp(r)
    PROVE  SInv'
  <1> DEFINE known == {i \in DOMAIN working_ids : working_ids[i].key = r.key}
             place == CHOOSE i \in known : TRUE
             others == IF known = {} THEN working_ids ELSE RemoveAt(working_ids, place)
             resent == known # {} /\ working_ids[place].time + RESEND_WINDOW > clock
             latest == IF resent THEN working_ids[place] ELSE [key |-> r.key, time |-> clock]
             refused == resent \/ ~ \E w \in UdpWorkers : Alive(w)
  <1>1. /\ sends' = [sends EXCEPT ![r] = @ + 1]
        /\ UNCHANGED <<clock, strategy, cache, version, streams, worker>>
    BY DEF ReceiveUdp
  <1>2. /\ working_ids' = Firsts(<<latest>> \o others, WORKING_IDS)
        /\ queue' = IF refused THEN queue ELSE Append(queue, r)
    BY Zenon DEF ReceiveUdp
  <1>3. /\ Ids(working_ids, clock) /\ clock \in Nat /\ WORKING_IDS \in Nat
        /\ DOMAIN working_ids = 1..Len(working_ids)
    BY StateKnown, DnsServerAssumption DEF IdsOK, Ids, IsSeq
  <1>4. known # {} => place \in 1..Len(working_ids) /\ working_ids[place].key = r.key
    BY <1>3
  <1>5. ASSUME known = {} PROVE \A i \in 1..Len(working_ids) : working_ids[i].key # r.key
    BY <1>3, <1>5
  <1> HIDE DEF known, place
  <1>6. Ids(others, clock) /\ \A i \in 1..Len(others) : others[i].key # r.key
    <2>1. CASE known = {}
      BY <2>1, <1>3, <1>5
    <2>2. CASE known # {}
      <3>1. others = RemoveAt(working_ids, place)
        BY <2>2
      <3> HIDE DEF others
      <3>2. /\ Ids(RemoveAt(working_ids, place), clock)
            /\ \A i \in 1..Len(RemoveAt(working_ids, place)) :
                  RemoveAt(working_ids, place)[i].key # working_ids[place].key
        BY <2>2, <1>3, <1>4, IdRemoved
      <3> QED
        BY <2>2, <1>4, <3>1, <3>2
    <2> QED
      BY <2>1, <2>2
  <1>7. latest.key = r.key /\ latest.time \in 0..clock
    <2>1. CASE resent
      BY <2>1, <1>3, <1>4 DEF Ids
    <2>2. CASE ~resent
      <3>1. latest = [key |-> r.key, time |-> clock]
        BY <2>2
      <3> HIDE DEF latest
      <3> QED
        BY <3>1, <1>3
    <2> QED
      BY <2>1, <2>2
  <1> HIDE DEF others, latest, resent
  <1>8. Ids(<<latest>> \o others, clock)
    BY <1>6, <1>7, IdPrepended
  <1>9. Ids(working_ids', clock) /\ Len(working_ids') <= WORKING_IDS
    <2>1. /\ Ids(Firsts(<<latest>> \o others, WORKING_IDS), clock)
          /\ Len(Firsts(<<latest>> \o others, WORKING_IDS)) <= WORKING_IDS
      BY <1>3, <1>8, IdsCut
    <2> QED
      BY <1>2, <2>1
  <1>10. IdsOK'
    BY <1>1, <1>9 DEF IdsOK, Ids
  <1>11. QueuesOK'
    <2>1. DOMAIN sends' = DOMAIN sends
      BY <1>1
    <2>2. RequestsOK(queue) /\ RequestOK(r)
      BY StateKnown DEF QueuesOK
    <2>3. RequestsOK(queue')
      BY <1>2, <2>2, RequestAdded
    <2> QED
      BY <1>1, <2>1, <2>3, StateKnown DEF QueuesOK, Alive
  <1> QED
    BY <1>1, <1>10, <1>11 DEF SInv

-----------------------------------------------------------------------------
(* The invariant.                                                          *)

LEMMA InitOK ==
    ASSUME Init
    PROVE  SInv
  <1>1. /\ clock = 0 /\ cache = EmptyCache /\ version = 1 /\ working_ids = <<>> /\ queue = <<>>
        /\ streams = [w \in TcpWorkers |-> <<>>] /\ worker = [w \in Workers |-> Idle]
    BY DEF Init
  <1>2. clock \in 0..MaxTime /\ version \in 1..Len(Versions)
    BY <1>1, DnsServerAssumption, WorldAssumption
  <1>3. CacheOK(cache, clock, version, worker)
    BY <1>1 DEF CacheOK, EmptyCache
  <1>4. ASSUME NEW w \in Workers
        PROVE  /\ WorkFields(worker[w], clock, version) /\ WorkPoint(worker[w], version, strategy)
               /\ HandOK(worker[w], clock, strategy, cache, worker)
    <2>1. worker[w] = Idle
      BY <1>1
    <2>2. /\ WorkFields(Idle, clock, version) /\ WorkPoint(Idle, version, strategy)
          /\ Idle.pc = "recv"
      BY IdleOK
    <2>3. HandOK(Idle, clock, strategy, cache, worker)
      BY <2>2 DEF HandOK
    <2> QED
      BY <2>1, <2>2, <2>3
  <1>5. Serving(clock, version, strategy, cache, worker)
    BY <1>1, <1>3, <1>4 DEF Serving
  <1>6. IsSeq(<<>>) /\ Len(<<>>) = 0
    BY DEF IsSeq
  <1>7. IdsOK
    BY <1>1, <1>6, DnsServerAssumption DEF IdsOK
  <1>8. QueuesOK
    <2>1. PICK load \in Loads : sends = [r \in load |-> 0]
      BY DEF Init
    <2>2. \A r \in DOMAIN sends : RequestOK(r)
      BY <2>1, DnsServerAssumption DEF RequestOK
    <2>3. RequestsOK(<<>>)
      BY <1>6 DEF RequestsOK
    <2> QED
      BY <1>1, <2>2, <2>3 DEF QueuesOK
  <1> QED
    BY <1>2, <1>5, <1>7, <1>8 DEF SInv

LEMMA WorkOK ==
    ASSUME SInv, NEW w \in Workers, Work(w)
    PROVE  SInv'
  BY TakeUdpOK, TakeTcpOK, ReadQueryOK, AnswerEarlyOK, LookUpOK, LookUpCnameOK, FilterOK, StoreOK,
     LookUpAgainOK, AskOK, AskFailsOK, StartAtClosestOK, QueryServerOK, ReturnToLoopOK, ReturnOK,
     SendOK, Zenon DEF Work

LEMMA NextOK ==
    ASSUME SInv, [Next]_vars
    PROVE  SInv'
  BY TickOK, ChainMovesOK, ReceiveUdpOK, AcceptTcpOK, WorkOK, WorkerEndsOK, UnchangedOK, Zenon
     DEF Next

(* The server keeps what the results below rest on: for a cached record    *)
(* there is room for each worker that has missed it to prolong it once, a  *)
(* record about to be stored is new or was valid when it was found, and a  *)
(* worker asks others only about names that zones, hosts file and chain    *)
(* have let pass (resolve, perform, store).                                *)
THEOREM ServingIsInductive == Spec => []SInv
  <1>1. Init => SInv
    BY InitOK
  <1>2. SInv /\ [Next]_vars => SInv'
    BY NextOK
  <1> QED
    BY <1>1, <1>2, PTL DEF Spec

LEMMA CachedCases ==
    ASSUME SInv, NEW k \in DOMAIN cache
    PROVE  CachedSetOK(k, cache[k], clock, version, worker)
  BY StateKnown DEF Serving, CacheOK

LEMMA TypesFollow ==
    ASSUME SInv
    PROVE  TypeOK
  <1>1. ASSUME NEW k \in DOMAIN cache PROVE SetOK(k)
    <2>1. CachedSetOK(k, cache[k], clock, version, worker)
      BY CachedCases
    <2>2. CASE cache[k].kind = "none"
      <3>1. cache[k].ttl \in Nat /\ cache[k].timestamp \in 0..clock
        BY <2>1, <2>2 DEF CachedSetOK
      <3> QED
        BY <2>2, <3>1, Zenon DEF SetOK
    <2>3. CASE cache[k].kind # "none"
      <3>1. /\ cache[k].kind = "records" /\ cache[k].entries # {}
            /\ \A e \in cache[k].entries :
                  /\ EntryOK(k, e, clock, version, worker)
                  /\ \A f \in cache[k].entries : SameRecord(e.record, f.record) => e = f
        BY <2>1, <2>3 DEF CachedSetOK
      <3>2. ASSUME NEW e \in cache[k].entries
            PROVE  /\ RecordOK(e.record) /\ e.timestamp \in 0..clock
                   /\ Key(e.record) = k
                   /\ \A f \in cache[k].entries : SameRecord(e.record, f.record) => e = f
        BY <3>1 DEF EntryOK, GoodRecord, RecordOK
      <3> QED
        BY <2>3, <3>1, <3>2, Zenon DEF SetOK
    <2> QED
      BY <2>2, <2>3
  <1>2. version \in DOMAIN Versions
    BY StateKnown, WorldAssumption
  <1>3. /\ Len(working_ids) <= WORKING_IDS
        /\ \A i, j \in DOMAIN working_ids :
              /\ working_ids[i].time <= clock
              /\ working_ids[i].key = working_ids[j].key => i = j
    BY StateKnown DEF IdsOK, IsSeq
  <1>4. \A w \in TcpWorkers : ~Alive(w) => streams[w] = <<>>
    BY StateKnown DEF QueuesOK
  <1>5. ASSUME NEW w \in Workers
        PROVE  worker[w].depth \in 0..(CNAME_DEPTH + 1) /\ worker[w].reply.rescode \in RESCODES
    BY WorkerKnown DEF WorkFields, ReplyOK, DepthOK
  <1> QED
    BY <1>1, <1>2, <1>3, <1>4, <1>5, StateKnown DEF TypeOK

LEMMA EntryKnown ==
    ASSUME SInv, NEW k \in DOMAIN cache, cache[k].kind = "records", NEW e \in cache[k].entries
    PROVE  EntryOK(k, e, clock, version, worker)
  <1>1. cache[k].kind # "none"
    OBVIOUS
  <1> QED
    BY <1>1, CachedCases DEF CachedSetOK

LEMMA BoundFollows ==
    ASSUME SInv
    PROVE  StalenessIsBounded
  <1>1. SUFFICES ASSUME NEW k \in DOMAIN cache, cache[k].kind = "records",
                        NEW e \in cache[k].entries
                 PROVE  IF e.record.origin.from = "hosts" THEN e.timestamp - e.record.origin.at = 0
                        ELSE e.timestamp - e.record.origin.at <= (Cardinality(Workers) - 1) * e.record.ttl
    BY DEF StalenessIsBounded
  <1>2. EntryOK(k, e, clock, version, worker)
    BY <1>1, EntryKnown
  <1>3. e.timestamp \in Nat /\ e.record.origin.at \in Nat
    BY <1>2, StateKnown, EntryNumbers
  <1> QED
    BY <1>2, <1>3 DEF EntryOK, Fits

LEMMA NamesFollow ==
    ASSUME SInv
    PROVE  FilteredNamesStayLocal
  <1>1. SUFFICES ASSUME NEW k \in DOMAIN cache, cache[k].kind = "records",
                        NEW e \in cache[k].entries, e.record.origin.about = k[1],
                        e.record.origin.from \notin {"hosts", "chain", "zone"}
                 PROVE  ZonesFor(k[1]) = {} /\ ~InHosts(k[1]) /\ LeftToOthers(k[1], version)
    BY DEF FilteredNamesStayLocal
  <1>2. EntryOK(k, e, clock, version, worker)
    BY <1>1, EntryKnown
  <1>3. Vetted(e.record.origin.about, version)
    BY <1>1, <1>2 DEF EntryOK, GoodRecord, Foreign
  <1> QED
    BY <1>1, <1>3 DEF Vetted

(* The server's types, for any number of workers, requests and versions of *)
(* the chain: every cached record is under its own name and type, once,    *)
(* stamped in the past (store, store_record); working_ids holds one entry  *)
(* per key within its capacity; the streams of a dead worker are gone;     *)
(* resolve_cnames ends at its depth.                                       *)
THEOREM ServerTypes == Spec => []TypeOK
  <1>1. SInv => TypeOK
    BY TypesFollow
  <1> QED
    BY <1>1, ServingIsInductive, PTL

(* A cached record is prolonged at most once for every other worker,       *)
(* however the workers' lookups and stores interleave                      *)
(* (ForwardingDnsResolver::perform stores what its second look found), and *)
(* what the hosts file says is never prolonged.                            *)
THEOREM StalenessIsAlwaysBounded == Spec => []StalenessIsBounded
  <1>1. SInv => StalenessIsBounded
    BY BoundFollows
  <1> QED
    BY <1>1, ServingIsInductive, PTL

(* What a server said when asked for a name is cached only if the name is  *)
(* in no local zone, not in the hosts file, and some version of the chain  *)
(* that the node has seen left it to others: nothing passes zones and      *)
(* filters on the way to perform, in recursion and CNAMEs included.        *)
THEOREM FilteredNamesAlwaysStayLocal == Spec => []FilteredNamesStayLocal
  <1>1. SInv => FilteredNamesStayLocal
    BY NamesFollow
  <1> QED
    BY <1>1, ServingIsInductive, PTL
=============================================================================

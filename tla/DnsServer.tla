----------------------------- MODULE DnsServer -----------------------------
(***************************************************************************)
(* The DNS server of a node: the UDP thread that queues requests for a     *)
(* pool of workers, the TCP thread that hands each connection to a worker  *)
(* picked at random (src/src/dns/server.rs), and what a worker does with a *)
(* request: it resolves the question and the CNAMEs in the answer, through *)
(* the local zones, the cache, the filters and, at last, by asking a       *)
(* forwarder or walking down from the closest name server it knows         *)
(* (src/src/dns/resolve.rs).  Workers share the cache and the blockchain;  *)
(* a call on one of them is a step of its own, but for the lookups of      *)
(* StartAtClosest and the three stores of QueryServer, which are taken     *)
(* together.                                                               *)
(***************************************************************************)
EXTENDS DnsZones, SequencesExt

CONSTANTS
    Types,
    UdpWorkers, TcpWorkers,
    Loads,            \* the sets of requests that clients may send, `times` times each
    Strategies,       \* the resolve strategies a node may be configured with
    Upstreams,        \* the configured forwarders
    Versions,         \* what the blockchain says of its domains, one after the other
    ALLOW_RECURSIVE,
    CNAME_DEPTH,      \* resolve_cnames gives up below this depth
    RESEND_WINDOW,    \* a repeated (source, id) within this time is dropped
    WORKING_IDS,      \* capacity of the table of recent (source, id)
    NoName,           \* the request has no question
    MaxTime,          \* bound on the clock
    MaxFailures       \* bound on workers that end

(* A name is the sequence of its labels.                                   *)
IsName(name) == Len(name) \in Nat /\ DOMAIN name = 1..Len(name)

ASSUME DnsServerAssumption ==
    /\ CNAME_DEPTH \in Nat /\ RESEND_WINDOW \in Nat \ {0} /\ WORKING_IDS \in Nat \ {0}
    /\ ALLOW_RECURSIVE \in BOOLEAN /\ Upstreams # {} /\ UdpWorkers \cap TcpWorkers = {}
    /\ IsFiniteSet(UdpWorkers) /\ IsFiniteSet(TcpWorkers) /\ MaxTime \in Nat
    /\ Strategies \subseteq {"Forward", "Recursive"}
    /\ \A load \in Loads : \A r \in load :
          /\ r.proto \in {"udp", "tcp"} /\ r.recursion_desired \in BOOLEAN
          /\ r.type \in Types \cup {"UNKNOWN"} /\ r.times \in Nat
          /\ r.name = NoName \/ IsName(r.name)

(* The values of a record's fields, as from_buffer and from_json make them.*)
IsRecord(r) ==
    /\ r = DnsRecord(r.domain, r.type, r.value, r.ttl, r.origin)
    /\ r.type \in Types /\ r.ttl \in Nat
    /\ r.type \in {"CNAME", "NS"} => IsName(r.value)
    /\ r.type = "SOA" => r.value \in Nat

IsPacket(p) ==
    /\ p = DnsPacket(p.rescode, p.authoritative_answer, p.answers, p.authorities, p.resources)
    /\ p.rescode \in RESCODES
    /\ \A r \in p.answers \cup p.authorities \cup p.resources : IsRecord(r)

(* What zones, hosts file, chain and servers say is made of records; the   *)
(* hosts file gives addresses, and no server is called "hosts".            *)
ASSUME WorldAssumption ==
    /\ {"NS", "SOA"} \subseteq Types /\ HOSTS_TTL \in Nat
    /\ \A r \in Replies : IsPacket(r.packet) /\ r.server # "hosts"
    /\ \A z \in Zones : /\ z.len \in 0..255 /\ z.minimum \in Nat
                        /\ \A r \in z.records : IsRecord(r)
    /\ Len(HostsFile) \in Nat /\ DOMAIN HostsFile = 1..Len(HostsFile)
    /\ \A i \in DOMAIN HostsFile : HostsFile[i].type \in Types \ {"CNAME", "NS", "SOA"}
    /\ Len(Versions) \in Nat \ {0} /\ DOMAIN Versions = 1..Len(Versions)
    /\ \A v \in DOMAIN Versions : \A d \in DOMAIN Versions[v] :
          Versions[v][d] \in {NoData, BadData} \/ \A r \in Versions[v][d] : IsRecord(r)

Workers == UdpWorkers \cup TcpWorkers

VARIABLES
    clock,
    strategy,     \* ResolveStrategy of the context, set at the start
    cache,
    version,      \* which of Versions the chain has reached
    sends,        \* how often each request of the load has been sent
    working_ids,  \* (source, id) and time, the latest used first
    queue,        \* the channel from the UDP thread to its workers
    streams,      \* the channel of each TCP worker
    worker

vars == <<clock, strategy, cache, version, sends, working_ids, queue, streams, worker>>

shared == <<clock, strategy, version, sends, working_ids, queue, streams>>

NoRequest == [key |-> NoName]

Question(name, type, rd) == [name |-> name, type |-> type, recursive |-> rd]

NoReply == [rescode |-> "NOERROR", authoritative_answer |-> FALSE, answers |-> {}]

(* A worker waiting for a request.                                         *)
Idle ==
    [pc |-> "recv", request |-> NoRequest, q |-> Question(NoName, "A", FALSE), depth |-> 0,
     result |-> NoPacket, reply |-> NoReply, todo |-> {}, ns |-> NoAddr, calls |-> <<>>]

Dead == [Idle EXCEPT !.pc = "dead"]

Init ==
    /\ clock = 0
    /\ strategy \in Strategies
    /\ cache = EmptyCache
    /\ version = 1
    /\ \E load \in Loads : sends = [r \in load |-> 0]
    /\ working_ids = <<>>
    /\ queue = <<>>
    /\ streams = [w \in TcpWorkers |-> <<>>]
    /\ worker = [w \in Workers |-> Idle]

Alive(w) == worker[w].pc # "dead"

Domains == Versions[version]

Set(w, new) == worker' = [worker EXCEPT ![w] = new]

-----------------------------------------------------------------------------
(* Time passes.  A thread is not held up for a whole tick between having a *)
(* packet in hand and storing it: nothing in the code waits there.         *)
MayTick == clock < MaxTime /\ \A w \in Workers : worker[w].pc # "store"

Tick ==
    /\ MayTick
    /\ clock' = clock + 1
    /\ UNCHANGED <<strategy, cache, version, sends, working_ids, queue, streams, worker>>

(* A block changes what the chain says of a domain.                        *)
ChainMoves ==
    /\ version < Len(Versions)
    /\ version' = version + 1
    /\ UNCHANGED <<clock, strategy, cache, sends, working_ids, queue, streams, worker>>

-----------------------------------------------------------------------------
(* DnsUdpServer-incoming: a datagram whose source and id were seen within  *)
(* RESEND_WINDOW is dropped.  Looking the pair up makes it the latest used *)
(* one; the least used one makes room for a new one.  With all workers     *)
(* gone the channel refuses.                                               *)
Firsts(seq, n) == SubSeq(seq, 1, IF Len(seq) < n THEN Len(seq) ELSE n)

ReceiveUdp(r) ==
    /\ r.proto = "udp" /\ sends[r] < r.times
    /\ sends' = [sends EXCEPT ![r] = @ + 1]
    /\ LET known == {i \in DOMAIN working_ids : working_ids[i].key = r.key}
           place == CHOOSE i \in known : TRUE
           others == IF known = {} THEN working_ids ELSE RemoveAt(working_ids, place)
           resent == known # {} /\ working_ids[place].time + RESEND_WINDOW > clock
           latest == IF resent THEN working_ids[place] ELSE [key |-> r.key, time |-> clock]
           refused == resent \/ ~ \E w \in UdpWorkers : Alive(w)
       IN  /\ working_ids' = Firsts(<<latest>> \o others, WORKING_IDS)
           /\ queue' = IF refused THEN queue ELSE Append(queue, r)
    /\ UNCHANGED <<clock, strategy, cache, version, streams, worker>>

(* DnsTcpServer-incoming: a connection goes to a worker picked at random;  *)
(* one that has ended no longer takes any, and the connection is dropped.  *)
AcceptTcp(r, w) ==
    /\ r.proto = "tcp" /\ sends[r] < r.times
    /\ sends' = [sends EXCEPT ![r] = @ + 1]
    /\ streams' = IF Alive(w) THEN [streams EXCEPT ![w] = Append(@, r)] ELSE streams
    /\ UNCHANGED <<clock, strategy, cache, version, working_ids, queue, worker>>

-----------------------------------------------------------------------------
(* execute_query: what is refused at once, and the question otherwise.     *)
Begun(r) ==
    LET refused(code) == [Idle EXCEPT !.pc = "send", !.request = r, !.reply.rescode = code]
    IN  IF r.recursion_desired /\ ~ALLOW_RECURSIVE THEN refused("REFUSED")
        ELSE IF r.name = NoName THEN refused("FORMERR")
        ELSE [Idle EXCEPT !.pc = "resolve", !.request = r,
                          !.q = Question(r.name, r.type, r.recursion_desired)]

TakeUdp(w) ==
    /\ worker[w].pc = "recv" /\ queue # <<>>
    /\ Set(w, Begun(Head(queue)))
    /\ queue' = Tail(queue)
    /\ UNCHANGED <<clock, strategy, cache, version, sends, working_ids, streams>>

TakeTcp(w) ==
    /\ worker[w].pc = "recv" /\ streams[w] # <<>>
    /\ Set(w, [Idle EXCEPT !.pc = "read", !.request = Head(streams[w])])
    /\ streams' = [streams EXCEPT ![w] = Tail(@)]
    /\ UNCHANGED <<clock, strategy, cache, version, sends, working_ids, queue>>

ReadQuery(w) ==
    /\ worker[w].pc = "read"
    /\ Set(w, Begun(worker[w].request))
    /\ UNCHANGED <<shared, cache>>

-----------------------------------------------------------------------------
(* DnsResolver::resolve.                                                   *)
Returned(w, packet) == [worker[w] EXCEPT !.pc = "return", !.result = packet]

(* What is answered without the cache: unknown types, local zones, and     *)
(* requests that do not ask for recursion.                                 *)
EarlyAnswer(q) ==
    IF q.type = "UNKNOWN" THEN EmptyPacket("NOTIMP")
    ELSE IF query(q.name, q.type, clock) # NoPacket THEN query(q.name, q.type, clock)
    ELSE IF ~q.recursive \/ ~ALLOW_RECURSIVE THEN EmptyPacket("REFUSED")
    ELSE NoPacket

AnswerEarly(w) ==
    /\ worker[w].pc = "resolve" /\ EarlyAnswer(worker[w].q) # NoPacket
    /\ Set(w, Returned(w, EarlyAnswer(worker[w].q)))
    /\ UNCHANGED <<shared, cache>>

(* A lookup in the cache that finds something, the clock perhaps moving    *)
(* while it does.                                                          *)
Moments == IF MayTick THEN {clock, clock + 1} ELSE {clock}

Hit(w, type, pc) ==
    /\ lookup(cache, worker[w].q.name, type, clock, clock) # NoPacket
    /\ \E later \in Moments :
          /\ clock' = later
          /\ Set(w, [worker[w] EXCEPT !.pc = pc,
                        !.result = lookup(cache, worker[w].q.name, type, clock, later)])
    /\ UNCHANGED <<strategy, cache, version, sends, working_ids, queue, streams>>

Miss(w, type, pc) ==
    /\ lookup(cache, worker[w].q.name, type, clock, clock) = NoPacket
    /\ Set(w, [worker[w] EXCEPT !.pc = pc])
    /\ UNCHANGED <<shared, cache>>

(* Mutant: whatever comes from the cache is stored again.                  *)
MutantHitsAreStored(w) ==
    /\ worker[w].pc = "resolve" /\ EarlyAnswer(worker[w].q) = NoPacket
    /\ \/ Hit(w, worker[w].q.type, "store")
       \/ Miss(w, worker[w].q.type, IF worker[w].q.type \in {"A", "AAAA"} THEN "cname" ELSE "filter")

LookUp(w) ==
    /\ worker[w].pc = "resolve" /\ EarlyAnswer(worker[w].q) = NoPacket
    /\ \/ Hit(w, worker[w].q.type, "return")
       \/ Miss(w, worker[w].q.type, IF worker[w].q.type \in {"A", "AAAA"} THEN "cname" ELSE "filter")

LookUpCname(w) ==
    /\ worker[w].pc = "cname"
    /\ Hit(w, "CNAME", "return") \/ Miss(w, "CNAME", "filter")

Filter(w) ==
    /\ worker[w].pc = "filter"
    /\ \E p \in filtered(Domains, worker[w].q.name, worker[w].q.type, clock) :
          Set(w, [worker[w] EXCEPT !.result = p, !.pc = IF p = NoPacket THEN "perform" ELSE "store"])
    /\ UNCHANGED <<shared, cache>>

Store(w) ==
    /\ worker[w].pc = "store"
    /\ cache' = store(cache, worker[w].result.answers, clock)
    /\ Set(w, [worker[w] EXCEPT !.pc = "return"])
    /\ UNCHANGED shared

-----------------------------------------------------------------------------
(* ForwardingDnsResolver::perform.  What another worker has cached in the  *)
(* meantime is taken, and stored again.                                    *)
LookUpAgain(w) ==
    /\ worker[w].pc = "perform" /\ strategy = "Forward"
    /\ Hit(w, worker[w].q.type, "store") \/ Miss(w, worker[w].q.type, "ask")

Ask(w) ==
    /\ worker[w].pc = "ask"
    /\ \E u \in Upstreams : \E p \in Asked(u, worker[w].q.name, worker[w].q.type, clock) :
          Set(w, [worker[w] EXCEPT !.pc = "store", !.result = p])
    /\ UNCHANGED <<shared, cache>>

(* The client gives up: no answer in time, or no client for such a server. *)
AskFails(w) ==
    /\ worker[w].pc \in {"ask", "query"}
    /\ Set(w, Returned(w, NoPacket))
    /\ UNCHANGED <<shared, cache>>

-----------------------------------------------------------------------------
(* RecursiveDnsResolver::perform starts at the closest name server whose   *)
(* name and address are cached: the name itself, then its parents, then    *)
(* the root.                                                               *)
CachedServers(domain) ==
    LET found == lookup(cache, domain, "NS", clock, clock)
        hosts == IF found = NoPacket THEN {} ELSE get_unresolved_ns(found, domain)
        address(h) == lookup(cache, h, "A", clock, clock)
    IN  IF hosts = {} THEN {NoAddr}
        ELSE UNION {IF address(h) = NoPacket THEN {NoAddr} ELSE get_random_a(address(h)) : h \in hosts}

Parent(name, i) == SubSeq(name, i + 1, Len(name))

Closest(name) ==
    {NoAddr} \cup UNION {CachedServers(Parent(name, i)) : i \in {j \in 0..Len(name) :
                            \A k \in 0..(j - 1) : NoAddr \in CachedServers(Parent(name, k))}}

StartAtClosest(w) ==
    /\ worker[w].pc = "perform" /\ strategy = "Recursive"
    /\ \E a \in Closest(worker[w].q.name) :
          /\ a = NoAddr => \A i \in 0..Len(worker[w].q.name) :
                              NoAddr \in CachedServers(Parent(worker[w].q.name, i))
          /\ Set(w, IF a = NoAddr THEN Returned(w, NoPacket)
                    ELSE [worker[w] EXCEPT !.pc = "query", !.ns = a])
    /\ UNCHANGED <<shared, cache>>

StoreAll(p) == store(store(store(cache, p.answers, clock), p.authorities, clock), p.resources, clock)

(* The loop: an answer, a denial, a referral with an address, or one by    *)
(* name, whose address is resolved by a call of resolve within this one.   *)
QueryServer(w) ==
    /\ worker[w].pc = "query"
    /\ \E p \in Asked(worker[w].ns, worker[w].q.name, worker[w].q.type, clock) :
        LET qname == worker[w].q.name
            answered == p.answers # {} /\ p.rescode = "NOERROR"
            denied == ~answered /\ p.rescode = "NXDOMAIN"
            referred == ~answered /\ ~denied
        IN  \/ /\ answered
               /\ cache' = StoreAll(p)
               /\ Set(w, Returned(w, p))
            \/ /\ denied
               /\ \/ /\ get_ttl_from_soa(p) = {}
                     /\ cache' = cache
                  \/ \E ttl \in get_ttl_from_soa(p) :
                        cache' = store_nxdomain(cache, qname, worker[w].q.type, ttl, clock)
               /\ Set(w, Returned(w, p))
            \/ \E a \in get_resolved_ns(p, qname) :
                  /\ referred
                  /\ cache' = StoreAll(p)
                  /\ Set(w, [worker[w] EXCEPT !.ns = a])
            \/ \E host \in get_unresolved_ns(p, qname) :
                  /\ referred /\ get_resolved_ns(p, qname) = {}
                  /\ Set(w, [worker[w] EXCEPT !.pc = "resolve", !.q = Question(host, "A", TRUE),
                                !.calls = <<[q |-> worker[w].q, response |-> p]>> \o @])
                  /\ UNCHANGED cache
            \/ /\ referred /\ get_unresolved_ns(p, qname) = {}
               /\ Set(w, Returned(w, p))
               /\ UNCHANGED cache
    /\ UNCHANGED shared

(* The inner resolve is back: with an address the loop goes on, without    *)
(* one the referral is what the outer resolve returns.                     *)
ReturnToLoop(w) ==
    /\ worker[w].pc = "return" /\ worker[w].calls # <<>> /\ worker[w].result # NoPacket
    /\ LET call == Head(worker[w].calls)
           back == [worker[w] EXCEPT !.q = call.q, !.calls = Tail(@)]
       IN  \E a \in get_random_a(worker[w].result) :
              Set(w, IF a # NoAddr THEN [back EXCEPT !.pc = "query", !.ns = a]
                     ELSE [back EXCEPT !.result = call.response])
    /\ UNCHANGED <<shared, cache>>

-----------------------------------------------------------------------------
(* execute_query and resolve_cnames: the first result gives the code of    *)
(* the reply, the results of CNAMEs add answers; an error among those is   *)
(* ignored.  The deepest CNAMEs come first.                                *)
ReplyWith(work) ==
    LET p == work.result
    IN  IF p = NoPacket
        THEN IF work.depth = 0 THEN [NoReply EXCEPT !.rescode = "SERVFAIL"] ELSE work.reply
        ELSE IF work.depth = 0
        THEN [rescode |-> p.rescode, authoritative_answer |-> p.authoritative_answer,
              answers |-> p.answers]
        ELSE [work.reply EXCEPT !.answers =
                @ \cup {r \in p.answers : ~ \E s \in @ : SameRecord(r, s)}]

(* Mutant: resolve_cnames hands on its own depth.                          *)
MutantSameDepth(work) ==
    IF work.result = NoPacket \/ work.depth > CNAME_DEPTH THEN {}
    ELSE {[host |-> r.value, depth |-> 1] :
            r \in get_unresolved_cnames(work.result, work.request.type)}

Unresolved(work) ==
    IF work.result = NoPacket \/ work.depth > CNAME_DEPTH THEN {}
    ELSE {[host |-> r.value, depth |-> work.depth + 1] :
            r \in get_unresolved_cnames(work.result, work.request.type)}

Return(w) ==
    /\ worker[w].pc = "return" /\ (worker[w].calls = <<>> \/ worker[w].result = NoPacket)
    /\ LET todo == worker[w].todo \cup Unresolved(worker[w])
           next == [worker[w] EXCEPT !.reply = ReplyWith(worker[w]), !.result = NoPacket,
                                     !.ns = NoAddr, !.calls = <<>>]
       IN  \/ /\ todo = {}
              /\ Set(w, [next EXCEPT !.pc = "send"])
           \/ \E t \in todo :
                 /\ \A u \in todo : u.depth <= t.depth
                 /\ Set(w, [next EXCEPT !.pc = "resolve", !.todo = todo \ {t}, !.depth = t.depth,
                               !.q = Question(t.host, worker[w].request.type, TRUE)])
    /\ UNCHANGED <<shared, cache>>

Send(w) ==
    /\ worker[w].pc = "send"
    /\ Set(w, Idle)
    /\ UNCHANGED <<shared, cache>>

-----------------------------------------------------------------------------
(* A worker ends for good: its reply cannot be sent, a TCP client is gone  *)
(* before its query was read, or the client that lookup_from_ns creates    *)
(* finds its port taken.  The connections queued for it are dropped.       *)
Delegated(qname) ==
    /\ Len(qname) > 1 /\ ~InHosts(qname) /\ TopDomain(qname) \in DOMAIN Domains
    /\ Domains[TopDomain(qname)] \notin {NoData, BadData}
    /\ GlueServers(Domains[TopDomain(qname)], TopDomain(qname)) # {}

(* Mutant: the connections of a worker that has ended wait for ever.       *)
MutantStreamsStay(w) ==
    /\ \/ worker[w].pc \in {"send", "read"}
       \/ worker[w].pc = "filter" /\ Delegated(worker[w].q.name)
    /\ Cardinality({v \in Workers : ~Alive(v)}) < MaxFailures
    /\ Set(w, Dead)
    /\ UNCHANGED <<clock, strategy, cache, version, sends, working_ids, queue, streams>>

WorkerEnds(w) ==
    /\ \/ worker[w].pc \in {"send", "read"}
       \/ worker[w].pc = "filter" /\ Delegated(worker[w].q.name)
    /\ Cardinality({v \in Workers : ~Alive(v)}) < MaxFailures
    /\ Set(w, Dead)
    /\ streams' = [v \in TcpWorkers |-> IF v = w THEN <<>> ELSE streams[v]]
    /\ UNCHANGED <<clock, strategy, cache, version, sends, working_ids, queue>>

Work(w) ==
    \/ w \in UdpWorkers /\ TakeUdp(w)
    \/ w \in TcpWorkers /\ TakeTcp(w)
    \/ ReadQuery(w) \/ AnswerEarly(w) \/ LookUp(w) \/ LookUpCname(w) \/ Filter(w) \/ Store(w)
    \/ LookUpAgain(w) \/ Ask(w) \/ AskFails(w) \/ StartAtClosest(w) \/ QueryServer(w)
    \/ ReturnToLoop(w) \/ Return(w) \/ Send(w)

Next ==
    \/ Tick
    \/ ChainMoves
    \/ \E r \in DOMAIN sends : ReceiveUdp(r)
    \/ \E r \in DOMAIN sends, w \in TcpWorkers : AcceptTcp(r, w)
    \/ \E w \in Workers : Work(w) \/ WorkerEnds(w)

Spec == Init /\ [][Next]_vars

(* The worker is in a call that others must end: a TCP client sends its    *)
(* query, or takes the reply; a server answers.  Sockets of TCP have no    *)
(* timeout here, and a truncated answer over UDP is asked for again by TCP.*)
Waits(w) ==
    \/ worker[w].pc \in {"read", "ask", "query"}
    \/ worker[w].pc = "filter" /\ Delegated(worker[w].q.name)
    \/ worker[w].pc = "send" /\ w \in TcpWorkers

(* Threads run.  That others act is not assumed.                           *)
FairSpec == Spec /\ \A w \in Workers : WF_vars(~Waits(w) /\ Work(w))

-----------------------------------------------------------------------------
(* What the clock, the tables and the workers hold.                        *)
RecordOK(r) == IsRecord(r) /\ r.origin.at \in 0..clock

SetOK(k) ==
    CASE cache[k].kind = "none" -> cache[k].ttl \in Nat /\ cache[k].timestamp \in 0..clock
      [] cache[k].kind = "records" ->
            /\ cache[k].entries # {}
            /\ \A e \in cache[k].entries :
                  /\ RecordOK(e.record) /\ e.timestamp \in 0..clock
                  /\ Key(e.record) = k
                  /\ \A f \in cache[k].entries : SameRecord(e.record, f.record) => e = f

(* Every cached record is under its own name and type, once, and stamped   *)
(* in the past (store, store_record); the table of recent ids holds one    *)
(* entry per key and no more than its capacity (working_ids); a dead       *)
(* worker holds no stream; CNAMEs are followed to the depth of             *)
(* resolve_cnames and no further.                                          *)
TypeOK ==
    /\ clock \in 0..MaxTime /\ version \in DOMAIN Versions
    /\ \A k \in DOMAIN cache : SetOK(k)
    /\ Len(working_ids) <= WORKING_IDS
    /\ \A i, j \in DOMAIN working_ids :
          /\ working_ids[i].time <= clock
          /\ working_ids[i].key = working_ids[j].key => i = j
    /\ \A w \in TcpWorkers : ~Alive(w) => streams[w] = <<>>
    /\ \A w \in Workers :
          worker[w].depth \in 0..(CNAME_DEPTH + 1) /\ worker[w].reply.rescode \in RESCODES

(* A record is served until its ttl has run from its last store, and what  *)
(* is stored may come from the cache (ForwardingDnsResolver::perform looks *)
(* there once more and stores what it finds as if it were new).  However   *)
(* requests interleave, this prolongs a record at most once for every      *)
(* other worker: the ones that had missed it before it came.  What the     *)
(* hosts file says is never prolonged.                                     *)
StalenessIsBounded ==
    \A k \in DOMAIN cache : cache[k].kind = "records" =>
        \A e \in cache[k].entries :
            LET age == e.timestamp - e.record.origin.at
            IN  IF e.record.origin.from = "hosts" THEN age = 0
                ELSE age <= (Cardinality(Workers) - 1) * e.record.ttl

(* One of the first versions of the chain has left the name to others: no  *)
(* domain, in a zone that is not the chain's, data that does not parse, or *)
(* name servers of its own.                                                *)
LeftToOthers(qname, upto) ==
    \E v \in 1..upto :
        LET data == IF Len(qname) > 1 /\ TopDomain(qname) \in DOMAIN Versions[v]
                    THEN Versions[v][TopDomain(qname)] ELSE NoData
        IN  CASE data = NoData -> ~InChainZone(qname)
              [] data = BadData -> TRUE
              [] OTHER -> GlueServers(data, TopDomain(qname)) # {}

(* Nobody else is believed about a name that the node itself can answer:   *)
(* a record some server gave when asked for its name is cached only if the *)
(* name is in no local zone, not in the hosts file and was left to others  *)
(* by the chain (resolve: zones, cache, filters, and only then perform).   *)
(* Records that come along with another name's answer are not covered: the *)
(* resolver stores them unseen.                                            *)
FilteredNamesStayLocal ==
    \A k \in DOMAIN cache : cache[k].kind = "records" =>
        \A e \in cache[k].entries :
            (/\ e.record.origin.about = k[1]
             /\ e.record.origin.from \notin {"hosts", "chain", "zone"})
            => ZonesFor(k[1]) = {} /\ ~InHosts(k[1]) /\ LeftToOthers(k[1], version)

(* In the loop of RecursiveDnsResolver::perform, or in a call of resolve   *)
(* from there.                                                             *)
InReferrals(w) == worker[w].pc = "query" \/ worker[w].calls # <<>>

(* Others keep the worker for good: one call of theirs never ends, or      *)
(* referrals lead from server to server for ever, which nothing bounds.    *)
Held(w) == <>[]Waits(w) \/ <>[]InReferrals(w)

(* A worker comes back for the next request again and again, or ends,      *)
(* unless others keep it: wherever CNAMEs lead, and also when each of them *)
(* has to be asked for (resolve_cnames).                                   *)
WorkersComeBack == \A w \in Workers : []<>(worker[w].pc \in {"recv", "dead"}) \/ Held(w)

(* What was queued is taken: a request over UDP unless every worker has    *)
(* ended or is kept by others, a connection unless the one worker it was   *)
(* given to is kept (run_server of DnsUdpServer and DnsTcpServer).         *)
RequestsAreTaken ==
    /\ []<>(queue = <<>>) \/ \A w \in UdpWorkers : <>[]~Alive(w) \/ Held(w)
    /\ \A w \in TcpWorkers : []<>(streams[w] = <<>>) \/ Held(w)
=============================================================================

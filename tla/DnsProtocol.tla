---------------------------- MODULE DnsProtocol ----------------------------
(***************************************************************************)
(* Names, records and packets as the resolver, the cache and the filters   *)
(* see them (src/src/dns/protocol.rs).  A name is the sequence of its      *)
(* labels.  A record's value stands for its address, the host it names or, *)
(* in a SOA record, the `minimum`.  Sections of a packet are sets: their   *)
(* order decides only which record a random choice takes.                  *)
(***************************************************************************)
EXTENDS Naturals, Sequences, FiniteSets

CONSTANTS
    LabelEnds,  \* the pairs of labels of which the first ends with the second
    NoAddr      \* None where an address is expected

(* None, or Err, where a packet is expected.                               *)
NoPacket == [none |-> "packet"]

RESCODES == {"NOERROR", "FORMERR", "SERVFAIL", "NXDOMAIN", "NOTIMP", "REFUSED"}

(* qname.ends_with(domain) compares strings: a label may end with another. *)
EndsWith(name, domain) ==
    LET skip == Len(name) - Len(domain)
    IN  \/ domain = <<>>
        \/ /\ Len(domain) <= Len(name)
           /\ \A i \in 2..Len(domain) : name[skip + i] = domain[i]
           /\ \/ name[skip + 1] = domain[1]
              \/ <<name[skip + 1], domain[1]>> \in LabelEnds

(* `origin` is history: where the record was read, for which name, when.   *)
Origin(from, about, at) == [from |-> from, about |-> about, at |-> at]

DnsRecord(domain, type, value, ttl, origin) ==
    [domain |-> domain, type |-> type, value |-> value, ttl |-> ttl, origin |-> origin]

(* Where a record is cached: by get_domain and get_querytype.  An OPT      *)
(* record has no domain.                                                   *)
HasDomain(r) == r.type # "OPT"

Key(r) == <<r.domain, r.type>>

(* The equality of DnsRecord, ttl included.                                *)
SameRecord(r, s) ==
    r.domain = s.domain /\ r.type = s.type /\ r.value = s.value /\ r.ttl = s.ttl

DnsPacket(rescode, aa, answers, authorities, resources) ==
    [rescode |-> rescode, authoritative_answer |-> aa, answers |-> answers,
     authorities |-> authorities, resources |-> resources]

EmptyPacket(rescode) == DnsPacket(rescode, FALSE, {}, {}, {})

(* The possible values of the calls that pick at random.                   *)
get_random_a(packet) ==
    IF packet.answers = {} THEN {NoAddr}
    ELSE {IF r.type = "A" THEN r.value ELSE NoAddr : r \in packet.answers}

get_unresolved_cnames(packet, qtype) ==
    {r \in packet.answers :
        /\ r.type = "CNAME"
        /\ ~ \E s \in packet.answers :
                qtype \in {"A", "AAAA"} /\ s.type = qtype /\ s.domain = r.value}

NameServersFor(packet, qname) ==
    {r \in packet.authorities : r.type = "NS" /\ EndsWith(qname, r.domain)}

get_resolved_ns(packet, qname) ==
    {s.value : s \in {x \in packet.resources :
        x.type = "A" /\ \E r \in NameServersFor(packet, qname) : r.value = x.domain}}

get_unresolved_ns(packet, qname) == {r.value : r \in NameServersFor(packet, qname)}

get_ttl_from_soa(packet) == {r.value : r \in {x \in packet.authorities : x.type = "SOA"}}
=============================================================================

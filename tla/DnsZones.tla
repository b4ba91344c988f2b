------------------------------ MODULE DnsZones ------------------------------
(***************************************************************************)
(* The three sources a query is answered from before anybody else is       *)
(* asked: the local zones (src/src/dns/authority.rs), the hosts file       *)
(* (src/src/dns/hosts.rs) and the domains of the blockchain                *)
(* (src/src/blockchain/filter.rs), which may delegate a domain to name     *)
(* servers of its own.                                                     *)
(***************************************************************************)
EXTENDS DnsCache

CONSTANTS
    Zones,       \* what Zones::load has found: [domain, len, minimum, records]
    HostsFile,   \* the lines of the hosts file: [domain, type, value]
    HOSTS_TTL,   \* the ttl of what the hosts file says
    ChainZones,  \* the labels is_available_zone accepts
    NoData,      \* the domain is not in the blockchain, or not alive
    BadData,     \* data that does not parse
    Replies      \* what servers say: [server, name, type, packet]

SOA_MINIMUM == 60

NS_TTL == 600

SoaRecord(zone, minimum, origin) == DnsRecord(zone, "SOA", minimum, minimum, origin)

-----------------------------------------------------------------------------
(* Local zones.  The longest zone that ends the name is asked; `len` is    *)
(* the length of its domain as a string.                                   *)
ZonesFor(qname) == {z \in Zones : EndsWith(qname, z.domain)}

BestZone(qname) ==
    CHOOSE z \in ZonesFor(qname) : \A y \in ZonesFor(qname) : y.len <= z.len

query(qname, qtype, now) ==
    LET zone == BestZone(qname)
        origin == Origin("zone", qname, now)
        answers == {[r EXCEPT !.origin = origin] : r \in {x \in zone.records :
            x.domain = qname /\ (x.type = qtype \/ (qtype = "A" /\ x.type = "CNAME"))}}
    IN  IF ZonesFor(qname) = {} THEN NoPacket
        ELSE IF answers # {} THEN DnsPacket("NOERROR", TRUE, answers, {}, {})
        ELSE DnsPacket("NXDOMAIN", TRUE, {}, {SoaRecord(zone.domain, zone.minimum, origin)}, {})

-----------------------------------------------------------------------------
(* The hosts file.  The first line of a name is the one that counts, and a *)
(* name of the file is never asked for anywhere else, whatever the type.   *)
HostLine(qname) ==
    HostsFile[CHOOSE i \in DOMAIN HostsFile :
                 /\ HostsFile[i].domain = qname
                 /\ \A j \in 1..(i - 1) : HostsFile[j].domain # qname]

InHosts(qname) == \E i \in DOMAIN HostsFile : HostsFile[i].domain = qname

hosts_lookup(qname, qtype, now) ==
    LET origin == Origin("hosts", qname, now)
        line == HostLine(qname)
        answers == IF line.type # qtype THEN {}
                   ELSE {DnsRecord(qname, qtype, line.value, HOSTS_TTL, origin)}
    IN  IF ~InHosts(qname) THEN NoPacket
        ELSE DnsPacket("NOERROR", TRUE, answers,
                       {DnsRecord(<<"hosts">>, "NS", <<"hosts">>, NS_TTL, origin)}, {})

-----------------------------------------------------------------------------
(* What a server says when asked, NXDOMAIN unless Replies knows better.    *)
Stamped(packet, origin) ==
    [packet EXCEPT !.answers = {[r EXCEPT !.origin = origin] : r \in @},
                   !.authorities = {[r EXCEPT !.origin = origin] : r \in @},
                   !.resources = {[r EXCEPT !.origin = origin] : r \in @}]

Asked(server, qname, qtype, now) ==
    LET known == {r \in Replies : r.server = server /\ r.name = qname /\ r.type = qtype}
    IN  IF known = {} THEN {EmptyPacket("NXDOMAIN")}
        ELSE {Stamped(r.packet, Origin(server, qname, now)) : r \in known}

-----------------------------------------------------------------------------
(* The blockchain.  Records of a domain are named relative to it: "@" is   *)
(* the domain itself and "*" whatever has no record of its own.            *)
Apex == <<"@">>

Wildcard == <<"*">>

TopDomain(qname) == SubSeq(qname, Len(qname) - 1, Len(qname))

Subdomain(qname) == SubSeq(qname, 1, Len(qname) - 2)

ZoneOf(qname) == <<qname[Len(qname)]>>

InChainZone(qname) == qname # <<>> /\ qname[Len(qname)] \in ChainZones

(* Addresses in the domain's own records of the name servers it names.     *)
GlueServers(data, top) ==
    LET hosts == {r.value : r \in {x \in data : x.type = "NS" /\ x.domain = Apex}}
    IN  {r.value : r \in {x \in data : x.type \in {"A", "AAAA"} /\ x.domain \o top \in hosts}}

(* The first server that answers decides; none may.                        *)
lookup_from_ns(servers, qname, qtype, now) ==
    {NoPacket} \cup UNION {Asked(s, qname, qtype, now) : s \in servers}

(* The records under the queried name, renamed to it.  A CNAME record is   *)
(* taken when there is nothing else; with several the list decides.        *)
OwnAnswers(data, qname, qtype, origin) ==
    LET sub == Subdomain(qname)
        named == {[r EXCEPT !.domain = qname, !.origin = origin] : r \in {x \in data :
                    /\ x.type \in {qtype, "CNAME"}
                    /\ x.domain \in {sub, qname} \/ (x.domain = Apex /\ sub = <<>>)}}
        direct == {r \in named : r.type # "CNAME"}
    IN  IF direct # {} \/ named = {} THEN {direct} ELSE {{r} : r \in named}

WildAnswers(data, qname, qtype, origin) ==
    {[r EXCEPT !.domain = qname, !.origin = origin] :
        r \in {x \in data : x.type = qtype /\ x.domain = Wildcard}}

(* create_packet and the code around it: no answers means NXDOMAIN unless  *)
(* the name has some record.                                               *)
create_packet(data, qname, own, qtype, origin) ==
    LET answers == IF own # {} THEN own ELSE WildAnswers(data, qname, qtype, origin)
        domain_exists == \/ own # {}
                         \/ Subdomain(qname) = <<>>
                         \/ \E r \in data : r.domain \in {Subdomain(qname), Wildcard}
    IN  IF answers # {}
        THEN DnsPacket("NOERROR", TRUE, answers,
                       {DnsRecord(ZoneOf(qname), "NS", <<"ns", "ruvcha", "in">>, NS_TTL, origin)}, {})
        ELSE DnsPacket(IF domain_exists THEN "NOERROR" ELSE "NXDOMAIN", TRUE, {},
                       {SoaRecord(ZoneOf(qname), SOA_MINIMUM, origin)}, {})

(* The possible results of BlockchainFilter::lookup.                       *)
chain_lookup(domains, qname, qtype, now) ==
    LET origin == Origin("chain", qname, now)
        soa == {SoaRecord(ZoneOf(qname), SOA_MINIMUM, origin)}
        top == TopDomain(qname)
        data == IF top \in DOMAIN domains THEN domains[top] ELSE NoData
    IN  IF ~InChainZone(qname) /\ (Len(qname) < 2 \/ data = NoData) THEN {NoPacket}
        ELSE IF Len(qname) = 1 THEN {DnsPacket("NOERROR", FALSE, {}, soa, {})}
        ELSE IF data = NoData THEN {DnsPacket("NXDOMAIN", TRUE, {}, soa, {})}
        ELSE IF data = BadData THEN {NoPacket}
        ELSE IF GlueServers(data, top) # {}
             THEN lookup_from_ns(GlueServers(data, top), qname, qtype, now)
        ELSE {create_packet(data, qname, own, qtype, origin) :
                own \in OwnAnswers(data, qname, qtype, origin)}

(* Mutant: the hosts file speaks only where it has an answer.              *)
MutantHostsOnlyWithAnswer(domains, qname, qtype, now) ==
    IF InHosts(qname) /\ hosts_lookup(qname, qtype, now).answers # {}
    THEN {hosts_lookup(qname, qtype, now)}
    ELSE chain_lookup(domains, qname, qtype, now)

(* The filters in their order: the hosts file, then the blockchain.        *)
filtered(domains, qname, qtype, now) ==
    IF InHosts(qname) THEN {hosts_lookup(qname, qtype, now)}
    ELSE chain_lookup(domains, qname, qtype, now)
=============================================================================

---------------------------- MODULE MCDnsServer ----------------------------
(***************************************************************************)
(* A small world for the DNS server: two local zones, one within the       *)
(* other, a hosts file with one blocked name, one forwarder that knows     *)
(* three names and a pair of CNAMEs pointing at each other, and a          *)
(* blockchain with a domain whose data changes, one left to its own name   *)
(* servers, which may refer to each other for ever, and one of broken data.*)
(***************************************************************************)
EXTENDS DnsServer, TLC

CONSTANTS Upstream, NsAddr, NsAddr2

Ex(label) == <<label, "ex">>
Ygg(label) == <<label, "ygg">>
D == Ygg("d")
NsD == <<"ns">> \o D
Host == <<"w">> \o D

MCTypes == {"A", "NS", "CNAME", "SOA", "TXT"}

At0 == Origin("config", <<>>, 0)
Rec(domain, type, value, ttl) == DnsRecord(domain, type, value, ttl, At0)

MCLabelEnds == {<<"xp", "p">>}

MCZones == {[domain |-> <<"lan">>, len |-> 3, minimum |-> 1, records |-> {}],
            [domain |-> <<"p", "lan">>, len |-> 5, minimum |-> 1,
             records |-> {Rec(<<"p", "lan">>, "CNAME", Ex("www"), 1)}]}

MCHostsFile ==
    <<[domain |-> Ex("ads"), type |-> "A", value |-> "nowhere"],
      [domain |-> Ex("ads"), type |-> "TXT", value |-> "unused"]>>

MCVersions ==
    <<(Ygg("s") :> {Rec(<<"@">>, "A", "old", 1), Rec(<<"x">>, "CNAME", Ex("www"), 1),
                    Rec(<<"*">>, "TXT", "any", 1)})
      @@ (D :> {Rec(<<"@">>, "NS", NsD, 1), Rec(<<"ns">>, "A", NsAddr, 1)}),
      (Ygg("s") :> BadData) @@ (D :> NoData)>>

Says(server, name, type, answers, authorities, resources) ==
    [server |-> server, name |-> name, type |-> type,
     packet |-> DnsPacket("NOERROR", FALSE, answers, authorities, resources)]

Denies(server, name, type, minimum) ==
    [server |-> server, name |-> name, type |-> type,
     packet |-> DnsPacket("NXDOMAIN", TRUE, {}, {Rec(D, "SOA", minimum, minimum)}, {})]

MCReplies ==
    {Says(Upstream, Ex("www"), "A",
          {Rec(Ex("www"), "CNAME", Ex("ads"), 1), Rec(Ex("ads"), "A", "addr", 1)}, {}, {}),
     Says(Upstream, Ex("www"), "TXT", {Rec(Ex("www"), "TXT", "text", 1)}, {}, {}),
     Says(Upstream, Ex("ads"), "TXT", {Rec(Ex("ads"), "TXT", "text", 1)}, {}, {}),
     Says(Upstream, Ex("l1"), "A", {Rec(Ex("l1"), "CNAME", Ex("l2"), 1)}, {}, {}),
     Says(Upstream, Ex("l2"), "A", {Rec(Ex("l2"), "CNAME", Ex("l1"), 1)}, {}, {}),
     Says(Upstream, Ygg("s"), "A", {Rec(Ygg("s"), "A", "elsewhere", 1)}, {}, {}),
     Says(NsAddr, D, "NS", {Rec(D, "NS", NsD, 2)}, {}, {}),
     Says(NsAddr, NsD, "A", {Rec(NsD, "A", NsAddr, 2)}, {}, {}),
     Says(NsAddr, Host, "A", {Rec(Host, "A", "addr", 1)}, {}, {}),
     Says(NsAddr, Host, "A", {}, {}, {}),
     Says(NsAddr, Host, "A", {}, {Rec(D, "NS", <<"ns2">> \o D, 1)},
                                 {Rec(<<"ns2">> \o D, "A", NsAddr2, 1)}),
     Says(NsAddr, Host, "A", {}, {Rec(D, "NS", <<"ns3">> \o D, 1)}, {}),
     Says(NsAddr2, Host, "A", {}, {Rec(D, "NS", NsD, 1)}, {Rec(NsD, "A", NsAddr, 1)}),
     Denies(NsAddr, Host, "A", 1),
     [Denies(NsAddr2, Host, "A", 1) EXCEPT !.packet = EmptyPacket("NXDOMAIN")],
     Says(NsAddr, <<"ns3">> \o D, "A", {Rec(<<"ns3">> \o D, "A", NsAddr2, 1)}, {}, {})}

Request(key, proto, name, type, times) ==
    [key |-> key, proto |-> proto, name |-> name, type |-> type, times |-> times,
     recursion_desired |-> TRUE]

Udp(name, type) == Request(<<name, type>>, "udp", name, type, 1)
Tcp(name, type) == Request(<<name, type>>, "tcp", name, type, 1)

(* The same question again and again; a CNAME that comes with the address  *)
(* of a blocked name, and questions about that name; CNAMEs in a circle; a *)
(* changing domain; a domain with name servers; local zones and malformed  *)
(* or refused requests.                                                    *)
Again == {Request(<<"again">>, "udp", Ex("www"), "TXT", 2), Tcp(Ex("www"), "TXT")}
Blocked == {Udp(Ex("www"), "A"), Tcp(Ex("ads"), "TXT")}
Circle == {Udp(Ex("l1"), "A")}
Changing == {Udp(<<"x">> \o Ygg("s"), "A"), Tcp(Ygg("s"), "A")}
Wild == {Udp(<<"y">> \o Ygg("s"), "TXT"), Tcp(<<"ygg">>, "A")}
OwnServers == {Tcp(D, "NS"), Tcp(NsD, "A"), Tcp(Host, "A")}
Local == {Udp(<<"p", "lan">>, "A"), Tcp(<<"xp", "lan">>, "A")}
Odd == {Request(<<"empty">>, "udp", NoName, "A", 1), Tcp(Ex("www"), "UNKNOWN")}
NotRecursive == {[Udp(Ex("www"), "A") EXCEPT !.recursion_desired = FALSE]}

MCLoads == {Again, Blocked, Circle, Changing, Wild, OwnServers, Local, Odd, NotRecursive}
=============================================================================

----------------------------- MODULE MCDnsWire -----------------------------
(***************************************************************************)
(* Packets about the name www.ex: every type of record, names that share   *)
(* endings or differ in case only, the root, labels that are too long,     *)
(* or become so in lower case, texts that fill a datagram, and a text      *)
(* longer than a pointer can reach.                                        *)
(***************************************************************************)
EXTENDS DnsWire, TLC

MCLabelLen ==
    ("" :> 0) @@ ("www" :> 3) @@ ("Www" :> 3) @@ ("ns" :> 2) @@ ("ex" :> 2) @@ ("long" :> 63) @@ ("lower" :> 66)

MCLower ==
    ("" :> "") @@ ("www" :> "www") @@ ("Www" :> "www") @@ ("ns" :> "ns") @@ ("ex" :> "ex")
      @@ ("long" :> "lower") @@ ("lower" :> "lower")

(* "fill" leaves room for few other records in a datagram; what is named   *)
(* first behind "far" is out of reach of a pointer.                        *)
MCBodyLen == ("" :> 0) @@ ("short" :> 5) @@ ("fill" :> 429) @@ ("far" :> 17000)

Ex == <<"ex">>
Www == <<"www", "ex">>
WWW == <<"Www", "ex">>
Ns == <<"ns", "ex">>
Long == <<"long", "ex">>

Record(type, domain, names, body) ==
    [type |-> type, domain |-> domain, value |-> 1, names |-> names,
     data |-> [body |-> body, prefix |-> 0]]

SomeAnswers ==
    {Record("A", Www, <<>>, ""), Record("AAAA", WWW, <<>>, ""), Record("CNAME", Www, <<Ns>>, ""),
     Record("MX", Ex, <<WWW>>, ""), Record("SRV", Ns, <<Ns>>, ""), Record("PTR", WWW, <<Www>>, ""),
     Record("TXT", Www, <<>>, "short"), Record("TXT", Www, <<>>, "fill"),
     Record("TXT", Ns, <<>>, "far"), Record("CNAME", Ns, <<Long>>, ""), Record("TLSA", Ns, <<>>, "short"),
     Record("UNKNOWN", Www, <<>>, "")}

SomeAuthorities ==
    {Record("NS", Ex, <<Ns>>, ""), Record("SOA", Ex, <<Ns, WWW>>, ""), Record("SOA", Root, <<Ns, Ns>>, "")}

SomeResources == {Record("A", Ns, <<>>, ""), Record("OPT", Root, <<>>, "short")}

(* The flags of a message without records, in every combination.           *)
AllFlags ==
    [recursion_desired : BOOLEAN, truncated_message : BOOLEAN, authoritative_answer : BOOLEAN,
     opcode : {0, 15}, response : BOOLEAN, rescode : {"NOERROR", "NXDOMAIN", "REFUSED"},
     checking_disabled : BOOLEAN, authed_data : BOOLEAN, z : BOOLEAN, recursion_available : BOOLEAN]

MCPackets ==
    [flags : AllFlags, questions : {<<>>}, answers : {<<>>}, authorities : {<<>>}, resources : {<<>>}]
    \cup
    [flags : {NewFlags},
     questions : {<<[name |-> Www, type |-> "A"]>>, <<[name |-> Root, type |-> "NS"]>>},
     answers : {<<>>} \cup {<<a>> : a \in SomeAnswers} \cup {<<a, b>> : a, b \in SomeAnswers},
     authorities : {<<>>} \cup {<<a>> : a \in SomeAuthorities},
     resources : {<<>>} \cup {<<a>> : a \in SomeResources}]
=============================================================================

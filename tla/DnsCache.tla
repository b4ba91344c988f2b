------------------------------ MODULE DnsCache ------------------------------
(***************************************************************************)
(* The cache of src/src/dns/cache.rs as a value: for a name and a type a   *)
(* set of records with the time each was stored, or the fact that there    *)
(* are none.  SynchronizedCache takes its lock for each call, so a call is *)
(* one step; the clock may move within it.                                 *)
(***************************************************************************)
EXTENDS DnsProtocol

NotCached == [kind |-> "absent"]

NoRecords(ttl, timestamp) == [kind |-> "none", ttl |-> ttl, timestamp |-> timestamp]

Records(entries) == [kind |-> "records", entries |-> entries]

EmptyCache == [k \in {} |-> NotCached]

At(cache, qname, qtype) ==
    IF <<qname, qtype>> \in DOMAIN cache THEN cache[qname, qtype] ELSE NotCached

(* The code skips what `expires < now`.                                    *)
Valid(entry, now) == entry.timestamp + entry.record.ttl >= now

get_cache_state(set, now) ==
    IF set.kind = "records" /\ \E e \in set.entries : Valid(e, now) THEN "PositiveCache"
    ELSE IF set.kind = "none" /\ set.timestamp + set.ttl >= now THEN "NegativeCache"
    ELSE "NotCached"

fill_queryresult(set, now) ==
    IF set.kind # "records" THEN {}
    ELSE {e.record : e \in {x \in set.entries : Valid(x, now)}}

(* The state is judged at `now` and the answers are collected `later`.     *)
lookup(cache, qname, qtype, now, later) ==
    CASE get_cache_state(At(cache, qname, qtype), now) = "PositiveCache" ->
            DnsPacket("NOERROR", FALSE, fill_queryresult(At(cache, qname, qtype), later),
                      fill_queryresult(At(cache, qname, "NS"), later), {})
      [] get_cache_state(At(cache, qname, qtype), now) = "NegativeCache" -> EmptyPacket("NXDOMAIN")
      [] OTHER -> NoPacket

(* Mutant: an equal record is not taken out before the new one goes in.    *)
MutantKeepsEqualRecords(set, new, now) ==
    Records({[record |-> r, timestamp |-> now] : r \in new}
            \cup (IF set.kind # "records" THEN {} ELSE set.entries))

(* A record equal to a stored one takes its place, with a new timestamp.   *)
(* A set of records takes the place of the fact that there are none.       *)
store_record(set, new, now) ==
    LET entries == {[record |-> r, timestamp |-> now] : r \in new}
        kept == IF set.kind # "records" THEN {}
                ELSE {e \in set.entries : ~ \E r \in new : SameRecord(e.record, r)}
    IN  Records(kept \cup entries)

store(cache, records, now) ==
    [k \in DOMAIN cache \cup {Key(r) : r \in {s \in records : HasDomain(s)}} |->
        LET new == {r \in records : HasDomain(r) /\ Key(r) = k}
        IN  IF new = {} THEN cache[k] ELSE store_record(At(cache, k[1], k[2]), new, now)]

store_nxdomain(cache, qname, qtype, ttl, now) ==
    [k \in DOMAIN cache \cup {<<qname, qtype>>} |->
        IF k = <<qname, qtype>> THEN NoRecords(ttl, now) ELSE cache[k]]
=============================================================================

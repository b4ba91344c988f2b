----------------------------- MODULE DnsClient -----------------------------
(***************************************************************************)
(* DnsNetworkClient: queries over UDP from any number of threads.  A query *)
(* takes the next packet id, joins the list of pending queries with a      *)
(* channel of its own, is sent, and its thread waits on the channel.  Two  *)
(* threads read answers, one for each socket, and hand each to the first   *)
(* pending query with its id; another thread gives up on queries that have *)
(* waited too long.  A truncated answer makes send_query ask again by TCP. *)
(* The lock of the list makes each visit to it one step.                   *)
(*                                                                         *)
(* Queries are numbered in the order in which they take their ids; the     *)
(* number stands for the question.  The answer to a query may come at any  *)
(* time after it was sent, twice, or never.  The sockets are not connected:*)
(* other datagrams come too.  Discarding one that holds no question panics *)
(* the reader with the lock of the list in hand.                           *)
(***************************************************************************)
EXTENDS Integers, Sequences, FiniteSets

CONSTANTS
    Callers,     \* threads that ask
    Readers,     \* the threads that read the sockets
    IdLimit,     \* packet ids are 0 .. IdLimit - 1, 2^16 of them in the code
    MaxQueries   \* bound on the queries

ASSUME ClientAssumption == IdLimit \in Nat /\ IdLimit > 1 /\ MaxQueries \in Nat

VARIABLES
    seq,       \* DnsNetworkClient.seq, a usize of which packets carry 16 bits
    asked,     \* the id of each query so far
    caller,    \* the threads in send_query and send_udp_query
    pending,   \* pending_queries; ticket gives their order in the list
    pushed,    \* queries that ever joined the list
    channel,   \* what has been sent to each query and was not received yet
    onwire,    \* queries an answer to which may still arrive
    reader,    \* the threads of run(): do they run?
    reaper,    \* the timeout thread of run()
    stopped,   \* DnsNetworkClient.stopped
    poisoned   \* the lock of pending_queries was held by a thread that panicked

vars ==
    <<seq, asked, caller, pending, pushed, channel, onwire, reader, reaper, stopped, poisoned>>

Nobody == [pc |-> "idle", query |-> 0, tcp |-> FALSE]

(* None in the channel: the query has timed out.                           *)
TimedOut == [from |-> 0, truncated |-> FALSE]

(* The receiving end of a query's channel lives as long as its call.       *)
Listening(q) == \E c \in Callers : caller[c].query = q /\ caller[c].pc \in {"send", "wait"}

(* tx.send: without a receiver it does nothing.                            *)
Tell(Q, m) ==
    channel' = [q \in DOMAIN channel |->
                   IF q \in Q /\ Listening(q) THEN Append(channel[q], m) ELSE channel[q]]

Init ==
    /\ seq = 0
    /\ asked = <<>> /\ channel = <<>>
    /\ caller = [c \in Callers |-> Nobody]
    /\ pending = {} /\ pushed = 0
    /\ onwire = {}
    /\ reader = [r \in Readers |-> TRUE]
    /\ reaper = TRUE
    /\ stopped = FALSE
    /\ poisoned = FALSE

-----------------------------------------------------------------------------
(* The caller's thread.                                                    *)

(* Mutant: the id is not cut to 16 bits.                                    *)
TakeId_Wide(c, tcp) ==
    /\ Len(asked) < MaxQueries
    /\ LET id == seq
       IN  /\ asked' = Append(asked, id)
           /\ caller' = [caller EXCEPT ![c] =
                [pc    |-> IF (id + 1) % IdLimit = IdLimit - 1 THEN "reset"
                           ELSE IF tcp THEN "tcp" ELSE "push",
                 query |-> Len(asked) + 1,
                 tcp   |-> tcp]]
    /\ seq' = seq + 1
    /\ channel' = Append(channel, <<>>)
    /\ UNCHANGED <<pending, pushed, onwire, reader, reaper, stopped, poisoned>>

(* Mutant: the id is cut to fewer bits than it has.                         *)
TakeId_Narrow(c, tcp) ==
    /\ Len(asked) < MaxQueries
    /\ LET id == seq % (IdLimit \div 2)
       IN  /\ asked' = Append(asked, id)
           /\ caller' = [caller EXCEPT ![c] =
                [pc    |-> IF (id + 1) % IdLimit = IdLimit - 1 THEN "reset"
                           ELSE IF tcp THEN "tcp" ELSE "push",
                 query |-> Len(asked) + 1,
                 tcp   |-> tcp]]
    /\ seq' = seq + 1
    /\ channel' = Append(channel, <<>>)
    /\ UNCHANGED <<pending, pushed, onwire, reader, reaper, stopped, poisoned>>

(* fetch_add.  The last id but one makes its taker set the counter back.   *)
TakeId(c, tcp) ==
    /\ Len(asked) < MaxQueries
    /\ LET id == seq % IdLimit
       IN  /\ asked' = Append(asked, id)
           /\ caller' = [caller EXCEPT ![c] =
                [pc    |-> IF (id + 1) % IdLimit = IdLimit - 1 THEN "reset"
                           ELSE IF tcp THEN "tcp" ELSE "push",
                 query |-> Len(asked) + 1,
                 tcp   |-> tcp]]
    /\ seq' = seq + 1
    /\ channel' = Append(channel, <<>>)
    /\ UNCHANGED <<pending, pushed, onwire, reader, reaper, stopped, poisoned>>

Ask(c) == caller[c].pc = "idle" /\ ~stopped /\ TakeId(c, FALSE)

AskByTcp(c) == caller[c].pc = "again" /\ TakeId(c, TRUE)

(* compare_exchange: only if nobody has taken an id meanwhile.             *)
ResetSeq(c) ==
    /\ caller[c].pc = "reset"
    /\ seq' = IF seq = IdLimit - 1 THEN 0 ELSE seq
    /\ caller' = [caller EXCEPT ![c].pc = IF caller[c].tcp THEN "tcp" ELSE "push"]
    /\ UNCHANGED <<asked, pending, pushed, channel, onwire, reader, reaper, stopped, poisoned>>

Push(c) ==
    /\ caller[c].pc = "push" /\ ~poisoned
    /\ pending' = pending \cup {[ticket |-> pushed + 1, seq |-> asked[caller[c].query],
                                 query |-> caller[c].query, late |-> FALSE]}
    /\ pushed' = pushed + 1
    /\ caller' = [caller EXCEPT ![c].pc = "send"]
    /\ UNCHANGED <<seq, asked, channel, onwire, reader, reaper, stopped, poisoned>>

(* ClientError::PoisonedLock.                                              *)
PushFails(c) ==
    /\ caller[c].pc = "push" /\ poisoned
    /\ caller' = [caller EXCEPT ![c] = Nobody]
    /\ UNCHANGED <<seq, asked, pending, pushed, channel, onwire, reader, reaper, stopped, poisoned>>

(* send_to may fail: the call returns with its end of the channel, its     *)
(* query stays in the list.                                                *)
Send(c) ==
    /\ caller[c].pc = "send"
    /\ \/ /\ onwire' = onwire \cup {caller[c].query}
          /\ caller' = [caller EXCEPT ![c].pc = "wait"]
          /\ UNCHANGED channel
       \/ /\ caller' = [caller EXCEPT ![c] = Nobody]
          /\ channel' = [channel EXCEPT ![caller[c].query] = <<>>]
          /\ UNCHANGED onwire
    /\ UNCHANGED <<seq, asked, pending, pushed, reader, reaper, stopped, poisoned>>

(* recv: an answer, or None.  Those who called send_udp_query themselves   *)
(* take a truncated answer as it is.                                       *)
Receive(c) ==
    /\ caller[c].pc = "wait"
    /\ LET q == caller[c].query
       IN  /\ channel[q] # <<>>
           /\ channel' = [channel EXCEPT ![q] = Tail(@)]
           /\ \/ caller' = [caller EXCEPT ![c] = Nobody]
              \/ /\ Head(channel[q]).truncated
                 /\ caller' = [caller EXCEPT ![c].pc = "again"]
    /\ UNCHANGED <<seq, asked, pending, pushed, onwire, reader, reaper, stopped, poisoned>>

(* send_tcp_query ends with the answer on its own connection or an error.  *)
TcpEnds(c) ==
    /\ caller[c].pc = "tcp"
    /\ caller' = [caller EXCEPT ![c] = Nobody]
    /\ UNCHANGED <<seq, asked, pending, pushed, channel, onwire, reader, reaper, stopped, poisoned>>

-----------------------------------------------------------------------------
(* The threads of run().                                                   *)

(* The first query of the list with this id.                               *)
FirstMatch(id) ==
    {e \in pending : e.seq = id /\ \A f \in pending : f.seq = id => e.ticket <= f.ticket}

(* An answer is handed to the first query with its id and that query is    *)
(* taken off the list; an answer nobody waits for is discarded.  A thread  *)
(* that was reading when the client was stopped still does this.           *)
Deliver(r) ==
    /\ reader[r] /\ ~poisoned
    /\ \E p \in onwire, truncated, again \in BOOLEAN :
          /\ Tell({e.query : e \in FirstMatch(asked[p])}, [from |-> p, truncated |-> truncated])
          /\ pending' = pending \ FirstMatch(asked[p])
          /\ onwire' = IF again THEN onwire ELSE onwire \ {p}
    /\ UNCHANGED <<seq, asked, caller, pushed, reader, reaper, stopped, poisoned>>

(* A datagram, late answer or not, with an id that no pending query has and*)
(* without a question: printing packet.questions[0] panics.                *)
Panic(r) ==
    /\ reader[r] /\ ~poisoned
    /\ \E id \in 0..(IdLimit - 1) : FirstMatch(id) = {}
    /\ reader' = [reader EXCEPT ![r] = FALSE]
    /\ poisoned' = TRUE
    /\ UNCHANGED <<seq, asked, caller, pending, pushed, channel, onwire, reaper, stopped>>

(* The other reader cannot take the lock: it drops what it reads.          *)
Drop(r) ==
    /\ reader[r] /\ poisoned
    /\ \E p \in onwire : onwire' = onwire \ {p}
    /\ UNCHANGED <<seq, asked, caller, pending, pushed, channel, reader, reaper, stopped, poisoned>>

ReaderEnds(r) ==
    /\ stopped /\ reader[r]
    /\ reader' = [reader EXCEPT ![r] = FALSE]
    /\ UNCHANGED <<seq, asked, caller, pending, pushed, channel, onwire, reaper, stopped, poisoned>>

(* Five seconds have gone by since the query joined the list.              *)
GetsLate(q) ==
    /\ \E e \in pending :
          /\ e.query = q /\ ~e.late
          /\ pending' = (pending \ {e}) \cup {[e EXCEPT !.late = TRUE]}
    /\ UNCHANGED <<seq, asked, caller, pushed, channel, onwire, reader, reaper, stopped, poisoned>>

Late == {e \in pending : e.late}

(* Mutant: the whole list is cleared, not only what is late.               *)
Reap_ClearsAll ==
    /\ reaper /\ ~poisoned /\ Late # {}
    /\ Tell({e.query : e \in Late}, TimedOut)
    /\ pending' = {}
    /\ UNCHANGED <<seq, asked, caller, pushed, onwire, reader, reaper, stopped, poisoned>>

(* All late queries are told so and taken off the list, if the lock of the *)
(* list can be taken.                                                      *)
Reap ==
    /\ reaper /\ ~poisoned /\ Late # {}
    /\ Tell({e.query : e \in Late}, TimedOut)
    /\ pending' = pending \ Late
    /\ UNCHANGED <<seq, asked, caller, pushed, onwire, reader, reaper, stopped, poisoned>>

(* Mutant: the timeout thread also ends when it has nothing to do.         *)
ReaperEnds_WhenIdle ==
    /\ (stopped \/ pending = {}) /\ reaper
    /\ reaper' = FALSE
    /\ UNCHANGED <<seq, asked, caller, pending, pushed, channel, onwire, reader, stopped, poisoned>>

ReaperEnds ==
    /\ stopped /\ reaper
    /\ reaper' = FALSE
    /\ UNCHANGED <<seq, asked, caller, pending, pushed, channel, onwire, reader, stopped, poisoned>>

(* stop takes the client for itself (&mut self): no call is under way, and *)
(* none follows.                                                           *)
Stop ==
    /\ ~stopped /\ \A c \in Callers : caller[c].pc = "idle"
    /\ stopped' = TRUE
    /\ UNCHANGED <<seq, asked, caller, pending, pushed, channel, onwire, reader, reaper, poisoned>>

CallerStep(c) == ResetSeq(c) \/ Push(c) \/ PushFails(c) \/ Send(c) \/ Receive(c)

Next ==
    \/ \E c \in Callers : Ask(c) \/ AskByTcp(c) \/ TcpEnds(c) \/ CallerStep(c)
    \/ \E r \in Readers : Deliver(r) \/ Panic(r) \/ Drop(r) \/ ReaderEnds(r)
    \/ \E q \in DOMAIN asked : GetsLate(q)
    \/ Reap \/ ReaperEnds \/ Stop

Spec == Init /\ [][Next]_vars

(* Threads that can run do, and time passes.  That answers arrive, by UDP  *)
(* or on the TCP connection, is not assumed.                               *)
FairSpec ==
    /\ Spec
    /\ \A c \in Callers : WF_vars(CallerStep(c))
    /\ \A q \in 1..MaxQueries : WF_vars(q \in DOMAIN asked /\ GetsLate(q))
    /\ WF_vars(Reap)

-----------------------------------------------------------------------------
(* Properties.                                                             *)

Messages == [from : Nat, truncated : BOOLEAN]

TypeOK ==
    /\ seq \in Nat /\ pushed \in Nat
    /\ asked \in Seq(0..(IdLimit - 1))
    /\ channel \in Seq(Seq(Messages)) /\ Len(channel) = Len(asked)
    /\ caller \in [Callers -> [pc : {"idle", "reset", "push", "send", "wait", "again", "tcp"},
                               query : {0} \cup DOMAIN asked, tcp : BOOLEAN]]
    /\ pending \subseteq [ticket : 1..pushed, seq : 0..(IdLimit - 1), query : DOMAIN asked,
                          late : BOOLEAN]
    /\ onwire \subseteq DOMAIN asked
    /\ reader \in [Readers -> BOOLEAN]
    /\ reaper \in BOOLEAN /\ stopped \in BOOLEAN /\ poisoned \in BOOLEAN

(* A call that waits is either in the list of pending queries or has its   *)
(* one message in the channel, never both and never neither: its sender is *)
(* not dropped without a word (LookupFailed) and not used twice.           *)
NoWaiterIsForgotten ==
    \A c \in Callers : caller[c].pc \in {"send", "wait"} =>
        LET q == caller[c].query
        IN  Cardinality({e \in pending : e.query = q}) + Len(channel[q]) = 1

Distance(p, q) == IF p < q THEN q - p ELSE p - q

(* Answers are told apart by their ids alone.  An answer that comes to     *)
(* another query than its own belongs to one that took its id a whole      *)
(* round of ids earlier or later, however the setting back of the counter  *)
(* interleaves with other queries.                                         *)
OnlyOldAnswersGoAstray ==
    \A q \in DOMAIN channel : \A i \in DOMAIN channel[q] :
        LET p == channel[q][i].from
        IN  p \in {0, q} \/ Distance(p, q) >= IdLimit - 1

(* Every wait ends, whether or not an answer ever comes, but for the calls *)
(* that were in the list when a reader panicked: with the lock poisoned    *)
(* nobody takes an entry off the list, and its sender is never dropped.    *)
QueriesEnd ==
    \A c \in Callers :
        caller[c].pc = "wait" ~>
            \/ caller[c].pc # "wait"
            \/ poisoned /\ \E e \in pending : e.query = caller[c].query
=============================================================================

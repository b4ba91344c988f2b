-------------------------- MODULE DnsClientProofs --------------------------
(***************************************************************************)
(* What DnsNetworkClient keeps for any number of threads, queries and ids. *)
(***************************************************************************)
EXTENDS DnsClient, FiniteSetTheorems, SequenceTheorems, TLAPS

(* The id of the query d places back, as the counter s implies it: within a*)
(* round of ids the counter was set back at most once.                     *)
Expected(s, d) == IF d <= s THEN (s - d) % IdLimit ELSE IdLimit - 1 - (d - s)

RoundIsKept ==
    \A i \in DOMAIN asked :
        Len(asked) + 1 - i <= IdLimit - 1 => asked[i] = Expected(seq, Len(asked) + 1 - i)

IdsFarApart ==
    \A i, j \in DOMAIN asked : i < j /\ asked[i] = asked[j] => j - i >= IdLimit - 1

EntriesCarryIds == \A e \in pending : e.seq = asked[e.query]

MessagesCarryIds ==
    \A q \in DOMAIN channel : \A i \in DOMAIN channel[q] :
        LET p == channel[q][i].from
        IN  p = 0 \/ (p \in DOMAIN asked /\ asked[p] = asked[q])

BusyHaveQueries == \A c \in Callers : caller[c].pc = "idle" <=> caller[c].query = 0

IdInv == TypeOK /\ BusyHaveQueries /\ RoundIsKept /\ IdsFarApart /\ EntriesCarryIds /\ MessagesCarryIds

-----------------------------------------------------------------------------
(* Arithmetic.                                                             *)

LEMMA SmallMod ==
    ASSUME NEW n \in Nat, n > 0, NEW a \in 0..(n - 1)
    PROVE  a % n = a
  OBVIOUS

LEMMA NearNumbersDiffer ==
    ASSUME NEW n \in Nat, n > 0, NEW a \in Nat, NEW d \in 1..(n - 1), d <= a
    PROVE  (a - d) % n # a % n
  <1> DEFINE x == a \div n
             y == (a - d) \div n
  <1>1. x \in Int /\ y \in Int /\ a - d \in Nat
    OBVIOUS
  <1>2. a = n * x + (a % n) /\ a - d = n * y + ((a - d) % n)
    OBVIOUS
  <1>3. SUFFICES ASSUME (a - d) % n = a % n PROVE FALSE
    OBVIOUS
  <1>4. d = n * x - n * y
    BY <1>1, <1>2, <1>3
  <1> HIDE DEF x, y
  <1>5. d = n * (x - y)
    BY <1>1, <1>4
  <1>6. CASE x - y <= 0
    <2>1. n * (x - y) <= 0
      BY <1>1, <1>6
    <2> QED
      BY <2>1, <1>5
  <1>7. CASE x - y >= 1
    <2>1. n * (x - y) >= n
      BY <1>1, <1>7
    <2> QED
      BY <2>1, <1>5
  <1> QED
    BY <1>1, <1>6, <1>7

-----------------------------------------------------------------------------
(* Steps of several actions.                                               *)

(* Some of the list is told m and taken off it: an answer or a timeout.    *)
Removal(S, m) ==
    /\ S \subseteq pending
    /\ pending' = pending \ S
    /\ Tell({e.query : e \in S}, m)
    /\ UNCHANGED <<seq, asked, caller, pushed, reader, reaper, stopped, poisoned>>

LEMMA DeliverRemoves ==
    ASSUME TypeOK, NEW r \in Readers, Deliver(r)
    PROVE  \E p \in DOMAIN asked, b \in BOOLEAN :
              /\ Removal(FirstMatch(asked[p]), [from |-> p, truncated |-> b])
              /\ onwire' \subseteq onwire
  <1>1. PICK p \in onwire, truncated \in BOOLEAN, again \in BOOLEAN :
           /\ Tell({e.query : e \in FirstMatch(asked[p])}, [from |-> p, truncated |-> truncated])
           /\ pending' = pending \ FirstMatch(asked[p])
           /\ onwire' = IF again THEN onwire ELSE onwire \ {p}
    BY DEF Deliver
  <1>2. p \in DOMAIN asked
    BY DEF TypeOK
  <1>3. FirstMatch(asked[p]) \subseteq pending
    BY DEF FirstMatch
  <1>4. UNCHANGED <<seq, asked, caller, pushed, reader, reaper, stopped, poisoned>>
    BY DEF Deliver
  <1>5. Removal(FirstMatch(asked[p]), [from |-> p, truncated |-> truncated])
    BY <1>1, <1>3, <1>4 DEF Removal
  <1>6. onwire' \subseteq onwire
    BY <1>1
  <1> QED
    BY <1>2, <1>5, <1>6

LEMMA ReapRemoves ==
    ASSUME Reap
    PROVE  Removal(Late, TimedOut) /\ UNCHANGED onwire
  BY DEF Reap, Removal, Late

LEMMA TellTypes ==
    ASSUME channel \in Seq(Seq(Messages)), NEW Q, NEW m \in Messages, Tell(Q, m)
    PROVE  channel' \in Seq(Seq(Messages)) /\ Len(channel') = Len(channel)
  <1>1. DOMAIN channel = 1..Len(channel) /\ Len(channel) \in Nat
    OBVIOUS
  <1>2. \A q \in DOMAIN channel :
           (IF q \in Q /\ Listening(q) THEN Append(channel[q], m) ELSE channel[q]) \in Seq(Messages)
    OBVIOUS
  <1>3. channel' \in [1..Len(channel) -> Seq(Messages)]
    BY <1>1, <1>2 DEF Tell
  <1> QED
    BY <1>1, <1>3

LEMMA RemovalTypes ==
    ASSUME TypeOK, NEW S, NEW m \in Messages, Removal(S, m), onwire' \subseteq onwire
    PROVE  TypeOK'
  <1>1. channel' \in Seq(Seq(Messages)) /\ Len(channel') = Len(channel)
    BY TellTypes DEF TypeOK, Removal
  <1> QED
    BY <1>1 DEF TypeOK, Removal

LEMMA TakeIdTypes ==
    ASSUME TypeOK, NEW c \in Callers, NEW tcp \in BOOLEAN, TakeId(c, tcp)
    PROVE  TypeOK'
  <1> DEFINE id == seq % IdLimit
             n == Len(asked)
             pc == IF (id + 1) % IdLimit = IdLimit - 1 THEN "reset"
                   ELSE IF tcp THEN "tcp" ELSE "push"
  <1>1. id \in 0..(IdLimit - 1)
    BY ClientAssumption DEF TypeOK
  <1>2. /\ asked' = Append(asked, id)
        /\ caller' = [caller EXCEPT ![c] = [pc |-> pc, query |-> n + 1, tcp |-> tcp]]
        /\ seq' = seq + 1
        /\ channel' = Append(channel, <<>>)
        /\ UNCHANGED <<pending, pushed, onwire, reader, reaper, stopped, poisoned>>
    BY DEF TakeId
  <1>3. pc \in {"reset", "tcp", "push"}
    OBVIOUS
  <1> HIDE DEF id, pc
  <1>4. /\ asked' \in Seq(0..(IdLimit - 1)) /\ Len(asked') = n + 1
        /\ DOMAIN asked' = 1..(n + 1) /\ DOMAIN asked = 1..n /\ n \in Nat
    BY <1>1, <1>2, AppendProperties DEF TypeOK
  <1>5. channel' \in Seq(Seq(Messages)) /\ Len(channel') = Len(asked')
    <2>1. <<>> \in Seq(Messages)
      OBVIOUS
    <2> QED
      BY <2>1, <1>2, <1>4, AppendProperties DEF TypeOK
  <1>6. caller' \in [Callers -> [pc : {"idle", "reset", "push", "send", "wait", "again", "tcp"},
                                 query : {0} \cup DOMAIN asked', tcp : BOOLEAN]]
    BY <1>2, <1>3, <1>4 DEF TypeOK
  <1>7. seq' \in Nat /\ pushed' \in Nat
    BY <1>2 DEF TypeOK
  <1>8. pending' \subseteq [ticket : 1..pushed', seq : 0..(IdLimit - 1), query : DOMAIN asked',
                            late : BOOLEAN]
    BY <1>2, <1>4 DEF TypeOK
  <1>9. /\ onwire' \subseteq DOMAIN asked'
        /\ reader' \in [Readers -> BOOLEAN] /\ reaper' \in BOOLEAN /\ stopped' \in BOOLEAN
        /\ poisoned' \in BOOLEAN
    BY <1>2, <1>4 DEF TypeOK
  <1> QED
    BY <1>4, <1>5, <1>6, <1>7, <1>8, <1>9 DEF TypeOK

CallerStates ==
    [pc : {"idle", "reset", "push", "send", "wait", "again", "tcp"},
     query : {0} \cup DOMAIN asked, tcp : BOOLEAN]

LEMMA CallerMoves ==
    ASSUME TypeOK, NEW c \in Callers,
           NEW pc \in {"idle", "reset", "push", "send", "wait", "again", "tcp"}
    PROVE  /\ [caller EXCEPT ![c].pc = pc] \in [Callers -> CallerStates]
           /\ [caller EXCEPT ![c] = Nobody] \in [Callers -> CallerStates]
  <1>1. caller \in [Callers -> CallerStates] /\ Nobody \in CallerStates
    BY DEF TypeOK, CallerStates, Nobody
  <1>2. [caller[c] EXCEPT !.pc = pc] \in CallerStates
    BY <1>1 DEF CallerStates
  <1> QED
    BY <1>1, <1>2

(* Steps that neither take an id nor touch the channels.                   *)
LEMMA QuietTypes ==
    ASSUME TypeOK, BusyHaveQueries, UNCHANGED <<asked, channel>>,
           \/ \E c \in Callers : ResetSeq(c) \/ Push(c) \/ PushFails(c) \/ TcpEnds(c)
           \/ \E r \in Readers : Panic(r) \/ Drop(r) \/ ReaderEnds(r)
           \/ ReaperEnds \/ Stop
           \/ \E q \in DOMAIN asked : GetsLate(q)
           \/ UNCHANGED vars
    PROVE  TypeOK'
  <1>1. ASSUME NEW c \in Callers, ResetSeq(c) PROVE TypeOK'
    BY <1>1 DEF ResetSeq, TypeOK
  <1>2. ASSUME NEW c \in Callers, Push(c) PROVE TypeOK'
    <2> DEFINE q == caller[c].query
               e == [ticket |-> pushed + 1, seq |-> asked[q], query |-> q, late |-> FALSE]
    <2>1. q \in DOMAIN asked
      BY <1>2 DEF Push, TypeOK, BusyHaveQueries
    <2>2. pending' = pending \cup {e} /\ pushed' = pushed + 1
      BY <1>2 DEF Push
    <2>5. asked[q] \in 0..(IdLimit - 1)
      <3>1. \A i \in DOMAIN asked : asked[i] \in 0..(IdLimit - 1)
        BY LenProperties DEF TypeOK
      <3> QED
        BY <2>1, <3>1
    <2>7. pushed \in Nat /\ pushed + 1 \in 1..(pushed + 1) /\ pushed + 1 \in Nat
      BY DEF TypeOK
    <2>3. e \in [ticket : 1..(pushed + 1), seq : 0..(IdLimit - 1), query : DOMAIN asked,
                 late : BOOLEAN]
      BY <2>1, <2>5, <2>7
    <2> HIDE DEF e
    <2>4. pending' \subseteq [ticket : 1..pushed', seq : 0..(IdLimit - 1), query : DOMAIN asked',
                              late : BOOLEAN]
      BY <2>2, <2>3 DEF TypeOK
    <2>6. caller' \in [Callers -> CallerStates]
      BY <1>2, CallerMoves DEF Push
    <2> QED
      BY <1>2, <2>2, <2>4, <2>7, <2>6 DEF Push, TypeOK, CallerStates
  <1>3. ASSUME NEW c \in Callers, TcpEnds(c) \/ PushFails(c) PROVE TypeOK'
    <2>1. caller' = [caller EXCEPT ![c] = Nobody]
      BY <1>3 DEF TcpEnds, PushFails
    <2>2. caller' \in [Callers -> CallerStates]
      BY <2>1, CallerMoves
    <2> QED
      BY <1>3, <2>2 DEF TcpEnds, PushFails, TypeOK, CallerStates
  <1>4. ASSUME NEW r \in Readers, Panic(r) \/ Drop(r) \/ ReaderEnds(r) PROVE TypeOK'
    BY <1>4 DEF Panic, Drop, ReaderEnds, TypeOK
  <1>5. CASE ReaperEnds \/ Stop
    BY <1>5 DEF ReaperEnds, Stop, TypeOK
  <1>6. ASSUME NEW q \in DOMAIN asked, GetsLate(q) PROVE TypeOK'
    BY <1>6 DEF GetsLate, TypeOK
  <1>7. CASE UNCHANGED vars
    BY <1>7 DEF vars, TypeOK
  <1> QED
    BY <1>1, <1>2, <1>3, <1>4, <1>5, <1>6, <1>7

LEMMA CallerTypes ==
    ASSUME TypeOK, BusyHaveQueries, NEW c \in Callers, Send(c) \/ Receive(c)
    PROVE  TypeOK'
  <1> DEFINE q == caller[c].query
  <1>1. q \in 1..Len(channel)
    BY DEF Send, Receive, TypeOK, BusyHaveQueries
  <1>2. channel[q] \in Seq(Messages) /\ <<>> \in Seq(Messages)
    BY <1>1 DEF TypeOK
  <1>3. CASE Send(c)
    <2>1. [channel EXCEPT ![q] = <<>>] \in Seq(Seq(Messages))
          /\ Len([channel EXCEPT ![q] = <<>>]) = Len(channel)
      BY <1>1, <1>2, ExceptSeq DEF TypeOK
    <2>2. channel' \in Seq(Seq(Messages)) /\ Len(channel') = Len(asked)
      BY <1>3, <2>1 DEF Send, TypeOK
    <2>3. onwire' \subseteq DOMAIN asked
      BY <1>1, <1>3 DEF Send, TypeOK
    <2>4. caller' \in [Callers -> CallerStates]
      <3>1. \/ caller' = [caller EXCEPT ![c] = Nobody]
            \/ caller' = [caller EXCEPT ![c].pc = "wait"]
        BY <1>3 DEF Send
      <3> QED
        BY <3>1, CallerMoves
    <2> QED
      BY <1>3, <2>2, <2>3, <2>4 DEF Send, TypeOK, CallerStates
  <1>4. CASE Receive(c)
    <2>1. channel[q] # <<>> /\ channel' = [channel EXCEPT ![q] = Tail(channel[q])]
      BY <1>4 DEF Receive
    <2>2. Tail(channel[q]) \in Seq(Messages)
      BY <1>2, <2>1
    <2>3. channel' \in Seq(Seq(Messages)) /\ Len(channel') = Len(asked)
      BY <1>1, <2>1, <2>2, ExceptSeq DEF TypeOK
    <2>4. caller' \in [Callers -> CallerStates]
      <3>1. \/ caller' = [caller EXCEPT ![c] = Nobody]
            \/ caller' = [caller EXCEPT ![c].pc = "again"]
        BY <1>4 DEF Receive
      <3> QED
        BY <3>1, CallerMoves
    <2> QED
      BY <1>4, <2>3, <2>4 DEF Receive, TypeOK, CallerStates
  <1> QED
    BY <1>3, <1>4

LEMMA BusyStep ==
    ASSUME TypeOK, BusyHaveQueries, [Next]_vars
    PROVE  BusyHaveQueries'
  <1>1. ASSUME NEW c \in Callers, NEW tcp \in BOOLEAN, TakeId(c, tcp) PROVE BusyHaveQueries'
    <2> DEFINE pc == IF ((seq % IdLimit) + 1) % IdLimit = IdLimit - 1 THEN "reset"
                     ELSE IF tcp THEN "tcp" ELSE "push"
    <2>1. caller' = [caller EXCEPT ![c] = [pc |-> pc, query |-> Len(asked) + 1, tcp |-> tcp]]
      BY <1>1 DEF TakeId
    <2>2. pc # "idle" /\ Len(asked) + 1 # 0
      BY DEF TypeOK
    <2> HIDE DEF pc
    <2> QED
      BY <2>1, <2>2 DEF BusyHaveQueries, TypeOK
  <1>2. ASSUME NEW c \in Callers, CallerStep(c) \/ TcpEnds(c) PROVE BusyHaveQueries'
    <2>1. \/ caller' = [caller EXCEPT ![c] = Nobody]
          \/ /\ caller[c].pc # "idle"
             /\ \E pc \in {"push", "tcp", "send", "wait", "again"} :
                   caller' = [caller EXCEPT ![c].pc = pc]
      BY <1>2 DEF CallerStep, TcpEnds, ResetSeq, Push, PushFails, Send, Receive
    <2>2. caller \in [Callers -> CallerStates]
      BY DEF TypeOK, CallerStates
    <2> QED
      BY <2>1, <2>2 DEF BusyHaveQueries, CallerStates, Nobody
  <1>3. CASE UNCHANGED caller
    BY <1>3 DEF BusyHaveQueries
  <1> QED
    BY <1>1, <1>2, <1>3
    DEF Next, Ask, AskByTcp, Deliver, Panic, Drop, ReaderEnds, GetsLate, Reap, ReaperEnds, Stop, vars

LEMMA TypeStep ==
    ASSUME TypeOK, BusyHaveQueries, [Next]_vars
    PROVE  TypeOK'
  <1>1. ASSUME NEW c \in Callers, Ask(c) \/ AskByTcp(c) PROVE TypeOK'
    BY <1>1, TakeIdTypes DEF Ask, AskByTcp
  <1>2. ASSUME NEW c \in Callers, CallerStep(c) \/ TcpEnds(c) PROVE TypeOK'
    BY <1>2, CallerTypes, QuietTypes DEF CallerStep, ResetSeq, Push, PushFails, TcpEnds
  <1>3. ASSUME NEW r \in Readers, Deliver(r) PROVE TypeOK'
    <2>1. PICK p \in DOMAIN asked, b \in BOOLEAN :
             /\ Removal(FirstMatch(asked[p]), [from |-> p, truncated |-> b])
             /\ onwire' \subseteq onwire
      BY <1>3, DeliverRemoves
    <2>2. [from |-> p, truncated |-> b] \in Messages
      BY DEF Messages, TypeOK
    <2> QED
      BY <2>1, <2>2, RemovalTypes
  <1>4. CASE Reap
    <2>1. TimedOut \in Messages
      BY DEF TimedOut, Messages
    <2> QED
      BY <1>4, <2>1, ReapRemoves, RemovalTypes
  <1>5. ASSUME NEW r \in Readers, Panic(r) \/ Drop(r) \/ ReaderEnds(r) PROVE TypeOK'
    BY <1>5, QuietTypes DEF Panic, Drop, ReaderEnds
  <1>6. ASSUME NEW q \in DOMAIN asked, GetsLate(q) PROVE TypeOK'
    BY <1>6, QuietTypes DEF GetsLate
  <1>7. CASE ReaperEnds \/ Stop \/ UNCHANGED vars
    BY <1>7, QuietTypes DEF ReaperEnds, Stop, vars
  <1> QED
    BY <1>1, <1>2, <1>3, <1>4, <1>5, <1>6, <1>7 DEF Next

-----------------------------------------------------------------------------
(* Ids.                                                                    *)

LEMMA TakeIdKeepsRounds ==
    ASSUME TypeOK, RoundIsKept, IdsFarApart, NEW c \in Callers, NEW tcp \in BOOLEAN, TakeId(c, tcp)
    PROVE  RoundIsKept' /\ IdsFarApart'
  <1> DEFINE id == seq % IdLimit
             n == Len(asked)
  <1>1. /\ seq \in Nat /\ n \in Nat /\ IdLimit \in Nat /\ IdLimit > 1
        /\ seq' = seq + 1 /\ asked' = Append(asked, id)
    BY ClientAssumption DEF TypeOK, TakeId
  <1>2. /\ DOMAIN asked = 1..n /\ DOMAIN asked' = 1..(n + 1) /\ Len(asked') = n + 1
        /\ \A i \in 1..n : asked'[i] = asked[i]
        /\ asked'[n + 1] = id
    BY <1>1 DEF TypeOK
  <1>3. RoundIsKept'
    <2> SUFFICES ASSUME NEW i \in 1..(n + 1), n + 2 - i <= IdLimit - 1
                 PROVE  asked'[i] = Expected(seq', n + 2 - i)
      BY <1>1, <1>2 DEF RoundIsKept
    <2>1. CASE i = n + 1
      BY <2>1, <1>1, <1>2 DEF Expected
    <2>2. CASE i \in 1..n
      <3>1. asked'[i] = Expected(seq, n + 1 - i)
        BY <2>2, <1>1, <1>2 DEF RoundIsKept
      <3>2. CASE n + 1 - i <= seq
        <4>1. n + 2 - i <= seq' /\ seq' - (n + 2 - i) = seq - (n + 1 - i)
          BY <1>1, <2>2, <3>2
        <4> QED
          BY <3>1, <3>2, <4>1 DEF Expected
      <3>3. CASE ~(n + 1 - i <= seq)
        <4>1. ~(n + 2 - i <= seq') /\ (n + 2 - i) - seq' = (n + 1 - i) - seq
          BY <1>1, <2>2, <3>3
        <4> QED
          BY <3>1, <3>3, <4>1 DEF Expected
      <3> QED
        BY <3>2, <3>3
    <2> QED
      BY <2>1, <2>2, <1>1
  <1>4. \A i \in 1..n : n + 1 - i < IdLimit - 1 => asked[i] # id
    <2> SUFFICES ASSUME NEW i \in 1..n, n + 1 - i < IdLimit - 1
                 PROVE  asked[i] # id
      OBVIOUS
    <2> DEFINE d == n + 1 - i
    <2>1. d \in 1..(IdLimit - 1) /\ d < IdLimit - 1 /\ asked[i] = Expected(seq, d)
      BY <1>1, <1>2 DEF RoundIsKept
    <2> HIDE DEF d
    <2>2. CASE d <= seq
      <3>1. asked[i] = (seq - d) % IdLimit
        BY <2>1, <2>2 DEF Expected
      <3>2. IdLimit > 0 /\ d \in 1..(IdLimit - 1)
        BY <1>1, <2>1
      <3>3. (seq - d) % IdLimit # seq % IdLimit
        BY <1>1, <2>2, <3>2, NearNumbersDiffer
      <3> QED
        BY <3>1, <3>3
    <2>3. CASE ~(d <= seq)
      <3>1. seq \in 0..(IdLimit - 1)
        BY <1>1, <2>1, <2>3
      <3>2. id = seq
        BY <1>1, <3>1, SmallMod
      <3>3. asked[i] = IdLimit - 1 - (d - seq)
        BY <2>1, <2>3 DEF Expected
      <3> QED
        BY <1>1, <2>1, <3>2, <3>3
    <2> QED
      BY <2>2, <2>3
  <1> HIDE DEF id
  <1>5. IdsFarApart'
    <2> SUFFICES ASSUME NEW i \in 1..(n + 1), NEW j \in 1..(n + 1), i < j, asked'[i] = asked'[j]
                 PROVE  j - i >= IdLimit - 1
      BY <1>2 DEF IdsFarApart
    <2>1. CASE j \in 1..n
      BY <2>1, <1>1, <1>2 DEF IdsFarApart
    <2>2. CASE j = n + 1
      BY <2>2, <1>1, <1>2, <1>4
    <2> QED
      BY <2>1, <2>2, <1>1
  <1> QED
    BY <1>3, <1>5

LEMMA ResetKeepsRounds ==
    ASSUME TypeOK, RoundIsKept, NEW c \in Callers, ResetSeq(c)
    PROVE  RoundIsKept'
  <1>1. CASE seq' = seq
    BY <1>1 DEF ResetSeq, RoundIsKept, Expected
  <1>2. CASE seq = IdLimit - 1 /\ seq' = 0
    <2> DEFINE n == Len(asked)
    <2>1. asked' = asked /\ DOMAIN asked = 1..n /\ n \in Nat /\ IdLimit \in Nat /\ IdLimit > 1
      BY ClientAssumption DEF ResetSeq, TypeOK
    <2> SUFFICES ASSUME NEW i \in 1..n, n + 1 - i <= IdLimit - 1
                 PROVE  asked[i] = Expected(seq', n + 1 - i)
      BY <2>1 DEF RoundIsKept
    <2> DEFINE d == n + 1 - i
    <2>2. d \in 1..(IdLimit - 1) /\ asked[i] = Expected(seq, d)
      BY <2>1 DEF RoundIsKept
    <2> HIDE DEF d
    <2>3. asked[i] = (IdLimit - 1 - d) % IdLimit
      BY <1>2, <2>1, <2>2 DEF Expected
    <2>4. (IdLimit - 1 - d) % IdLimit = IdLimit - 1 - d
      <3>1. IdLimit - 1 - d \in 0..(IdLimit - 1) /\ IdLimit > 0
        BY <2>1, <2>2
      <3> QED
        BY <3>1, <2>1, SmallMod
    <2>5. Expected(seq', d) = IdLimit - 1 - d
      BY <1>2, <2>1, <2>2 DEF Expected
    <2> QED
      BY <2>3, <2>4, <2>5 DEF d
  <1> QED
    BY <1>1, <1>2 DEF ResetSeq

LEMMA TakeIdKeepsMatches ==
    ASSUME TypeOK, EntriesCarryIds, MessagesCarryIds,
           NEW c \in Callers, NEW tcp \in BOOLEAN, TakeId(c, tcp)
    PROVE  EntriesCarryIds' /\ MessagesCarryIds'
  <1> DEFINE n == Len(asked)
  <1>1. /\ asked' = Append(asked, seq % IdLimit) /\ channel' = Append(channel, <<>>)
        /\ pending' = pending
    BY DEF TakeId
  <1>2. /\ n \in Nat /\ DOMAIN asked = 1..n /\ DOMAIN asked' = 1..(n + 1)
        /\ \A i \in 1..n : asked'[i] = asked[i]
    BY <1>1 DEF TypeOK
  <1>3. /\ DOMAIN channel = 1..n /\ DOMAIN channel' = 1..(n + 1)
        /\ \A i \in 1..n : channel'[i] = channel[i]
        /\ channel'[n + 1] = <<>>
    BY <1>1, <1>2 DEF TypeOK
  <1>4. EntriesCarryIds'
    <2>1. \A e \in pending : e.query \in 1..n
      BY <1>2 DEF TypeOK
    <2> QED
      BY <1>1, <1>2, <2>1 DEF EntriesCarryIds
  <1>5. MessagesCarryIds'
    <2> SUFFICES ASSUME NEW q \in 1..(n + 1), NEW i \in DOMAIN channel'[q]
                 PROVE  LET p == channel'[q][i].from
                        IN  p = 0 \/ (p \in DOMAIN asked' /\ asked'[p] = asked'[q])
      BY <1>3 DEF MessagesCarryIds
    <2>1. CASE q = n + 1
      <3>1. DOMAIN channel'[q] = {}
        BY <2>1, <1>3
      <3> QED
        BY <3>1
    <2>2. CASE q \in 1..n
      BY <2>2, <1>2, <1>3 DEF MessagesCarryIds
    <2> QED
      BY <2>1, <2>2, <1>2
  <1> QED
    BY <1>4, <1>5

LEMMA RemovalKeepsMatches ==
    ASSUME TypeOK, EntriesCarryIds, MessagesCarryIds, NEW S, NEW m \in Messages, Removal(S, m),
           \/ m.from = 0
           \/ m.from \in DOMAIN asked /\ \A e \in S : e.seq = asked[m.from]
    PROVE  EntriesCarryIds' /\ MessagesCarryIds'
  <1>1. asked' = asked /\ pending' \subseteq pending /\ S \subseteq pending
    BY DEF Removal
  <1>2. EntriesCarryIds'
    BY <1>1 DEF EntriesCarryIds
  <1>3. MessagesCarryIds'
    <2> DEFINE Q == {e.query : e \in S}
    <2>1. channel' = [q \in DOMAIN channel |->
                        IF q \in Q /\ Listening(q) THEN Append(channel[q], m) ELSE channel[q]]
      BY DEF Removal, Tell
    <2>2. \A q \in Q : m.from = 0 \/ (m.from \in DOMAIN asked /\ asked[m.from] = asked[q])
      BY <1>1 DEF EntriesCarryIds
    <2> HIDE DEF Q
    <2> SUFFICES ASSUME NEW q \in DOMAIN channel, NEW i \in DOMAIN channel'[q]
                 PROVE  LET p == channel'[q][i].from
                        IN  p = 0 \/ (p \in DOMAIN asked /\ asked[p] = asked[q])
      BY <1>1, <2>1 DEF MessagesCarryIds
    <2>3. channel[q] \in Seq(Messages)
      BY LenProperties DEF TypeOK
    <2>4. CASE channel'[q] = channel[q]
      BY <2>4 DEF MessagesCarryIds
    <2>5. CASE q \in Q /\ channel'[q] = Append(channel[q], m)
      <3>1. i \in 1..(Len(channel[q]) + 1) /\ Len(channel[q]) \in Nat
        BY <2>3, <2>5
      <3>2. CASE i \in 1..Len(channel[q])
        <4>1. channel'[q][i] = channel[q][i] /\ i \in DOMAIN channel[q]
          BY <2>3, <2>5, <3>2
        <4> QED
          BY <4>1 DEF MessagesCarryIds
      <3>3. CASE i = Len(channel[q]) + 1
        <4>1. channel'[q][i] = m
          BY <2>3, <2>5, <3>3
        <4> QED
          BY <4>1, <2>2, <2>5
      <3> QED
        BY <3>1, <3>2, <3>3
    <2> QED
      BY <2>1, <2>4, <2>5
  <1> QED
    BY <1>2, <1>3

LEMMA CallerKeepsMatches ==
    ASSUME TypeOK, BusyHaveQueries, EntriesCarryIds, MessagesCarryIds,
           NEW c \in Callers, CallerStep(c)
    PROVE  EntriesCarryIds' /\ MessagesCarryIds'
  <1> DEFINE q == caller[c].query
  <1>1. asked' = asked
    BY DEF CallerStep, ResetSeq, Push, PushFails, Send, Receive
  <1>2. EntriesCarryIds'
    BY <1>1 DEF EntriesCarryIds, CallerStep, ResetSeq, Push, PushFails, Send, Receive
  <1>3. CASE channel' = channel
    BY <1>1, <1>2, <1>3 DEF MessagesCarryIds
  <1>4. CASE Send(c) /\ channel' = [channel EXCEPT ![q] = <<>>]
    BY <1>1, <1>2, <1>4 DEF MessagesCarryIds
  <1>5. CASE Receive(c)
    <2>1. q \in DOMAIN channel /\ channel[q] \in Seq(Messages)
      BY <1>5, LenProperties DEF Receive, TypeOK, BusyHaveQueries
    <2>2. channel[q] # <<>> /\ channel' = [channel EXCEPT ![q] = Tail(channel[q])]
      BY <1>5 DEF Receive
    <2>3. \A i \in DOMAIN Tail(channel[q]) :
             i + 1 \in DOMAIN channel[q] /\ Tail(channel[q])[i] = channel[q][i + 1]
      BY <2>1, <2>2
    <2> HIDE DEF q
    <2>4. MessagesCarryIds'
      <3> SUFFICES ASSUME NEW r \in DOMAIN channel, NEW i \in DOMAIN channel'[r]
                   PROVE  LET p == channel'[r][i].from
                          IN  p = 0 \/ (p \in DOMAIN asked /\ asked[p] = asked[r])
        BY <1>1, <2>2 DEF MessagesCarryIds
      <3>1. CASE r = q
        BY <3>1, <2>1, <2>2, <2>3 DEF MessagesCarryIds
      <3>2. CASE r # q
        BY <3>2, <2>2 DEF MessagesCarryIds
      <3> QED
        BY <3>1, <3>2
    <2> QED
      BY <1>2, <2>4
  <1> QED
    BY <1>3, <1>4, <1>5 DEF CallerStep, ResetSeq, Push, PushFails, Send

LEMMA IdInvInit ==
    ASSUME Init
    PROVE  IdInv
  <1>1. TypeOK
    <2>1. asked \in Seq(0..(IdLimit - 1)) /\ channel \in Seq(Seq(Messages)) /\ Len(channel) = Len(asked)
      BY DEF Init
    <2>2. Nobody \in CallerStates
      BY DEF Nobody, CallerStates
    <2>3. caller \in [Callers -> CallerStates] /\ reader \in [Readers -> BOOLEAN]
      BY <2>2 DEF Init
    <2> QED
      BY <2>1, <2>3 DEF Init, TypeOK, CallerStates
  <1>2. BusyHaveQueries
    BY DEF Init, BusyHaveQueries, Nobody
  <1>3. DOMAIN asked = {} /\ DOMAIN channel = {} /\ pending = {}
    BY DEF Init
  <1> QED
    BY <1>1, <1>2, <1>3
    DEF IdInv, RoundIsKept, IdsFarApart, EntriesCarryIds, MessagesCarryIds

LEMMA IdInvStep ==
    ASSUME IdInv, [Next]_vars
    PROVE  IdInv'
  <1>1. /\ TypeOK /\ BusyHaveQueries /\ RoundIsKept /\ IdsFarApart
        /\ EntriesCarryIds /\ MessagesCarryIds
    BY DEF IdInv
  <1>2. TypeOK' /\ BusyHaveQueries'
    BY <1>1, TypeStep, BusyStep
  <1>3. ASSUME UNCHANGED <<seq, asked>> PROVE RoundIsKept' /\ IdsFarApart'
    BY <1>1, <1>3 DEF RoundIsKept, IdsFarApart
  <1>4. ASSUME NEW c \in Callers, Ask(c) \/ AskByTcp(c) PROVE IdInv'
    <2>1. PICK tcp \in BOOLEAN : TakeId(c, tcp)
      BY <1>4 DEF Ask, AskByTcp
    <2> QED
      BY <1>1, <1>2, <2>1, TakeIdKeepsRounds, TakeIdKeepsMatches DEF IdInv
  <1>5. ASSUME NEW c \in Callers, CallerStep(c) PROVE IdInv'
    <2>1. EntriesCarryIds' /\ MessagesCarryIds'
      BY <1>1, <1>5, CallerKeepsMatches
    <2>2. CASE ResetSeq(c)
      <3>1. IdsFarApart'
        BY <1>1, <2>2 DEF ResetSeq, IdsFarApart
      <3> QED
        BY <1>1, <1>2, <2>1, <2>2, <3>1, ResetKeepsRounds DEF IdInv
    <2>3. CASE UNCHANGED <<seq, asked>>
      BY <1>2, <1>3, <2>1, <2>3 DEF IdInv
    <2> QED
      BY <1>5, <2>2, <2>3 DEF CallerStep, Push, PushFails, Send, Receive
  <1>6. ASSUME NEW r \in Readers, Deliver(r) PROVE IdInv'
    <2>1. PICK p \in DOMAIN asked, b \in BOOLEAN :
             Removal(FirstMatch(asked[p]), [from |-> p, truncated |-> b])
      BY <1>1, <1>6, DeliverRemoves
    <2> DEFINE m == [from |-> p, truncated |-> b]
    <2>2. m \in Messages /\ m.from = p
      BY <1>1 DEF Messages, TypeOK
    <2>3. \A e \in FirstMatch(asked[p]) : e.seq = asked[p]
      BY DEF FirstMatch
    <2> HIDE DEF m
    <2>4. Removal(FirstMatch(asked[p]), m)
      BY <2>1 DEF m
    <2>5. EntriesCarryIds' /\ MessagesCarryIds'
      BY <1>1, <2>2, <2>3, <2>4, RemovalKeepsMatches
    <2> QED
      BY <1>2, <1>3, <2>1, <2>5 DEF IdInv, Removal
  <1>7. CASE Reap
    <2>1. TimedOut \in Messages /\ TimedOut.from = 0
      BY DEF TimedOut, Messages
    <2>2. Removal(Late, TimedOut)
      BY <1>7, ReapRemoves
    <2>3. EntriesCarryIds' /\ MessagesCarryIds'
      BY <1>1, <2>1, <2>2, RemovalKeepsMatches
    <2> QED
      BY <1>2, <1>3, <2>2, <2>3 DEF IdInv, Removal
  <1>8. ASSUME NEW q \in DOMAIN asked, GetsLate(q) PROVE IdInv'
    <2>1. UNCHANGED <<seq, asked, channel>>
      BY <1>8 DEF GetsLate
    <2>2. EntriesCarryIds'
      BY <1>1, <1>8 DEF GetsLate, EntriesCarryIds, TypeOK
    <2>3. MessagesCarryIds'
      BY <1>1, <2>1 DEF MessagesCarryIds
    <2> QED
      BY <1>2, <1>3, <2>1, <2>2, <2>3 DEF IdInv
  <1>9. ASSUME UNCHANGED <<seq, asked, channel, pending>> PROVE IdInv'
    <2>1. EntriesCarryIds' /\ MessagesCarryIds'
      BY <1>1, <1>9 DEF EntriesCarryIds, MessagesCarryIds
    <2> QED
      BY <1>2, <1>3, <1>9, <2>1 DEF IdInv
  <1> QED
    BY <1>4, <1>5, <1>6, <1>7, <1>8, <1>9
    DEF Next, TcpEnds, Panic, Drop, ReaderEnds, ReaperEnds, Stop, vars

LEMMA MatchesAreFarApart ==
    ASSUME IdInv
    PROVE  OnlyOldAnswersGoAstray
  <1> SUFFICES ASSUME NEW q \in DOMAIN channel, NEW i \in DOMAIN channel[q],
                      channel[q][i].from # 0, channel[q][i].from # q
               PROVE  Distance(channel[q][i].from, q) >= IdLimit - 1
    BY DEF OnlyOldAnswersGoAstray
  <1> DEFINE p == channel[q][i].from
  <1>1. p \in DOMAIN asked /\ asked[p] = asked[q]
    BY DEF IdInv, MessagesCarryIds
  <1>2. q \in DOMAIN asked /\ DOMAIN asked = 1..Len(asked) /\ Len(asked) \in Nat
    BY DEF IdInv, TypeOK
  <1> HIDE DEF p
  <1>3. p < q => q - p >= IdLimit - 1
    BY <1>1, <1>2 DEF IdInv, IdsFarApart
  <1>4. q < p => p - q >= IdLimit - 1
    BY <1>1, <1>2 DEF IdInv, IdsFarApart
  <1>5. p # q
    BY DEF p
  <1> QED
    BY <1>1, <1>2, <1>3, <1>4, <1>5 DEF Distance, p

(* The client's state keeps its types; ids stay within their 16 bits.      *)
THEOREM ClientTypeCorrect == Spec => []TypeOK
  <1>1. Init => IdInv
    BY IdInvInit
  <1>2. IdInv /\ [Next]_vars => IdInv'
    BY IdInvStep
  <1>3. IdInv => TypeOK
    BY DEF IdInv
  <1> QED
    BY <1>1, <1>2, <1>3, PTL DEF Spec

(* For any number of threads and whatever the interleaving of fetch_add    *)
(* and compare_exchange, only an answer a whole round of ids away can be   *)
(* handed to the wrong query.                                              *)
THEOREM AnswersGoAstrayOnlyAfterARound == Spec => []OnlyOldAnswersGoAstray
  <1>1. Init => IdInv
    BY IdInvInit
  <1>2. IdInv /\ [Next]_vars => IdInv'
    BY IdInvStep
  <1>3. IdInv => OnlyOldAnswersGoAstray
    BY MatchesAreFarApart
  <1> QED
    BY <1>1, <1>2, <1>3, PTL DEF Spec

-----------------------------------------------------------------------------
(* Waiters.                                                                *)

CallersDiffer ==
    \A c, d \in Callers : caller[c].query = caller[d].query /\ c # d => caller[c].query = 0

Pended(q) == \E e \in pending : e.query = q

(* A query that has not joined the list is not in it, nor was it told.     *)
NewIsUnheard ==
    \A c \in Callers : caller[c].pc \in {"reset", "push"} =>
        ~Pended(caller[c].query) /\ channel[caller[c].query] = <<>>

OneEntryEach == \A e, f \in pending : e.query = f.query => e = f

Served ==
    \A c \in Callers : caller[c].pc \in {"send", "wait"} =>
        IF Pended(caller[c].query) THEN channel[caller[c].query] = <<>>
        ELSE Len(channel[caller[c].query]) = 1

WaitInv == IdInv /\ CallersDiffer /\ NewIsUnheard /\ OneEntryEach /\ Served

LEMMA TakeIdKeepsWaiters ==
    ASSUME WaitInv, NEW c \in Callers, NEW tcp \in BOOLEAN, TakeId(c, tcp)
    PROVE  CallersDiffer' /\ NewIsUnheard' /\ OneEntryEach' /\ Served'
  <1> DEFINE n == Len(asked)
             pc == IF ((seq % IdLimit) + 1) % IdLimit = IdLimit - 1 THEN "reset"
                   ELSE IF tcp THEN "tcp" ELSE "push"
             new == [pc |-> pc, query |-> n + 1, tcp |-> tcp]
  <1>1. /\ caller' = [caller EXCEPT ![c] = new]
        /\ channel' = Append(channel, <<>>)
        /\ pending' = pending
    BY DEF TakeId
  <1>2. pc \in {"reset", "tcp", "push"}
    OBVIOUS
  <1> HIDE DEF pc
  <1>3. /\ n \in Nat /\ caller \in [Callers -> CallerStates]
        /\ \A d \in Callers : caller[d].query \in 0..n
        /\ \A e \in pending : e.query \in 1..n
    BY DEF WaitInv, IdInv, TypeOK, CallerStates
  <1>4. /\ \A q \in 1..n : channel'[q] = channel[q]
        /\ channel'[n + 1] = <<>>
    BY <1>1 DEF WaitInv, IdInv, TypeOK
  <1>5. \A d \in Callers : d # c => caller'[d] = caller[d]
    BY <1>1, <1>3
  <1>6. caller'[c].query = n + 1 /\ caller'[c].pc = pc
    BY <1>1, <1>3
  <1>7. \A d \in Callers : caller[d].pc # "idle" => caller[d].query \in 1..n
    BY <1>3 DEF WaitInv, IdInv, BusyHaveQueries
  <1>8. CallersDiffer'
    BY <1>3, <1>5, <1>6 DEF WaitInv, CallersDiffer
  <1>9. NewIsUnheard'
    <2> SUFFICES ASSUME NEW d \in Callers, caller'[d].pc \in {"reset", "push"}
                 PROVE  /\ ~\E e \in pending : e.query = caller'[d].query
                        /\ channel'[caller'[d].query] = <<>>
      BY <1>1 DEF NewIsUnheard, Pended
    <2>1. CASE d = c
      BY <2>1, <1>3, <1>4, <1>6
    <2>2. CASE d # c
      BY <2>2, <1>4, <1>5, <1>7 DEF WaitInv, NewIsUnheard, Pended
    <2> QED
      BY <2>1, <2>2
  <1>10. OneEntryEach'
    BY <1>1 DEF WaitInv, OneEntryEach
  <1>11. Served'
    <2> SUFFICES ASSUME NEW d \in Callers, caller'[d].pc \in {"send", "wait"}
                 PROVE  IF \E e \in pending : e.query = caller'[d].query
                        THEN channel'[caller'[d].query] = <<>>
                        ELSE Len(channel'[caller'[d].query]) = 1
      BY <1>1 DEF Served, Pended
    <2>1. d # c
      BY <1>2, <1>6
    <2> QED
      BY <2>1, <1>4, <1>5, <1>7 DEF WaitInv, Served, Pended
  <1> QED
    BY <1>8, <1>9, <1>10, <1>11

LEMMA RemovalKeepsWaiters ==
    ASSUME WaitInv, NEW S, NEW m \in Messages, Removal(S, m)
    PROVE  CallersDiffer' /\ NewIsUnheard' /\ OneEntryEach' /\ Served'
  <1> DEFINE Q == {e.query : e \in S}
  <1>1. /\ caller' = caller /\ S \subseteq pending /\ pending' = pending \ S
        /\ channel' = [q \in DOMAIN channel |->
                         IF q \in Q /\ Listening(q) THEN Append(channel[q], m) ELSE channel[q]]
    BY DEF Removal, Tell
  <1>2. \A e \in pending : e.query \in Q => e \in S
    BY <1>1 DEF WaitInv, OneEntryEach
  <1>3. \A q : (\E e \in pending' : e.query = q) <=> Pended(q) /\ q \notin Q
    BY <1>1, <1>2 DEF Pended
  <1>4. \A q \in Q : Pended(q)
    BY <1>1 DEF Pended
  <1> HIDE DEF Q
  <1>5. CallersDiffer' /\ OneEntryEach'
    BY <1>1 DEF WaitInv, CallersDiffer, OneEntryEach
  <1>6. \A d \in Callers : caller[d].pc # "idle" => caller[d].query \in DOMAIN channel
    BY DEF WaitInv, IdInv, TypeOK, BusyHaveQueries
  <1>7. NewIsUnheard'
    <2> SUFFICES ASSUME NEW d \in Callers, caller[d].pc \in {"reset", "push"}
                 PROVE  /\ ~\E e \in pending' : e.query = caller[d].query
                        /\ channel'[caller[d].query] = <<>>
      BY <1>1 DEF NewIsUnheard, Pended
    <2>1. ~Pended(caller[d].query) /\ channel[caller[d].query] = <<>>
      BY DEF WaitInv, NewIsUnheard
    <2> QED
      BY <2>1, <1>1, <1>3, <1>4, <1>6
  <1>8. Served'
    <2> SUFFICES ASSUME NEW d \in Callers, caller[d].pc \in {"send", "wait"}
                 PROVE  IF \E e \in pending' : e.query = caller[d].query
                        THEN channel'[caller[d].query] = <<>>
                        ELSE Len(channel'[caller[d].query]) = 1
      BY <1>1 DEF Served, Pended
    <2> DEFINE q == caller[d].query
    <2>1. q \in DOMAIN channel /\ Listening(q)
      BY <1>6 DEF Listening
    <2>2. IF Pended(q) THEN channel[q] = <<>> ELSE Len(channel[q]) = 1
      BY DEF WaitInv, Served
    <2> HIDE DEF q
    <2>3. CASE q \in Q
      <3>1. channel[q] = <<>> /\ channel'[q] = Append(channel[q], m)
        BY <2>1, <2>2, <2>3, <1>1, <1>4
      <3>2. Len(channel'[q]) = 1
        BY <3>1
      <3>3. ~\E e \in pending' : e.query = q
        BY <2>3, <1>3
      <3> QED
        BY <3>2, <3>3 DEF q
    <2>4. CASE q \notin Q
      <3>1. channel'[q] = channel[q]
        BY <2>1, <2>4, <1>1
      <3>2. (\E e \in pending' : e.query = q) <=> Pended(q)
        BY <2>4, <1>3
      <3> QED
        BY <3>1, <3>2, <2>2 DEF q
    <2> QED
      BY <2>3, <2>4
  <1> QED
    BY <1>5, <1>7, <1>8

(* A caller that leaves its query, or goes on with it untold.              *)
LEMMA LeavingKeepsWaiters ==
    ASSUME WaitInv, NEW c \in Callers, pending' = pending,
           \/ caller' = [caller EXCEPT ![c] = Nobody]
           \/ caller' = [caller EXCEPT ![c].pc = "again"]
           \/ caller' = [caller EXCEPT ![c].pc = "tcp"],
           \A q \in DOMAIN channel : q # caller[c].query => channel'[q] = channel[q]
    PROVE  CallersDiffer' /\ NewIsUnheard' /\ OneEntryEach' /\ Served'
  <1>1. caller \in [Callers -> CallerStates]
    BY DEF WaitInv, IdInv, TypeOK, CallerStates
  <1>2. \A d \in Callers : d # c => caller'[d] = caller[d]
    BY <1>1
  <1>3. /\ caller'[c].pc \in {"idle", "again", "tcp"}
        /\ caller'[c].query \in {0, caller[c].query}
    BY <1>1 DEF Nobody, CallerStates
  <1>4. \A d \in Callers : d # c /\ caller[d].pc # "idle" =>
           caller[d].query # caller[c].query /\ caller[d].query \in DOMAIN channel
    BY DEF WaitInv, IdInv, TypeOK, BusyHaveQueries, CallersDiffer
  <1>5. CallersDiffer'
    BY <1>2, <1>3 DEF WaitInv, CallersDiffer
  <1>6. NewIsUnheard'
    BY <1>2, <1>3, <1>4 DEF WaitInv, NewIsUnheard, Pended
  <1>7. OneEntryEach'
    BY DEF WaitInv, OneEntryEach
  <1>8. Served'
    BY <1>2, <1>3, <1>4 DEF WaitInv, Served, Pended
  <1> QED
    BY <1>5, <1>6, <1>7, <1>8

LEMMA ResetKeepsWaiters ==
    ASSUME WaitInv, NEW c \in Callers, ResetSeq(c)
    PROVE  CallersDiffer' /\ NewIsUnheard' /\ OneEntryEach' /\ Served'
  <1>1. CASE caller' = [caller EXCEPT ![c].pc = "tcp"]
    BY <1>1, LeavingKeepsWaiters DEF ResetSeq
  <1>2. CASE caller' = [caller EXCEPT ![c].pc = "push"]
    <2>1. caller \in [Callers -> CallerStates]
      BY DEF WaitInv, IdInv, TypeOK, CallerStates
    <2>2. /\ \A d \in Callers : d # c => caller'[d] = caller[d]
          /\ caller'[c].pc = "push" /\ caller'[c].query = caller[c].query
          /\ caller[c].pc = "reset" /\ pending' = pending /\ channel' = channel
      BY <1>2, <2>1 DEF ResetSeq, CallerStates
    <2>3. CallersDiffer' /\ OneEntryEach'
      BY <2>2 DEF WaitInv, CallersDiffer, OneEntryEach
    <2>4. NewIsUnheard' /\ Served'
      BY <2>2 DEF WaitInv, NewIsUnheard, Served, Pended
    <2> QED
      BY <2>3, <2>4
  <1> QED
    BY <1>1, <1>2 DEF ResetSeq

LEMMA PushKeepsWaiters ==
    ASSUME WaitInv, NEW c \in Callers, Push(c)
    PROVE  CallersDiffer' /\ NewIsUnheard' /\ OneEntryEach' /\ Served'
  <1> DEFINE q == caller[c].query
             new == [ticket |-> pushed + 1, seq |-> asked[q], query |-> q, late |-> FALSE]
  <1>1. /\ caller[c].pc = "push" /\ pending' = pending \cup {new} /\ channel' = channel
        /\ caller' = [caller EXCEPT ![c].pc = "send"]
    BY DEF Push
  <1>2. new.query = q
    OBVIOUS
  <1> HIDE DEF new
  <1>3. caller \in [Callers -> CallerStates]
    BY DEF WaitInv, IdInv, TypeOK, CallerStates
  <1>4. /\ \A d \in Callers : d # c => caller'[d] = caller[d]
        /\ caller'[c].pc = "send" /\ caller'[c].query = q
    BY <1>1, <1>3 DEF CallerStates
  <1>5. ~Pended(q) /\ channel[q] = <<>>
    BY <1>1 DEF WaitInv, NewIsUnheard
  <1>6. \A d \in Callers : d # c /\ caller[d].pc # "idle" => caller[d].query # q
    BY DEF WaitInv, IdInv, BusyHaveQueries, CallersDiffer
  <1> HIDE DEF q
  <1>8. CallersDiffer'
    BY <1>4 DEF WaitInv, CallersDiffer, q
  <1>9. OneEntryEach'
    BY <1>1, <1>2, <1>5 DEF WaitInv, OneEntryEach, Pended
  <1>10. NewIsUnheard'
    <2> SUFFICES ASSUME NEW d \in Callers, caller'[d].pc \in {"reset", "push"}
                 PROVE  ~(\E e \in pending' : e.query = caller'[d].query)
                        /\ channel'[caller'[d].query] = <<>>
      BY DEF NewIsUnheard, Pended
    <2>1. d # c /\ caller'[d] = caller[d] /\ caller[d].query # q
      BY <1>4, <1>6
    <2>2. ~Pended(caller[d].query) /\ channel[caller[d].query] = <<>>
      BY <2>1 DEF WaitInv, NewIsUnheard
    <2> QED
      BY <2>1, <2>2, <1>1, <1>2 DEF Pended
  <1>11. Served'
    <2> SUFFICES ASSUME NEW d \in Callers, caller'[d].pc \in {"send", "wait"}
                 PROVE  IF \E e \in pending' : e.query = caller'[d].query
                        THEN channel'[caller'[d].query] = <<>>
                        ELSE Len(channel'[caller'[d].query]) = 1
      BY DEF Served, Pended
    <2>1. CASE d = c
      <3>1. \E e \in pending' : e.query = q
        BY <1>1, <1>2
      <3> QED
        BY <2>1, <3>1, <1>1, <1>4, <1>5
    <2>2. CASE d # c
      <3>1. caller'[d] = caller[d] /\ caller[d].query # q
        BY <2>2, <1>4, <1>6
      <3>2. (\E e \in pending' : e.query = caller[d].query) <=> Pended(caller[d].query)
        BY <3>1, <1>1, <1>2 DEF Pended
      <3> QED
        BY <3>1, <3>2, <1>1 DEF WaitInv, Served
    <2> QED
      BY <2>1, <2>2
  <1> QED
    BY <1>8, <1>9, <1>10, <1>11

LEMMA SendKeepsWaiters ==
    ASSUME WaitInv, NEW c \in Callers, Send(c)
    PROVE  CallersDiffer' /\ NewIsUnheard' /\ OneEntryEach' /\ Served'
  <1>1. CASE caller' = [caller EXCEPT ![c] = Nobody]
             /\ channel' = [channel EXCEPT ![caller[c].query] = <<>>]
    <2>1. \A q \in DOMAIN channel : q # caller[c].query => channel'[q] = channel[q]
      BY <1>1
    <2> QED
      BY <1>1, <2>1, LeavingKeepsWaiters DEF Send
  <1>2. CASE caller' = [caller EXCEPT ![c].pc = "wait"] /\ channel' = channel
    <2>1. caller \in [Callers -> CallerStates]
      BY DEF WaitInv, IdInv, TypeOK, CallerStates
    <2>2. /\ \A d \in Callers : d # c => caller'[d] = caller[d]
          /\ caller'[c].pc = "wait" /\ caller'[c].query = caller[c].query
          /\ caller[c].pc = "send" /\ pending' = pending /\ channel' = channel
      BY <1>2, <2>1 DEF Send, CallerStates
    <2>3. CallersDiffer' /\ OneEntryEach'
      BY <2>2 DEF WaitInv, CallersDiffer, OneEntryEach
    <2>4. NewIsUnheard' /\ Served'
      BY <2>2 DEF WaitInv, NewIsUnheard, Served, Pended
    <2> QED
      BY <2>3, <2>4
  <1> QED
    BY <1>1, <1>2 DEF Send

LEMMA ReceiveKeepsWaiters ==
    ASSUME WaitInv, NEW c \in Callers, Receive(c)
    PROVE  CallersDiffer' /\ NewIsUnheard' /\ OneEntryEach' /\ Served'
  <1>1. \/ caller' = [caller EXCEPT ![c] = Nobody]
        \/ caller' = [caller EXCEPT ![c].pc = "again"]
    BY DEF Receive
  <1>2. /\ channel' = [channel EXCEPT ![caller[c].query] = Tail(channel[caller[c].query])]
        /\ pending' = pending
    BY DEF Receive
  <1>3. \A q \in DOMAIN channel : q # caller[c].query => channel'[q] = channel[q]
    BY <1>2
  <1> QED
    BY <1>1, <1>2, <1>3, LeavingKeepsWaiters

LEMMA GettingLateKeepsWaiters ==
    ASSUME WaitInv, NEW q \in DOMAIN asked, GetsLate(q)
    PROVE  CallersDiffer' /\ NewIsUnheard' /\ OneEntryEach' /\ Served'
  <1>1. PICK e \in pending : /\ e.query = q
                             /\ pending' = (pending \ {e}) \cup {[e EXCEPT !.late = TRUE]}
    BY DEF GetsLate
  <1> DEFINE f == [e EXCEPT !.late = TRUE]
  <1>2. f.query = e.query
    BY DEF WaitInv, IdInv, TypeOK
  <1>3. pending' = (pending \ {e}) \cup {f}
    BY <1>1
  <1> HIDE DEF f
  <1>4. \A r : (\E g \in pending' : g.query = r) <=> (\E g \in pending : g.query = r)
    BY <1>2, <1>3
  <1>5. caller' = caller /\ channel' = channel
    BY DEF GetsLate
  <1>6. CallersDiffer' /\ NewIsUnheard' /\ Served'
    BY <1>4, <1>5 DEF WaitInv, CallersDiffer, NewIsUnheard, Served, Pended
  <1>7. OneEntryEach'
    BY <1>2, <1>3 DEF WaitInv, OneEntryEach
  <1> QED
    BY <1>6, <1>7

LEMMA WaitInvInit ==
    ASSUME Init
    PROVE  WaitInv
  <1>1. IdInv
    BY IdInvInit
  <1>2. \A c \in Callers : caller[c].pc = "idle" /\ caller[c].query = 0
    BY DEF Init, Nobody
  <1> QED
    BY <1>1, <1>2 DEF Init, WaitInv, CallersDiffer, NewIsUnheard, OneEntryEach, Served

LEMMA WaitInvStep ==
    ASSUME WaitInv, [Next]_vars
    PROVE  WaitInv'
  <1>1. IdInv'
    BY IdInvStep DEF WaitInv
  <1>2. TypeOK
    BY DEF WaitInv, IdInv
  <1> SUFFICES CallersDiffer' /\ NewIsUnheard' /\ OneEntryEach' /\ Served'
    BY <1>1 DEF WaitInv
  <1>3. ASSUME NEW c \in Callers, Ask(c) \/ AskByTcp(c)
        PROVE  CallersDiffer' /\ NewIsUnheard' /\ OneEntryEach' /\ Served'
    BY <1>3, TakeIdKeepsWaiters DEF Ask, AskByTcp
  <1>4. ASSUME NEW c \in Callers, CallerStep(c)
        PROVE  CallersDiffer' /\ NewIsUnheard' /\ OneEntryEach' /\ Served'
    BY <1>4, ResetKeepsWaiters, PushKeepsWaiters, LeavingKeepsWaiters, SendKeepsWaiters,
       ReceiveKeepsWaiters
    DEF CallerStep, PushFails
  <1>5. ASSUME NEW c \in Callers, TcpEnds(c)
        PROVE  CallersDiffer' /\ NewIsUnheard' /\ OneEntryEach' /\ Served'
    BY <1>5, LeavingKeepsWaiters DEF TcpEnds
  <1>6. ASSUME NEW r \in Readers, Deliver(r)
        PROVE  CallersDiffer' /\ NewIsUnheard' /\ OneEntryEach' /\ Served'
    <2>1. PICK p \in DOMAIN asked, b \in BOOLEAN :
             Removal(FirstMatch(asked[p]), [from |-> p, truncated |-> b])
      BY <1>2, <1>6, DeliverRemoves
    <2>2. [from |-> p, truncated |-> b] \in Messages
      BY <1>2 DEF Messages, TypeOK
    <2> QED
      BY <2>1, <2>2, RemovalKeepsWaiters
  <1>7. CASE Reap
    <2>1. TimedOut \in Messages
      BY DEF TimedOut, Messages
    <2> QED
      BY <1>7, <2>1, ReapRemoves, RemovalKeepsWaiters
  <1>8. CASE UNCHANGED <<caller, channel, pending>>
    BY <1>8 DEF WaitInv, CallersDiffer, NewIsUnheard, OneEntryEach, Served, Pended
  <1> QED
    BY <1>3, <1>4, <1>5, <1>6, <1>7, <1>8, GettingLateKeepsWaiters
    DEF Next, Panic, Drop, ReaderEnds, ReaperEnds, Stop, vars

LEMMA ServedMeansOnce ==
    ASSUME WaitInv
    PROVE  NoWaiterIsForgotten
  <1> SUFFICES ASSUME NEW c \in Callers, caller[c].pc \in {"send", "wait"}
               PROVE  Cardinality({e \in pending : e.query = caller[c].query})
                        + Len(channel[caller[c].query]) = 1
    BY DEF NoWaiterIsForgotten
  <1> DEFINE q == caller[c].query
             E == {e \in pending : e.query = q}
  <1>1. IF Pended(q) THEN channel[q] = <<>> ELSE Len(channel[q]) = 1
    BY DEF WaitInv, Served
  <1>2. CASE Pended(q)
    <2>1. PICK e \in pending : e.query = q
      BY <1>2 DEF Pended
    <2>2. E = {e}
      BY <2>1 DEF WaitInv, OneEntryEach
    <2>3. Cardinality(E) = 1
      BY <2>2, FS_Singleton
    <2>4. Len(channel[q]) = 0
      BY <1>1, <1>2
    <2> QED
      BY <2>3, <2>4
  <1>3. CASE ~Pended(q)
    <2>1. E = {}
      BY <1>3 DEF Pended
    <2>2. Cardinality(E) = 0
      BY <2>1, FS_EmptySet
    <2>3. Len(channel[q]) = 1
      BY <1>1, <1>3
    <2> QED
      BY <2>2, <2>3
  <1> QED
    BY <1>2, <1>3

(* For any number of threads, no call is dropped without a word and none   *)
(* is answered twice: recv never fails and TimeOut never follows an        *)
(* answer.                                                                 *)
THEOREM NoWaiterIsEverForgotten == Spec => []NoWaiterIsForgotten
  <1>1. Init => WaitInv
    BY WaitInvInit
  <1>2. WaitInv /\ [Next]_vars => WaitInv'
    BY WaitInvStep
  <1>3. WaitInv => NoWaiterIsForgotten
    BY ServedMeansOnce
  <1> QED
    BY <1>1, <1>2, <1>3, PTL DEF Spec
=============================================================================

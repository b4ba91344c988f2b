---------------------------- MODULE MinerProofs ----------------------------
(***************************************************************************)
(* Proofs about Miner, for any number of threads and any history of jobs:  *)
(* while the flag is up somebody works, and when nobody is left the        *)
(* context says so.                                                        *)
(***************************************************************************)
EXTENDS Miner, FiniteSetTheorems, SequenceTheorems, TLAPS

WorkerStates ==
    [pc : WorkerPcs, full : BOOLEAN, index : Nat, prev : Nat, waits : BOOLEAN]

(* The threads of a run that live_threads has counted and that are still   *)
(* to take themselves off it.                                              *)
IsCounted(w) == w.pc \in {"look", "choose", "hash", "drop", "none", "found"}

Counted(cell) == {c \in Cpus : IsCounted(cell[c])}

(* live_threads never falls short of the threads it has counted: a thread  *)
(* that succeeds leaves without taking itself off.                         *)
CountCovers ==
    \A r \in DOMAIN runs : Cardinality(Counted(worker[r])) <= runs[r]

(* Threads that are still to be spawned have done nothing.                 *)
RestUnborn ==
    main.pc = "spawn" =>
        /\ runs # <<>> /\ main.spawned < Threads
        /\ \A c \in Cpus : c > main.spawned => worker[Len(runs)][c].pc = "unborn"

(* As long as the context says that we mine, no thread of the last run has *)
(* succeeded, so that the count is exact and its last thread will report.  *)
StateIsOwned ==
    miner_state =>
        /\ runs # <<>>
        /\ runs[Len(runs)] = Cardinality(Counted(worker[Len(runs)]))
        /\ \/ main.pc = "spawn"
           \/ \E c \in Cpus : Alive(worker[Len(runs)][c])

-----------------------------------------------------------------------------
(* What one thread's step does to the tables of threads.                   *)

LEMMA CellTypes ==
    ASSUME NEW pc \in WorkerPcs, NEW w, w.full \in BOOLEAN
    PROVE  At(pc, w) \in WorkerStates
  BY DEF At, Unborn, WorkerStates, WorkerPcs

LEMMA UnbornAndDead == Unborn \in WorkerStates /\ Dead \in WorkerStates
  BY DEF Unborn, Dead, WorkerStates, WorkerPcs

LEMMA CountedIsFinite ==
    ASSUME NEW cell
    PROVE  IsFiniteSet(Counted(cell)) /\ Cardinality(Counted(cell)) \in Nat
  <1>1. IsFiniteSet(Cpus)
    BY MinerAssumption, FS_Interval DEF Cpus
  <1>2. Counted(cell) \subseteq Cpus
    BY DEF Counted
  <1> QED
    BY <1>1, <1>2, FS_Subset, FS_CardinalityType

(* A thread that becomes counted adds one, one that no longer is takes one *)
(* off.                                                                    *)
LEMMA CountOfOneCell ==
    ASSUME NEW cell \in [Cpus -> WorkerStates], NEW c \in Cpus, NEW w \in WorkerStates
    PROVE  LET new == [cell EXCEPT ![c] = w]
           IN  /\ (IsCounted(w) <=> IsCounted(cell[c])) => Counted(new) = Counted(cell)
               /\ IsCounted(w) /\ ~IsCounted(cell[c])
                    => Cardinality(Counted(new)) = Cardinality(Counted(cell)) + 1
               /\ ~IsCounted(w) /\ IsCounted(cell[c])
                    => Cardinality(Counted(new)) = Cardinality(Counted(cell)) - 1
  <1> DEFINE new == [cell EXCEPT ![c] = w]
  <1>1. \A k \in Cpus : new[k] = IF k = c THEN w ELSE cell[k]
    OBVIOUS
  <1>2. (IsCounted(w) <=> IsCounted(cell[c])) => Counted(new) = Counted(cell)
    BY <1>1 DEF Counted
  <1>3. ASSUME IsCounted(w), ~IsCounted(cell[c])
        PROVE  Cardinality(Counted(new)) = Cardinality(Counted(cell)) + 1
    <2>1. Counted(new) = Counted(cell) \cup {c} /\ c \notin Counted(cell)
      BY <1>1, <1>3 DEF Counted
    <2> QED
      BY <2>1, CountedIsFinite, FS_AddElement
  <1>4. ASSUME ~IsCounted(w), IsCounted(cell[c])
        PROVE  Cardinality(Counted(new)) = Cardinality(Counted(cell)) - 1
    <2>1. Counted(new) = Counted(cell) \ {c} /\ c \in Counted(cell)
      BY <1>1, <1>4 DEF Counted
    <2> QED
      BY <2>1, CountedIsFinite, FS_RemoveElement
  <1> QED
    BY <1>2, <1>3, <1>4

Rows == Seq([Cpus -> WorkerStates])

(* The tables after thread c of run r has become w.                        *)
LEMMA OneCellChanges ==
    ASSUME worker \in Rows, NEW r \in DOMAIN worker, NEW c \in Cpus, NEW w \in WorkerStates,
           Set(r, c, w)
    PROVE  /\ worker' \in Rows /\ Len(worker') = Len(worker) /\ DOMAIN worker' = DOMAIN worker
           /\ worker[r] \in [Cpus -> WorkerStates]
           /\ worker'[r] = [worker[r] EXCEPT ![c] = w]
           /\ \A q \in DOMAIN worker : q # r => worker'[q] = worker[q]
  <1> DEFINE row == [worker[r] EXCEPT ![c] = w]
  <1>1. worker[r] \in [Cpus -> WorkerStates]
    BY DEF Rows
  <1>2. row \in [Cpus -> WorkerStates]
    BY <1>1
  <1>3. worker' = [worker EXCEPT ![r] = row]
    BY DEF Set
  <1> HIDE DEF row
  <1>4. worker' \in Rows /\ Len(worker') = Len(worker) /\ DOMAIN worker' = DOMAIN worker
    BY <1>2, <1>3 DEF Rows
  <1>5. worker'[r] = row /\ \A q \in DOMAIN worker : q # r => worker'[q] = worker[q]
    BY <1>3 DEF Rows
  <1> QED
    BY <1>1, <1>4, <1>5 DEF row

-----------------------------------------------------------------------------
(* Type correctness, the tables of threads apart.                          *)

MainPcs == {"top", "take", "ask", "cancel", "mine", "begin", "spawn", "wait", "tail", "ended"}

MainType ==
    /\ jobs \in Seq(Jobs)
    /\ main \in [pc : MainPcs, job : Jobs \cup {NoJob}, spawned : 0..Threads]
    /\ chain \in [height : Nat, full : Nat, tip : Nat]

FlagType ==
    /\ mining \in BOOLEAN /\ running \in BOOLEAN /\ miner_state \in BOOLEAN
    /\ starter \in {"start", "holding", "done"}
    /\ gui \in {"idle", "adding"}
    /\ added \in [full : 0..MaxFull, signing : 0..MaxSigning]

(* "mine", "begin" and "spawn" are reached with a job only.                *)
HasJob == main.pc \in {"cancel", "mine", "begin", "spawn"} => main.job # NoJob

(* And to "cancel" with a signing job at the head of the queue.            *)
HasHead == main.pc = "cancel" => jobs # <<>>

TableType == runs \in Seq(Nat) /\ worker \in Rows /\ Len(worker) = Len(runs)

LEMMA TypeParts == TypeOK <=> MainType /\ FlagType /\ TableType
  BY DEF TypeOK, MainType, FlagType, TableType, MainPcs, Rows, WorkerStates

LEMMA FlagsKeepType ==
    ASSUME FlagType, MainType, [Next]_vars
    PROVE  FlagType'
  <1>1. CASE CreateDomain
    BY <1>1, MinerAssumption DEF FlagType, CreateDomain
  <1>2. CASE AddBlock \/ LockForGenesis \/ AddGenesis \/ ChainChanges \/ StopMining \/ Quit \/ JobIsDue
    BY <1>2 DEF FlagType, AddBlock, LockForGenesis, AddGenesis, ChainChanges, StopMining, Quit, JobIsDue
  <1>3. CASE Top \/ TakeJob \/ CancelJob \/ ReplaceJob \/ LeaveQueue
    BY <1>3 DEF FlagType, Top, TakeJob, CancelJob, ReplaceJob, LeaveQueue
  <1>4. CASE Ask
    BY <1>4, MinerAssumption DEF FlagType, Ask
  <1>5. CASE Mine \/ Begin \/ Spawn \/ Wait \/ WaitEnds
    BY <1>5 DEF FlagType, Mine, Begin, Spawn, Wait, WaitEnds
  <1>6. ASSUME NEW r \in DOMAIN runs, NEW c \in Cpus, WorkerStep(r, c)
        PROVE  FlagType'
    BY <1>6 DEF FlagType, WorkerStep, Run, Look, Choose, Hash, Drop, None, LastOut, Found
  <1>7. CASE UNCHANGED vars
    BY <1>7 DEF FlagType, vars
  <1> QED
    BY <1>1, <1>2, <1>3, <1>4, <1>5, <1>6, <1>7 DEF Next, MainStep

LEMMA MainKeepsType ==
    ASSUME FlagType, MainType, HasJob, HasHead, TableType, [Next]_vars
    PROVE  MainType' /\ HasJob' /\ HasHead'
  <1> USE DEF MainType, MainPcs, HasJob, HasHead
  <1>0. [full |-> TRUE, strong |-> TRUE, due |-> TRUE] \in Jobs
    BY DEF Jobs
  <1>1. CASE CreateDomain \/ LockForGenesis \/ StopMining \/ Quit
    BY <1>1 DEF CreateDomain, LockForGenesis, StopMining, Quit
  <1>2. CASE AddBlock \/ AddGenesis
    <2> DEFINE job == [full |-> TRUE, strong |-> TRUE, due |-> TRUE]
    <2>1. Append(jobs, job) \in Seq(Jobs) /\ Append(jobs, job) # <<>>
      BY <1>0, AppendProperties
    <2>2. jobs' = Append(jobs, job) /\ UNCHANGED <<main, chain>>
      BY <1>2 DEF AddBlock, AddGenesis
    <2> QED
      BY <2>1, <2>2
  <1>3. CASE ChainChanges
    BY <1>3 DEF ChainChanges
  <1>4. CASE JobIsDue
    <2>1. PICK i \in DOMAIN jobs : jobs' = [jobs EXCEPT ![i] = [jobs[i] EXCEPT !.due = TRUE]]
      BY <1>4 DEF JobIsDue
    <2>2. jobs[i] \in Jobs /\ i \in 1..Len(jobs)
      OBVIOUS
    <2>3. [jobs[i] EXCEPT !.due = TRUE] \in Jobs
      BY <2>2 DEF Jobs
    <2>4. jobs' \in Seq(Jobs) /\ Len(jobs') = Len(jobs)
      BY <2>1, <2>2, <2>3
    <2>5. jobs' # <<>> /\ UNCHANGED <<main, chain>>
      BY <1>4, <2>2, <2>4 DEF JobIsDue
    <2> QED
      BY <2>4, <2>5
  <1>5. CASE Top
    BY <1>5 DEF Top
  <1>6. CASE TakeJob
    <2>1. Head(jobs) \in Jobs /\ jobs' \in Seq(Jobs)
      BY <1>6 DEF TakeJob, HeadIsDue
    <2> QED
      BY <1>6, <2>1, NoJobAssumption DEF TakeJob
  <1>7. CASE CancelJob
    BY <1>7 DEF CancelJob, HeadSigns, Idle
  <1>8. CASE ReplaceJob
    <2>1. Head(jobs) \in Jobs /\ main.job \in Jobs
      BY <1>8 DEF ReplaceJob
    <2>2. jobs' \in Seq(Jobs)
      BY <1>8, <2>1 DEF ReplaceJob
    <2> QED
      BY <1>8, <2>1, <2>2, NoJobAssumption DEF ReplaceJob
  <1>9. CASE LeaveQueue
    BY <1>9 DEF LeaveQueue
  <1>10. CASE Ask
    <2>1. \A job \in Jobs : Append(jobs, job) \in Seq(Jobs)
      BY AppendProperties
    <2>2. \/ jobs' = jobs
          \/ \E strong, due \in BOOLEAN :
                jobs' = Append(jobs, [full |-> FALSE, strong |-> strong, due |-> due])
      BY <1>10 DEF Ask
    <2>3. \A strong, due \in BOOLEAN : [full |-> FALSE, strong |-> strong, due |-> due] \in Jobs
      BY DEF Jobs
    <2>4. jobs' \in Seq(Jobs)
      BY <2>1, <2>2, <2>3
    <2> QED
      BY <1>10, <2>4 DEF Ask
  <1>11. CASE Mine \/ Begin \/ Wait \/ WaitEnds
    <2>1. 0 \in 0..Threads
      BY MinerAssumption
    <2>2. CASE Mine
      BY <2>2 DEF Mine
    <2>3. CASE Begin
      BY <2>1, <2>3 DEF Begin
    <2>4. CASE Wait \/ WaitEnds
      BY <2>4 DEF Wait, WaitEnds
    <2> QED
      BY <1>11, <2>2, <2>3, <2>4
  <1>12. CASE Spawn
    <2>1. main.spawned + 1 \in 0..Threads
      BY <1>12, MinerAssumption DEF Spawn
    <2> QED
      BY <1>12, <2>1 DEF Spawn
  <1>13. ASSUME NEW r \in DOMAIN runs, NEW c \in Cpus, WorkerStep(r, c)
         PROVE  MainType' /\ HasJob' /\ HasHead'
    <2>1. UNCHANGED <<jobs, main>>
      BY <1>13 DEF WorkerStep, Run, Look, Choose, Hash, Drop, None, LastOut, Found
    <2>2. chain' \in [height : Nat, full : Nat, tip : Nat]
      <3>1. CASE Found(r, c)
        <4>1. worker[r][c].index \in Nat
          BY DEF TableType, Rows, WorkerStates
        <4> QED
          BY <3>1, <4>1 DEF Found
      <3>2. CASE ~Found(r, c)
        BY <1>13, <3>2 DEF WorkerStep, Run, Look, Choose, Hash, Drop, None, LastOut
      <3> QED
        BY <3>1, <3>2
    <2> QED
      BY <2>1, <2>2
  <1>14. CASE UNCHANGED vars
    BY <1>14 DEF vars
  <1> QED
    BY <1>1, <1>2, <1>3, <1>4, <1>5, <1>6, <1>7, <1>8, <1>9, <1>10, <1>11, <1>12, <1>13, <1>14
       DEF Next, MainStep

-----------------------------------------------------------------------------
(* The tables of threads.                                                  *)

Tables == TableType /\ CountCovers /\ RestUnborn /\ StateIsOwned

(* Steps that leave runs and threads alone keep what is said of them as    *)
(* long as they neither begin nor end spawning, and do not claim to mine.  *)
LEMMA OthersKeepTables ==
    ASSUME Tables, UNCHANGED <<runs, worker>>,
           main'.pc = "spawn" <=> main.pc = "spawn",
           main.pc = "spawn" => main' = main,
           miner_state' => miner_state
    PROVE  Tables'
  BY DEF Tables, TableType, CountCovers, RestUnborn, StateIsOwned, Alive, Counted, IsCounted

(* A step of thread c of run r keeps the tables if it counts itself in and *)
(* out of live_threads and, when it was the last thread whose count was    *)
(* exact, stays alive or lowers miner_state.                               *)
LEMMA ThreadKeepsTables ==
    ASSUME Tables, MainType,
           NEW r \in DOMAIN runs, NEW c \in Cpus, NEW w \in WorkerStates, Set(r, c, w),
           worker[r][c].pc # "unborn",
           main' = main,
           \/ runs' = runs /\ (IsCounted(w) <=> IsCounted(worker[r][c]))
           \/ runs' = runs /\ ~miner_state' /\ (IsCounted(w) => IsCounted(worker[r][c]))
           \/ runs' = [runs EXCEPT ![r] = @ + 1] /\ IsCounted(w) /\ ~IsCounted(worker[r][c])
           \/ runs' = [runs EXCEPT ![r] = @ - 1] /\ ~IsCounted(w) /\ IsCounted(worker[r][c]),
           miner_state' => miner_state,
           \/ Alive(w)
           \/ ~miner_state'
           \/ runs' = [runs EXCEPT ![r] = @ - 1] /\ runs[r] # 1
    PROVE  Tables'
  <1> DEFINE new == [worker[r] EXCEPT ![c] = w]
             n(cell) == Cardinality(Counted(cell))
  <1>1. /\ runs \in Seq(Nat) /\ worker \in Rows /\ Len(worker) = Len(runs)
        /\ r \in DOMAIN worker /\ DOMAIN worker = DOMAIN runs
        /\ DOMAIN runs = 1..Len(runs) /\ Len(runs) \in Nat
    BY DEF Tables, TableType, Rows
  <1>2. /\ worker' \in Rows /\ Len(worker') = Len(worker) /\ DOMAIN worker' = DOMAIN worker
        /\ worker[r] \in [Cpus -> WorkerStates] /\ worker'[r] = new
        /\ \A q \in DOMAIN worker : q # r => worker'[q] = worker[q]
    BY <1>1, OneCellChanges
  <1>3. /\ (IsCounted(w) <=> IsCounted(worker[r][c])) => n(new) = n(worker[r])
        /\ IsCounted(w) /\ ~IsCounted(worker[r][c]) => n(new) = n(worker[r]) + 1
        /\ ~IsCounted(w) /\ IsCounted(worker[r][c]) => n(new) = n(worker[r]) - 1
    BY <1>2, CountOfOneCell
  <1>4. \A cell : n(cell) \in Nat
    BY CountedIsFinite
  <1>5. \A q \in DOMAIN runs : n(worker[q]) <= runs[q] /\ runs[q] \in Nat
    BY <1>1 DEF Tables, CountCovers
  <1>6. \A k \in Cpus : new[k] = IF k = c THEN w ELSE worker[r][k]
    BY <1>2
  <1>7. n(new) \in Nat
    BY <1>4
  <1> HIDE DEF new, n
  <1>8. /\ DOMAIN runs' = DOMAIN runs /\ Len(runs') = Len(runs)
        /\ \A q \in DOMAIN runs : q # r => runs'[q] = runs[q]
    BY <1>1
  <1>9. runs'[r] \in Nat /\ n(new) <= runs'[r]
    <2>1. n(worker[r]) <= runs[r] /\ runs[r] \in Nat /\ n(worker[r]) \in Nat
      BY <1>4, <1>5
    <2>2. \/ runs'[r] = runs[r] /\ n(new) <= n(worker[r])
          \/ runs'[r] = runs[r] + 1 /\ n(new) = n(worker[r]) + 1
          \/ runs'[r] = runs[r] - 1 /\ n(new) = n(worker[r]) - 1
      BY <1>1, <1>3, <2>1, <1>7
    <2> QED
      BY <2>1, <2>2, <1>7
  <1>10. TableType'
    <2> DEFINE v == runs'[r]
    <2>1. runs' = [runs EXCEPT ![r] = v]
      BY <1>1
    <2>2. v \in Nat
      BY <1>9
    <2> HIDE DEF v
    <2>3. runs' \in Seq(Nat)
      BY <1>1, <2>1, <2>2, ExceptSeq
    <2> QED
      BY <1>1, <1>2, <1>8, <2>3 DEF TableType, Rows, Cpus, WorkerStates, WorkerPcs
  <1>11. CountCovers'
    <2>1. \A q \in DOMAIN runs : n(worker'[q]) <= runs'[q]
      BY <1>1, <1>2, <1>5, <1>8, <1>9
    <2> QED
      BY <1>8, <2>1 DEF CountCovers, n, Counted, Cpus, IsCounted
  <1>12. RestUnborn'
    <2>1. ASSUME main.pc = "spawn", NEW k \in Cpus, k > main.spawned
          PROVE  worker'[Len(runs)][k].pc = "unborn"
      <3>1. worker[Len(runs)][k].pc = "unborn" /\ Len(runs) \in DOMAIN runs
        BY <2>1, <1>1 DEF Tables, RestUnborn
      <3> QED
        BY <1>1, <1>2, <1>6, <3>1
    <2>2. main.pc = "spawn" => runs' # <<>> /\ main.spawned < Threads
      BY <1>1, <1>8 DEF Tables, RestUnborn
    <2> QED
      BY <1>8, <2>1, <2>2 DEF RestUnborn, Cpus
  <1>13. StateIsOwned'
    <2> SUFFICES ASSUME miner_state'
                 PROVE  /\ runs' # <<>>
                        /\ runs'[Len(runs)] = n(worker'[Len(runs)])
                        /\ \/ main.pc = "spawn"
                           \/ \E k \in Cpus : Alive(worker'[Len(runs)][k])
      BY <1>8 DEF StateIsOwned, n, Counted, Cpus, IsCounted, Alive
    <2>1. /\ miner_state /\ runs # <<>> /\ Len(runs) \in DOMAIN runs
          /\ runs[Len(runs)] = n(worker[Len(runs)])
          /\ \/ main.pc = "spawn"
             \/ \E k \in Cpus : Alive(worker[Len(runs)][k])
      BY <1>1 DEF Tables, StateIsOwned, n
    <2>2. runs' # <<>>
      BY <1>1, <1>8, <2>1
    <2>3. CASE r # Len(runs)
      BY <1>1, <1>2, <1>8, <2>1, <2>2, <2>3
    <2>4. CASE r = Len(runs)
      <3>1. n(worker[r]) \in Nat /\ runs[r] = n(worker[r])
        BY <1>4, <2>1, <2>4
      <3>2. runs'[r] = n(new)
        BY <1>1, <1>3, <3>1
      <3>3. \/ main.pc = "spawn"
            \/ \E k \in Cpus : Alive(new[k])
        <4>1. CASE Alive(w)
          BY <1>6, <4>1
        <4>2. CASE runs' = [runs EXCEPT ![r] = @ - 1] /\ runs[r] # 1
          <5>1. n(new) # 0
            BY <1>1, <3>1, <3>2, <4>2, <1>7
          <5>2. PICK k \in Cpus : IsCounted(new[k])
            <6>1. Counted(new) # {}
              BY <5>1, FS_EmptySet DEF n
            <6> QED
              BY <6>1 DEF Counted
          <5> QED
            BY <5>2 DEF IsCounted, Alive
        <4> QED
          BY <4>1, <4>2
      <3> QED
        BY <1>2, <2>2, <2>4, <3>2, <3>3
    <2> QED
      BY <2>3, <2>4
  <1> QED
    BY <1>10, <1>11, <1>12, <1>13 DEF Tables

(* One lemma for each step that touches the tables.                        *)

LEMMA BeginKeepsTables ==
    ASSUME Tables, MainType, Begin
    PROVE  Tables'
  <1> DEFINE row == [c \in Cpus |-> Unborn]
  <1>1. /\ runs \in Seq(Nat) /\ worker \in Rows /\ Len(worker) = Len(runs)
        /\ DOMAIN worker = DOMAIN runs /\ DOMAIN runs = 1..Len(runs) /\ Len(runs) \in Nat
    BY DEF Tables, TableType, Rows
  <1>2. row \in [Cpus -> WorkerStates] /\ \A c \in Cpus : row[c].pc = "unborn"
    BY UnbornAndDead DEF Unborn
  <1>3. Counted(row) = {}
    BY <1>2 DEF Counted, IsCounted
  <1>4. Cardinality(Counted(row)) = 0
    BY <1>3, FS_EmptySet
  <1> HIDE DEF row
  <1>5. /\ worker' = Append(worker, row) /\ runs' = Append(runs, 0)
        /\ main'.pc = "spawn" /\ main'.spawned = 0
    BY DEF Begin, row, MainType
  <1>6. /\ runs' \in Seq(Nat) /\ runs' # <<>> /\ Len(runs') = Len(runs) + 1
        /\ \A q \in 1..Len(runs) : runs'[q] = runs[q]
        /\ runs'[Len(runs) + 1] = 0
    BY <1>1, <1>5, AppendProperties
  <1>7. /\ worker' \in Rows /\ Len(worker') = Len(worker) + 1
        /\ \A q \in 1..Len(runs) : worker'[q] = worker[q]
        /\ worker'[Len(runs) + 1] = row
    BY <1>1, <1>2, <1>5, AppendProperties DEF Rows
  <1>8. TableType'
    BY <1>1, <1>6, <1>7 DEF TableType, Rows, Cpus, WorkerStates, WorkerPcs
  <1>9. CountCovers'
    <2>1. \A q \in 1..Len(runs) : Cardinality(Counted(worker'[q])) <= runs'[q]
      BY <1>1, <1>6, <1>7 DEF Tables, CountCovers
    <2>2. DOMAIN runs' = 1..(Len(runs) + 1)
      BY <1>6
    <2>3. \A q \in DOMAIN runs' : Cardinality(Counted(worker'[q])) <= runs'[q]
      BY <1>1, <1>4, <1>6, <1>7, <2>1, <2>2
    <2> QED
      BY <2>3 DEF CountCovers, Counted, Cpus, IsCounted
  <1>10. RestUnborn'
    <2>1. \A c \in Cpus : worker'[Len(runs')][c].pc = "unborn"
      BY <1>1, <1>2, <1>6, <1>7
    <2>2. main'.spawned < Threads
      BY <1>5, MinerAssumption
    <2> QED
      BY <1>6, <2>1, <2>2 DEF RestUnborn, Cpus
  <1>11. StateIsOwned'
    <2>1. runs'[Len(runs')] = Cardinality(Counted(worker'[Len(runs')]))
      BY <1>1, <1>4, <1>6, <1>7
    <2> QED
      BY <1>5, <1>6, <2>1 DEF StateIsOwned, Counted, Cpus, IsCounted
  <1> QED
    BY <1>8, <1>9, <1>10, <1>11 DEF Tables

LEMMA SpawnKeepsTables ==
    ASSUME Tables, MainType, HasJob, Spawn
    PROVE  Tables'
  <1> DEFINE r == Len(runs)
             c == main.spawned + 1
             w == At("spawned", main.job)
             new == [worker[r] EXCEPT ![c] = w]
  <1>1. /\ runs \in Seq(Nat) /\ worker \in Rows /\ Len(worker) = Len(runs)
        /\ DOMAIN worker = DOMAIN runs /\ DOMAIN runs = 1..Len(runs) /\ Len(runs) \in Nat
        /\ runs # <<>> /\ r \in DOMAIN worker
    BY DEF Tables, TableType, Rows, RestUnborn, Spawn
  <1>2. c \in Cpus /\ main.spawned \in Nat /\ Threads \in Nat
    BY MinerAssumption DEF MainType, Spawn, Cpus
  <1>3. main.job \in Jobs
    BY DEF MainType, HasJob, Spawn
  <1>4. w \in WorkerStates /\ w.pc = "spawned"
    <2>1. main.job.full \in BOOLEAN
      BY <1>3 DEF Jobs
    <2>2. "spawned" \in WorkerPcs
      BY DEF WorkerPcs
    <2>3. w \in WorkerStates
      BY <2>1, <2>2, CellTypes
    <2>4. w.pc = "spawned"
      BY DEF At, Unborn
    <2> QED
      BY <2>3, <2>4
  <1>5. worker[r][c].pc = "unborn"
    BY <1>2 DEF Tables, RestUnborn, Spawn
  <1>6. Set(r, c, w) /\ runs' = runs /\ UNCHANGED miner_state
    BY DEF Spawn, Set
  <1> HIDE DEF c, w
  <1>7. /\ worker' \in Rows /\ Len(worker') = Len(worker) /\ DOMAIN worker' = DOMAIN worker
        /\ worker[r] \in [Cpus -> WorkerStates] /\ worker'[r] = new
        /\ \A q \in DOMAIN worker : q # r => worker'[q] = worker[q]
    BY <1>1, <1>2, <1>4, <1>6, OneCellChanges
  <1>8. Counted(new) = Counted(worker[r])
    <2>1. ~IsCounted(w) /\ ~IsCounted(worker[r][c])
      BY <1>4, <1>5 DEF IsCounted
    <2> QED
      BY <1>2, <1>4, <1>7, <2>1, CountOfOneCell
  <1>9. \A q \in DOMAIN worker : Counted(worker'[q]) = Counted(worker[q])
    BY <1>1, <1>7, <1>8
  <1>10. \A k \in Cpus : new[k] = IF k = c THEN w ELSE worker[r][k]
    BY <1>7
  <1> HIDE DEF new
  <1>11. TableType'
    BY <1>1, <1>6, <1>7 DEF TableType, Rows, Cpus, WorkerStates, WorkerPcs
  <1>12. CountCovers'
    <2>1. \A q \in DOMAIN runs : Cardinality(Counted(worker'[q])) <= runs'[q]
      BY <1>1, <1>6, <1>9 DEF Tables, CountCovers
    <2> QED
      BY <1>6, <2>1 DEF CountCovers, Counted, Cpus, IsCounted
  <1>13. RestUnborn'
    <2>1. main' = [main EXCEPT !.spawned = c, !.pc = IF c = Threads THEN "wait" ELSE "spawn"]
      BY DEF Spawn, c
    <2>2. main'.pc = "spawn" => main'.spawned = c /\ c < Threads
      BY <1>2, <2>1 DEF MainType, Cpus
    <2>3. \A k \in Cpus : k > c => worker'[r][k].pc = "unborn"
      <3>1. SUFFICES ASSUME NEW k \in Cpus, k > c
                     PROVE  worker[r][k].pc = "unborn" /\ k # c
        BY <1>7, <1>10
      <3>2. k > main.spawned /\ k # c /\ main.pc = "spawn"
        BY <1>2, <3>1 DEF c, Cpus, Spawn
      <3> QED
        BY <3>1, <3>2 DEF Tables, RestUnborn
    <2> QED
      BY <1>1, <1>6, <2>2, <2>3 DEF RestUnborn, Cpus
  <1>14. StateIsOwned'
    <2>1. Alive(worker'[r][c])
      BY <1>2, <1>4, <1>7, <1>10 DEF Alive
    <2>2. miner_state' => runs[r] = Cardinality(Counted(worker'[r]))
      BY <1>1, <1>6, <1>9 DEF Tables, StateIsOwned
    <2>3. miner_state' => /\ runs' # <<>>
                          /\ runs'[Len(runs')] = Cardinality(Counted(worker'[Len(runs')]))
                          /\ \E k \in Cpus : Alive(worker'[Len(runs')][k])
      BY <1>1, <1>2, <1>6, <2>1, <2>2
    <2> QED
      BY <2>3 DEF StateIsOwned, Counted, Cpus, IsCounted, Alive
  <1> QED
    BY <1>11, <1>12, <1>13, <1>14 DEF Tables

LEMMA WorkersKeepTables ==
    ASSUME Tables, MainType, FlagType, NEW r \in DOMAIN runs, NEW c \in Cpus, WorkerStep(r, c)
    PROVE  Tables'
  <1> DEFINE w == worker[r][c]
  <1>1. w \in WorkerStates
    BY DEF Tables, TableType, Rows
  <1>2. w.full \in BOOLEAN /\ chain.height + 1 \in Nat /\ chain.tip \in Nat
    BY <1>1 DEF WorkerStates, MainType
  <1>3. \A pc \in WorkerPcs : At(pc, w) \in WorkerStates /\ At(pc, w).pc = pc
    <2>1. \A pc \in WorkerPcs : At(pc, w) \in WorkerStates
      BY <1>2, CellTypes
    <2>2. \A pc \in WorkerPcs : At(pc, w).pc = pc
      BY DEF At, Unborn
    <2> QED
      BY <2>1, <2>2
  <1>4. Dead \in WorkerStates /\ Dead.pc = "dead"
    BY UnbornAndDead DEF Dead, Unborn
  <1>5. \A pc \in WorkerPcs : /\ [w EXCEPT !.pc = pc] \in WorkerStates
                              /\ [w EXCEPT !.pc = pc].pc = pc
    BY <1>1 DEF WorkerStates
  <1> USE DEF WorkerPcs, IsCounted, Alive
  <1>6. CASE Run(r, c)
    BY <1>3, <1>6, ThreadKeepsTables DEF Run
  <1>7. CASE Look(r, c)
    <2> DEFINE new == [w EXCEPT !.pc = "choose", !.index = chain.height + 1,
                                !.prev = chain.tip, !.waits = is_waiting_signers]
    <2>1. new \in WorkerStates /\ new.pc = "choose"
      BY <1>1, <1>2 DEF WorkerStates, is_waiting_signers
    <2> HIDE DEF new
    <2>2. Set(r, c, new)
      BY <1>7 DEF Look, new
    <2> QED
      BY <1>7, <2>1, <2>2, ThreadKeepsTables DEF Look
  <1>8. CASE Choose(r, c)
    <2>1. [w EXCEPT !.pc = "hash", !.waits = FALSE] \in WorkerStates
          /\ [w EXCEPT !.pc = "hash", !.waits = FALSE].pc = "hash"
      BY <1>1 DEF WorkerStates
    <2>2. PICK new \in WorkerStates : Set(r, c, new) /\ new.pc \in {"none", "look", "hash"}
      BY <1>3, <1>8, <2>1 DEF Choose
    <2> QED
      BY <1>8, <2>2, ThreadKeepsTables DEF Choose
  <1>9. CASE Hash(r, c)
    <2>1. PICK new \in WorkerStates : Set(r, c, new) /\ new.pc \in {"none", "found", "look", "drop"}
      BY <1>3, <1>5, <1>9 DEF Hash
    <2> QED
      BY <1>9, <2>1, ThreadKeepsTables DEF Hash
  <1>10. CASE Drop(r, c)
    BY <1>3, <1>10, ThreadKeepsTables DEF Drop
  <1>11. CASE None(r, c)
    <2>1. CASE runs[r] = 1
      BY <1>3, <1>11, <2>1, ThreadKeepsTables DEF None
    <2>2. CASE runs[r] # 1
      BY <1>4, <1>11, <2>2, ThreadKeepsTables DEF None
    <2> QED
      BY <2>1, <2>2
  <1>12. CASE LastOut(r, c)
    BY <1>4, <1>12, ThreadKeepsTables DEF LastOut
  <1>13. CASE Found(r, c)
    BY <1>4, <1>13, ThreadKeepsTables DEF Found
  <1> QED
    BY <1>6, <1>7, <1>8, <1>9, <1>10, <1>11, <1>12, <1>13 DEF WorkerStep

-----------------------------------------------------------------------------
(* The theorems.                                                           *)

IndInv == MainType /\ FlagType /\ HasJob /\ HasHead /\ Tables

LEMMA InitEstablishes == Init => IndInv
  <1> SUFFICES ASSUME Init
               PROVE  IndInv
    OBVIOUS
  <1>1. MainType
    <2>1. PICK h \in FirstHeights : \E full \in 0..h : chain = [height |-> h, full |-> full, tip |-> 0]
      BY DEF Init
    <2>2. chain \in [height : Nat, full : Nat, tip : Nat]
      BY <2>1, MinerAssumption
    <2> QED
      BY <2>2, MinerAssumption DEF Init, MainType, MainPcs
  <1>2. FlagType
    <2>1. 0 \in 0..MaxFull /\ 0 \in 0..MaxSigning
      BY MinerAssumption
    <2> QED
      BY <2>1 DEF Init, FlagType
  <1>3. HasJob /\ HasHead
    BY DEF Init, HasJob, HasHead
  <1>4. Tables
    <2>1. TableType
      BY DEF Init, TableType, Rows
    <2>2. CountCovers
      <3>1. DOMAIN runs = {}
        BY DEF Init
      <3> QED
        BY <3>1 DEF CountCovers
    <2> QED
      BY <2>1, <2>2 DEF Init, Tables, RestUnborn, StateIsOwned
  <1> QED
    BY <1>1, <1>2, <1>3, <1>4 DEF IndInv

LEMMA NextKeepsTables ==
    ASSUME IndInv, [Next]_vars
    PROVE  Tables'
  <1> USE DEF IndInv
  <1>1. CASE CreateDomain \/ AddBlock \/ LockForGenesis \/ AddGenesis
    BY <1>1, OthersKeepTables DEF CreateDomain, AddBlock, LockForGenesis, AddGenesis
  <1>2. CASE ChainChanges \/ StopMining \/ Quit \/ JobIsDue
    BY <1>2, OthersKeepTables DEF ChainChanges, StopMining, Quit, JobIsDue
  <1>3. CASE Top \/ TakeJob \/ CancelJob \/ ReplaceJob
    <2>1. main.pc # "spawn" /\ main'.pc # "spawn"
      BY <1>3 DEF Top, TakeJob, CancelJob, ReplaceJob, MainType
    <2>2. UNCHANGED <<runs, worker, miner_state>>
      BY <1>3 DEF Top, TakeJob, CancelJob, ReplaceJob
    <2> QED
      BY <2>1, <2>2, OthersKeepTables
  <1>4. CASE LeaveQueue \/ Ask \/ Mine \/ Wait \/ WaitEnds
    <2>1. main.pc # "spawn" /\ main'.pc # "spawn"
      BY <1>4 DEF LeaveQueue, Ask, Mine, Wait, WaitEnds, MainType
    <2>2. UNCHANGED <<runs, worker, miner_state>>
      BY <1>4 DEF LeaveQueue, Ask, Mine, Wait, WaitEnds
    <2> QED
      BY <2>1, <2>2, OthersKeepTables
  <1>5. CASE Begin
    BY <1>5, BeginKeepsTables
  <1>6. CASE Spawn
    BY <1>6, SpawnKeepsTables
  <1>7. ASSUME NEW r \in DOMAIN runs, NEW c \in Cpus, WorkerStep(r, c)
        PROVE  Tables'
    BY <1>7, WorkersKeepTables
  <1>8. CASE UNCHANGED vars
    BY <1>8, OthersKeepTables DEF vars
  <1> QED
    BY <1>1, <1>2, <1>3, <1>4, <1>5, <1>6, <1>7, <1>8 DEF Next, MainStep

LEMMA NextKeeps == IndInv /\ [Next]_vars => IndInv'
  <1> SUFFICES ASSUME IndInv, [Next]_vars
               PROVE  IndInv'
    OBVIOUS
  <1>1. Tables'
    BY NextKeepsTables
  <1>2. MainType' /\ HasJob' /\ HasHead'
    BY MainKeepsType DEF IndInv, Tables
  <1>3. FlagType'
    BY FlagsKeepType DEF IndInv
  <1> QED
    BY <1>1, <1>2, <1>3 DEF IndInv

LEMMA IndInvHolds == Spec => []IndInv
  BY InitEstablishes, NextKeeps, PTL DEF Spec

(* Whatever jobs are added, cancelled, replaced and mined by however many  *)
(* threads, the state of the miner keeps its types; live_threads, an       *)
(* unsigned number, never goes below zero.                                 *)
THEOREM MinerTypeCorrect == Spec => []TypeOK
  <1>1. IndInv => TypeOK
    BY TypeParts DEF IndInv, Tables
  <1> QED
    BY <1>1, IndInvHolds, PTL

(* When no thread is left, the last of them has lowered miner_state, for   *)
(* any number of threads and jobs, overlapping ones included.              *)
THEOREM IdleIsAlwaysShown == Spec => []IdleIsShown
  <1>1. IndInv => IdleIsShown
    <2> SUFFICES ASSUME IndInv, NobodyAlive, main.pc # "spawn", miner_state
                 PROVE  FALSE
      BY DEF IdleIsShown
    <2>1. PICK c \in Cpus : runs # <<>> /\ Alive(worker[Len(runs)][c])
      BY DEF IndInv, Tables, StateIsOwned
    <2>2. Len(runs) \in DOMAIN worker
      BY <2>1 DEF IndInv, Tables, TableType, Rows
    <2> QED
      BY <2>1, <2>2 DEF NobodyAlive
  <1> QED
    BY <1>1, IndInvHolds, PTL

(* A thread of the last run stops working only with the flag down, or      *)
(* lowers it.                                                              *)
LEMMA WorkersKeepFlag ==
    ASSUME IndInv, MiningMeansWorking,
           NEW r \in DOMAIN runs, NEW c \in Cpus, WorkerStep(r, c)
    PROVE  MiningMeansWorking'
  <1> DEFINE w == worker[r][c]
  <1>1. main' = main
    BY DEF WorkerStep, Run, Look, Choose, Hash, Drop, None, LastOut, Found
  <1> SUFFICES ASSUME mining', main.pc \notin {"mine", "begin", "spawn"}
               PROVE  runs' # <<>> /\ \E k \in Cpus : Working(worker'[Len(runs')][k])
    BY <1>1 DEF MiningMeansWorking, Cpus, Working
  <1>2. /\ mining
        /\ Run(r, c) \/ Look(r, c) \/ Choose(r, c) \/ Hash(r, c) \/ None(r, c) \/ LastOut(r, c)
    BY DEF WorkerStep, Run, Look, Choose, Hash, Drop, None, LastOut, Found
  <1>3. PICK k \in Cpus : Working(worker[Len(runs)][k])
    BY <1>2 DEF MiningMeansWorking
  <1>4. /\ runs \in Seq(Nat) /\ worker \in Rows /\ Len(worker) = Len(runs)
        /\ runs # <<>> /\ Len(runs) \in DOMAIN worker /\ r \in DOMAIN worker
    BY <1>2 DEF IndInv, Tables, TableType, Rows, MiningMeansWorking
  <1>5. w \in WorkerStates /\ worker[r] \in [Cpus -> WorkerStates]
    BY <1>4 DEF Rows
  <1>6. \E new : Set(r, c, new) /\ (Working(w) => Working(new))
    <2>1. CASE Run(r, c)
      <3>1. At("look", w).pc = "look"
        BY DEF At, Unborn
      <3>2. Set(r, c, At("look", w))
        BY <2>1 DEF Run
      <3> QED
        BY <3>1, <3>2 DEF Working
    <2>2. CASE Look(r, c)
      <3> DEFINE new == [w EXCEPT !.pc = "choose", !.index = chain.height + 1,
                                  !.prev = chain.tip, !.waits = is_waiting_signers]
      <3>1. new.pc = "choose" /\ Set(r, c, new)
        BY <1>5, <2>2 DEF Look, WorkerStates
      <3> QED
        BY <3>1 DEF Working
    <2>3. CASE Choose(r, c)
      <3>1. At("look", w).pc = "look" /\ [w EXCEPT !.pc = "hash", !.waits = FALSE].pc = "hash"
        BY <1>5 DEF WorkerStates, At, Unborn
      <3>2. Set(r, c, At("look", w)) \/ Set(r, c, [w EXCEPT !.pc = "hash", !.waits = FALSE])
        BY <1>2, <2>3 DEF Choose
      <3> QED
        BY <3>1, <3>2 DEF Working
    <2>4. CASE Hash(r, c)
      <3>1. /\ At("look", w).pc = "look" /\ At("drop", w).pc = "drop"
            /\ [w EXCEPT !.pc = "found"].pc = "found"
        BY <1>5 DEF WorkerStates, At, Unborn
      <3>2. \/ Set(r, c, At("look", w)) \/ Set(r, c, At("drop", w))
            \/ Set(r, c, [w EXCEPT !.pc = "found"])
        BY <1>2, <2>4 DEF Hash
      <3> QED
        BY <3>1, <3>2 DEF Working
    <2>5. CASE None(r, c) \/ LastOut(r, c)
      <3>1. ~Working(w)
        BY <2>5 DEF None, LastOut, Working
      <3>2. \E new : Set(r, c, new)
        BY <2>5, Zenon DEF None, LastOut
      <3> QED
        BY <3>1, <3>2
    <2> QED
      BY <1>2, <2>1, <2>2, <2>3, <2>4, <2>5
  <1>7. PICK new : Set(r, c, new) /\ (Working(w) => Working(new))
    BY <1>6
  <1>8. worker'[Len(runs)][k] = IF r = Len(runs) /\ k = c THEN new ELSE worker[Len(runs)][k]
    BY <1>4, <1>5, <1>7 DEF Set, Rows
  <1>9. Working(worker'[Len(runs)][k])
    BY <1>3, <1>7, <1>8
  <1>10. Len(runs') = Len(runs) /\ runs' # <<>>
    <2>1. runs' = runs \/ \E n \in Int : runs' = [runs EXCEPT ![r] = n]
      BY <1>2, <1>4 DEF Run, Look, Choose, Hash, None, LastOut
    <2> QED
      BY <1>4, <2>1
  <1> QED
    BY <1>9, <1>10

LEMMA NextKeepsFlag ==
    ASSUME IndInv, MiningMeansWorking, [Next]_vars
    PROVE  MiningMeansWorking'
  <1> USE DEF IndInv
  <1>1. CASE UNCHANGED <<main, runs, worker>> /\ (mining' => mining)
    BY <1>1 DEF MiningMeansWorking, Working
  <1>2. CASE CreateDomain \/ AddBlock \/ LockForGenesis \/ AddGenesis
    BY <1>1, <1>2 DEF CreateDomain, AddBlock, LockForGenesis, AddGenesis
  <1>3. CASE ChainChanges \/ StopMining \/ Quit \/ JobIsDue
    BY <1>1, <1>3 DEF ChainChanges, StopMining, Quit, JobIsDue
  <1>4. CASE TakeJob \/ ReplaceJob \/ Begin
    <2>1. main'.pc \in {"mine", "spawn"}
      BY <1>4 DEF TakeJob, ReplaceJob, Begin, MainType
    <2> QED
      BY <2>1 DEF MiningMeansWorking
  <1>5. CASE Top \/ CancelJob \/ LeaveQueue \/ Ask \/ Wait \/ WaitEnds
    <2>1. /\ main.pc \notin {"mine", "begin", "spawn"}
          /\ UNCHANGED <<runs, worker>> /\ (mining' => mining)
      BY <1>5 DEF Top, CancelJob, LeaveQueue, Ask, Wait, WaitEnds
    <2> QED
      BY <2>1 DEF MiningMeansWorking, Working
  <1>6. CASE Mine
    <2>1. ~mining' \/ main'.pc = "begin"
      BY <1>6 DEF Mine, MainType
    <2> QED
      BY <2>1 DEF MiningMeansWorking
  <1>7. CASE Spawn
    <2> DEFINE c == main.spawned + 1
               w == At("spawned", main.job)
    <2>1. /\ worker \in Rows /\ Len(runs) \in DOMAIN worker /\ runs' = runs /\ runs # <<>>
          /\ worker' = [worker EXCEPT ![Len(runs)][c] = w]
      BY <1>7 DEF Tables, TableType, Rows, RestUnborn, Spawn
    <2>2. c \in Cpus
      BY <1>7, MinerAssumption DEF MainType, Spawn, Cpus
    <2>3. Working(w)
      BY DEF At, Unborn, Working
    <2> HIDE DEF c, w
    <2>4. worker'[Len(runs)][c] = w
      BY <2>1, <2>2 DEF Rows
    <2>5. runs' # <<>> /\ \E k \in Cpus : Working(worker'[Len(runs')][k])
      BY <2>1, <2>2, <2>3, <2>4
    <2> QED
      BY <2>5 DEF MiningMeansWorking, Cpus, Working
  <1>8. ASSUME NEW r \in DOMAIN runs, NEW c \in Cpus, WorkerStep(r, c)
        PROVE  MiningMeansWorking'
    BY <1>8, WorkersKeepFlag
  <1>9. CASE UNCHANGED vars
    BY <1>1, <1>9 DEF vars
  <1> QED
    BY <1>2, <1>3, <1>4, <1>5, <1>6, <1>7, <1>8, <1>9 DEF Next, MainStep

(* The main loop never sleeps by a job nobody mines: while the flag is up, *)
(* a thread of the last job is there to lower it.                          *)
THEOREM MiningAlwaysMeansWorking == Spec => []MiningMeansWorking
  <1>1. Init => MiningMeansWorking
    BY DEF Init, MiningMeansWorking
  <1>2. IndInv /\ MiningMeansWorking /\ [Next]_vars => MiningMeansWorking'
    BY NextKeepsFlag
  <1> QED
    BY <1>1, <1>2, IndInvHolds, PTL DEF Spec
=============================================================================

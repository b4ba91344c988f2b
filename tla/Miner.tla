------------------------------- MODULE Miner -------------------------------
(***************************************************************************)
(* The miner: a queue of jobs, the thread of run_main_loop, the threads it *)
(* spawns for each job, and those who disturb them: the GUI, the network   *)
(* and the thread that creates the genesis block.  Two mutexes matter, the *)
(* one of the queue and the one of the context.  A step that takes and     *)
(* releases a mutex is one action; a mutex held over several steps follows *)
(* from the program counters (QueueLocked, ContextLocked).  Of the chain   *)
(* the miner sees its height, its tip and its last full block.             *)
(***************************************************************************)
EXTENDS Integers, Sequences

CONSTANTS
    BLOCK_SIGNERS_START,  \* from this height on, full blocks are to be signed
    BLOCK_SIGNERS_MIN,    \* by this many blocks
    Threads,              \* settings.mining.threads
    OriginIsEmpty,        \* settings.origin is ""
    FirstHeights,         \* heights the chain may have at the start
    NoJob,
    MaxFull,              \* bound on the jobs the GUI adds
    MaxSigning,           \* bound on the signing jobs the chain offers
    MaxTip                \* bound on the changes of the chain

ASSUME MinerAssumption ==
    /\ BLOCK_SIGNERS_START \in Nat /\ BLOCK_SIGNERS_MIN \in Nat
    /\ Threads \in Nat \ {0}
    /\ OriginIsEmpty \in BOOLEAN
    /\ FirstHeights \subseteq Nat
    /\ MaxFull \in Nat /\ MaxSigning \in Nat /\ MaxTip \in Nat

Jobs == [full : BOOLEAN, strong : BOOLEAN, due : BOOLEAN]

ASSUME NoJobAssumption == NoJob \notin Jobs

VARIABLES
    jobs,         \* Miner.jobs
    mining,       \* Miner.mining, the flag every thread looks at
    running,      \* Miner.running
    main,         \* the thread of run_main_loop: pc, current_job, threads spawned
    runs,         \* for each call of mine_internal that got to spawning: live_threads
    worker,       \* the threads of each run
    miner_state,  \* Context.miner_state.mining
    chain,        \* what the miner sees of Context.chain
    starter,      \* the thread in create_genesis_if_needed
    gui,          \* the GUI's thread, in action_create_domain or not
    added         \* jobs added so far, for the bounds

vars == <<jobs, mining, running, main, runs, worker, miner_state, chain, starter, gui, added>>

Cpus == 1..Threads

WorkerPcs == {"unborn", "spawned", "look", "choose", "hash", "drop", "none", "last", "found", "dead"}

Unborn == [pc |-> "unborn", full |-> FALSE, index |-> 0, prev |-> 0, waits |-> FALSE]

(* A thread whose block no longer matters.                                 *)
At(pc, w) == [Unborn EXCEPT !.pc = pc, !.full = w.full]

Dead == [Unborn EXCEPT !.pc = "dead"]

Alive(w) == w.pc \notin {"unborn", "dead"}

(* Mutant: the guard of the queue is never dropped.                        *)
QueueLocked_Kept == main.pc # "ended"

(* run_main_loop owns the queue from its lock() to the wait, the sleep of  *)
(* a cancellation and the whole of mine_internal included.                 *)
QueueLocked == main.pc \in {"take", "ask", "cancel", "mine", "begin", "spawn", "wait"}

(* The genesis thread holds the context while it adds its job, and a       *)
(* thread of a signing job while it lowers the flag.                       *)
ContextLocked ==
    \/ starter = "holding"
    \/ \E r \in DOMAIN worker, c \in Cpus : worker[r][c].pc = "drop"

(* The subtraction of the code wraps when a fork has moved the top below   *)
(* the cached full block; the count is then enormous.                      *)
SignedEnough == chain.full > chain.height \/ chain.height - chain.full >= BLOCK_SIGNERS_MIN

is_waiting_signers ==
    chain.height >= BLOCK_SIGNERS_START /\ chain.full # 0 /\ ~SignedEnough

Init ==
    /\ jobs = <<>>
    /\ mining = FALSE
    /\ running = TRUE
    /\ main = [pc |-> "top", job |-> NoJob, spawned |-> 0]
    /\ runs = <<>>
    /\ worker = <<>>
    /\ miner_state = FALSE
    /\ \E h \in FirstHeights : \E full \in 0..h :
          /\ full = 0 => h = 0
          /\ chain = [height |-> h, full |-> full, tip |-> 0]
    /\ starter = "start"
    /\ gui = "idle"
    /\ added = [full |-> 0, signing |-> 0]

-----------------------------------------------------------------------------
(* The others.                                                             *)

(* The GUI is asked for a domain, which it refuses while the last full     *)
(* block waits for its signers; create_domain then has let go of the       *)
(* context before it adds the job.                                         *)
CreateDomain ==
    /\ gui = "idle" /\ starter = "done"
    /\ ~ContextLocked
    /\ ~is_waiting_signers
    /\ added.full < MaxFull
    /\ gui' = "adding"
    /\ added' = [added EXCEPT !.full = @ + 1]
    /\ UNCHANGED <<jobs, mining, running, main, runs, worker, miner_state, chain, starter>>

AddBlock ==
    /\ gui = "adding"
    /\ ~ContextLocked /\ ~QueueLocked
    /\ jobs' = Append(jobs, [full |-> TRUE, strong |-> TRUE, due |-> TRUE])
    /\ gui' = "idle"
    /\ UNCHANGED <<mining, running, main, runs, worker, miner_state, chain, starter, added>>

(* create_genesis_if_needed locks the context, and with it locked the queue.*)
LockForGenesis ==
    /\ starter = "start"
    /\ starter' = IF OriginIsEmpty /\ chain.height = 0 THEN "holding" ELSE "done"
    /\ UNCHANGED <<jobs, mining, running, main, runs, worker, miner_state, chain, gui, added>>

AddGenesis ==
    /\ starter = "holding"
    /\ ~QueueLocked
    /\ jobs' = Append(jobs, [full |-> TRUE, strong |-> TRUE, due |-> TRUE])
    /\ starter' = "done"
    /\ UNCHANGED <<mining, running, main, runs, worker, miner_state, chain, gui, added>>

(* The network adds a block, or puts one in the place of one of ours.  The *)
(* last full block is a cache that a fork by a signing block leaves alone. *)
ChainChanges ==
    /\ ~ContextLocked
    /\ chain.tip < MaxTip
    /\ \E h \in 1..(chain.height + 1), full \in BOOLEAN :
          /\ h = 1 => full /\ chain.height = 0
          /\ chain' = [height |-> h, full |-> IF full THEN h ELSE chain.full, tip |-> chain.tip + 1]
    /\ UNCHANGED <<jobs, mining, running, main, runs, worker, miner_state, starter, gui, added>>

(* Event::ActionStopMining.                                                *)
StopMining ==
    /\ mining
    /\ mining' = FALSE
    /\ UNCHANGED <<jobs, running, main, runs, worker, miner_state, chain, starter, gui, added>>

(* Event::ActionQuit.                                                      *)
Quit ==
    /\ running
    /\ running' = FALSE
    /\ UNCHANGED <<jobs, mining, main, runs, worker, miner_state, chain, starter, gui, added>>

(* The moment a signing job has been given comes.                          *)
JobIsDue ==
    /\ \E i \in DOMAIN jobs :
          ~jobs[i].due /\ jobs' = [jobs EXCEPT ![i].due = TRUE]
    /\ UNCHANGED <<mining, running, main, runs, worker, miner_state, chain, starter, gui, added>>

-----------------------------------------------------------------------------
(* run_main_loop.                                                          *)

(* The head of the loop.  While a signing job is mined the loop only       *)
(* sleeps; when the flag has fallen, the current job is forgotten.         *)
Top ==
    /\ main.pc = "top"
    /\ \/ ~running /\ main' = [main EXCEPT !.pc = "ended"]
       \/ /\ running
          /\ main.job = NoJob \/ (mining /\ main.job.full)
          /\ main' = [main EXCEPT !.pc = "take"]
       \/ /\ running
          /\ main.job # NoJob /\ ~mining
          /\ main' = [main EXCEPT !.job = NoJob]
    /\ UNCHANGED <<jobs, mining, running, runs, worker, miner_state, chain, starter, gui, added>>

Idle == main.job = NoJob

HeadIsDue == jobs # <<>> /\ Head(jobs).due

HeadSigns == jobs # <<>> /\ ~Head(jobs).full

(* With the queue locked: without a current job the first one is taken if  *)
(* it is due.                                                              *)
TakeJob ==
    /\ main.pc = "take"
    /\ Idle /\ HeadIsDue
    /\ mining' = TRUE
    /\ main' = [main EXCEPT !.pc = "mine", !.job = Head(jobs)]
    /\ jobs' = Tail(jobs)
    /\ UNCHANGED <<running, runs, worker, miner_state, chain, starter, gui, added>>

(* While one is mined only a signing job that is due takes its place; the  *)
(* threads get 100 ms to see the flag down, the queue still locked.        *)
CancelJob ==
    /\ main.pc = "take"
    /\ ~Idle /\ HeadSigns /\ HeadIsDue
    /\ mining' = FALSE
    /\ main' = [main EXCEPT !.pc = "cancel"]
    /\ UNCHANGED <<jobs, running, runs, worker, miner_state, chain, starter, gui, added>>

(* Otherwise the queue is left as it is.  The chain is asked for something *)
(* to sign when the queue is empty or, while a job is mined, when the      *)
(* first job is not a signing one.                                         *)
LeaveQueue ==
    /\ main.pc = "take"
    /\ IF Idle THEN ~HeadIsDue ELSE ~(HeadSigns /\ HeadIsDue)
    /\ LET asks == IF Idle THEN jobs = <<>> ELSE ~HeadSigns
       IN  main' = [main EXCEPT !.pc = IF asks THEN "ask" ELSE "wait"]
    /\ UNCHANGED <<jobs, mining, running, runs, worker, miner_state, chain, starter, gui, added>>

(* get_sign_block may have a block for us to sign.                         *)
Ask ==
    /\ main.pc = "ask"
    /\ ~ContextLocked
    /\ main' = [main EXCEPT !.pc = "wait"]
    /\ \/ /\ is_waiting_signers
          /\ added.signing < MaxSigning
          /\ \E strong, due \in BOOLEAN :
                jobs' = Append(jobs, [full |-> FALSE, strong |-> strong, due |-> due])
          /\ added' = [added EXCEPT !.signing = @ + 1]
       \/ UNCHANGED <<jobs, added>>
    /\ UNCHANGED <<mining, running, runs, worker, miner_state, chain, starter, gui>>

(* 100 ms after the flag has been lowered, the job that was mined is back  *)
(* at the head of the queue and the signing job is mined.                  *)
ReplaceJob ==
    /\ main.pc = "cancel"
    /\ jobs' = <<main.job>> \o Tail(jobs)
    /\ mining' = TRUE
    /\ main' = [main EXCEPT !.pc = "mine", !.job = Head(jobs)]
    /\ UNCHANGED <<running, runs, worker, miner_state, chain, starter, gui, added>>

(* mine_internal gives a signing job up when its key is weak or the block  *)
(* has been signed enough by now.                                          *)
MissedBlock == ~main.job.full /\ (~main.job.strong \/ chain.full = 0 \/ SignedEnough)

Mine ==
    /\ main.pc = "mine"
    /\ ~ContextLocked
    /\ \/ /\ MissedBlock
          /\ mining' = FALSE
          /\ main' = [main EXCEPT !.pc = "wait"]
       \/ /\ ~MissedBlock
          /\ main' = [main EXCEPT !.pc = "begin"]
          /\ UNCHANGED mining
    /\ UNCHANGED <<jobs, running, runs, worker, miner_state, chain, starter, gui, added>>

(* Event::MinerStarted.                                                    *)
Begin ==
    /\ main.pc = "begin"
    /\ ~ContextLocked
    /\ miner_state' = TRUE
    /\ runs' = Append(runs, 0)
    /\ worker' = Append(worker, [c \in Cpus |-> Unborn])
    /\ main' = [main EXCEPT !.pc = "spawn", !.spawned = 0]
    /\ UNCHANGED <<jobs, mining, running, chain, starter, gui, added>>

(* One thread every 100 ms.                                                *)
Spawn ==
    /\ main.pc = "spawn"
    /\ main.spawned < Threads
    /\ worker' = [worker EXCEPT ![Len(runs)][main.spawned + 1] =
                     At("spawned", main.job)]
    /\ main' = [main EXCEPT !.spawned = @ + 1,
                            !.pc = IF main.spawned + 1 = Threads THEN "wait" ELSE "spawn"]
    /\ UNCHANGED <<jobs, mining, running, runs, miner_state, chain, starter, gui, added>>

(* The queue is unlocked; after the wait a fallen flag ends the current    *)
(* job.  (After a replacement the loop starts over without the wait, which *)
(* is a wait of no time that finds the flag up.)                           *)
Wait ==
    /\ main.pc = "wait"
    /\ main' = [main EXCEPT !.pc = "tail"]
    /\ UNCHANGED <<jobs, mining, running, runs, worker, miner_state, chain, starter, gui, added>>

WaitEnds ==
    /\ main.pc = "tail"
    /\ main' = [main EXCEPT !.pc = "top", !.job = IF mining THEN @ ELSE NoJob]
    /\ UNCHANGED <<jobs, mining, running, runs, worker, miner_state, chain, starter, gui, added>>

-----------------------------------------------------------------------------
(* The threads of a run: find_hash and what follows it.                    *)

Set(r, c, w) == worker' = [worker EXCEPT ![r][c] = w]

(* Mutant: a thread that starts is not counted.                            *)
Run_Uncounted(r, c) ==
    /\ worker[r][c].pc = "spawned"
    /\ Set(r, c, At("look", worker[r][c]))
    /\ UNCHANGED <<jobs, mining, running, main, runs, miner_state, chain, starter, gui, added>>

(* live_threads counts a thread once it runs.                              *)
Run(r, c) ==
    /\ worker[r][c].pc = "spawned"
    /\ runs' = [runs EXCEPT ![r] = @ + 1]
    /\ Set(r, c, At("look", worker[r][c]))
    /\ UNCHANGED <<jobs, mining, running, main, miner_state, chain, starter, gui, added>>

(* The head of find_hash's loop: which block are we on, and may we?        *)
Look(r, c) ==
    /\ worker[r][c].pc = "look"
    /\ ~ContextLocked
    /\ Set(r, c, [worker[r][c] EXCEPT !.pc = "choose", !.index = chain.height + 1,
                                      !.prev = chain.tip, !.waits = is_waiting_signers])
    /\ UNCHANGED <<jobs, mining, running, main, runs, miner_state, chain, starter, gui, added>>

(* Mutant: a thread that has to wait for signers does not look at the flag.*)
Choose_WaitsFirst(r, c) ==
    /\ worker[r][c].pc = "choose"
    /\ LET w == worker[r][c]
       IN  Set(r, c, IF w.full /\ w.waits THEN At("look", w)
                     ELSE IF ~mining THEN At("none", w)
                     ELSE [w EXCEPT !.pc = "hash", !.waits = FALSE])
    /\ UNCHANGED <<jobs, mining, running, main, runs, miner_state, chain, starter, gui, added>>

(* A full block waits until the one below it is signed: sleep and look     *)
(* again.                                                                  *)
Choose(r, c) ==
    /\ worker[r][c].pc = "choose"
    /\ LET w == worker[r][c]
       IN  Set(r, c, IF ~mining THEN At("none", w)
                     ELSE IF w.full /\ w.waits THEN At("look", w)
                     ELSE [w EXCEPT !.pc = "hash", !.waits = FALSE])
    /\ UNCHANGED <<jobs, mining, running, main, runs, miner_state, chain, starter, gui, added>>

(* Mutant: a signing block is dropped without lowering the flag.           *)
Drop_FlagUp(r, c) ==
    /\ worker[r][c].pc = "drop"
    /\ Set(r, c, At("none", worker[r][c]))
    /\ UNCHANGED <<jobs, mining, running, main, runs, miner_state, chain, starter, gui, added>>

(* Hashing goes on until the flag falls, a hash is found, or the block has *)
(* become old: then a full block is begun anew and a signing one dropped.  *)
Hash(r, c) ==
    /\ worker[r][c].pc = "hash"
    /\ LET w == worker[r][c]
       IN  \/ ~mining /\ Set(r, c, At("none", w))
           \/ mining /\ Set(r, c, [w EXCEPT !.pc = "found"])
           \/ /\ mining /\ ~ContextLocked
              /\ w.index > 1 /\ chain.height >= w.index
              /\ Set(r, c, At(IF w.full THEN "look" ELSE "drop", w))
    /\ UNCHANGED <<jobs, mining, running, main, runs, miner_state, chain, starter, gui, added>>

Drop(r, c) ==
    /\ worker[r][c].pc = "drop"
    /\ mining' = FALSE
    /\ Set(r, c, At("none", worker[r][c]))
    /\ UNCHANGED <<jobs, running, main, runs, miner_state, chain, starter, gui, added>>

(* Mutant: fetch_sub is taken to return the new count.                     *)
None_NewCount(r, c) ==
    /\ worker[r][c].pc = "none"
    /\ runs' = [runs EXCEPT ![r] = @ - 1]
    /\ Set(r, c, IF runs[r] = 0 THEN At("last", worker[r][c]) ELSE Dead)
    /\ UNCHANGED <<jobs, mining, running, main, miner_state, chain, starter, gui, added>>

(* A thread without a result; the last one reports.                        *)
None(r, c) ==
    /\ worker[r][c].pc = "none"
    /\ runs' = [runs EXCEPT ![r] = @ - 1]
    /\ Set(r, c, IF runs[r] = 1 THEN At("last", worker[r][c]) ELSE Dead)
    /\ UNCHANGED <<jobs, mining, running, main, miner_state, chain, starter, gui, added>>

(* Event::MinerStopped, without success.                                   *)
LastOut(r, c) ==
    /\ worker[r][c].pc = "last"
    /\ ~ContextLocked
    /\ miner_state' = FALSE
    /\ Set(r, c, Dead)
    /\ UNCHANGED <<jobs, mining, running, main, runs, chain, starter, gui, added>>

(* A thread that has found a hash adds its block if the chain finds it     *)
(* good, which it can only be on top of the chain.                         *)
Found(r, c) ==
    /\ worker[r][c].pc = "found"
    /\ ~ContextLocked
    /\ LET w == worker[r][c]
       IN  \/ /\ w.index = chain.height + 1 /\ w.prev = chain.tip /\ chain.tip < MaxTip
              /\ chain' = [height |-> w.index, full |-> IF w.full THEN w.index ELSE chain.full,
                           tip |-> chain.tip + 1]
           \/ UNCHANGED chain
    /\ miner_state' = FALSE
    /\ mining' = FALSE
    /\ Set(r, c, Dead)
    /\ UNCHANGED <<jobs, running, main, runs, starter, gui, added>>

WorkerStep(r, c) ==
    \/ Run(r, c) \/ Look(r, c) \/ Choose(r, c) \/ Hash(r, c) \/ Drop(r, c)
    \/ None(r, c) \/ LastOut(r, c) \/ Found(r, c)

MainStep ==
    \/ Top \/ TakeJob \/ CancelJob \/ ReplaceJob \/ LeaveQueue \/ Ask
    \/ Mine \/ Begin \/ Spawn \/ Wait \/ WaitEnds

Next ==
    \/ CreateDomain \/ AddBlock \/ LockForGenesis \/ AddGenesis
    \/ ChainChanges \/ StopMining \/ Quit \/ JobIsDue
    \/ MainStep
    \/ \E r \in DOMAIN runs, c \in Cpus : WorkerStep(r, c)

Spec == Init /\ [][Next]_vars

(* The scheduler: threads that can run do, and a mutex that keeps being    *)
(* released is at last granted to the GUI.  What users, peers and luck do  *)
(* is not assumed, and a found hash is never promised.                     *)
MaxRuns == MaxFull + 1 + 2 * MaxSigning

Fairness ==
    /\ WF_vars(MainStep)
    /\ \A r \in 1..MaxRuns, c \in Cpus : WF_vars(r \in DOMAIN runs /\ WorkerStep(r, c))
    /\ WF_vars(LockForGenesis) /\ SF_vars(AddGenesis) /\ SF_vars(AddBlock)
    /\ WF_vars(JobIsDue)

FairSpec == Spec /\ Fairness

-----------------------------------------------------------------------------
(* Properties.                                                             *)

TypeOK ==
    /\ jobs \in Seq(Jobs)
    /\ mining \in BOOLEAN /\ running \in BOOLEAN /\ miner_state \in BOOLEAN
    /\ main \in [pc : {"top", "take", "ask", "cancel", "mine", "begin", "spawn", "wait", "tail", "ended"},
                 job : Jobs \cup {NoJob}, spawned : 0..Threads]
    /\ runs \in Seq(Nat)
    /\ worker \in Seq([Cpus -> [pc : WorkerPcs, full : BOOLEAN, index : Nat, prev : Nat,
                               waits : BOOLEAN]])
    /\ Len(worker) = Len(runs)
    /\ chain \in [height : Nat, full : Nat, tip : Nat]
    /\ starter \in {"start", "holding", "done"}
    /\ gui \in {"idle", "adding"}
    /\ added \in [full : 0..MaxFull, signing : 0..MaxSigning]

(* A thread that has not yet seen its job end.                             *)
Working(w) == w.pc \in {"spawned", "look", "choose", "hash", "drop", "found"}

NobodyAlive == \A r \in DOMAIN worker, c \in Cpus : ~Alive(worker[r][c])

(* While the flag is up some thread of the last job works, or is about to  *)
(* be spawned: otherwise nobody would ever lower it, and run_main_loop     *)
(* would sleep by a dead signing job for ever.                             *)
MiningMeansWorking ==
    mining => \/ main.pc \in {"mine", "begin", "spawn"}
              \/ runs # <<>> /\ \E c \in Cpus : Working(worker[Len(runs)][c])

(* When the last thread is gone the context says so, whichever threads of  *)
(* whichever jobs overlapped: miner_state.mining never stays on.           *)
IdleIsShown == NobodyAlive /\ main.pc # "spawn" => ~miner_state

(* Mining that is stopped ends: once the flag stays down every thread      *)
(* ends, those that sleep until a block is signed included.                *)
StoppedThreadsEnd == (<>[]~mining) => <>[]NobodyAlive

(* The GUI gets its job into the queue, whatever the miner and its threads *)
(* hold meanwhile.                                                         *)
AddsFinish == gui = "adding" ~> gui = "idle"

(* "Creates genesis (origin) block if `origin` is empty in config and we   *)
(* don't have any blocks in DB": the job for it gets into the queue.       *)
GenesisIsQueued == starter = "holding" ~> starter = "done"
=============================================================================

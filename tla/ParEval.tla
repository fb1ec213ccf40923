------------------------------- MODULE ParEval -------------------------------
(***************************************************************************)
(* The threaded device stamp (src/analysis/par_eval.zig): persistent       *)
(* worker lanes and the calling lane share each pass.  A pass stamps every *)
(* task into a staging array, meets at a barrier, and reduces the staging  *)
(* block by block into the planes.  Workers park on a futex between        *)
(* passes; the caller pays for a wake only when someone sleeps.            *)
(*                                                                         *)
(* A staged position is 0 at rest (the code's -0.0) and k once stamped     *)
(* with the arguments of the k-th run; a plane block is k when it summed   *)
(* exactly the k-th run's stamps.  Atomics are sequentially consistent;    *)
(* the plain job_* fields and the counters stored before the epoch's bump  *)
(* are published by it.                                                    *)
(***************************************************************************)
EXTENDS Naturals, FiniteSets

CONSTANTS
  Workers,     \* the spawned lanes; the caller's own lane is Main
  Main,
  NumTasks,    \* tasks.len
  NumBlocks,   \* cuts.len - 1
  MaxRuns      \* bound: calls of run

ASSUME ParEvalAssumption ==
  /\ IsFiniteSet(Workers) /\ Main \notin Workers
  /\ NumTasks \in Nat /\ NumBlocks \in Nat /\ MaxRuns \in Nat

Lanes  == Workers \union {Main}
Tasks  == 1..NumTasks
Blocks == 1..NumBlocks
Torn   == MaxRuns + 1      \* the sum of a mixture

VARIABLES
  epoch, sleepers, quit,               \* Wake
  nextTask, nextBlock, stamped, done,  \* the counters of a pass
  job,       \* the number of the run whose arguments job_* hold
  started,   \* the workers were spawned
  stage,     \* what each task staged for each block
  plane,     \* what each block of the planes holds
  pc, last,  \* where each lane is; the epoch a worker has seen
  held       \* the task or block a lane has claimed

wakeVars  == <<epoch, sleepers, quit>>
countVars == <<nextTask, nextBlock, stamped, done>>
dataVars  == <<job, started, stage, plane>>
vars == <<wakeVars, countVars, dataVars, pc, last, held>>

Init ==
  /\ epoch = 0 /\ sleepers = 0 /\ quit = FALSE
  /\ nextTask = 0 /\ nextBlock = 0 /\ stamped = 0 /\ done = 0
  /\ job = 0 /\ started = FALSE
  /\ stage = [t \in Tasks |-> [b \in Blocks |-> 0]]
  /\ plane = [b \in Blocks |-> 0]
  /\ pc = [l \in Lanes |-> IF l = Main THEN "idle" ELSE "unborn"]
  /\ last = [w \in Workers |-> 0]
  /\ held = [l \in Lanes |-> 0]

GoTo(l, from, to) == pc[l] = from /\ pc' = [pc EXCEPT ![l] = to]

-----------------------------------------------------------------------------
(* The caller. *)

\* Faulty: the barrier's count is not reset.
ResetSome == nextTask' = 0 /\ nextBlock' = 0 /\ done' = 0 /\ UNCHANGED stamped
Reset == nextTask' = 0 /\ nextBlock' = 0 /\ stamped' = 0 /\ done' = 0

\* run publishes its arguments and resets the counters.
Run ==
  /\ job < MaxRuns
  /\ GoTo(Main, "idle", IF Workers = {} THEN "claim"
                        ELSE IF started THEN "bump" ELSE "start")
  /\ job' = job + 1
  /\ Reset
  /\ UNCHANGED <<wakeVars, started, stage, plane, last, held>>

\* startWorkers, on the first run.
StartWorkers ==
  /\ pc[Main] = "start"
  /\ pc' = [l \in Lanes |-> IF l = Main THEN "bump" ELSE "spin"]
  /\ last' = [w \in Workers |-> epoch]
  /\ started' = TRUE
  /\ UNCHANGED <<wakeVars, countVars, job, stage, plane, held>>

Bump(from, to) ==
  /\ GoTo(Main, from, to)
  /\ epoch' = epoch + 1
  /\ UNCHANGED <<sleepers, quit, countVars, dataVars, last, held>>

\* Whether anyone may be parked on the old epoch.
LookForSleepers ==
  /\ GoTo(Main, "look", IF sleepers # 0 THEN "wake" ELSE "claim")
  /\ UNCHANGED <<wakeVars, countVars, dataVars, last, held>>

\* futexWake of every worker in the queue.
WakeAll(from, to) ==
  /\ pc[Main] = from
  /\ pc' = [l \in Lanes |-> IF l = Main THEN to
                            ELSE IF pc[l] = "asleep" THEN "uncount" ELSE pc[l]]
  /\ UNCHANGED <<wakeVars, countVars, dataVars, last, held>>

\* Faulty: returns once its own share is done.
AllDoneEarly == TRUE
AllDone == done >= Cardinality(Workers)

Return ==
  /\ AllDone
  /\ GoTo(Main, "await", "idle")
  /\ UNCHANGED <<wakeVars, countVars, dataVars, last, held>>

\* deinit: quit, ring the bell, wake, join.
Quit ==
  /\ GoTo(Main, "idle", IF started THEN "ring" ELSE "gone")
  /\ quit' = started
  /\ UNCHANGED <<epoch, sleepers, countVars, dataVars, last, held>>

Join ==
  /\ \A w \in Workers : pc[w] = "exit"
  /\ GoTo(Main, "join", "gone")
  /\ UNCHANGED <<wakeVars, countVars, dataVars, last, held>>

-----------------------------------------------------------------------------
(* A worker between passes. *)

\* Faulty: takes whatever it wakes to for a new pass.
RangAnyway(w) == TRUE
Rang(w) == epoch # last[w]

\* A new epoch ends the wait.  The spins and yields before parking are a
\* choice of how long to look; they are bounded.
Hear(w) ==
  /\ Rang(w)
  /\ GoTo(w, "spin", "heard")
  /\ last' = [last EXCEPT ![w] = epoch]
  /\ UNCHANGED <<wakeVars, countVars, dataVars, held>>

CountSleeper(w) ==
  /\ epoch = last[w]
  /\ GoTo(w, "spin", "recheck")
  /\ sleepers' = sleepers + 1
  /\ UNCHANGED <<epoch, quit, countVars, dataVars, last, held>>

Recheck(w) ==
  /\ GoTo(w, "recheck", IF epoch = last[w] THEN "futex" ELSE "uncount")
  /\ UNCHANGED <<wakeVars, countVars, dataVars, last, held>>

\* Faulty: a wait that does not compare, so a bell in between is missed.
FutexBlind(w) == TRUE
\* The futex itself compares the epoch before it sleeps.
FutexBlocks(w) == epoch = last[w]

FutexWait(w) ==
  /\ GoTo(w, "futex", IF FutexBlocks(w) THEN "asleep" ELSE "uncount")
  /\ UNCHANGED <<wakeVars, countVars, dataVars, last, held>>

\* A futex wait may return for no reason.
SpuriousWake(w) ==
  /\ GoTo(w, "asleep", "uncount")
  /\ UNCHANGED <<wakeVars, countVars, dataVars, last, held>>

\* Faulty: uncounts itself as often as it likes.
UncountTwice(w) ==
  /\ pc[w] \in {"recheck", "uncount"}
  /\ pc' = [pc EXCEPT ![w] = "spin"]
  /\ sleepers' = sleepers - 2
  /\ UNCHANGED <<epoch, quit, countVars, dataVars, last, held>>
UncountSleeper(w) ==
  /\ GoTo(w, "uncount", "spin")
  /\ sleepers' = sleepers - 1
  /\ UNCHANGED <<epoch, quit, countVars, dataVars, last, held>>

CheckQuit(w) ==
  /\ GoTo(w, "heard", IF quit THEN "exit" ELSE "claim")
  /\ UNCHANGED <<wakeVars, countVars, dataVars, last, held>>

-----------------------------------------------------------------------------
(* A pass, on any lane. *)

ClaimTask(l) ==
  /\ GoTo(l, "claim", IF nextTask < NumTasks THEN "stamp" ELSE "arrive")
  /\ nextTask' = nextTask + 1
  /\ held' = [held EXCEPT ![l] = IF nextTask < NumTasks THEN nextTask + 1 ELSE 0]
  /\ UNCHANGED <<wakeVars, nextBlock, stamped, done, dataVars, last>>

Stamp(l) ==
  /\ GoTo(l, "stamp", "claim")
  /\ stage' = [stage EXCEPT ![held[l]] = [b \in Blocks |-> job]]
  /\ UNCHANGED <<wakeVars, countVars, job, started, plane, last, held>>

Arrive(l) ==
  /\ GoTo(l, "arrive", "barrier")
  /\ stamped' = stamped + 1
  /\ UNCHANGED <<wakeVars, nextTask, nextBlock, done, dataVars, last, held>>

\* Faulty: one lane short.
AllStampedEarly == stamped >= Cardinality(Lanes) - 1
AllStamped == stamped >= Cardinality(Lanes)

PassBarrier(l) ==
  /\ AllStamped
  /\ GoTo(l, "barrier", "claimBlock")
  /\ UNCHANGED <<wakeVars, countVars, dataVars, last, held>>

ClaimBlock(l) ==
  /\ GoTo(l, "claimBlock", IF nextBlock < NumBlocks THEN "reduce"
                            ELSE IF l = Main THEN "await" ELSE "done")
  /\ nextBlock' = nextBlock + 1
  /\ held' = [held EXCEPT ![l] = IF nextBlock < NumBlocks THEN nextBlock + 1 ELSE 0]
  /\ UNCHANGED <<wakeVars, nextTask, stamped, done, dataVars, last>>

\* reduceBlock sums the block's positions and puts them at rest.
Reduce(l) ==
  /\ GoTo(l, "reduce", "claimBlock")
  /\ plane' = [plane EXCEPT ![held[l]] =
                 IF \A t \in Tasks : stage[t][held[l]] = job THEN job ELSE Torn]
  /\ stage' = [t \in Tasks |-> [stage[t] EXCEPT ![held[l]] = 0]]
  /\ UNCHANGED <<wakeVars, countVars, job, started, last, held>>

Finish(w) ==
  /\ GoTo(w, "done", "spin")
  /\ done' = done + 1
  /\ UNCHANGED <<wakeVars, nextTask, nextBlock, stamped, dataVars, last, held>>

Pass(l) ==
  \/ ClaimTask(l) \/ Stamp(l) \/ Arrive(l) \/ PassBarrier(l)
  \/ ClaimBlock(l) \/ Reduce(l)

WorkerStep(w) ==
  \/ Hear(w) \/ CountSleeper(w) \/ Recheck(w) \/ FutexWait(w)
  \/ UncountSleeper(w) \/ CheckQuit(w) \/ Pass(w) \/ Finish(w)

\* What the caller does once it is inside run or deinit.
MainStep ==
  \/ StartWorkers \/ Bump("bump", "look") \/ LookForSleepers
  \/ WakeAll("wake", "claim") \/ Pass(Main) \/ Return
  \/ Bump("ring", "wakeAll") \/ WakeAll("wakeAll", "join") \/ Join

Gone == pc[Main] = "gone" /\ UNCHANGED vars

Next ==
  \/ MainStep \/ Run \/ Quit \/ Gone
  \/ \E w \in Workers : WorkerStep(w) \/ SpuriousWake(w)

\* Every lane is scheduled; the caller owes no call.
Fairness == WF_vars(MainStep) /\ \A w \in Workers : WF_vars(WorkerStep(w))

Spec == Init /\ [][Next]_vars /\ Fairness
-----------------------------------------------------------------------------
(* Properties. *)

Stamping == {"claim", "stamp", "arrive"}
Reducing == {"claimBlock", "reduce"}
Stagings == [Tasks -> [Blocks -> 0..MaxRuns]]
InPass   == Stamping \union Reducing \union {"barrier", "done"}

TypeOK ==
  /\ epoch \in Nat /\ sleepers \in Nat /\ quit \in BOOLEAN
  /\ nextTask \in Nat /\ nextBlock \in Nat /\ stamped \in Nat /\ done \in Nat
  /\ job \in 0..MaxRuns /\ started \in BOOLEAN
  /\ stage \in Stagings
  /\ plane \in [Blocks -> 0..Torn]
  /\ pc \in [Lanes -> InPass \union {"idle", "start", "bump", "look", "wake",
               "await", "ring", "wakeAll", "join", "gone", "unborn", "spin",
               "recheck", "futex", "asleep", "uncount", "heard", "exit"}]
  /\ last \in [Workers -> Nat]
  /\ held \in [Lanes -> 0..(NumTasks + NumBlocks)]

\* run returns with every block the whole sum of that run's stamps, each task
\* in it once, and with the staging at rest for the next pass.
SumsWhole ==
  pc[Main] = "idle" /\ job > 0 =>
    /\ \A b \in Blocks : plane[b] = job
    /\ \A t \in Tasks, b \in Blocks : stage[t][b] = 0

\* No lane stamps while another reduces: nobody reads a position that is
\* still to be written, or overwrites one put at rest.
PhasesApart ==
  \A l, k \in Lanes : pc[l] \in Reducing => pc[k] \notin Stamping

\* The arguments and counters of a pass change only while no worker can be
\* reading them: a late worker never runs one pass with the next one's job.
JobQuiet ==
  [][job' # job => \A w \in Workers : pc[w] \notin InPass \union {"heard"}]_vars

\* run and deinit return: no worker sleeps through its bell, and nobody waits
\* at the barrier for a lane that does not come.
CallsReturn == pc[Main] # "idle" ~> pc[Main] \in {"idle", "gone"}
=============================================================================

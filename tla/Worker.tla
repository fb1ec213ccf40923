------------------------------- MODULE Worker -------------------------------
(***************************************************************************)
(* One resumable analysis (src/analysis/worker.zig): a thread that runs    *)
(* run(ctx) and parks at every reported checkpoint, and the coordinator    *)
(* that starts, polls, waits for, cancels and destroys it.                 *)
(*                                                                         *)
(* The thread's critical sections that end in a post are split in two (the *)
(* change of state, then the post), with the mutex held in between: the    *)
(* semaphore lives in the coordinator's stack frame (Session.advanceReady),*)
(* and only the mutex keeps that frame alive until the post is over.  The  *)
(* coordinator's critical sections are one step each: the thread sees none *)
(* of their inner states.  A wait on the condition `changed' is membership *)
(* in the wait set `waiting'.                                              *)
(***************************************************************************)
EXTENDS Naturals, FiniteSets

CONSTANTS
  MaxStarts,        \* bound: calls of start in one behaviour
  MaxCheckpoints,   \* bound: checkpoint calls the analysis makes
  ReportNonlinear   \* Options.report_nonlinear: only .op parks inside Newton

ASSUME WorkerAssumption ==
  /\ MaxStarts \in Nat
  /\ MaxCheckpoints \in Nat
  /\ ReportNonlinear \in BOOLEAN

VARIABLES
  state,            \* State: "created", "running", "paused", "finished"
  result,           \* the payload of .finished; "none" before
  quantum,          \* Quantum: "checkpoint" or "completion"
  cancelRequested,  \* the atomic flag
  signal,           \* 0 is null, k the semaphore of the k-th start
  thread,           \* whether the join handle is set
  mutex,            \* "free", or "run" while the thread holds it
  waiting,          \* who sleeps on the condition `changed'
  pcRun,            \* where the analysis thread is
  calls,            \* checkpoint calls so far
  runResult,        \* what run(ctx) returned
  pcCoord,          \* where the coordinator is
  starts,           \* calls of start so far; the newest semaphore's number
  frame,            \* the semaphore whose stack frame is alive; 0 when none
  permits,          \* permits that semaphore holds
  outcome           \* what the coordinator's last call returned

runVars   == <<pcRun, calls, runResult>>
coordVars == <<pcCoord, starts, frame, outcome>>
vars == <<state, result, quantum, cancelRequested, signal, thread, mutex,
          waiting, permits, runVars, coordVars>>

States   == {"created", "running", "paused", "finished"}
Quanta   == {"checkpoint", "completion"}
Results  == {"complete", "failed"}
Phases   == {"outer", "nonlinear"}
Outcomes == {"none", "NotStarted", "AlreadyRunning", "SpawnFailed", "started",
             "progress", "complete", "failed", "cancelled"}
Terminal == {"complete", "failed", "cancelled"}

Init ==
  /\ state = "created" /\ result = "none"
  /\ quantum = "checkpoint"
  /\ cancelRequested = FALSE
  /\ signal = 0 /\ thread = FALSE
  /\ mutex = "free" /\ waiting = {}
  /\ pcRun = "unborn" /\ calls = 0 /\ runResult = "none"
  /\ pcCoord = "idle" /\ starts = 0 /\ frame = 0 /\ permits = 0
  /\ outcome = "none"

\* changed.broadcast; and the faulty variant that forgets it.
BroadcastLost == UNCHANGED waiting
Broadcast == waiting' = {}

-----------------------------------------------------------------------------
(* The analysis thread. *)

Suppressed(phase) ==
  quantum = "completion" \/ (phase = "nonlinear" /\ ~ReportNonlinear)

\* A suppressed checkpoint only polls the cancel flag, without the mutex.
PollCancel(phase) ==
  /\ pcRun = "run" /\ calls < MaxCheckpoints
  /\ Suppressed(phase)
  /\ calls' = calls + 1
  /\ pcRun' = IF cancelRequested THEN "unwind" ELSE "run"
  /\ UNCHANGED <<state, result, quantum, cancelRequested, signal, thread,
                 mutex, waiting, permits, runResult, coordVars>>

\* A reported checkpoint goes for the mutex.
Report(phase) ==
  /\ pcRun = "run" /\ calls < MaxCheckpoints
  /\ ~Suppressed(phase)
  /\ calls' = calls + 1
  /\ pcRun' = "lock"
  /\ UNCHANGED <<state, result, quantum, cancelRequested, signal, thread,
                 mutex, waiting, permits, runResult, coordVars>>

\* The mutex is won after a cancel: the analysis unwinds.
Refuse ==
  /\ pcRun = "lock" /\ mutex = "free" /\ cancelRequested
  /\ pcRun' = "unwind"
  /\ UNCHANGED <<state, result, quantum, cancelRequested, signal, thread,
                 mutex, waiting, permits, calls, runResult, coordVars>>

\* Faulty: parks without looking at the flag again under the mutex.
MayParkUnchecked == mutex = "free"
MayPark == mutex = "free" /\ ~cancelRequested

Park ==
  /\ pcRun = "lock" /\ MayPark
  /\ state' = "paused"
  /\ Broadcast
  /\ mutex' = "run"
  /\ pcRun' = "post"
  /\ UNCHANGED <<result, quantum, cancelRequested, signal, thread, permits,
                 calls, runResult, coordVars>>

PostPermit ==
  permits' = IF signal # 0 /\ signal = frame THEN permits + 1 ELSE permits

\* Faulty: the semaphore is posted but not forgotten.
PostSignalKept == PostPermit /\ UNCHANGED signal

\* post: a permit for the quantum's semaphore, then forget it.  A post to a
\* frame that is gone writes to freed stack and wakes nobody.
PostSignal == PostPermit /\ signal' = 0

\* Post, then sleep until resumed or cancelled; the mutex is held since
\* Park, so neither has happened yet.
PostAndSleep ==
  /\ pcRun = "post"
  /\ PostSignal
  /\ mutex' = "free"
  /\ waiting' = waiting \union {"run"}
  /\ pcRun' = "parked"
  /\ UNCHANGED <<state, result, quantum, cancelRequested, thread, calls,
                 runResult, coordVars>>

\* Faulty: an `if' for the `while', so that any wake-up resumes the run.
StayParkedOnce == FALSE
StayParked == state = "paused" /\ ~cancelRequested

\* Woken: sleep again, unwind a cancel, or go on with the next quantum.
Wake ==
  /\ pcRun = "parked" /\ "run" \notin waiting /\ mutex = "free"
  /\ \/ /\ StayParked
        /\ waiting' = waiting \union {"run"}
        /\ UNCHANGED pcRun
     \/ /\ cancelRequested
        /\ pcRun' = "unwind"
        /\ UNCHANGED waiting
     \/ /\ ~StayParked /\ ~cancelRequested
        /\ pcRun' = "run"
        /\ UNCHANGED waiting
  /\ UNCHANGED <<state, result, quantum, cancelRequested, signal, thread,
                 mutex, permits, calls, runResult, coordVars>>

\* run(ctx) returns, by itself or on the way out of a cancel.
Return(r) ==
  /\ pcRun \in {"run", "unwind"}
  /\ runResult' = r
  /\ pcRun' = "end"
  /\ UNCHANGED <<state, result, quantum, cancelRequested, signal, thread,
                 mutex, waiting, permits, calls, coordVars>>

\* What main stores: a cancel overrides what the run returned.
VerdictOfRun == runResult
Verdict == IF cancelRequested THEN "cancelled" ELSE runResult

\* main's last critical section.
Finish ==
  /\ pcRun = "end" /\ mutex = "free"
  /\ state' = "finished"
  /\ result' = Verdict
  /\ Broadcast
  /\ mutex' = "run"
  /\ pcRun' = "postEnd"
  /\ UNCHANGED <<quantum, cancelRequested, signal, thread, permits, calls,
                 runResult, coordVars>>

PostAndExit ==
  /\ pcRun = "postEnd"
  /\ PostSignal
  /\ mutex' = "free"
  /\ pcRun' = "dead"
  /\ UNCHANGED <<state, result, quantum, cancelRequested, thread, waiting,
                 calls, runResult, coordVars>>

RunStep ==
  \/ \E phase \in Phases : PollCancel(phase) \/ Report(phase)
  \/ Refuse \/ Park \/ PostAndSleep \/ Wake
  \/ \E r \in Results : Return(r)
  \/ Finish \/ PostAndExit

-----------------------------------------------------------------------------
(* The coordinator.  With `sig' it is in a scheduling round: it owns a     *)
(* fresh semaphore and next waits on it (advanceReady, Pool.wait).         *)

\* What a start writes before it looks at the state; nothing while running.
Arm(q, sig) ==
  IF state = "running" THEN UNCHANGED <<quantum, signal>>
  ELSE quantum' = q /\ signal' = IF sig THEN starts + 1 ELSE 0

\* The semaphore of a round exists while the round does.
OpenFrame(sig) ==
  IF sig THEN frame' = starts + 1 /\ permits' = 0 /\ pcCoord' = "sem"
         ELSE UNCHANGED <<frame, permits, pcCoord>>

StartCreated(q, sig) ==
  /\ pcCoord = "idle" /\ mutex = "free" /\ starts < MaxStarts
  /\ state = "created"
  /\ Arm(q, sig) /\ OpenFrame(sig)
  /\ starts' = starts + 1
  /\ state' = "running" /\ thread' = TRUE /\ pcRun' = "run"
  /\ outcome' = "started"
  /\ UNCHANGED <<result, cancelRequested, mutex, waiting, calls, runResult>>

\* A failed spawn forgets the semaphore; and a faulty variant that keeps it.
DisarmKept == signal' = starts + 1
Disarm == signal' = 0

\* The thread could not be spawned: unstarted again, and nothing will post.
StartFails(q) ==
  /\ pcCoord = "idle" /\ mutex = "free" /\ starts < MaxStarts
  /\ state = "created"
  /\ quantum' = q /\ Disarm
  /\ starts' = starts + 1
  /\ outcome' = "SpawnFailed"
  /\ UNCHANGED <<state, result, cancelRequested, thread, mutex, waiting,
                 permits, runVars, pcCoord, frame>>

StartPaused(q, sig) ==
  /\ pcCoord = "idle" /\ mutex = "free" /\ starts < MaxStarts
  /\ state = "paused"
  /\ sig => ~cancelRequested      \* a cancelled query is never scheduled again
  /\ Arm(q, sig) /\ OpenFrame(sig)
  /\ starts' = starts + 1
  /\ state' = "running" /\ Broadcast
  /\ outcome' = "started"
  /\ UNCHANGED <<result, cancelRequested, thread, mutex, runVars>>

\* A start that finds a quantum in flight, or the run over, changes nothing
\* the thread reads.  A finished query is never scheduled (Session.ready).
StartIdle(q) ==
  /\ pcCoord = "idle" /\ mutex = "free" /\ starts < MaxStarts
  /\ state \in {"running", "finished"}
  /\ Arm(q, FALSE)
  /\ starts' = starts + 1
  /\ outcome' = IF state = "running" THEN "AlreadyRunning" ELSE "started"
  /\ UNCHANGED <<state, result, cancelRequested, thread, mutex, waiting,
                 permits, runVars, pcCoord, frame>>

\* Faulty: goes on without a permit.
TakePermitFreely ==
  /\ pcCoord = "sem"
  /\ permits' = permits - 1
  /\ pcCoord' = "poll"
  /\ UNCHANGED <<state, result, quantum, cancelRequested, signal, thread,
                 mutex, waiting, runVars, starts, frame, outcome>>

\* signal.waitUncancelable
TakePermit ==
  /\ pcCoord = "sem" /\ permits > 0
  /\ permits' = permits - 1
  /\ pcCoord' = "poll"
  /\ UNCHANGED <<state, result, quantum, cancelRequested, signal, thread,
                 mutex, waiting, runVars, starts, frame, outcome>>

Stopped ==
  CASE state = "running" -> FALSE
    [] state = "paused" -> ~cancelRequested
    [] state \in {"created", "finished"} -> TRUE

\* stopped: settle calls wait only on a quantum that has stopped.
Poll ==
  /\ pcCoord = "poll" /\ mutex = "free"
  /\ pcCoord' = IF Stopped THEN "wait" ELSE "sem"
  /\ UNCHANGED <<state, result, quantum, cancelRequested, signal, thread,
                 mutex, waiting, permits, runVars, starts, frame, outcome>>

\* A caller with no semaphore waits outright.
CallWait ==
  /\ pcCoord = "idle"
  /\ pcCoord' = "wait"
  /\ UNCHANGED <<state, result, quantum, cancelRequested, signal, thread,
                 mutex, waiting, permits, runVars, starts, frame, outcome>>

\* Back to the caller; the round's semaphore goes with its frame.
BackWith(o) == pcCoord' = "idle" /\ frame' = 0 /\ permits' = 0 /\ outcome' = o

WaitOutcome ==
  /\ pcCoord = "wait" /\ mutex = "free"
  /\ \/ /\ state = "created"
        /\ BackWith("NotStarted")
        /\ UNCHANGED waiting
     \/ /\ state = "running" \/ (state = "paused" /\ cancelRequested)
        /\ waiting' = waiting \union {"coord"}
        /\ pcCoord' = "cond"
        /\ UNCHANGED <<frame, permits, outcome>>
     \/ /\ state = "paused" /\ ~cancelRequested
        /\ BackWith("progress")
        /\ UNCHANGED waiting
     \/ /\ state = "finished"
        /\ outcome' = result
        /\ pcCoord' = "join"
        /\ UNCHANGED <<waiting, frame, permits>>
  /\ UNCHANGED <<state, result, quantum, cancelRequested, signal, thread,
                 mutex, runVars, starts>>

CoordWake ==
  /\ pcCoord = "cond" /\ "coord" \notin waiting
  /\ pcCoord' = "wait"
  /\ UNCHANGED <<state, result, quantum, cancelRequested, signal, thread,
                 mutex, waiting, permits, runVars, starts, frame, outcome>>

\* thread.join returns, at once with no thread; and a faulty `detach'.
Detached == TRUE
Joined == thread => pcRun = "dead"

\* wait joins the thread of a run that is over.
Join ==
  /\ pcCoord = "join"
  /\ Joined
  /\ thread' = FALSE
  /\ BackWith(outcome)
  /\ UNCHANGED <<state, result, quantum, cancelRequested, signal, mutex,
                 waiting, runVars, starts>>

\* cancel, from `from' to `to': flag it, end a run that never began, and wake
\* whoever sleeps.  No effect once finished.
CancelBody(from, to) ==
  /\ pcCoord = from /\ mutex = "free"
  /\ IF state = "finished"
     THEN UNCHANGED <<state, result, cancelRequested, waiting>>
     ELSE /\ cancelRequested' = TRUE
          /\ state'  = IF state = "created" THEN "finished" ELSE state
          /\ result' = IF state = "created" THEN "cancelled" ELSE result
          /\ Broadcast
  /\ pcCoord' = to
  /\ UNCHANGED <<quantum, signal, thread, mutex, permits, runVars, starts,
                 frame, outcome>>

Cancel == CancelBody("idle", "idle")

\* Pool.deinit: cancel what still runs, then settle (wait for) it.
Abort == CancelBody("sem", "wait")

\* deinit: cancel, then join.
Deinit == CancelBody("idle", "deinit")

DeinitJoin ==
  /\ pcCoord = "deinit"
  /\ Joined
  /\ pcCoord' = "gone"
  /\ UNCHANGED <<state, result, quantum, cancelRequested, signal, thread,
                 mutex, waiting, permits, runVars, starts, frame, outcome>>

\* What the coordinator does once it is inside a call.
CoordStep ==
  TakePermit \/ Poll \/ WaitOutcome \/ CoordWake \/ Join \/ DeinitJoin

\* The calls it is free to make.
CoordCall ==
  \/ \E q \in Quanta, sig \in BOOLEAN : StartCreated(q, sig) \/ StartPaused(q, sig)
  \/ \E q \in Quanta : StartFails(q) \/ StartIdle(q)
  \/ CallWait \/ Cancel \/ Abort \/ Deinit

\* A condition may wake a sleeper for no reason.
SpuriousWake ==
  /\ \E t \in waiting : waiting' = waiting \ {t}
  /\ UNCHANGED <<state, result, quantum, cancelRequested, signal, thread,
                 mutex, permits, runVars, coordVars>>

Done == pcCoord = "gone" /\ UNCHANGED vars

Next == RunStep \/ CoordStep \/ CoordCall \/ SpuriousWake \/ Done

\* The thread is scheduled and an analysis reaches its next checkpoint or
\* returns; a coordinator inside a call gets on with it.  It owes no call.
Fairness == WF_vars(RunStep) /\ WF_vars(CoordStep)

Spec == Init /\ [][Next]_vars /\ Fairness
-----------------------------------------------------------------------------
(* Properties. *)

TypeOK ==
  /\ state \in States
  /\ result \in Terminal \union {"none"}
  /\ quantum \in Quanta
  /\ cancelRequested \in BOOLEAN
  /\ thread \in BOOLEAN
  /\ mutex \in {"free", "run"}
  /\ waiting \subseteq {"run", "coord"}
  /\ pcRun \in {"unborn", "run", "lock", "post", "parked", "unwind", "end",
                "postEnd", "dead"}
  /\ calls \in Nat
  /\ runResult \in Results \union {"none"}
  /\ pcCoord \in {"idle", "sem", "poll", "wait", "cond", "join", "deinit", "gone"}
  /\ starts \in Nat /\ frame \in Nat /\ signal \in Nat /\ permits \in Nat
  /\ outcome \in Outcomes

\* The analysis executes only inside a quantum the coordinator granted: while
\* a query reads as paused or over, its circuit and results are nobody
\* else's to touch.  (`quantum' is then read by the thread only while no
\* start can write it.)
Isolation == pcRun \in {"run", "lock"} => state = "running"

\* Exactly one wake-up per round, and never an early one: until the
\* coordinator takes it, the round's permit is either posted or still owed by
\* the thread; once taken, `stopped' answers true at once.
OneWakeup ==
  /\ pcCoord = "sem" => permits + (IF signal = frame THEN 1 ELSE 0) = 1
  /\ pcCoord = "poll" => permits = 0 /\ signal = 0 /\ Stopped

\* A post still owed goes to a semaphore whose stack frame is alive.
PostsToLiveFrame == signal # 0 => signal = frame

\* A cancel that arrives before the end decides the outcome, whatever the
\* analysis returned; and only a cancel does.
CancelDecides ==
  /\ state = "finished" => (result = "cancelled" <=> cancelRequested)
  /\ state = "finished" /\ pcRun = "unborn" => result = "cancelled"

\* A terminal outcome is returned, and deinit returns, only after the
\* analysis thread is gone: its circuit and results can be freed.
ReapedBeforeUse ==
  \/ pcCoord = "idle" /\ outcome \in Terminal
  \/ pcCoord = "gone"
  => pcRun \in {"unborn", "dead"} /\ signal = 0

\* Every call the coordinator makes returns: no wake-up is lost.
CallsReturn == pcCoord # "idle" ~> pcCoord \in {"idle", "gone"}

\* A cancelled run ends, parked or not.
CancelEnds == cancelRequested ~> state = "finished"

Contract == INSTANCE RunContract
  WITH phase <- state, verdict <- result, cancelled <- cancelRequested

\* The worker keeps the promise of RunContract, fairness included.
KeepsContract == Contract!Spec
=============================================================================

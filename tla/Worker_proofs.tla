---------------------------- MODULE Worker_proofs ----------------------------
(***************************************************************************)
(* Proofs about Worker, for every bound on starts and checkpoints: its     *)
(* type invariant, its safety invariants, and that it implements the       *)
(* safety part of RunContract.                                             *)
(***************************************************************************)
EXTENDS Worker, TLAPS

\* The thread holds the mutex exactly between a change of state and its post.
MutexInv == mutex = "run" <=> pcRun \in {"post", "postEnd"}

\* Where the thread can be in each state.
PhaseInv ==
  /\ state = "created"  => pcRun = "unborn" /\ ~cancelRequested
  /\ state = "running"  => pcRun \in {"run", "lock", "parked", "unwind", "end"}
  /\ state = "paused"   => pcRun \in {"post", "parked", "unwind", "end"}
  /\ state = "finished" => pcRun \in {"unborn", "postEnd", "dead"}
  /\ pcRun = "post" => ~cancelRequested
  /\ pcRun \in {"unwind", "end"} /\ state = "paused" => cancelRequested

\* A post is owed only during a quantum, or by a thread that is about to
\* make it, and the coordinator is still in the round that asked for it.
PostInv ==
  /\ signal # 0 =>
       /\ signal = frame
       /\ state = "running" \/ pcRun \in {"post", "postEnd"}
       /\ pcCoord \in {"sem", "wait", "cond"}
  /\ pcCoord \in {"sem", "poll"} =>
       /\ ~cancelRequested
       /\ frame # 0
       /\ signal = 0 => state \in {"paused", "finished"}
  /\ pcCoord = "join" => state = "finished"

\* The result agrees with the cancel flag.
ResultInv ==
  /\ pcRun = "end" => runResult \in Results
  /\ state = "finished" => result \in Terminal
  /\ CancelDecides

\* The handle goes, and a verdict is handed out, after the thread.
ReapInv ==
  /\ ~thread \/ pcCoord = "gone" => pcRun \in {"unborn", "dead"}
  /\ outcome \in Terminal => state = "finished" /\ pcRun \in {"unborn", "dead"}

\* The inductive invariant.
IInv == TypeOK /\ MutexInv /\ PhaseInv /\ PostInv /\ OneWakeup /\ ResultInv /\ ReapInv

USE DEF States, Quanta, Results, Phases, Outcomes, Terminal

-----------------------------------------------------------------------------
(* Type correctness. *)

\* Init establishes the types.
LEMMA InitType == Init => TypeOK
<1> SUFFICES ASSUME Init PROVE TypeOK
  OBVIOUS
<1>1. cancelRequested \in BOOLEAN /\ thread \in BOOLEAN
  BY Zenon DEF Init
<1> QED
  BY <1>1 DEF Init, TypeOK

\* Each action preserves the types.
LEMMA TypeStep == TypeOK /\ [Next]_vars => TypeOK'
<1> SUFFICES ASSUME TypeOK, [Next]_vars PROVE TypeOK'
  OBVIOUS
<1> USE DEF TypeOK, Broadcast, PostSignal, PostPermit, BackWith, Arm, OpenFrame
<1>1. ASSUME NEW phase \in Phases, PollCancel(phase) PROVE TypeOK'
  BY <1>1 DEF PollCancel, coordVars
<1>2. ASSUME NEW phase \in Phases, Report(phase) PROVE TypeOK'
  BY <1>2 DEF Report, coordVars
<1>3. CASE Refuse
  BY <1>3 DEF Refuse, coordVars
<1>4. CASE Park
  BY <1>4 DEF Park, coordVars
<1>5. CASE PostAndSleep
  BY <1>5 DEF PostAndSleep, coordVars
<1>6. CASE Wake
  <2>1. pcRun' \in {"parked", "unwind", "run"} /\ waiting' \subseteq {"run", "coord"}
    BY <1>6 DEF Wake
  <2>2. UNCHANGED <<state, result, quantum, cancelRequested, signal, thread,
                    mutex, permits, calls, runResult, coordVars>>
    BY <1>6 DEF Wake
  <2> QED
    BY <2>1, <2>2 DEF coordVars
<1>7. ASSUME NEW r \in Results, Return(r) PROVE TypeOK'
  BY <1>7 DEF Return, coordVars
<1>8. CASE Finish
  BY <1>8 DEF Finish, Verdict, coordVars
<1>9. CASE PostAndExit
  BY <1>9 DEF PostAndExit, coordVars
<1>10. ASSUME NEW q \in Quanta, NEW sig \in BOOLEAN, StartCreated(q, sig) PROVE TypeOK'
  BY <1>10 DEF StartCreated, runVars
<1>11. ASSUME NEW q \in Quanta, NEW sig \in BOOLEAN, StartPaused(q, sig) PROVE TypeOK'
  BY <1>11 DEF StartPaused, runVars
<1>12. ASSUME NEW q \in Quanta, StartFails(q) PROVE TypeOK'
  BY <1>12 DEF StartFails, Disarm, runVars
<1>13. ASSUME NEW q \in Quanta, StartIdle(q) PROVE TypeOK'
  BY <1>13 DEF StartIdle, runVars
<1>14. CASE TakePermit
  BY <1>14 DEF TakePermit, runVars
<1>15. CASE Poll
  BY <1>15 DEF Poll, runVars
<1>16. CASE CallWait
  BY <1>16 DEF CallWait, runVars
<1>17. CASE WaitOutcome
  <2>1. waiting' \subseteq {"run", "coord"} /\ pcCoord' \in {"idle", "cond", "join"}
    BY <1>17 DEF WaitOutcome
  <2>2. frame' \in Nat /\ permits' \in Nat
    BY <1>17 DEF WaitOutcome
  <2>3. outcome' \in Outcomes
    <3>1. CASE state = "finished"
      BY <1>17, <3>1 DEF WaitOutcome
    <3>2. CASE state # "finished"
      BY <1>17, <3>2 DEF WaitOutcome
    <3> QED
      BY <3>1, <3>2
  <2>4. UNCHANGED <<state, result, quantum, cancelRequested, signal, thread,
                    mutex, runVars, starts>>
    BY <1>17 DEF WaitOutcome
  <2> QED
    BY <2>1, <2>2, <2>3, <2>4 DEF runVars
<1>18. CASE CoordWake
  BY <1>18 DEF CoordWake, runVars
<1>19. CASE Join
  <2>1. thread' \in BOOLEAN
    BY <1>19, Zenon DEF Join
  <2> QED
    BY <1>19, <2>1 DEF Join, runVars
<1>20. CASE DeinitJoin
  BY <1>20 DEF DeinitJoin, runVars
<1>21. ASSUME NEW from, NEW to \in {"idle", "wait", "deinit"}, CancelBody(from, to)
       PROVE TypeOK'
  <2>1. cancelRequested' \in BOOLEAN
    BY <1>21, Zenon DEF CancelBody
  <2>2. state' \in States /\ result' \in Terminal \union {"none"} /\ waiting' \in SUBSET waiting
    BY <1>21 DEF CancelBody
  <2>3. /\ pcCoord' = to
        /\ UNCHANGED <<quantum, signal, thread, mutex, permits, runVars, starts,
                       frame, outcome>>
    BY <1>21 DEF CancelBody
  <2> QED
    BY <2>1, <2>2, <2>3 DEF runVars
<1>22. CASE SpuriousWake
  BY <1>22 DEF SpuriousWake, runVars, coordVars
<1>23. CASE UNCHANGED vars
  BY <1>23 DEF vars, runVars, coordVars
<1> QED
  BY <1>1, <1>2, <1>3, <1>4, <1>5, <1>6, <1>7, <1>8, <1>9, <1>10, <1>11,
     <1>12, <1>13, <1>14, <1>15, <1>16, <1>17, <1>18, <1>19, <1>20, <1>21,
     <1>22, <1>23
  DEF Next, RunStep, CoordStep, CoordCall, Cancel, Abort, Deinit, Done

\* Every variable keeps its type (TypeOK), for any bounds.
THEOREM TypeCorrect == Spec => []TypeOK
  BY InitType, TypeStep, PTL DEF Spec

-----------------------------------------------------------------------------
(* The inductive invariant. *)

USE DEF MutexInv, PhaseInv, PostInv, OneWakeup, ResultInv, CancelDecides, ReapInv

\* Each action preserves the inductive invariant.
LEMMA SafeStep == IInv /\ TypeOK' /\ [Next]_vars => IInv'
<1> SUFFICES ASSUME IInv, TypeOK', [Next]_vars PROVE IInv'
  OBVIOUS
<1> USE DEF IInv, TypeOK, Stopped, Broadcast
<1>1. ASSUME NEW phase \in Phases, PollCancel(phase) PROVE IInv'
  BY <1>1 DEF PollCancel, Suppressed, coordVars
<1>2. ASSUME NEW phase \in Phases, Report(phase) PROVE IInv'
  BY <1>2 DEF Report, Suppressed, coordVars
<1>3. CASE Refuse
  BY <1>3 DEF Refuse, coordVars
<1>4. CASE Park
  BY <1>4 DEF Park, MayPark, coordVars
<1>5. CASE PostAndSleep
  <2>1. state = "paused" /\ ~cancelRequested
    BY <1>5 DEF PostAndSleep
  <2>2. /\ pcRun' = "parked" /\ mutex' = "free" /\ signal' = 0
        /\ UNCHANGED <<state, result, quantum, cancelRequested, thread, calls, runResult,
                    coordVars>>
    BY <1>5 DEF PostAndSleep, PostSignal
  <2>3. pcCoord = "sem" => permits' = 1
    <3>1. permits' = IF signal # 0 /\ signal = frame THEN permits + 1 ELSE permits
      BY <1>5 DEF PostAndSleep, PostSignal, PostPermit
    <3> QED
      BY <3>1
  <2>4. OneWakeup'
    BY <2>1, <2>2, <2>3, <1>5 DEF PostAndSleep, PostSignal, PostPermit, coordVars
  <2>5. MutexInv' /\ PhaseInv' /\ PostInv'
    BY <2>1, <2>2 DEF coordVars
  <2>6. ResultInv' /\ ReapInv'
    BY <2>1, <2>2 DEF coordVars
  <2> QED
    BY <2>4, <2>5, <2>6
<1>6. CASE Wake
  BY <1>6 DEF Wake, StayParked, coordVars
<1>7. ASSUME NEW r \in Results, Return(r) PROVE IInv'
  BY <1>7 DEF Return, coordVars
<1>8. CASE Finish
  BY <1>8 DEF Finish, Verdict, coordVars
<1>9. CASE PostAndExit
  <2>1. state = "finished"
    BY <1>9 DEF PostAndExit
  <2>2. /\ pcRun' = "dead" /\ mutex' = "free" /\ signal' = 0
        /\ UNCHANGED <<state, result, quantum, cancelRequested, thread, waiting, calls,
                    runResult, coordVars>>
    BY <1>9 DEF PostAndExit, PostSignal
  <2>3. pcCoord = "sem" => permits' = 1
    <3>1. permits' = IF signal # 0 /\ signal = frame THEN permits + 1 ELSE permits
      BY <1>9 DEF PostAndExit, PostSignal, PostPermit
    <3> QED
      BY <3>1
  <2>4. OneWakeup'
    BY <2>1, <2>2, <2>3, <1>9 DEF PostAndExit, PostSignal, PostPermit, coordVars
  <2>5. MutexInv' /\ PhaseInv' /\ PostInv'
    BY <2>1, <2>2 DEF coordVars
  <2>6. ResultInv' /\ ReapInv'
    BY <2>1, <2>2 DEF coordVars
  <2> QED
    BY <2>4, <2>5, <2>6
<1>10. ASSUME NEW q \in Quanta, NEW sig \in BOOLEAN, StartCreated(q, sig) PROVE IInv'
  BY <1>10 DEF StartCreated, Arm, OpenFrame, runVars
<1>11. ASSUME NEW q \in Quanta, NEW sig \in BOOLEAN, StartPaused(q, sig) PROVE IInv'
  BY <1>11 DEF StartPaused, Arm, OpenFrame, runVars
<1>12. ASSUME NEW q \in Quanta, StartFails(q) PROVE IInv'
  BY <1>12 DEF StartFails, Disarm, runVars
<1>13. ASSUME NEW q \in Quanta, StartIdle(q) PROVE IInv'
  BY <1>13 DEF StartIdle, Arm, runVars
<1>14. CASE TakePermit
  <2>1. permits = 1 /\ signal # frame /\ signal = 0
    BY <1>14 DEF TakePermit
  <2>2. OneWakeup'
    <3>1. pcCoord' = "poll" /\ permits' = 0 /\ signal' = 0
      BY <1>14, <2>1 DEF TakePermit
    <3>2. /\ state \in {"paused", "finished"} /\ ~cancelRequested
          /\ UNCHANGED <<state, cancelRequested>>
      BY <1>14, <2>1 DEF TakePermit
    <3> QED
      BY <3>1, <3>2
  <2>3. MutexInv' /\ PhaseInv' /\ PostInv'
    BY <1>14, <2>1 DEF TakePermit, runVars
  <2>4. ResultInv' /\ ReapInv'
    BY <1>14 DEF TakePermit, runVars
  <2> QED
    BY <2>2, <2>3, <2>4
<1>15. CASE Poll
  BY <1>15 DEF Poll, Stopped, runVars
<1>16. CASE CallWait
  BY <1>16 DEF CallWait, runVars
<1>17. CASE WaitOutcome
  <2>1. UNCHANGED <<state, result, quantum, cancelRequested, signal, thread,
                    mutex, runVars, starts>>
    BY <1>17 DEF WaitOutcome
  <2>2. pcCoord' \notin {"sem", "poll", "gone"}
    BY <1>17 DEF WaitOutcome, BackWith
  <2>3. signal # 0 => state = "running" /\ pcCoord' = "cond" /\ frame' = frame
    BY <1>17 DEF WaitOutcome
  <2>4. pcCoord' = "join" => state = "finished"
    BY <1>17 DEF WaitOutcome, BackWith
  <2>5. outcome' \in Terminal =>
          outcome' = outcome \/ (state = "finished" /\ pcRun \in {"unborn", "dead"})
    BY <1>17 DEF WaitOutcome, BackWith
  <2>6. MutexInv' /\ PhaseInv' /\ ResultInv'
    BY <2>1 DEF runVars
  <2>7. PostInv' /\ OneWakeup'
    BY <2>1, <2>2, <2>3, <2>4 DEF runVars
  <2>8. ReapInv'
    BY <2>1, <2>2, <2>5 DEF runVars
  <2> QED
    BY <2>6, <2>7, <2>8
<1>18. CASE CoordWake
  BY <1>18 DEF CoordWake, runVars
<1>19. CASE Join
  BY <1>19 DEF Join, Joined, BackWith, runVars
<1>20. CASE DeinitJoin
  BY <1>20 DEF DeinitJoin, Joined, runVars
<1>21. CASE Cancel
  BY <1>21 DEF Cancel, CancelBody, runVars
<1>22. CASE Abort
  BY <1>22 DEF Abort, CancelBody, runVars
<1>23. CASE Deinit
  BY <1>23 DEF Deinit, CancelBody, runVars
<1>24. CASE SpuriousWake
  BY <1>24 DEF SpuriousWake, runVars, coordVars
<1>25. CASE UNCHANGED vars
  BY <1>25 DEF vars, runVars, coordVars
<1> QED
  BY <1>1, <1>2, <1>3, <1>4, <1>5, <1>6, <1>7, <1>8, <1>9, <1>10, <1>11, <1>12, <1>13, <1>14, <1>15, <1>16, <1>17, <1>18, <1>19, <1>20, <1>21, <1>22, <1>23, <1>24, <1>25
  DEF Next, RunStep, CoordStep, CoordCall, Done

\* The inductive invariant holds in every reachable state.
LEMMA Invariance == Spec => []IInv
<1>1. Init => IInv
  BY InitType DEF Init, IInv
<1>2. IInv /\ [Next]_vars => IInv'
  BY TypeStep, SafeStep DEF IInv
<1> QED
  BY <1>1, <1>2, PTL DEF Spec

\* Between two quanta nothing of the analysis executes (Isolation).
THEOREM AnalysisIsolated == Spec => []Isolation
<1>1. IInv => Isolation
  BY DEF IInv, Isolation, TypeOK
<1> QED
  BY <1>1, Invariance, PTL

\* Every scheduling round is woken exactly once, and not before its quantum
\* has stopped (OneWakeup).
THEOREM WokenOnce == Spec => []OneWakeup
<1>1. IInv => OneWakeup
  BY DEF IInv
<1> QED
  BY <1>1, Invariance, PTL

\* No post ever goes to a stack frame that is gone (PostsToLiveFrame).
THEOREM NoDanglingPost == Spec => []PostsToLiveFrame
<1>1. IInv => PostsToLiveFrame
  BY DEF IInv, PostsToLiveFrame
<1> QED
  BY <1>1, Invariance, PTL

\* A cancel before the end decides the outcome, and only a cancel does
\* (CancelDecides).
THEOREM CancelIsDecisive == Spec => []CancelDecides
<1>1. IInv => CancelDecides
  BY DEF IInv
<1> QED
  BY <1>1, Invariance, PTL

\* A verdict is handed out, and deinit returns, only once the thread is gone
\* (ReapedBeforeUse).
THEOREM ReapedFirst == Spec => []ReapedBeforeUse
<1>1. IInv => ReapedBeforeUse
  BY DEF IInv, ReapedBeforeUse, TypeOK
<1> QED
  BY <1>1, Invariance, PTL

-----------------------------------------------------------------------------
(* Refinement of RunContract, liveness aside. *)

\* A thread or coordinator step is a step of the contract or none.
LEMMA ContractStep == IInv /\ [Next]_vars => [Contract!Next]_(Contract!vars)
<1> SUFFICES ASSUME IInv, [Next]_vars, ~UNCHANGED <<state, result, cancelRequested>>
             PROVE Contract!Next
  BY DEF Contract!vars
<1> USE DEF IInv, TypeOK
<1>1. CASE Park
  <2>1. Contract!Hold
    BY <1>1 DEF Park, MayPark, Contract!Hold
  <2> QED
    BY <2>1 DEF Contract!Next, Contract!EndQuantum
<1>2. CASE Finish
  <2>1. Contract!End(runResult)
    BY <1>2 DEF Finish, Verdict, Contract!End
  <2> QED
    BY <2>1, <1>2 DEF Finish, Contract!Next, Contract!EndQuantum
<1>3. ASSUME NEW q \in Quanta, NEW sig \in BOOLEAN,
             StartCreated(q, sig) \/ StartPaused(q, sig)
      PROVE Contract!Next
  <2>1. Contract!Grant
    BY <1>3 DEF StartCreated, StartPaused, Contract!Grant
  <2> QED
    BY <2>1 DEF Contract!Next
<1>4. ASSUME NEW from, NEW to, CancelBody(from, to) PROVE Contract!Next
  <2>1. Contract!Cancel
    BY <1>4 DEF CancelBody, Contract!Cancel
  <2> QED
    BY <2>1 DEF Contract!Next
<1>5. CASE RunStep /\ ~Park /\ ~Finish
  BY <1>5 DEF RunStep, PollCancel, Report, Refuse, PostAndSleep, Wake, Return, PostAndExit
<1>6. CASE CoordStep
  BY <1>6 DEF CoordStep, TakePermit, Poll, WaitOutcome, CoordWake, Join, DeinitJoin
<1>7. ASSUME NEW q \in Quanta, StartFails(q) \/ StartIdle(q) PROVE FALSE
  BY <1>7 DEF StartFails, StartIdle
<1>8. CASE CallWait \/ SpuriousWake \/ Done \/ UNCHANGED vars
  BY <1>8 DEF CallWait, SpuriousWake, Done, vars
<1> QED
  BY <1>1, <1>2, <1>3, <1>4, <1>5, <1>6, <1>7, <1>8
  DEF Next, CoordCall, Cancel, Abort, Deinit

\* The worker's steps are the contract's (the safety part of KeepsContract):
\* quanta only as granted, each held at a checkpoint or over, and a cancel
\* deciding the verdict.
THEOREM ImplementsContract == Spec => Contract!Init /\ [][Contract!Next]_(Contract!vars)
<1>1. Init => Contract!Init
  BY DEF Init, Contract!Init
<1> QED
  BY <1>1, ContractStep, Invariance, PTL DEF Spec
=============================================================================

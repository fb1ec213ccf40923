---------------------------- MODULE ParEval_proofs ----------------------------
(***************************************************************************)
(* Proofs about ParEval, for every number of workers, tasks, blocks and    *)
(* runs: its types, that the phases of a pass stay apart, that a pass      *)
(* keeps its arguments, and that every run returns whole sums.             *)
(***************************************************************************)
EXTENDS ParEval, FiniteSetTheorems, TLAPS

Counted == {"recheck", "futex", "asleep", "uncount"}
Resting == {"spin"} \union Counted
During  == {"look", "wake", "barrier", "await"} \union Stamping \union Reducing
Before  == {"start", "bump"}
Leaving == {"ring", "wakeAll", "join"}

\* A worker that has heard the last bell and is back from what it rang for.
Home(w) == pc[w] \in Resting /\ last[w] = epoch

Passed(l)  == pc[l] \in Reducing \union {"done", "await"} \/ (l # Main /\ Home(l))
Arrived(l) == pc[l] = "barrier" \/ Passed(l)

HomeSet     == {w \in Workers : Home(w)}
ArrivedSet  == {l \in Lanes : Arrived(l)}
SleepingSet == {w \in Workers : pc[w] \in Counted}

\* Where the caller is, and what the workers have been told.
MainPlaces ==
  /\ pc[Main] \in {"idle", "gone"} \union Before \union During \union Leaving
  /\ pc[Main] = "start" => ~started
  /\ pc[Main] \in {"bump"} \union During => started \/ Workers = {}
  /\ pc[Main] \in Leaving => started /\ quit
  /\ quit => pc[Main] \in Leaving \union {"gone"}

\* Where a worker can be at each of the caller's places: in a pass only while
\* the caller is in it too.
WorkerPlaces ==
  \A w \in Workers :
    /\ pc[w] \in {"unborn", "heard", "exit"} \union Resting \union InPass
    /\ pc[w] = "unborn" <=> ~started
    /\ started /\ pc[Main] \in {"idle", "ring"} \union Before => Home(w)
    /\ pc[w] \in InPass => pc[Main] \in During /\ last[w] = epoch
    /\ pc[w] = "heard" => last[w] = epoch /\ (pc[Main] \in During \/ quit)
    /\ pc[w] = "exit" => quit
    /\ pc[Main] = "gone" => pc[w] \in {"unborn", "exit"}

\* What the counters count.
SleepCount == sleepers = Cardinality(SleepingSet)
PassCounts ==
  /\ pc[Main] \in Before => stamped = 0 /\ done = 0
  /\ pc[Main] \in During =>
       stamped = Cardinality(ArrivedSet) /\ done = Cardinality(HomeSet)

\* Nobody passes the barrier before everybody arrived.
Barrier ==
  pc[Main] \in During => \A l, k \in Lanes : Passed(l) => Arrived(k)

\* What is claimed is claimed once, and everything is by the end of a phase.
Claims ==
  /\ \A l \in Lanes : pc[l] = "stamp" => held[l] \in Tasks /\ held[l] <= nextTask
  /\ \A l \in Lanes : pc[l] = "reduce" => held[l] \in Blocks /\ held[l] <= nextBlock
  /\ \A l, k \in Lanes :
       l # k /\ pc[l] = pc[k] /\ pc[l] \in {"stamp", "reduce"} => held[l] # held[k]
Progress ==
  /\ pc[Main] \in Before => nextTask = 0 /\ nextBlock = 0
  /\ pc[Main] \in During => \A l \in Lanes :
       /\ pc[l] = "arrive" \/ Arrived(l) => nextTask >= NumTasks
       /\ Passed(l) /\ pc[l] \notin Reducing => nextBlock >= NumBlocks
  /\ pc[Main] \in During /\ nextBlock > 0 => \A l \in Lanes : Arrived(l)
  /\ pc[Main] = "idle" => \/ job = 0 /\ nextTask = 0 /\ nextBlock = 0
                          \/ nextTask >= NumTasks /\ nextBlock >= NumBlocks

Stamped(t) == t <= nextTask /\ \A l \in Lanes : ~(pc[l] = "stamp" /\ held[l] = t)
Reduced(b) == b <= nextBlock /\ \A l \in Lanes : ~(pc[l] = "reduce" /\ held[l] = b)

\* What the staging and the planes hold at every moment of a run.
Sums ==
  /\ \A t \in Tasks, b \in Blocks :
       stage[t][b] = IF Stamped(t) /\ ~Reduced(b) THEN job ELSE 0
  /\ \A b \in Blocks : Reduced(b) => plane[b] = job

\* The inductive invariant.
Places == TypeOK /\ MainPlaces /\ WorkerPlaces
Counts == SleepCount /\ PassCounts
IInv == Places /\ Counts /\ Barrier /\ Claims /\ Progress /\ Sums

USE ParEvalAssumption DEF ParEvalAssumption, Torn, Lanes, Tasks, Blocks, Stamping, Reducing, InPass,
           GoTo, wakeVars, countVars, dataVars

-----------------------------------------------------------------------------
(* Sizes. *)

\* The sets that are counted are finite, and so are the lanes.
LEMMA Finite ==
  /\ IsFiniteSet(Lanes) /\ Cardinality(Lanes) \in Nat /\ Cardinality(Workers) \in Nat
  /\ Cardinality({}) = 0
  /\ \A S \in SUBSET Lanes : IsFiniteSet(S) /\ Cardinality(S) \in Nat
<1>1. IsFiniteSet(Lanes)
  BY FS_AddElement
<1>2. ASSUME NEW S \in SUBSET Lanes PROVE IsFiniteSet(S) /\ Cardinality(S) \in Nat
  BY <1>1, <1>2, FS_Subset, FS_CardinalityType
<1> QED
  BY <1>1, <1>2, FS_CardinalityType, FS_EmptySet

\* One element more, one element less.
LEMMA PlusOne ==
  ASSUME NEW S \in SUBSET Lanes, NEW x \in Lanes, x \notin S
  PROVE  Cardinality(S \union {x}) = Cardinality(S) + 1
  BY Finite, FS_AddElement
LEMMA MinusOne ==
  ASSUME NEW S \in SUBSET Lanes, NEW x \in S
  PROVE  Cardinality(S \ {x}) = Cardinality(S) - 1 /\ Cardinality(S) # 0
<1>1. IsFiniteSet(S)
  BY Finite
<1>2. Cardinality(S \ {x}) = Cardinality(S) - 1
  BY <1>1, FS_RemoveElement
<1>3. Cardinality(S) # 0
  BY <1>1, FS_EmptySet
<1> QED
  BY <1>2, <1>3

\* The count of arrivals is complete only if every lane arrived.
LEMMA EveryoneArrived ==
  ASSUME IInv, pc[Main] \in During, AllStamped
  PROVE  \A l \in Lanes : Arrived(l)
<1>1. ArrivedSet \in SUBSET Lanes
  BY DEF ArrivedSet
<1>2. Cardinality(ArrivedSet) >= Cardinality(Lanes)
  BY DEF IInv, Counts, PassCounts, AllStamped
<1>3. Cardinality(ArrivedSet) <= Cardinality(Lanes)
  BY <1>1, Finite, FS_Subset
<1>4. Cardinality(ArrivedSet) = Cardinality(Lanes)
  BY <1>1, <1>2, <1>3, Finite
<1>5. ArrivedSet = Lanes
  BY <1>1, <1>4, Finite, FS_Subset
<1> QED
  BY <1>5 DEF ArrivedSet

\* The count of finished workers is complete only if every one is back.
LEMMA EveryoneHome ==
  ASSUME IInv, pc[Main] \in During, AllDone
  PROVE  \A w \in Workers : Home(w)
<1>1. HomeSet \in SUBSET Workers /\ HomeSet \in SUBSET Lanes
  BY DEF HomeSet
<1>2. Cardinality(HomeSet) >= Cardinality(Workers)
  BY DEF IInv, Counts, PassCounts, AllDone
<1>3. Cardinality(HomeSet) <= Cardinality(Workers)
  BY <1>1, FS_Subset
<1>4. Cardinality(HomeSet) = Cardinality(Workers)
  BY <1>1, <1>2, <1>3, Finite
<1>5. HomeSet = Workers
  BY <1>1, <1>4, FS_Subset
<1> QED
  BY <1>5 DEF HomeSet

-----------------------------------------------------------------------------
(* Types and places. *)

\* Each action preserves the types.
LEMMA TypeStep == IInv /\ [Next]_vars => TypeOK'
<1> SUFFICES ASSUME IInv, [Next]_vars PROVE TypeOK'
  OBVIOUS
<1> USE DEF IInv, Places, TypeOK
<1>1. CASE Run
  BY <1>1 DEF Run, Reset
<1>2. CASE StartWorkers
  BY <1>2 DEF StartWorkers
<1>3. CASE Bump("bump", "look")
  BY <1>3 DEF Bump
<1>4. CASE Bump("ring", "wakeAll")
  BY <1>4 DEF Bump
<1>5. CASE LookForSleepers
  BY <1>5 DEF LookForSleepers
<1>6. CASE WakeAll("wake", "claim")
  BY <1>6 DEF WakeAll
<1>7. CASE WakeAll("wakeAll", "join")
  BY <1>7 DEF WakeAll
<1>8. CASE Return
  BY <1>8 DEF Return
<1>9. CASE Quit
  BY <1>9 DEF Quit
<1>10. CASE Join
  BY <1>10 DEF Join
<1>11. ASSUME NEW w \in Workers, Hear(w) PROVE TypeOK'
  BY <1>11 DEF Hear, Rang
<1>12. ASSUME NEW w \in Workers, CountSleeper(w) PROVE TypeOK'
  BY <1>12 DEF CountSleeper
<1>13. ASSUME NEW w \in Workers, Recheck(w) PROVE TypeOK'
  BY <1>13 DEF Recheck
<1>14. ASSUME NEW w \in Workers, FutexWait(w) PROVE TypeOK'
  BY <1>14 DEF FutexWait, FutexBlocks
<1>15. ASSUME NEW w \in Workers, SpuriousWake(w) PROVE TypeOK'
  BY <1>15 DEF SpuriousWake
<1>16. ASSUME NEW w \in Workers, UncountSleeper(w) PROVE TypeOK'
  <2>1. w \in SleepingSet /\ SleepingSet \in SUBSET Lanes
    BY <1>16 DEF UncountSleeper, SleepingSet, Counted
  <2>2. sleepers # 0
    BY <2>1, MinusOne DEF Counts, SleepCount
  <2>3. sleepers - 1 \in Nat
    BY <2>2
  <2> QED
    BY <1>16, <2>3 DEF UncountSleeper
<1>17. ASSUME NEW w \in Workers, CheckQuit(w) PROVE TypeOK'
  BY <1>17 DEF CheckQuit
<1>18. ASSUME NEW l \in Lanes, ClaimTask(l) PROVE TypeOK'
  BY <1>18 DEF ClaimTask
<1>19. ASSUME NEW l \in Lanes, Stamp(l) PROVE TypeOK'
  <2>1. [stage EXCEPT ![held[l]] = [b \in Blocks |-> job]] \in Stagings
    BY DEF Stagings
  <2> QED
    BY <1>19, <2>1 DEF Stamp
<1>20. ASSUME NEW l \in Lanes, Arrive(l) PROVE TypeOK'
  BY <1>20 DEF Arrive
<1>21. ASSUME NEW l \in Lanes, PassBarrier(l) PROVE TypeOK'
  BY <1>21 DEF PassBarrier
<1>22. ASSUME NEW l \in Lanes, ClaimBlock(l) PROVE TypeOK'
  BY <1>22 DEF ClaimBlock
<1>23. ASSUME NEW l \in Lanes, Reduce(l) PROVE TypeOK'
  <2>1. stage \in [Tasks -> [Blocks -> 0..MaxRuns]] /\ 0 \in 0..MaxRuns
    BY SMT DEF Stagings
  <2>2. \A t \in Tasks : [stage[t] EXCEPT ![held[l]] = 0] \in [Blocks -> 0..MaxRuns]
    BY <2>1
  <2>3. stage' \in Stagings
    BY <1>23, <2>2 DEF Reduce, Stagings
  <2>4. plane' \in [Blocks -> 0..Torn]
    <3> DEFINE sum == IF \A t \in Tasks : stage[t][held[l]] = job THEN job ELSE Torn
    <3>1. sum \in 0..Torn
      OBVIOUS
    <3>2. plane' = [plane EXCEPT ![held[l]] = sum]
      BY <1>23 DEF Reduce
    <3> HIDE DEF sum
    <3> QED
      BY <3>1, <3>2
  <2> QED
    BY <1>23, <2>3, <2>4 DEF Reduce
<1>24. ASSUME NEW w \in Workers, Finish(w) PROVE TypeOK'
  BY <1>24 DEF Finish
<1>25. CASE UNCHANGED vars
  BY <1>25 DEF vars
<1> HIDE DEF IInv, Places, TypeOK
<1> QED
  BY <1>1, <1>2, <1>3, <1>4, <1>5, <1>6, <1>7, <1>8, <1>9, <1>10,
     <1>11, <1>12, <1>13, <1>14, <1>15, <1>16, <1>17, <1>18, <1>19,
     <1>20, <1>21, <1>22, <1>23, <1>24, <1>25
  DEF Next, MainStep, WorkerStep, Pass, Gone

\* The caller keeps to its places.
LEMMA MainStepPlaces == IInv /\ [Next]_vars => MainPlaces'
<1> SUFFICES ASSUME IInv, [Next]_vars PROVE MainPlaces'
  OBVIOUS
<1> USE DEF IInv, Places, TypeOK, MainPlaces, Resting, Counted, During,
            Before, Leaving, Home
<1>1. CASE Run
  BY <1>1 DEF Run, Reset
<1>2. CASE StartWorkers
  BY <1>2 DEF StartWorkers
<1>3. CASE Bump("bump", "look")
  BY <1>3 DEF Bump
<1>4. CASE Bump("ring", "wakeAll")
  BY <1>4 DEF Bump
<1>5. CASE LookForSleepers
  BY <1>5 DEF LookForSleepers
<1>6. CASE WakeAll("wake", "claim")
  BY <1>6 DEF WakeAll
<1>7. CASE WakeAll("wakeAll", "join")
  BY <1>7 DEF WakeAll
<1>8. CASE Return
  BY <1>8 DEF Return
<1>9. CASE Quit
  BY <1>9 DEF Quit
<1>10. CASE Join
  BY <1>10 DEF Join
<1>11. ASSUME NEW w \in Workers, Hear(w) PROVE MainPlaces'
  BY <1>11 DEF Hear, Rang
<1>12. ASSUME NEW w \in Workers, CountSleeper(w) PROVE MainPlaces'
  BY <1>12 DEF CountSleeper
<1>13. ASSUME NEW w \in Workers, Recheck(w) PROVE MainPlaces'
  BY <1>13 DEF Recheck
<1>14. ASSUME NEW w \in Workers, FutexWait(w) PROVE MainPlaces'
  BY <1>14 DEF FutexWait, FutexBlocks
<1>15. ASSUME NEW w \in Workers, SpuriousWake(w) PROVE MainPlaces'
  BY <1>15 DEF SpuriousWake
<1>16. ASSUME NEW w \in Workers, UncountSleeper(w) PROVE MainPlaces'
  BY <1>16 DEF UncountSleeper
<1>17. ASSUME NEW w \in Workers, CheckQuit(w) PROVE MainPlaces'
  BY <1>17 DEF CheckQuit
<1>18. ASSUME NEW l \in Lanes, ClaimTask(l) PROVE MainPlaces'
  BY <1>18 DEF ClaimTask
<1>19. ASSUME NEW l \in Lanes, Stamp(l) PROVE MainPlaces'
  BY <1>19 DEF Stamp
<1>20. ASSUME NEW l \in Lanes, Arrive(l) PROVE MainPlaces'
  BY <1>20 DEF Arrive
<1>21. ASSUME NEW l \in Lanes, PassBarrier(l) PROVE MainPlaces'
  BY <1>21 DEF PassBarrier
<1>22. ASSUME NEW l \in Lanes, ClaimBlock(l) PROVE MainPlaces'
  BY <1>22 DEF ClaimBlock
<1>23. ASSUME NEW l \in Lanes, Reduce(l) PROVE MainPlaces'
  BY <1>23 DEF Reduce
<1>24. ASSUME NEW w \in Workers, Finish(w) PROVE MainPlaces'
  BY <1>24 DEF Finish
<1>25. CASE UNCHANGED vars
  BY <1>25 DEF vars
<1> HIDE DEF IInv, Places, TypeOK, MainPlaces, Resting, Counted, During,
             Before, Leaving, Home
<1> QED
  BY <1>1, <1>2, <1>3, <1>4, <1>5, <1>6, <1>7, <1>8, <1>9, <1>10,
     <1>11, <1>12, <1>13, <1>14, <1>15, <1>16, <1>17, <1>18, <1>19,
     <1>20, <1>21, <1>22, <1>23, <1>24, <1>25
  DEF Next, MainStep, WorkerStep, Pass, Gone

\* And so do the workers.
LEMMA WorkerStepPlaces == IInv /\ [Next]_vars => WorkerPlaces'
<1> SUFFICES ASSUME IInv, [Next]_vars PROVE WorkerPlaces'
  OBVIOUS
<1> USE DEF IInv, Places, TypeOK, MainPlaces, WorkerPlaces, Resting, Counted,
            During, Before, Leaving, Home
<1>1. CASE Run
  BY <1>1 DEF Run, Reset
<1>2. CASE StartWorkers
  BY <1>2 DEF StartWorkers
<1>3. CASE Bump("bump", "look")
  BY <1>3 DEF Bump
<1>4. CASE Bump("ring", "wakeAll")
  BY <1>4 DEF Bump
<1>5. CASE LookForSleepers
  BY <1>5 DEF LookForSleepers
<1>6. CASE WakeAll("wake", "claim")
  BY <1>6 DEF WakeAll
<1>7. CASE WakeAll("wakeAll", "join")
  BY <1>7 DEF WakeAll
<1>8. CASE Return
  <2>1. \A w \in Workers : Home(w)
    BY <1>8, EveryoneHome DEF Return, IInv, During
  <2> QED
    BY <1>8, <2>1 DEF Return
<1>9. CASE Quit
  BY <1>9 DEF Quit
<1>10. CASE Join
  BY <1>10 DEF Join
<1>11. ASSUME NEW w \in Workers, Hear(w) PROVE WorkerPlaces'
  BY <1>11 DEF Hear, Rang
<1>12. ASSUME NEW w \in Workers, CountSleeper(w) PROVE WorkerPlaces'
  BY <1>12 DEF CountSleeper
<1>13. ASSUME NEW w \in Workers, Recheck(w) PROVE WorkerPlaces'
  BY <1>13 DEF Recheck
<1>14. ASSUME NEW w \in Workers, FutexWait(w) PROVE WorkerPlaces'
  BY <1>14 DEF FutexWait, FutexBlocks
<1>15. ASSUME NEW w \in Workers, SpuriousWake(w) PROVE WorkerPlaces'
  BY <1>15 DEF SpuriousWake
<1>16. ASSUME NEW w \in Workers, UncountSleeper(w) PROVE WorkerPlaces'
  BY <1>16 DEF UncountSleeper
<1>17. ASSUME NEW w \in Workers, CheckQuit(w) PROVE WorkerPlaces'
  BY <1>17 DEF CheckQuit
<1>18. ASSUME NEW l \in Lanes, ClaimTask(l) PROVE WorkerPlaces'
  BY <1>18 DEF ClaimTask
<1>19. ASSUME NEW l \in Lanes, Stamp(l) PROVE WorkerPlaces'
  BY <1>19 DEF Stamp
<1>20. ASSUME NEW l \in Lanes, Arrive(l) PROVE WorkerPlaces'
  BY <1>20 DEF Arrive
<1>21. ASSUME NEW l \in Lanes, PassBarrier(l) PROVE WorkerPlaces'
  BY <1>21 DEF PassBarrier
<1>22. ASSUME NEW l \in Lanes, ClaimBlock(l) PROVE WorkerPlaces'
  BY <1>22 DEF ClaimBlock
<1>23. ASSUME NEW l \in Lanes, Reduce(l) PROVE WorkerPlaces'
  BY <1>23 DEF Reduce
<1>24. ASSUME NEW w \in Workers, Finish(w) PROVE WorkerPlaces'
  BY <1>24 DEF Finish
<1>25. CASE UNCHANGED vars
  BY <1>25 DEF vars
<1> HIDE DEF IInv, Places, TypeOK, MainPlaces, WorkerPlaces, Resting, Counted,
             During, Before, Leaving, Home
<1> QED
  BY <1>1, <1>2, <1>3, <1>4, <1>5, <1>6, <1>7, <1>8, <1>9, <1>10,
     <1>11, <1>12, <1>13, <1>14, <1>15, <1>16, <1>17, <1>18, <1>19,
     <1>20, <1>21, <1>22, <1>23, <1>24, <1>25
  DEF Next, MainStep, WorkerStep, Pass, Gone

-----------------------------------------------------------------------------
(* What the counters count. *)

\* Each action keeps the number of sleepers.
LEMMA SleepStep == IInv /\ [Next]_vars => SleepCount'
<1> SUFFICES ASSUME IInv, [Next]_vars PROVE SleepCount'
  OBVIOUS
<1> USE DEF IInv, Places, TypeOK, WorkerPlaces, MainPlaces, Counts,
            SleepCount, Resting, Counted, During, Before, Leaving, Home
<1>1. CASE Run
  BY <1>1 DEF Run, Reset, SleepingSet
<1>2. CASE StartWorkers
  BY <1>2 DEF StartWorkers, SleepingSet
<1>3. CASE Bump("bump", "look")
  BY <1>3 DEF Bump, SleepingSet
<1>4. CASE Bump("ring", "wakeAll")
  BY <1>4 DEF Bump, SleepingSet
<1>5. CASE LookForSleepers
  BY <1>5 DEF LookForSleepers, SleepingSet
<1>6. CASE WakeAll("wake", "claim")
  BY <1>6 DEF WakeAll, SleepingSet
<1>7. CASE WakeAll("wakeAll", "join")
  BY <1>7 DEF WakeAll, SleepingSet
<1>8. CASE Return
  BY <1>8 DEF Return, SleepingSet
<1>9. CASE Quit
  BY <1>9 DEF Quit, SleepingSet
<1>10. CASE Join
  BY <1>10 DEF Join, SleepingSet
<1>11. ASSUME NEW w \in Workers, Hear(w) PROVE SleepCount'
  BY <1>11 DEF Hear, Rang, SleepingSet
<1>12. ASSUME NEW w \in Workers, CountSleeper(w) PROVE SleepCount'
  <2>1. SleepingSet \in SUBSET Lanes /\ w \in Lanes /\ w \notin SleepingSet
    BY <1>12 DEF CountSleeper, SleepingSet
  <2>2. SleepingSet' = SleepingSet \union {w}
    BY <1>12 DEF CountSleeper, SleepingSet
  <2> QED
    BY <1>12, <2>1, <2>2, PlusOne DEF CountSleeper
<1>13. ASSUME NEW w \in Workers, Recheck(w) PROVE SleepCount'
  BY <1>13 DEF Recheck, SleepingSet
<1>14. ASSUME NEW w \in Workers, FutexWait(w) PROVE SleepCount'
  BY <1>14 DEF FutexWait, FutexBlocks, SleepingSet
<1>15. ASSUME NEW w \in Workers, SpuriousWake(w) PROVE SleepCount'
  BY <1>15 DEF SpuriousWake, SleepingSet
<1>16. ASSUME NEW w \in Workers, UncountSleeper(w) PROVE SleepCount'
  <2>1. SleepingSet \in SUBSET Lanes /\ w \in SleepingSet
    BY <1>16 DEF UncountSleeper, SleepingSet
  <2>2. SleepingSet' = SleepingSet \ {w}
    BY <1>16 DEF UncountSleeper, SleepingSet
  <2> QED
    BY <1>16, <2>1, <2>2, MinusOne DEF UncountSleeper
<1>17. ASSUME NEW w \in Workers, CheckQuit(w) PROVE SleepCount'
  BY <1>17 DEF CheckQuit, SleepingSet
<1>18. ASSUME NEW l \in Lanes, ClaimTask(l) PROVE SleepCount'
  BY <1>18 DEF ClaimTask, SleepingSet
<1>19. ASSUME NEW l \in Lanes, Stamp(l) PROVE SleepCount'
  BY <1>19 DEF Stamp, SleepingSet
<1>20. ASSUME NEW l \in Lanes, Arrive(l) PROVE SleepCount'
  BY <1>20 DEF Arrive, SleepingSet
<1>21. ASSUME NEW l \in Lanes, PassBarrier(l) PROVE SleepCount'
  BY <1>21 DEF PassBarrier, SleepingSet
<1>22. ASSUME NEW l \in Lanes, ClaimBlock(l) PROVE SleepCount'
  BY <1>22 DEF ClaimBlock, SleepingSet
<1>23. ASSUME NEW l \in Lanes, Reduce(l) PROVE SleepCount'
  BY <1>23 DEF Reduce, SleepingSet
<1>24. ASSUME NEW w \in Workers, Finish(w) PROVE SleepCount'
  BY <1>24 DEF Finish, SleepingSet
<1>25. CASE UNCHANGED vars
  BY <1>25 DEF vars, SleepingSet
<1> HIDE DEF IInv, Places, TypeOK, WorkerPlaces, MainPlaces, Counts,
             SleepCount, Resting, Counted, During, Before, Leaving, Home
<1> QED
  BY <1>1, <1>2, <1>3, <1>4, <1>5, <1>6, <1>7, <1>8, <1>9, <1>10,
     <1>11, <1>12, <1>13, <1>14, <1>15, <1>16, <1>17, <1>18, <1>19,
     <1>20, <1>21, <1>22, <1>23, <1>24, <1>25
  DEF Next, MainStep, WorkerStep, Pass, Gone

\* And of lanes at the barrier and behind it.
LEMMA PassCountStep == IInv /\ [Next]_vars => PassCounts'
<1> SUFFICES ASSUME IInv, [Next]_vars PROVE PassCounts'
  OBVIOUS
<1> USE DEF IInv, Places, TypeOK, MainPlaces, WorkerPlaces, Counts,
            PassCounts, Passed, Arrived, Resting, Counted, During, Before,
            Leaving, Home
<1>1. CASE Run
  <2>1. pc'[Main] \in During => ArrivedSet' = {} /\ HomeSet' = {}
    BY <1>1 DEF Run, Reset, ArrivedSet, HomeSet
  <2> QED
    BY <1>1, <2>1, Finite DEF Run, Reset
<1>2. CASE StartWorkers
  BY <1>2 DEF StartWorkers
<1>3. CASE Bump("bump", "look")
  <2>1. pc'[Main] \in During => ArrivedSet' = {} /\ HomeSet' = {}
    BY <1>3 DEF Bump, ArrivedSet, HomeSet
  <2> QED
    BY <1>3, <2>1, Finite DEF Bump
<1>4. CASE Bump("ring", "wakeAll")
  BY <1>4 DEF Bump
<1>5. CASE LookForSleepers
  <2>1. ArrivedSet' = ArrivedSet /\ HomeSet' = HomeSet
    BY <1>5 DEF LookForSleepers, ArrivedSet, HomeSet
  <2> QED
    BY <1>5, <2>1 DEF LookForSleepers
<1>6. CASE WakeAll("wake", "claim")
  <2>1. ArrivedSet' = ArrivedSet /\ HomeSet' = HomeSet
    BY <1>6 DEF WakeAll, ArrivedSet, HomeSet
  <2> QED
    BY <1>6, <2>1 DEF WakeAll
<1>7. CASE WakeAll("wakeAll", "join")
  BY <1>7 DEF WakeAll
<1>8. CASE Return
  BY <1>8 DEF Return
<1>9. CASE Quit
  BY <1>9 DEF Quit
<1>10. CASE Join
  BY <1>10 DEF Join
<1>11. ASSUME NEW w \in Workers, Hear(w) PROVE PassCounts'
  <2>1. ArrivedSet' = ArrivedSet /\ HomeSet' = HomeSet
    BY <1>11 DEF Hear, Rang, ArrivedSet, HomeSet
  <2> QED
    BY <1>11, <2>1 DEF Hear, Rang
<1>12. ASSUME NEW w \in Workers, CountSleeper(w) PROVE PassCounts'
  <2>1. ArrivedSet' = ArrivedSet /\ HomeSet' = HomeSet
    BY <1>12 DEF CountSleeper, ArrivedSet, HomeSet
  <2> QED
    BY <1>12, <2>1 DEF CountSleeper
<1>13. ASSUME NEW w \in Workers, Recheck(w) PROVE PassCounts'
  <2>1. ArrivedSet' = ArrivedSet /\ HomeSet' = HomeSet
    BY <1>13 DEF Recheck, ArrivedSet, HomeSet
  <2> QED
    BY <1>13, <2>1 DEF Recheck
<1>14. ASSUME NEW w \in Workers, FutexWait(w) PROVE PassCounts'
  <2>1. ArrivedSet' = ArrivedSet /\ HomeSet' = HomeSet
    BY <1>14 DEF FutexWait, FutexBlocks, ArrivedSet, HomeSet
  <2> QED
    BY <1>14, <2>1 DEF FutexWait, FutexBlocks
<1>15. ASSUME NEW w \in Workers, SpuriousWake(w) PROVE PassCounts'
  <2>1. ArrivedSet' = ArrivedSet /\ HomeSet' = HomeSet
    BY <1>15 DEF SpuriousWake, ArrivedSet, HomeSet
  <2> QED
    BY <1>15, <2>1 DEF SpuriousWake
<1>16. ASSUME NEW w \in Workers, UncountSleeper(w) PROVE PassCounts'
  <2>1. ArrivedSet' = ArrivedSet /\ HomeSet' = HomeSet
    BY <1>16 DEF UncountSleeper, ArrivedSet, HomeSet
  <2> QED
    BY <1>16, <2>1 DEF UncountSleeper
<1>17. ASSUME NEW w \in Workers, CheckQuit(w) PROVE PassCounts'
  <2>1. ArrivedSet' = ArrivedSet /\ HomeSet' = HomeSet
    BY <1>17 DEF CheckQuit, ArrivedSet, HomeSet
  <2> QED
    BY <1>17, <2>1 DEF CheckQuit
<1>18. ASSUME NEW l \in Lanes, ClaimTask(l) PROVE PassCounts'
  <2>1. ArrivedSet' = ArrivedSet /\ HomeSet' = HomeSet
    BY <1>18 DEF ClaimTask, ArrivedSet, HomeSet
  <2> QED
    BY <1>18, <2>1 DEF ClaimTask
<1>19. ASSUME NEW l \in Lanes, Stamp(l) PROVE PassCounts'
  <2>1. ArrivedSet' = ArrivedSet /\ HomeSet' = HomeSet
    BY <1>19 DEF Stamp, ArrivedSet, HomeSet
  <2> QED
    BY <1>19, <2>1 DEF Stamp
<1>20. ASSUME NEW l \in Lanes, Arrive(l) PROVE PassCounts'
  <2>1. HomeSet' = HomeSet
    BY <1>20 DEF Arrive, HomeSet
  <2>2. ArrivedSet \in SUBSET Lanes /\ l \notin ArrivedSet
    BY <1>20 DEF Arrive, ArrivedSet
  <2>3. ArrivedSet' = ArrivedSet \union {l}
    BY <1>20 DEF Arrive, ArrivedSet
  <2> QED
    BY <1>20, <2>1, <2>2, <2>3, PlusOne DEF Arrive
<1>21. ASSUME NEW l \in Lanes, PassBarrier(l) PROVE PassCounts'
  <2>1. ArrivedSet' = ArrivedSet /\ HomeSet' = HomeSet
    BY <1>21 DEF PassBarrier, ArrivedSet, HomeSet
  <2> QED
    BY <1>21, <2>1 DEF PassBarrier
<1>22. ASSUME NEW l \in Lanes, ClaimBlock(l) PROVE PassCounts'
  <2>1. ArrivedSet' = ArrivedSet /\ HomeSet' = HomeSet
    BY <1>22 DEF ClaimBlock, ArrivedSet, HomeSet
  <2> QED
    BY <1>22, <2>1 DEF ClaimBlock
<1>23. ASSUME NEW l \in Lanes, Reduce(l) PROVE PassCounts'
  <2>1. ArrivedSet' = ArrivedSet /\ HomeSet' = HomeSet
    BY <1>23 DEF Reduce, ArrivedSet, HomeSet
  <2> QED
    BY <1>23, <2>1 DEF Reduce
<1>24. ASSUME NEW w \in Workers, Finish(w) PROVE PassCounts'
  <2>1. ArrivedSet' = ArrivedSet
    BY <1>24 DEF Finish, ArrivedSet
  <2>2. HomeSet \in SUBSET Lanes /\ w \in Lanes /\ w \notin HomeSet
    BY <1>24 DEF Finish, HomeSet
  <2>3. HomeSet' = HomeSet \union {w}
    BY <1>24 DEF Finish, HomeSet
  <2> QED
    BY <1>24, <2>1, <2>2, <2>3, PlusOne DEF Finish
<1>25. CASE UNCHANGED vars
  <2>1. ArrivedSet' = ArrivedSet /\ HomeSet' = HomeSet
    BY <1>25 DEF vars, ArrivedSet, HomeSet
  <2> QED
    BY <1>25, <2>1 DEF vars
<1> HIDE DEF IInv, Places, TypeOK, MainPlaces, WorkerPlaces, Counts,
             PassCounts, Passed, Arrived, Resting, Counted, During, Before,
             Leaving, Home
<1> QED
  BY <1>1, <1>2, <1>3, <1>4, <1>5, <1>6, <1>7, <1>8, <1>9, <1>10,
     <1>11, <1>12, <1>13, <1>14, <1>15, <1>16, <1>17, <1>18, <1>19,
     <1>20, <1>21, <1>22, <1>23, <1>24, <1>25
  DEF Next, MainStep, WorkerStep, Pass, Gone

-----------------------------------------------------------------------------
(* Claims and the barrier. *)

\* Nobody passes the barrier early.
LEMMA BarrierStep == IInv /\ [Next]_vars => Barrier'
<1> SUFFICES ASSUME IInv, [Next]_vars PROVE Barrier'
  OBVIOUS
<1> USE DEF IInv, Places, TypeOK, MainPlaces, WorkerPlaces, Barrier, Passed,
            Arrived, Resting, Counted, During, Before, Leaving, Home
<1>1. CASE Run
  BY <1>1 DEF Run, Reset
<1>2. CASE StartWorkers
  BY <1>2 DEF StartWorkers
<1>3. CASE Bump("bump", "look")
  BY <1>3 DEF Bump
<1>4. CASE Bump("ring", "wakeAll")
  BY <1>4 DEF Bump
<1>5. CASE LookForSleepers
  BY <1>5 DEF LookForSleepers
<1>6. CASE WakeAll("wake", "claim")
  BY <1>6 DEF WakeAll
<1>7. CASE WakeAll("wakeAll", "join")
  BY <1>7 DEF WakeAll
<1>8. CASE Return
  BY <1>8 DEF Return
<1>9. CASE Quit
  BY <1>9 DEF Quit
<1>10. CASE Join
  BY <1>10 DEF Join
<1>11. ASSUME NEW w \in Workers, Hear(w) PROVE Barrier'
  BY <1>11 DEF Hear, Rang
<1>12. ASSUME NEW w \in Workers, CountSleeper(w) PROVE Barrier'
  BY <1>12 DEF CountSleeper
<1>13. ASSUME NEW w \in Workers, Recheck(w) PROVE Barrier'
  BY <1>13 DEF Recheck
<1>14. ASSUME NEW w \in Workers, FutexWait(w) PROVE Barrier'
  BY <1>14 DEF FutexWait, FutexBlocks
<1>15. ASSUME NEW w \in Workers, SpuriousWake(w) PROVE Barrier'
  BY <1>15 DEF SpuriousWake
<1>16. ASSUME NEW w \in Workers, UncountSleeper(w) PROVE Barrier'
  BY <1>16 DEF UncountSleeper
<1>17. ASSUME NEW w \in Workers, CheckQuit(w) PROVE Barrier'
  BY <1>17 DEF CheckQuit
<1>18. ASSUME NEW l \in Lanes, ClaimTask(l) PROVE Barrier'
  BY <1>18 DEF ClaimTask
<1>19. ASSUME NEW l \in Lanes, Stamp(l) PROVE Barrier'
  BY <1>19 DEF Stamp
<1>20. ASSUME NEW l \in Lanes, Arrive(l) PROVE Barrier'
  BY <1>20 DEF Arrive
<1>21. ASSUME NEW l \in Lanes, PassBarrier(l) PROVE Barrier'
  <2>1. \A k \in Lanes : Arrived(k)
    BY <1>21, EveryoneArrived DEF PassBarrier
  <2> QED
    BY <1>21, <2>1 DEF PassBarrier
<1>22. ASSUME NEW l \in Lanes, ClaimBlock(l) PROVE Barrier'
  BY <1>22 DEF ClaimBlock
<1>23. ASSUME NEW l \in Lanes, Reduce(l) PROVE Barrier'
  BY <1>23 DEF Reduce
<1>24. ASSUME NEW w \in Workers, Finish(w) PROVE Barrier'
  BY <1>24 DEF Finish
<1>25. CASE UNCHANGED vars
  BY <1>25 DEF vars
<1> HIDE DEF IInv, Places, TypeOK, MainPlaces, WorkerPlaces, Barrier, Passed,
             Arrived, Resting, Counted, During, Before, Leaving, Home
<1> QED
  BY <1>1, <1>2, <1>3, <1>4, <1>5, <1>6, <1>7, <1>8, <1>9, <1>10,
     <1>11, <1>12, <1>13, <1>14, <1>15, <1>16, <1>17, <1>18, <1>19,
     <1>20, <1>21, <1>22, <1>23, <1>24, <1>25
  DEF Next, MainStep, WorkerStep, Pass, Gone

\* Nothing is claimed twice.
LEMMA ClaimsStep == IInv /\ [Next]_vars => Claims'
<1> SUFFICES ASSUME IInv, [Next]_vars PROVE Claims'
  OBVIOUS
<1> USE DEF IInv, Places, TypeOK, MainPlaces, WorkerPlaces, Claims, Resting,
            Counted, During, Before, Leaving, Home
<1>1. CASE Run
  BY <1>1 DEF Run, Reset
<1>2. CASE StartWorkers
  BY <1>2 DEF StartWorkers
<1>3. CASE Bump("bump", "look")
  BY <1>3 DEF Bump
<1>4. CASE Bump("ring", "wakeAll")
  BY <1>4 DEF Bump
<1>5. CASE LookForSleepers
  BY <1>5 DEF LookForSleepers
<1>6. CASE WakeAll("wake", "claim")
  BY <1>6 DEF WakeAll
<1>7. CASE WakeAll("wakeAll", "join")
  BY <1>7 DEF WakeAll
<1>8. CASE Return
  BY <1>8 DEF Return
<1>9. CASE Quit
  BY <1>9 DEF Quit
<1>10. CASE Join
  BY <1>10 DEF Join
<1>11. ASSUME NEW w \in Workers, Hear(w) PROVE Claims'
  BY <1>11 DEF Hear, Rang
<1>12. ASSUME NEW w \in Workers, CountSleeper(w) PROVE Claims'
  BY <1>12 DEF CountSleeper
<1>13. ASSUME NEW w \in Workers, Recheck(w) PROVE Claims'
  BY <1>13 DEF Recheck
<1>14. ASSUME NEW w \in Workers, FutexWait(w) PROVE Claims'
  BY <1>14 DEF FutexWait, FutexBlocks
<1>15. ASSUME NEW w \in Workers, SpuriousWake(w) PROVE Claims'
  BY <1>15 DEF SpuriousWake
<1>16. ASSUME NEW w \in Workers, UncountSleeper(w) PROVE Claims'
  BY <1>16 DEF UncountSleeper
<1>17. ASSUME NEW w \in Workers, CheckQuit(w) PROVE Claims'
  BY <1>17 DEF CheckQuit
<1>18. ASSUME NEW l \in Lanes, ClaimTask(l) PROVE Claims'
  BY <1>18 DEF ClaimTask
<1>19. ASSUME NEW l \in Lanes, Stamp(l) PROVE Claims'
  BY <1>19 DEF Stamp
<1>20. ASSUME NEW l \in Lanes, Arrive(l) PROVE Claims'
  BY <1>20 DEF Arrive
<1>21. ASSUME NEW l \in Lanes, PassBarrier(l) PROVE Claims'
  BY <1>21 DEF PassBarrier
<1>22. ASSUME NEW l \in Lanes, ClaimBlock(l) PROVE Claims'
  BY <1>22 DEF ClaimBlock
<1>23. ASSUME NEW l \in Lanes, Reduce(l) PROVE Claims'
  BY <1>23 DEF Reduce
<1>24. ASSUME NEW w \in Workers, Finish(w) PROVE Claims'
  BY <1>24 DEF Finish
<1>25. CASE UNCHANGED vars
  BY <1>25 DEF vars
<1> HIDE DEF IInv, Places, TypeOK, MainPlaces, WorkerPlaces, Claims, Resting,
             Counted, During, Before, Leaving, Home
<1> QED
  BY <1>1, <1>2, <1>3, <1>4, <1>5, <1>6, <1>7, <1>8, <1>9, <1>10,
     <1>11, <1>12, <1>13, <1>14, <1>15, <1>16, <1>17, <1>18, <1>19,
     <1>20, <1>21, <1>22, <1>23, <1>24, <1>25
  DEF Next, MainStep, WorkerStep, Pass, Gone

\* A phase ends with everything claimed.
LEMMA ProgressStep == IInv /\ [Next]_vars => Progress'
<1> SUFFICES ASSUME IInv, [Next]_vars PROVE Progress'
  OBVIOUS
<1> USE DEF IInv, Places, TypeOK, MainPlaces, WorkerPlaces, Barrier, Passed,
            Arrived, Resting, Counted, During, Before, Leaving, Home, Progress
<1>1. CASE Run
  BY <1>1 DEF Run, Reset
<1>2. CASE StartWorkers
  BY <1>2 DEF StartWorkers
<1>3. CASE Bump("bump", "look")
  BY <1>3 DEF Bump
<1>4. CASE Bump("ring", "wakeAll")
  BY <1>4 DEF Bump
<1>5. CASE LookForSleepers
  BY <1>5 DEF LookForSleepers
<1>6. CASE WakeAll("wake", "claim")
  BY <1>6 DEF WakeAll
<1>7. CASE WakeAll("wakeAll", "join")
  BY <1>7 DEF WakeAll
<1>8. CASE Return
  BY <1>8 DEF Return
<1>9. CASE Quit
  BY <1>9 DEF Quit
<1>10. CASE Join
  BY <1>10 DEF Join
<1>11. ASSUME NEW w \in Workers, Hear(w) PROVE Progress'
  BY <1>11 DEF Hear, Rang
<1>12. ASSUME NEW w \in Workers, CountSleeper(w) PROVE Progress'
  BY <1>12 DEF CountSleeper
<1>13. ASSUME NEW w \in Workers, Recheck(w) PROVE Progress'
  BY <1>13 DEF Recheck
<1>14. ASSUME NEW w \in Workers, FutexWait(w) PROVE Progress'
  BY <1>14 DEF FutexWait, FutexBlocks
<1>15. ASSUME NEW w \in Workers, SpuriousWake(w) PROVE Progress'
  BY <1>15 DEF SpuriousWake
<1>16. ASSUME NEW w \in Workers, UncountSleeper(w) PROVE Progress'
  BY <1>16 DEF UncountSleeper
<1>17. ASSUME NEW w \in Workers, CheckQuit(w) PROVE Progress'
  BY <1>17 DEF CheckQuit
<1>18. ASSUME NEW l \in Lanes, ClaimTask(l) PROVE Progress'
  BY <1>18 DEF ClaimTask
<1>19. ASSUME NEW l \in Lanes, Stamp(l) PROVE Progress'
  BY <1>19 DEF Stamp
<1>20. ASSUME NEW l \in Lanes, Arrive(l) PROVE Progress'
  BY <1>20 DEF Arrive
<1>21. ASSUME NEW l \in Lanes, PassBarrier(l) PROVE Progress'
  BY <1>21 DEF PassBarrier
<1>22. ASSUME NEW l \in Lanes, ClaimBlock(l) PROVE Progress'
  BY <1>22 DEF ClaimBlock
<1>23. ASSUME NEW l \in Lanes, Reduce(l) PROVE Progress'
  BY <1>23 DEF Reduce
<1>24. ASSUME NEW w \in Workers, Finish(w) PROVE Progress'
  BY <1>24 DEF Finish
<1>25. CASE UNCHANGED vars
  BY <1>25 DEF vars
<1> HIDE DEF IInv, Places, TypeOK, MainPlaces, WorkerPlaces, Barrier, Passed,
             Arrived, Resting, Counted, During, Before, Leaving, Home, Progress
<1> QED
  BY <1>1, <1>2, <1>3, <1>4, <1>5, <1>6, <1>7, <1>8, <1>9, <1>10,
     <1>11, <1>12, <1>13, <1>14, <1>15, <1>16, <1>17, <1>18, <1>19,
     <1>20, <1>21, <1>22, <1>23, <1>24, <1>25
  DEF Next, MainStep, WorkerStep, Pass, Gone

-----------------------------------------------------------------------------
(* The sums. *)

\* Between runs the staging is at rest and the planes are whole (SumsWhole).
LEMMA AtRest ==
  ASSUME IInv, pc[Main] = "idle"
  PROVE  /\ \A t \in Tasks, b \in Blocks : stage[t][b] = 0
         /\ job > 0 => \A b \in Blocks : plane[b] = job
<1>1. \A l \in Lanes : pc[l] \notin {"stamp", "reduce"}
  BY DEF IInv, Places, WorkerPlaces, During
<1>2. job \in Nat /\ nextTask \in Nat /\ nextBlock \in Nat
  BY DEF IInv, Places, TypeOK
<1>3. CASE job = 0
  BY <1>3 DEF IInv, Sums
<1>4. CASE nextTask >= NumTasks /\ nextBlock >= NumBlocks
  <2>1. \A b \in Blocks : Reduced(b)
    BY <1>1, <1>2, <1>4 DEF Reduced
  <2> QED
    BY <2>1 DEF IInv, Sums
<1> QED
  BY <1>3, <1>4 DEF IInv, Progress

\* Each action keeps the staging and the planes.
LEMMA SumsStep == IInv /\ [Next]_vars => Sums'
<1> SUFFICES ASSUME IInv, [Next]_vars PROVE Sums'
  OBVIOUS
<1> USE DEF IInv, Places, TypeOK, MainPlaces, WorkerPlaces, Claims, Resting,
            Counted, During, Before, Leaving, Home
<1>1. CASE Run
  <2>1. \A t \in Tasks, b \in Blocks : stage[t][b] = 0
    BY <1>1, AtRest DEF Run, Reset, IInv
  <2>2. \A t \in Tasks : ~Stamped(t)'
    BY <1>1 DEF Run, Reset, Stamped
  <2>3. \A b \in Blocks : ~Reduced(b)'
    BY <1>1 DEF Run, Reset, Reduced
  <2> QED
    BY <1>1, <2>1, <2>2, <2>3 DEF Run, Sums
<1>2. CASE StartWorkers
  <2>1. /\ \A t \in Tasks : Stamped(t)' <=> Stamped(t)
        /\ \A b \in Blocks : Reduced(b)' <=> Reduced(b)
    BY <1>2 DEF StartWorkers, Stamped, Reduced
  <2> QED
    BY <1>2, <2>1 DEF StartWorkers, Sums
<1>3. CASE Bump("bump", "look")
  <2>1. /\ \A t \in Tasks : Stamped(t)' <=> Stamped(t)
        /\ \A b \in Blocks : Reduced(b)' <=> Reduced(b)
    BY <1>3 DEF Bump, Stamped, Reduced
  <2> QED
    BY <1>3, <2>1 DEF Bump, Sums
<1>4. CASE Bump("ring", "wakeAll")
  <2>1. /\ \A t \in Tasks : Stamped(t)' <=> Stamped(t)
        /\ \A b \in Blocks : Reduced(b)' <=> Reduced(b)
    BY <1>4 DEF Bump, Stamped, Reduced
  <2> QED
    BY <1>4, <2>1 DEF Bump, Sums
<1>5. CASE LookForSleepers
  <2>1. /\ \A t \in Tasks : Stamped(t)' <=> Stamped(t)
        /\ \A b \in Blocks : Reduced(b)' <=> Reduced(b)
    BY <1>5 DEF LookForSleepers, Stamped, Reduced
  <2> QED
    BY <1>5, <2>1 DEF LookForSleepers, Sums
<1>6. CASE WakeAll("wake", "claim")
  <2>1. /\ \A t \in Tasks : Stamped(t)' <=> Stamped(t)
        /\ \A b \in Blocks : Reduced(b)' <=> Reduced(b)
    BY <1>6 DEF WakeAll, Stamped, Reduced
  <2> QED
    BY <1>6, <2>1 DEF WakeAll, Sums
<1>7. CASE WakeAll("wakeAll", "join")
  <2>1. /\ \A t \in Tasks : Stamped(t)' <=> Stamped(t)
        /\ \A b \in Blocks : Reduced(b)' <=> Reduced(b)
    BY <1>7 DEF WakeAll, Stamped, Reduced
  <2> QED
    BY <1>7, <2>1 DEF WakeAll, Sums
<1>8. CASE Return
  <2>1. /\ \A t \in Tasks : Stamped(t)' <=> Stamped(t)
        /\ \A b \in Blocks : Reduced(b)' <=> Reduced(b)
    BY <1>8 DEF Return, Stamped, Reduced
  <2> QED
    BY <1>8, <2>1 DEF Return, Sums
<1>9. CASE Quit
  <2>1. /\ \A t \in Tasks : Stamped(t)' <=> Stamped(t)
        /\ \A b \in Blocks : Reduced(b)' <=> Reduced(b)
    BY <1>9 DEF Quit, Stamped, Reduced
  <2> QED
    BY <1>9, <2>1 DEF Quit, Sums
<1>10. CASE Join
  <2>1. /\ \A t \in Tasks : Stamped(t)' <=> Stamped(t)
        /\ \A b \in Blocks : Reduced(b)' <=> Reduced(b)
    BY <1>10 DEF Join, Stamped, Reduced
  <2> QED
    BY <1>10, <2>1 DEF Join, Sums
<1>11. ASSUME NEW w \in Workers, Hear(w) PROVE Sums'
  <2>1. /\ \A t \in Tasks : Stamped(t)' <=> Stamped(t)
        /\ \A b \in Blocks : Reduced(b)' <=> Reduced(b)
    BY <1>11 DEF Hear, Rang, Stamped, Reduced
  <2> QED
    BY <1>11, <2>1 DEF Hear, Rang, Sums
<1>12. ASSUME NEW w \in Workers, CountSleeper(w) PROVE Sums'
  <2>1. /\ \A t \in Tasks : Stamped(t)' <=> Stamped(t)
        /\ \A b \in Blocks : Reduced(b)' <=> Reduced(b)
    BY <1>12 DEF CountSleeper, Stamped, Reduced
  <2> QED
    BY <1>12, <2>1 DEF CountSleeper, Sums
<1>13. ASSUME NEW w \in Workers, Recheck(w) PROVE Sums'
  <2>1. /\ \A t \in Tasks : Stamped(t)' <=> Stamped(t)
        /\ \A b \in Blocks : Reduced(b)' <=> Reduced(b)
    BY <1>13 DEF Recheck, Stamped, Reduced
  <2> QED
    BY <1>13, <2>1 DEF Recheck, Sums
<1>14. ASSUME NEW w \in Workers, FutexWait(w) PROVE Sums'
  <2>1. /\ \A t \in Tasks : Stamped(t)' <=> Stamped(t)
        /\ \A b \in Blocks : Reduced(b)' <=> Reduced(b)
    BY <1>14 DEF FutexWait, FutexBlocks, Stamped, Reduced
  <2> QED
    BY <1>14, <2>1 DEF FutexWait, FutexBlocks, Sums
<1>15. ASSUME NEW w \in Workers, SpuriousWake(w) PROVE Sums'
  <2>1. /\ \A t \in Tasks : Stamped(t)' <=> Stamped(t)
        /\ \A b \in Blocks : Reduced(b)' <=> Reduced(b)
    BY <1>15 DEF SpuriousWake, Stamped, Reduced
  <2> QED
    BY <1>15, <2>1 DEF SpuriousWake, Sums
<1>16. ASSUME NEW w \in Workers, UncountSleeper(w) PROVE Sums'
  <2>1. /\ \A t \in Tasks : Stamped(t)' <=> Stamped(t)
        /\ \A b \in Blocks : Reduced(b)' <=> Reduced(b)
    BY <1>16 DEF UncountSleeper, Stamped, Reduced
  <2> QED
    BY <1>16, <2>1 DEF UncountSleeper, Sums
<1>17. ASSUME NEW w \in Workers, CheckQuit(w) PROVE Sums'
  <2>1. /\ \A t \in Tasks : Stamped(t)' <=> Stamped(t)
        /\ \A b \in Blocks : Reduced(b)' <=> Reduced(b)
    BY <1>17 DEF CheckQuit, Stamped, Reduced
  <2> QED
    BY <1>17, <2>1 DEF CheckQuit, Sums
<1>18. ASSUME NEW l \in Lanes, ClaimTask(l) PROVE Sums'
  <2>1. /\ \A t \in Tasks : Stamped(t)' <=> Stamped(t)
        /\ \A b \in Blocks : Reduced(b)' <=> Reduced(b)
    BY <1>18 DEF ClaimTask, Stamped, Reduced
  <2> QED
    BY <1>18, <2>1 DEF ClaimTask, Sums
<1>19. ASSUME NEW l \in Lanes, Stamp(l) PROVE Sums'
  <2>1. ~Arrived(l) /\ pc[Main] \in During
    BY <1>19 DEF Stamp, MainPlaces, WorkerPlaces, Arrived, Passed
  <2>2. nextBlock = 0
    BY <2>1 DEF Progress
  <2>3. \A b \in Blocks : ~Reduced(b) /\ ~Reduced(b)'
    BY <1>19, <2>2 DEF Stamp, Reduced
  <2>4. held[l] \in Tasks /\ Stamped(held[l])'
    BY <1>19 DEF Stamp, Stamped, Claims
  <2>5. \A t \in Tasks \ {held[l]} : Stamped(t)' <=> Stamped(t)
    BY <1>19 DEF Stamp, Stamped
  <2>6. \A t \in Tasks, b \in Blocks : stage'[t][b] = IF t = held[l] THEN job ELSE stage[t][b]
    BY <1>19 DEF Stamp, Stagings
  <2> QED
    BY <1>19, <2>3, <2>4, <2>5, <2>6 DEF Stamp, Sums
<1>20. ASSUME NEW l \in Lanes, Arrive(l) PROVE Sums'
  <2>1. /\ \A t \in Tasks : Stamped(t)' <=> Stamped(t)
        /\ \A b \in Blocks : Reduced(b)' <=> Reduced(b)
    BY <1>20 DEF Arrive, Stamped, Reduced
  <2> QED
    BY <1>20, <2>1 DEF Arrive, Sums
<1>21. ASSUME NEW l \in Lanes, PassBarrier(l) PROVE Sums'
  <2>1. /\ \A t \in Tasks : Stamped(t)' <=> Stamped(t)
        /\ \A b \in Blocks : Reduced(b)' <=> Reduced(b)
    BY <1>21 DEF PassBarrier, Stamped, Reduced
  <2> QED
    BY <1>21, <2>1 DEF PassBarrier, Sums
<1>22. ASSUME NEW l \in Lanes, ClaimBlock(l) PROVE Sums'
  <2>1. /\ \A t \in Tasks : Stamped(t)' <=> Stamped(t)
        /\ \A b \in Blocks : Reduced(b)' <=> Reduced(b)
    BY <1>22 DEF ClaimBlock, Stamped, Reduced
  <2> QED
    BY <1>22, <2>1 DEF ClaimBlock, Sums
<1>23. ASSUME NEW l \in Lanes, Reduce(l) PROVE Sums'
  <2>1. Passed(l) /\ pc[Main] \in During
    BY <1>23 DEF Reduce, MainPlaces, WorkerPlaces, Passed
  <2>2. \A k \in Lanes : Arrived(k)
    BY <2>1 DEF Barrier
  <2>3. \A t \in Tasks : Stamped(t) /\ Stamped(t)'
    <3>1. nextTask >= NumTasks
      BY <2>1, <2>2 DEF Progress
    <3>2. \A k \in Lanes : pc[k] # "stamp"
      BY <2>2 DEF Arrived, Passed
    <3>3. \A k \in Lanes : pc'[k] # "stamp"
      BY <1>23, <3>2 DEF Reduce
    <3>4. nextTask' = nextTask
      BY <1>23 DEF Reduce
    <3> QED
      BY <3>1, <3>2, <3>3, <3>4 DEF Stamped
  <2>4. \A b \in Blocks : b = held[l] => ~Reduced(b) /\ Reduced(b)'
    BY <1>23 DEF Reduce, Reduced, Claims
  <2>5. \A b \in Blocks \ {held[l]} : Reduced(b)' <=> Reduced(b)
    BY <1>23 DEF Reduce, Reduced
  <2>6. \A t \in Tasks, b \in Blocks : stage'[t][b] = IF b = held[l] THEN 0 ELSE stage[t][b]
    BY <1>23 DEF Reduce, Stagings
  <2>7. \A t \in Tasks : stage[t][held[l]] = job
    <3>1. held[l] \in Blocks /\ ~Reduced(held[l])
      BY <1>23, <2>4 DEF Reduce, Claims
    <3> QED
      BY <2>3, <3>1 DEF Sums
  <2>8. plane' = [plane EXCEPT ![held[l]] = job]
    BY <1>23, <2>7 DEF Reduce
  <2>9. job' = job
    BY <1>23 DEF Reduce
  <2>10. ASSUME NEW t \in Tasks, NEW b \in Blocks
         PROVE  stage'[t][b] = IF Stamped(t)' /\ ~Reduced(b)' THEN job' ELSE 0
    <3>1. CASE b = held[l]
      BY <3>1, <2>4, <2>6
    <3>2. CASE b # held[l]
      BY <3>2, <2>3, <2>5, <2>6, <2>9 DEF Sums
    <3> QED
      BY <3>1, <3>2
  <2>11. ASSUME NEW b \in Blocks, Reduced(b)' PROVE plane'[b] = job'
    <3>1. CASE b = held[l]
      BY <3>1, <2>8, <2>9
    <3>2. CASE b # held[l]
      BY <3>2, <2>11, <2>5, <2>8, <2>9 DEF Sums
    <3> QED
      BY <3>1, <3>2
  <2> QED
    BY <2>10, <2>11 DEF Sums
<1>24. ASSUME NEW w \in Workers, Finish(w) PROVE Sums'
  <2>1. /\ \A t \in Tasks : Stamped(t)' <=> Stamped(t)
        /\ \A b \in Blocks : Reduced(b)' <=> Reduced(b)
    BY <1>24 DEF Finish, Stamped, Reduced
  <2> QED
    BY <1>24, <2>1 DEF Finish, Sums
<1>25. CASE UNCHANGED vars
  <2>1. /\ \A t \in Tasks : Stamped(t)' <=> Stamped(t)
        /\ \A b \in Blocks : Reduced(b)' <=> Reduced(b)
    BY <1>25 DEF vars, Stamped, Reduced
  <2> QED
    BY <1>25, <2>1 DEF vars, Sums
<1> HIDE DEF IInv, Places, TypeOK, MainPlaces, WorkerPlaces, Claims, Resting,
             Counted, During, Before, Leaving, Home
<1> QED
  BY <1>1, <1>2, <1>3, <1>4, <1>5, <1>6, <1>7, <1>8, <1>9, <1>10,
     <1>11, <1>12, <1>13, <1>14, <1>15, <1>16, <1>17, <1>18, <1>19,
     <1>20, <1>21, <1>22, <1>23, <1>24, <1>25
  DEF Next, MainStep, WorkerStep, Pass, Gone

-----------------------------------------------------------------------------
(* The theorems. *)

\* The initial state satisfies the invariant.
LEMMA Start == Init => IInv
<1> SUFFICES ASSUME Init PROVE IInv
  OBVIOUS
<1>1. TypeOK
  <2>1. quit \in BOOLEAN /\ started \in BOOLEAN
    BY Zenon DEF Init
  <2>2. stage \in Stagings
    BY DEF Init, Stagings
  <2> QED
    BY <2>1, <2>2 DEF Init, TypeOK
<1>2. MainPlaces /\ WorkerPlaces
  BY DEF Init, MainPlaces, WorkerPlaces, Before, During, Leaving
<1>3. SleepingSet = {}
  BY DEF Init, SleepingSet, Counted
<1>4. Counts
  BY <1>3, Finite DEF Init, Counts, SleepCount, PassCounts, Before, During
<1>5. Barrier /\ Claims /\ Progress
  BY DEF Init, Barrier, Claims, Progress, Before, During
<1>6. Sums
  BY DEF Init, Sums, Stamped, Reduced
<1> QED
  BY <1>1, <1>2, <1>4, <1>5, <1>6 DEF IInv, Places

\* And every step keeps it.
LEMMA Invariance == Spec => []IInv
<1>1. IInv /\ [Next]_vars => IInv'
  BY TypeStep, MainStepPlaces, WorkerStepPlaces, SleepStep, PassCountStep,
     BarrierStep, ClaimsStep, ProgressStep, SumsStep DEF IInv, Places, Counts
<1> QED
  BY Start, <1>1, PTL DEF Spec

\* The types hold: no counter of sleepers or of lanes ever goes below zero.
THEOREM TypeCorrect == Spec => []TypeOK
<1>1. IInv => TypeOK
  BY DEF IInv, Places
<1> QED
  BY <1>1, Invariance, PTL

\* No lane stamps while another reduces.
THEOREM PhasesStayApart == Spec => []PhasesApart
<1>1. IInv => PhasesApart
  <2> SUFFICES ASSUME IInv, NEW l \in Lanes, NEW k \in Lanes, pc[l] \in Reducing
               PROVE  pc[k] \notin Stamping
    BY DEF PhasesApart
  <2>1. pc[Main] \in During /\ Passed(l)
    BY DEF IInv, Places, WorkerPlaces, During, Passed
  <2>2. Arrived(k)
    BY <2>1 DEF IInv, Barrier
  <2> QED
    BY <2>2 DEF Arrived, Passed, Home, Resting, Counted
<1> QED
  BY <1>1, Invariance, PTL

\* Every run returns whole sums and leaves the staging at rest.
THEOREM SumsAreWhole == Spec => []SumsWhole
<1>1. IInv => SumsWhole
  BY AtRest DEF SumsWhole
<1> QED
  BY <1>1, Invariance, PTL

\* The arguments of a pass stay put while a worker may read them.
THEOREM JobStaysQuiet == Spec => JobQuiet
<1> DEFINE Quiet == job' # job => \A w \in Workers : pc[w] \notin InPass \union {"heard"}
<1>1. IInv /\ [Next]_vars => [Quiet]_vars
  <2> SUFFICES ASSUME IInv, [Next]_vars, job' # job PROVE Quiet
    OBVIOUS
  <2>1. pc[Main] = "idle"
    BY DEF Next, MainStep, WorkerStep, Pass, Gone, Run, StartWorkers, Bump, LookForSleepers,
           WakeAll, Return, Quit, Join, Hear, CountSleeper, Recheck, FutexWait,
           SpuriousWake, UncountSleeper, CheckQuit, ClaimTask, Stamp, Arrive,
           PassBarrier, ClaimBlock, Reduce, Finish, vars
  <2> QED
    BY <2>1 DEF IInv, Places, MainPlaces, WorkerPlaces, Home, Resting, Counted,
               During, Before, Leaving
<1> QED
  BY <1>1, Invariance, PTL DEF Spec, JobQuiet
=============================================================================

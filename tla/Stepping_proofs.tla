-------------------------- MODULE Stepping_proofs --------------------------
(***************************************************************************)
(* For every set of jobs and number of rows: a session that its caller     *)
(* drives with any mix of runs, steps, appends, refusals and releases is   *)
(* never stuck, and keeps what Pool alone keeps.  A run of the pool serves *)
(* every row that can start, and its urgent stack stays in bounds.         *)
(***************************************************************************)
EXTENDS Session_proofs, Stepping

\* Every thread at work is in the pool, which is empty between calls.
Manned ==
  /\ \A i \in Row : worker[i] # "idle" => i \in pool
  /\ pc = "idle" => pool = {}

\* The rows a call has still to start are ready, and on no thread.
Called ==
  /\ \A i \in ids : i \in Rows /\ Startable(i)
  /\ ids # {} => pc \in {"stepFill", "stepWait", "stepScan"}

\* A split query has lanes.
Laned == \A g \in Rows : IsSplit(g) => LanesOf(g) # {}

\* With the invariants of Pool, whose theorems rest on them.
Held == Typed /\ Threads /\ Sharing /\ Whole

Driven == Held /\ Manned /\ Called /\ Laned

-----------------------------------------------------------------------------
(* What the session is to its drivers. *)

quietVars ==
  <<rowVars, status, readers, rootReaders, running, released, execVars, worker, stop, cancelled>>

LEMMA NoPeers == ASSUME NEW i PROVE {} \in Gathered(i)
<1>1. Cardinality({}) = 0
  BY FS_EmptySet
<1> QED
  BY <1>1, PoolAssumption DEF Gathered

LEMMA QuietDriven ==
  ASSUME Held, UNCHANGED quietVars, permits' \in Nat
  PROVE  Held' /\ Decides
<1>1. UNCHANGED shareVars /\ UNCHANGED threadVars /\ UNCHANGED graphVars
  BY DEF quietVars, shareVars, threadVars, graphVars, rowVars, execVars
<1>2. Typed'
  BY DEF Held, Typed, quietVars, rowVars, execVars
<1>3. Threads'
  BY <1>1 DEF Held, threadVars, Threads, Batches, Flags, Leaders, Stops, BatchOf, IsSplit, Rows
<1> QED
  BY <1>1, <1>2, <1>3, QuietSharing, QuietWhole DEF Held

\* A row started on its own.
LEMMA StartDriven ==
  ASSUME Held, Lanes = "gpu" => ~TimingInDepth, NEW i \in Rows, Startable(i),
         Launch(i, {}) \/ LaunchFails(i, {})
  PROVE  Held' /\ Decides
<1>0. Rows \subseteq Row /\ {} \in Gathered(i)
  BY NoPeers, SessionAssumption DEF Held, Typed, Rows, Row
<1>1. Threads' /\ Sharing'
  BY <1>0, LaunchThreads, FailsThreads, LaunchSharing, FailsSharing DEF Held
<1>2. CASE Launch(i, {})
  <2>1. Typed'
    BY <1>0, <1>2 DEF Launch, rowVars, Held, Typed
  <2>2. Whole' /\ Decides
    BY <1>2, QuietWhole DEF Held, Launch, rowVars, graphVars
  <2> QED
    BY <1>1, <2>1, <2>2 DEF Held
<1>3. CASE LaunchFails(i, {})
  <2>1. Typed'
    BY <1>0, <1>3 DEF LaunchFails, rowVars, workVars, Held, Typed
  <2> DEFINE out == [r \in {i} |-> "failed"]
  <2>2. PICK built \in SUBSET Row : Settle({i}, out, built)
    BY <1>0, <1>3 DEF LaunchFails
  <2>3. UNCHANGED <<n, job, dep, owner>>
    BY <1>3 DEF LaunchFails, rowVars
  <2>4. \A r \in {i} : /\ ~IsSplit(r) /\ status[r] \in {"pending", "paused"} /\ Rests(r)
                       /\ out[r] \in {"paused", "complete", "failed", "cancelled"}
    BY StartableRests DEF Held
  <2> HIDE DEF out
  <2>5. Whole' /\ Decides
    BY <2>2, <2>3, <2>4, SettleWhole DEF Held, Decides
  <2> QED
    BY <1>1, <2>1, <2>5 DEF Held
<1> QED
  BY <1>2, <1>3

\* A stopped row settled.
LEMMA SettleDriven ==
  ASSUME Held, NEW i \in Rows, SettleRow(i)
  PROVE  Held' /\ Decides
<1>0. Rows \subseteq Row
  BY SessionAssumption DEF Held, Typed, Rows, Row
<1>1. Typed'
  BY <1>0 DEF SettleRow, rowVars, Held, Typed
<1>2. Threads' /\ Sharing'
  BY SettleThreads, SettleRowSharing DEF Held
<1>3. Whole' /\ Decides
  BY SettleRowWhole DEF Held
<1> QED
  BY <1>1, <1>2, <1>3 DEF Held

-----------------------------------------------------------------------------
(* Who works is in the pool; who is called can start. *)

LEMMA MannedStep ==
  ASSUME Held, Manned, [Next]_allVars \/ StepNext
  PROVE  Manned'
<1>0. Rows \subseteq Row /\ worker \in [Row -> {"idle", "working", "stopped"}]
  BY SessionAssumption DEF Held, Typed, Rows, Row
<1> USE DEF Manned
<1>1. CASE UNCHANGED <<worker, pool>> /\ (pc' = "idle" => pool = {})
  BY <1>1
<1>2. ASSUME NEW i \in Rows, NEW P, Launch(i, P), pool' = pool \union {i}, pc' # "idle" PROVE Manned'
  BY <1>0, <1>2 DEF Launch
<1>3. ASSUME NEW i \in Rows, SettleRow(i), pool' = pool \ {i}, pc' # "idle" PROVE Manned'
  BY <1>0, <1>3 DEF SettleRow
<1>4. CASE FillOne \/ \E i \in Rows : StepStart(i)
  <2>1. PICK i \in Rows : \E P :
          \/ Launch(i, P) /\ pool' = pool \union {i}
          \/ LaunchFails(i, P) /\ UNCHANGED pool
    BY <1>4 DEF FillOne, StepStart
  <2>2. pc' # "idle"
    BY <1>4 DEF FillOne, StepStart
  <2>3. ASSUME NEW P, LaunchFails(i, P), UNCHANGED pool PROVE Manned'
    BY <1>1, <2>2, <2>3 DEF LaunchFails, workVars
  <2> QED
    BY <1>2, <2>1, <2>2, <2>3
<1>5. ASSUME NEW i \in Rows, ScanStopped(i) \/ ScanRunning(i) \/ AbortSettle(i) \/ StepScan(i)
      PROVE  Manned'
  <2>1. pc' # "idle"
    BY <1>5 DEF ScanStopped, ScanRunning, AbortSettle, StepScan
  <2>2. CASE UNCHANGED <<vars, pool>>
    BY <1>1, <2>1, <2>2 DEF vars, workVars
  <2> QED
    BY <1>3, <1>5, <2>1, <2>2 DEF ScanStopped, ScanRunning, AbortSettle, StepScan
<1>6. CASE RunStep /\ UNCHANGED poolVars
  <2>1. PICK i \in Rows : (\E r \in Rows : SetUp(i, r)) \/ Park(i) \/ End(i) \/ FailFirst(i)
    BY <1>6 DEF RunStep
  <2>2. worker[i] = "working"
    BY <2>1 DEF SetUp, Park, End, FailFirst
  <2>3. UNCHANGED worker \/ worker' = [worker EXCEPT ![i] = "stopped"]
    BY <2>1 DEF SetUp, Park, End, FailFirst, Stop, workVars
  <2> QED
    BY <1>0, <1>6, <2>2, <2>3 DEF poolVars
<1>7. CASE Caller
  <2>1. UNCHANGED worker
    BY <1>7 DEF Caller, AppendJob, Refuse, Release, workVars
  <2> QED
    BY <1>7, <2>1 DEF Caller, poolVars
<1>8. CASE Dry \/ Aborted \/ StepFilled
  BY <1>1, <1>8 DEF Dry, Aborted, StepFilled, RunOver, vars, workVars
<1>9. CASE Wait \/ Abort \/ StepWait
  BY <1>1, <1>9 DEF Wait, Abort, StepWait
<1>10. CASE Full \/ ScanDone \/ Add \/ StepScanned
  BY <1>1, <1>10 DEF Full, ScanDone, Add, StepScanned, vars, workVars
<1>11. CASE AdvanceReady \/ \E i \in Rows : Advance(i)
  BY <1>1, <1>11 DEF AdvanceReady, Advance, Call, vars, workVars
<1>12. CASE UNCHANGED allVars
  BY <1>1, <1>12 DEF allVars, poolVars, vars, workVars
<1> QED
  BY <1>4, <1>5, <1>6, <1>7, <1>8, <1>9, <1>10, <1>11, <1>12 DEF StepNext, Next, CoordStep

\* A row that can start still can once others have stopped or failed.
LEMMA StaysStartable ==
  ASSUME Held, NEW B \in SUBSET Rows, NEW built \in SUBSET Row, NEW out,
         Settle(B, out, built), UNCHANGED <<n, job, dep, owner>>,
         \A r \in B : status[r] \notin Ended,
         NEW x \in Rows, Startable(x), x \notin B, ~running'[x]
  PROVE  Startable(x)'
<1>0. Rows \subseteq Row
  BY SessionAssumption DEF Held, Typed, Rows, Row
<1>1. ~IsSplit(x) /\ status[x] \notin Ended /\ Rests(x)
  BY StartableRests DEF Held, Ended
<1>2. status'[x] = status[x]
  BY <1>0, <1>1, SettleLeaves
<1>3. dep[x] # None => status'[dep[x]] = "complete"
  <2> SUFFICES ASSUME dep[x] # None PROVE status'[dep[x]] = "complete"
    OBVIOUS
  <2>1. dep[x] \in Rows /\ ~IsSplit(dep[x]) /\ status[dep[x]] = "complete"
    BY <1>1 DEF Held, Sharing, Shape, Rests, IsSplit
  <2>2. dep[x] \notin B
    BY <2>1 DEF Ended
  <2> QED
    BY <1>0, <2>1, <2>2, SettleLeaves
<1> QED
  BY <1>1, <1>2, <1>3 DEF Startable, Ready, Terminal, EffectiveStatus, IsSplit, Ended, None

\* The first row in scheduler order is one of them.
LEMMA FirstIsOne ==
  ASSUME Typed, NEW S \in SUBSET Rows, S # {}
  PROVE  FirstOf(S) \in S
<1> DEFINE later == {r \in S : r >= cursor}
           some == IF later # {} THEN later ELSE S
<1>1. some \in SUBSET Rows /\ some # {}
  OBVIOUS
<1>2. FirstOf(S) = Min(some)
  BY DEF FirstOf
<1> HIDE DEF some
<1>3. \E l \in some : \A m \in some : l <= m
  BY <1>1, FirstRow
<1>4. Min(some) \in some
  BY <1>3 DEF Min
<1>5. some \subseteq S
  BY DEF some
<1> QED
  BY <1>2, <1>4, <1>5

\* A full pool is not empty.
LEMMA StillSome == Cardinality(pool) >= Limit => pool # {}
  BY PoolAssumption, FS_EmptySet

LEMMA CalledStep ==
  ASSUME Held, Manned, Called, [StepNext]_everything
  PROVE  Called'
<1>0. Rows \subseteq Row
  BY SessionAssumption DEF Held, Typed, Rows, Row
<1>1. CASE UNCHANGED <<ids, n, job, dep, owner, status, running>>
           /\ (ids = {} \/ pc' \in {"stepFill", "stepWait", "stepScan"})
  BY <1>1 DEF Called, Startable, Ready, Terminal, EffectiveStatus, IsSplit, Rows
<1>2. CASE ids = {} /\ UNCHANGED ids
  BY <1>2 DEF Called
<1>3. CASE RunStep /\ UNCHANGED poolVars /\ UNCHANGED stepVars
  <2>1. UNCHANGED <<n, job, dep, owner, status, running>>
    BY <1>3 DEF RunStep, SetUp, Park, End, FailFirst, Stop, rowVars
  <2> QED
    BY <1>1, <1>3, <2>1 DEF poolVars, stepVars, Called
<1>4. CASE Next /\ ~(RunStep /\ UNCHANGED poolVars) /\ UNCHANGED stepVars
  <2>1. pc \in {"idle", "fill", "wait", "scan", "abort"}
    BY <1>4 DEF Next, CoordStep, Caller, Add, Abort, FillOne, Full, Dry, Wait, ScanDone,
               Aborted, ScanStopped, ScanRunning, AbortSettle
  <2> QED
    BY <1>2, <1>4, <2>1 DEF Called, stepVars
<1>5. CASE AdvanceReady \/ \E i \in Rows : Advance(i)
  <2>1. PICK rows \in SUBSET Rows, last \in Rows : Call(rows, last) /\ pc = "idle" /\ \A r \in rows : Ready(r)
    <3>1. CASE AdvanceReady
      BY <3>1 DEF AdvanceReady
    <3>2. ASSUME NEW i \in Rows, Advance(i)
          PROVE  \E rows \in SUBSET Rows, last \in Rows :
                   Call(rows, last) /\ pc = "idle" /\ \A r \in rows : Ready(r)
      <4> DEFINE next == FirstOf(Steps(i))
      <4>1. Call({next}, next) /\ pc = "idle" /\ Steps(i) # {} /\ Steps(i) \in SUBSET Rows
        BY <3>2 DEF Advance, Steps
      <4>2. next \in Steps(i)
        BY <4>1, FirstIsOne DEF Held
      <4>3. next \in Rows /\ Ready(next)
        BY <4>2 DEF Steps
      <4> HIDE DEF next
      <4>4. {next} \in SUBSET Rows /\ \A r \in {next} : Ready(r)
        BY <4>3
      <4> QED
        BY <4>1, <4>4
    <3> QED
      BY <1>5, <3>1, <3>2
  <2>2. \A r \in Row : ~running[r]
    BY <2>1 DEF Held, Threads, Flags, Manned
  <2> QED
    BY <1>0, <2>1, <2>2 DEF Call, Called, Startable, Ready, Terminal, EffectiveStatus, IsSplit,
                            Rows, vars, rowVars
<1>6. ASSUME NEW i \in Rows, StepStart(i) PROVE Called'
  <2>1. /\ i \in ids /\ ids' = ids \ {i} /\ pc' = "stepFill" /\ Startable(i)
        /\ Launch(i, {}) \/ LaunchFails(i, {})
    BY <1>6 DEF StepStart, Called
  <2>2. CASE Launch(i, {})
    BY <1>0, <2>1, <2>2 DEF Launch, rowVars, Called, Startable, Ready, Terminal, EffectiveStatus,
                            IsSplit, Rows
  <2>3. CASE LaunchFails(i, {})
    <3> DEFINE out == [r \in {i} |-> "failed"]
    <3>1. PICK built \in SUBSET Row : Settle({i}, out, built)
      BY <1>0, <2>3 DEF LaunchFails
    <3>2. UNCHANGED <<n, job, dep, owner, running>>
      BY <2>3 DEF LaunchFails, rowVars
    <3>3. status[i] \notin Ended
      BY <2>1, StartableRests DEF Held, Ended
    <3> HIDE DEF out
    <3>4. \A x \in Rows : Startable(x) /\ x # i => Startable(x)'
      BY <3>1, <3>2, <3>3, StaysStartable DEF Startable
    <3> QED
      BY <2>1, <3>2, <3>4 DEF Called, Rows
  <2> QED
    BY <2>1, <2>2, <2>3
<1>7. ASSUME NEW i \in Rows, StepScan(i) PROVE Called'
  <2>1. UNCHANGED ids /\ pc' = "stepScan"
    BY <1>7 DEF StepScan, stepVars
  <2>2. CASE SettleRow(i)
    <3> DEFINE out == [r \in BatchOf(i) |-> IF r = i THEN Outcome(i) ELSE PeerOutcome(i, r)]
    <3>1. /\ Settle(BatchOf(i), out, {}) /\ UNCHANGED <<n, job, dep, owner>> /\ worker[i] = "stopped"
          /\ running' = [r \in Row |-> running[r] /\ r \notin BatchOf(i)]
      BY <2>2 DEF SettleRow, rowVars
    <3>2. BatchOf(i) \subseteq Rows /\ \A r \in BatchOf(i) : running[r]
      BY <1>0, <3>1 DEF Held, Threads, Batches, Flags, BatchOf
    <3>3. \A r \in BatchOf(i) : status[r] \notin Ended
      BY <1>0, <3>2 DEF Held, Sharing, Live, Ended
    <3> HIDE DEF out
    <3>4. \A x \in Rows : Startable(x) => x \notin BatchOf(i) /\ ~running'[x]
      BY <1>0, <3>1, <3>2 DEF Startable
    <3>5. \A x \in Rows : Startable(x) => Startable(x)'
      BY <3>1, <3>2, <3>3, <3>4, StaysStartable
    <3> QED
      BY <2>1, <3>1, <3>5 DEF Called, Rows
  <2>3. CASE UNCHANGED vars
    BY <1>1, <2>1, <2>3 DEF vars, rowVars
  <2> QED
    BY <1>7, <2>2, <2>3 DEF StepScan
<1>8. CASE StepFilled
  <2>1. UNCHANGED <<ids, n, job, dep, owner, status, running>>
    BY <1>8 DEF StepFilled, RunOver, vars, rowVars, stepVars
  <2>2. ids = {} \/ pc' = "stepWait"
    BY <1>8, StillSome DEF StepFilled
  <2> QED
    BY <1>1, <2>1, <2>2
<1>9. CASE StepWait \/ StepScanned
  BY <1>1, <1>9 DEF StepWait, StepScanned, vars, rowVars, stepVars
<1>10. CASE UNCHANGED everything
  BY <1>1, <1>10 DEF everything, allVars, poolVars, stepVars, vars, rowVars, Called
<1> QED
  BY <1>3, <1>4, <1>5, <1>6, <1>7, <1>8, <1>9, <1>10 DEF StepNext

-----------------------------------------------------------------------------
(* All of it together. *)

LEMMA HeldStep ==
  ASSUME Lanes = "gpu" => ~TimingInDepth, Held, Called, [StepNext]_everything
  PROVE  Held' /\ (Decides \/ Appends)
<1>1. CASE [Next]_allVars
  <2>1. Typed' /\ Threads'
    BY <1>1, TypedStep, ThreadsStep DEF Held
  <2> QED
    BY <1>1, <2>1, SharingStep, WholeStep DEF Held
<1>2. CASE UNCHANGED quietVars /\ permits' \in Nat
  BY <1>2, QuietDriven
<1>3. ASSUME NEW i \in Rows, StepStart(i) PROVE Held' /\ Decides
  <2>1. Startable(i) /\ (Launch(i, {}) \/ LaunchFails(i, {}))
    BY <1>3 DEF StepStart, Called
  <2> QED
    BY <2>1, StartDriven
<1>4. permits \in Nat
  BY DEF Held, Typed
<1>5. ASSUME NEW i \in Rows, StepScan(i) PROVE Held' /\ Decides
  <2>1. CASE SettleRow(i)
    BY <2>1, SettleDriven
  <2>2. CASE UNCHANGED vars
    <3>1. UNCHANGED quietVars /\ permits' \in Nat
      BY <1>4, <2>2 DEF vars, workVars, quietVars
    <3> QED
      BY <3>1, QuietDriven
  <2> QED
    BY <1>5, <2>1, <2>2 DEF StepScan
<1>6. CASE AdvanceReady \/ (\E i \in Rows : Advance(i)) \/ StepScanned
  BY <1>2, <1>4, <1>6 DEF AdvanceReady, Advance, Call, StepScanned, vars, workVars, quietVars
<1>7. CASE StepFilled \/ StepWait
  BY <1>2, <1>4, <1>7 DEF StepFilled, StepWait, RunOver, vars, workVars, quietVars
<1> QED
  BY <1>1, <1>3, <1>5, <1>6, <1>7 DEF StepNext, everything

LEMMA LanedStep ==
  ASSUME Held, Laned, [Next]_allVars \/ StepNext
  PROVE  Laned'
<1>1. CASE UNCHANGED <<n, job, owner>>
  BY <1>1 DEF Laned, LanesOf, IsSplit, Rows
<1>2. ASSUME NEW j \in Jobs, AppendJob(j) PROVE Laned'
  <2> DEFINE added == Rows' \ Rows
  <2>1. /\ n <= n' /\ n' \in Nat /\ n \in Nat
        /\ \A r \in Rows : job'[r] = job[r] /\ owner'[r] = owner[r]
    BY <1>2, AppendGrows DEF Held, Typed
  <2>2. Rows \subseteq Rows'
    BY <2>1 DEF Rows
  <2>3. \A g \in added : IsSplit(g)' => \E l \in added : owner'[l] = g
    BY <1>2, AppendAdds DEF Held, Sharing
  <2>4. ASSUME NEW g \in Rows', IsSplit(g)' PROVE LanesOf(g)' # {}
    <3>1. CASE g \in Rows
      <4>1. PICK l \in Rows : owner[l] = g
        BY <2>1, <2>4, <3>1 DEF Laned, LanesOf, IsSplit
      <4> QED
        BY <2>1, <2>2, <4>1 DEF LanesOf
    <3>2. CASE g \notin Rows
      BY <2>3, <2>4, <3>2 DEF LanesOf
    <3> QED
      BY <3>1, <3>2
  <2> QED
    BY <2>4 DEF Laned
<1>3. ASSUME NEW i \in Rows,
             Refuse(i) \/ Release(i) \/ SettleRow(i) \/ UNCHANGED vars
               \/ (\E P : Launch(i, P) \/ LaunchFails(i, P))
               \/ (\E r \in Rows : SetUp(i, r)) \/ Park(i) \/ End(i) \/ FailFirst(i)
      PROVE  Laned'
  BY <1>1, <1>3 DEF Refuse, Release, SettleRow, Launch, LaunchFails, SetUp, Park, End, FailFirst,
                    Stop, vars, rowVars
<1>4. CASE FillOne \/ \E i \in Rows : StepStart(i)
  BY <1>3, <1>4 DEF FillOne, StepStart
<1>5. ASSUME NEW i \in Rows, ScanStopped(i) \/ ScanRunning(i) \/ AbortSettle(i) \/ StepScan(i)
      PROVE  Laned'
  BY <1>3, <1>5 DEF ScanStopped, ScanRunning, AbortSettle, StepScan
<1>6. CASE RunStep
  BY <1>3, <1>6 DEF RunStep
<1>7. CASE Caller
  BY <1>2, <1>3, <1>7 DEF Caller
<1>8. CASE Dry \/ Aborted \/ StepFilled \/ Wait \/ Abort \/ StepWait
  BY <1>1, <1>8 DEF Dry, Aborted, StepFilled, RunOver, Wait, Abort, StepWait, vars, rowVars
<1>9. CASE Full \/ ScanDone \/ Add \/ StepScanned \/ AdvanceReady \/ \E i \in Rows : Advance(i)
  BY <1>1, <1>9 DEF Full, ScanDone, Add, StepScanned, AdvanceReady, Advance, Call, vars, rowVars
<1>10. CASE UNCHANGED allVars
  BY <1>1, <1>10 DEF allVars, vars, rowVars
<1> QED
  BY <1>4, <1>5, <1>6, <1>7, <1>8, <1>9, <1>10 DEF StepNext, Next, CoordStep

LEMMA DrivenInvariant ==
  ASSUME Lanes = "gpu" => ~TimingInDepth
  PROVE  /\ StepInit => Driven
         /\ Driven /\ [StepNext]_everything => Driven' /\ (Decides \/ Appends)
<1>1. StepInit => Driven
  <2> SUFFICES ASSUME StepInit PROVE Driven
    OBVIOUS
  <2>1. PoolInit /\ Typed /\ Threads /\ Sharing
    BY InitIInv, InitSharing DEF StepInit
  <2>2. Rows = {}
    BY <2>1 DEF PoolInit, Init, Rows
  <2>3. Whole
    BY <2>1, <2>2 DEF PoolInit, Init, Whole, StatusTyped, Splits, Ends
  <2> QED
    BY <2>1, <2>2, <2>3 DEF PoolInit, Init, StepInit, Driven, Held, Manned, Called, Laned
<1>2. Driven /\ [StepNext]_everything => Driven' /\ (Decides \/ Appends)
  BY HeldStep, MannedStep, CalledStep, LanedStep DEF Driven, everything
<1> QED
  BY <1>1, <1>2

\* A query that has not ended is ready, or waits for a row that is.
LEMMA SomeReady ==
  ASSUME Held, Laned, NEW q \in Rows, ~Terminal(q)
  PROVE  Steps(q) # {}
<1>1. status[q] \notin Ended /\ ~NoResult(q)
  BY DEF Terminal, EffectiveStatus, NoResult, Ended
<1>2. CASE dep[q] # None /\ status[dep[q]] # "complete"
  <2>1. dep[q] \in Rows /\ ~IsSplit(dep[q]) /\ dep[dep[q]] = None
    BY <1>2 DEF Held, Sharing, Shape, Whole, Splits, IsSplit
  <2>2. status[dep[q]] \notin Ended
    BY <1>1, <1>2 DEF NoResult
  <2>3. dep[q] \in Steps(q)
    BY <2>1, <2>2 DEF Steps, InScope, Ready, Terminal, EffectiveStatus
  <2> QED
    BY <2>3
<1>3. CASE Rests(q) /\ ~IsSplit(q)
  <2>1. q \in Steps(q)
    BY <1>3 DEF Steps, InScope, Ready, Rests
  <2> QED
    BY <2>1
<1>4. CASE Rests(q) /\ IsSplit(q)
  <2>1. PICK l \in Rows : owner[l] = q /\ status[l] \notin Ended
    BY <1>1, <1>4 DEF Held, Laned, Whole, Ends, LanesOf
  <2>2. dep[l] = dep[q] /\ ~IsSplit(l)
    BY <1>4, <2>1 DEF Held, Whole, Splits, IsSplit, None, Rows
  <2>3. l \in Steps(q)
    BY <1>4, <2>1, <2>2 DEF Steps, InScope, Ready, Terminal, EffectiveStatus, Rests, Ended
  <2> QED
    BY <2>3
<1> QED
  BY <1>2, <1>3, <1>4 DEF Rests

\* advance never fails with error.SchedulingFailure, whatever runs, steps,
\* failures, refusals and releases came before.
THEOREM AdvanceSucceeds ==
  ASSUME Lanes = "gpu" => ~TimingInDepth
  PROVE  StepSpec => []NeverStuck
<1>1. Driven => NeverStuck
  BY SomeReady DEF Driven, NeverStuck
<1> QED
  BY <1>1, DrivenInvariant, PTL DEF StepSpec

\* Also with steps between its runs, the session implements QueryGraph.
THEOREM SteppingKeepsGraph ==
  ASSUME Lanes = "gpu" => ~TimingInDepth
  PROVE  StepSpec => KeepsGraph
<1>1. StepInit => Graph!Init
  <2> SUFFICES ASSUME StepInit PROVE Graph!Init
    OBVIOUS
  <2>1. Rows = {} /\ \A r \in Row : ~(r <= n)
    BY SessionAssumption DEF StepInit, PoolInit, Init, Rows, Row
  <2> QED
    BY <2>1 DEF StepInit, PoolInit, Init, Graph!Init, None
<1>2. Driven /\ Driven' /\ (Decides \/ Appends) => Graph!Add \/ Graph!Decide
  BY StepMaps DEF Driven, Held
<1>3. Driven => Graph!Consistent
  BY IsConsistent DEF Driven, Held
<1>4. (Graph!Add \/ Graph!Decide) /\ Graph!Consistent' => [Graph!Next]_(Graph!vars)
  BY DEF Graph!Next
<1> QED
  BY <1>1, <1>2, <1>3, <1>4, DrivenInvariant, PTL DEF StepSpec, KeepsGraph, Graph!Spec

\* Steps keep threads apart: no row is on two, whoever started them.
THEOREM SteppingKeepsThreadsApart ==
  ASSUME Lanes = "gpu" => ~TimingInDepth
  PROVE  StepSpec => []OneThreadPerRow
<1>1. Driven => OneThreadPerRow
  BY BatchesAreApart DEF Driven, Held
<1> QED
  BY <1>1, DrivenInvariant, PTL DEF StepSpec

\* A stepped row, too, finds the device state it has to copy whole.
THEOREM SteppingKeepsSources ==
  ASSUME Lanes = "gpu" => ~TimingInDepth
  PROVE  StepSpec => []SourceIntact
<1>1. Driven => SourceIntact
  BY SharingIsIntact DEF Driven, Held
<1> QED
  BY <1>1, DrivenInvariant, PTL DEF StepSpec

-----------------------------------------------------------------------------
(* Who is cancelled, with steps between the runs. *)

LEMMA SteppedCancels ==
  ASSUME Lanes = "gpu" => ~TimingInDepth, ~LeaderMayFailFirst, Driven, Cancels,
         [StepNext]_everything
  PROVE  Cancels'
<1>1. CASE [Next]_allVars
  BY <1>1, CancelsStep DEF Driven, Held
<1>2. CASE UNCHANGED cancelVars
  BY <1>2 DEF cancelVars, threadVars, Cancels, Accounted, BatchOf, IsSplit, Rows
<1>3. ASSUME NEW i \in Rows, StepStart(i) PROVE Cancels'
  <2>1. Startable(i) /\ {} \in Gathered(i) /\ (Launch(i, {}) \/ LaunchFails(i, {}))
    BY <1>3, NoPeers DEF StepStart, Driven, Called
  <2> QED
    BY <2>1, FillCancels DEF Driven, Held
<1>4. ASSUME NEW i \in Rows, StepScan(i) PROVE Cancels'
  <2>1. CASE SettleRow(i)
    BY <2>1, SettleCancels DEF Driven, Held
  <2>2. CASE UNCHANGED vars
    BY <1>2, <2>2 DEF vars, rowVars, execVars, workVars, threadVars, cancelVars
  <2> QED
    BY <1>4, <2>1, <2>2 DEF StepScan
<1>5. CASE AdvanceReady \/ (\E i \in Rows : Advance(i)) \/ StepScanned
  BY <1>2, <1>5 DEF AdvanceReady, Advance, Call, StepScanned, vars, rowVars, execVars, workVars,
                    threadVars, cancelVars
<1>6. CASE StepFilled \/ StepWait
  BY <1>2, <1>6 DEF StepFilled, StepWait, RunOver, vars, rowVars, execVars, workVars, threadVars,
                    cancelVars
<1> QED
  BY <1>1, <1>3, <1>4, <1>5, <1>6 DEF StepNext, everything

\* With steps between the runs, too, a row reads as cancelled only if its own
\* thread was told to cancel.
THEOREM SteppingKeepsCancels ==
  ASSUME Lanes = "gpu" => ~TimingInDepth, ~LeaderMayFailFirst
  PROVE  StepSpec => []CancelledOnlyByCancel
<1>1. StepInit => Cancels
  BY DEF StepInit, PoolInit, Init, Cancels
<1>2. Driven /\ Cancels => CancelledOnlyByCancel
  BY CancelsAreOwn DEF Driven, Held
<1> QED
  BY <1>1, <1>2, SteppedCancels, DrivenInvariant, PTL DEF StepSpec

-----------------------------------------------------------------------------
(* Sleep, peers, memory and types, with steps between the runs. *)

\* A stepping call, too, sleeps only with somebody left to wake it.
CallWakes ==
  pc = "stepWait" /\ permits = 0 => \E i \in pool : worker[i] = "working"

LEMMA SteppedWakeup ==
  ASSUME Typed, Wakeup, [StepNext]_everything
  PROVE  Wakeup'
<1>0. Rows \subseteq Row
  BY SessionAssumption DEF Typed, Rows, Row
<1>1. CASE [Next]_allVars
  BY <1>1, WakeupStep
<1> USE DEF Wakeup
<1>2. ASSUME NEW i \in Rows, StepStart(i) PROVE Wakeup'
  <2>1. /\ pc = "stepFill" /\ UNCHANGED <<pc, toScan, permits, n>>
        /\ \/ pool' = pool \union {i} /\ worker' = [worker EXCEPT ![i] = "working"]
           \/ UNCHANGED <<pool, worker>>
    BY <1>2 DEF StepStart, Launch, LaunchFails, workVars, rowVars
  <2> QED
    BY <1>0, <2>1 DEF Typed, Rows
<1>3. ASSUME NEW i \in Rows, StepScan(i) PROVE Wakeup'
  <2>1. /\ toScan' = toScan \ {i} /\ UNCHANGED <<n, permits, pc>> /\ pc = "stepScan"
        /\ \/ pool' = pool \ {i} /\ worker' = [worker EXCEPT ![i] = "idle"]
           \/ worker[i] = "working" /\ UNCHANGED <<pool, worker>>
    BY <1>3 DEF StepScan, SettleRow, vars, rowVars, workVars
  <2> QED
    BY <1>0, <2>1 DEF Typed, Rows
<1>4. CASE AdvanceReady \/ \E i \in Rows : Advance(i)
  <2>1. pc = "idle" /\ pc' = "stepFill" /\ UNCHANGED <<n, permits, pool, toScan, worker>>
    BY <1>4 DEF AdvanceReady, Advance, Call, vars, rowVars, workVars
  <2> QED
    BY <2>1 DEF Rows
<1>5. CASE StepFilled
  BY <1>5 DEF StepFilled, RunOver, vars, rowVars, workVars, Rows
<1>6. CASE StepWait
  BY <1>6 DEF StepWait, WaitAll, rowVars, Rows
<1>7. CASE StepScanned
  BY <1>7 DEF StepScanned, vars, rowVars, workVars, Rows
<1> QED
  BY <1>1, <1>2, <1>3, <1>4, <1>5, <1>6, <1>7 DEF StepNext, everything

\* No wake-up is lost, whether the coordinator sleeps in a run of the pool or
\* in a stepping call with its own semaphore.
THEOREM SteppingLosesNoWakeup ==
  ASSUME Lanes = "gpu" => ~TimingInDepth
  PROVE  StepSpec => [](NoLostWakeup /\ CallWakes)
<1>1. StepInit => Wakeup
  BY InitIInv DEF StepInit
<1>2. Driven /\ Wakeup /\ [StepNext]_everything => Wakeup'
  BY SteppedWakeup DEF Driven, Held
<1>3. Driven /\ Wakeup => NoLostWakeup /\ CallWakes
  BY Awakes DEF NoLostWakeup, CallWakes, Driven, Held
<1> QED
  BY <1>1, <1>2, <1>3, DrivenInvariant, PTL DEF StepSpec

\* With steps between the runs, too, settlePeers finds every peer running.
THEOREM SteppingKeepsPeers ==
  ASSUME Lanes = "gpu" => ~TimingInDepth
  PROVE  StepSpec => []PeersStillRunning
<1>1. Driven => PeersStillRunning
  BY PeersAtWork DEF Driven, Held
<1> QED
  BY <1>1, DrivenInvariant, PTL DEF StepSpec

LEMMA SteppedKept ==
  ASSUME Driven, Kept, [StepNext]_everything
  PROVE  Kept'
<1>1. CASE [Next]_allVars
  BY <1>1, KeptStep DEF Driven, Held
<1>2. CASE UNCHANGED keptVars
  BY <1>2, QuietKept DEF Driven, Held
<1>3. ASSUME NEW i \in Rows, StepStart(i) PROVE Kept'
  <2>1. Startable(i) /\ {} \in Gathered(i) /\ (Launch(i, {}) \/ LaunchFails(i, {}))
    BY <1>3, NoPeers DEF StepStart, Driven, Called
  <2> QED
    BY <1>2, <2>1, StartKept DEF Driven, Held
<1>4. ASSUME NEW i \in Rows, StepScan(i) PROVE Kept'
  <2>1. CASE SettleRow(i)
    BY <2>1, SettleRowKept DEF Driven, Held
  <2>2. CASE UNCHANGED vars
    BY <1>2, <2>2 DEF vars, rowVars, execVars, keptVars
  <2> QED
    BY <1>4, <2>1, <2>2 DEF StepScan
<1>5. CASE AdvanceReady \/ (\E i \in Rows : Advance(i)) \/ StepScanned
  BY <1>2, <1>5 DEF AdvanceReady, Advance, Call, StepScanned, vars, rowVars, execVars, keptVars
<1>6. CASE StepFilled \/ StepWait
  BY <1>2, <1>6 DEF StepFilled, StepWait, RunOver, vars, rowVars, execVars, keptVars
<1> QED
  BY <1>1, <1>3, <1>4, <1>5, <1>6 DEF StepNext, everything

\* A final plan that is stepped gives all device state back as well.
THEOREM SteppingKeepsNothing ==
  ASSUME Lanes = "gpu" => ~TimingInDepth
  PROVE  StepSpec => []NothingKept
<1>1. StepInit => Kept
  BY DEF StepInit, PoolInit, Init, Kept, Rows
<1>2. Driven /\ Kept => NothingKept
  BY KeptIsGiven DEF Driven, Held
<1> QED
  BY <1>1, <1>2, SteppedKept, DrivenInvariant, PTL DEF StepSpec

LEMMA SteppedFields ==
  ASSUME Driven, Fields, [StepNext]_everything
  PROVE  Fields'
<1>1. CASE [Next]_allVars
  BY <1>1, FieldsStep DEF Driven, Held
<1>2. CASE UNCHANGED <<rowVars, status, readers, rootReaders, running, released, execVars,
                       worker, stop, cancelled>>
  BY <1>2 DEF rowVars, execVars, Fields
<1>3. ASSUME NEW i \in Rows, StepStart(i) PROVE Fields'
  <2>1. Launch(i, {}) \/ LaunchFails(i, {})
    BY <1>3 DEF StepStart
  <2> QED
    BY <2>1, StartFields DEF Driven, Held
<1>4. ASSUME NEW i \in Rows, StepScan(i) PROVE Fields'
  <2>1. CASE SettleRow(i)
    BY <2>1, SettleRowFields DEF Driven, Held
  <2>2. CASE UNCHANGED vars
    BY <1>2, <2>2 DEF vars, workVars
  <2> QED
    BY <1>4, <2>1, <2>2 DEF StepScan
<1>5. CASE AdvanceReady \/ (\E i \in Rows : Advance(i)) \/ StepScanned
  BY <1>2, <1>5 DEF AdvanceReady, Advance, Call, StepScanned, vars, workVars
<1>6. CASE StepFilled \/ StepWait
  BY <1>2, <1>6 DEF StepFilled, StepWait, RunOver, vars, workVars
<1> QED
  BY <1>1, <1>3, <1>4, <1>5, <1>6 DEF StepNext, everything

\* Every variable of the session keeps its type under both drivers.
THEOREM SteppingTypeCorrect ==
  ASSUME Lanes = "gpu" => ~TimingInDepth
  PROVE  StepSpec => []TypeOK
<1>1. StepInit => Fields
  BY InitFields DEF StepInit
<1>2. Driven /\ Fields => TypeOK
  BY DEF Driven, Held, Typed, Sharing, StateTyped, Counts, Counted, Whole, StatusTyped, Fields, TypeOK
<1> QED
  BY <1>1, <1>2, SteppedFields, DrivenInvariant, PTL DEF StepSpec

-----------------------------------------------------------------------------
(* What releasing frees, with steps between the runs. *)

LEMMA SteppedFreed ==
  ASSUME Driven, Freed, [StepNext]_everything
  PROVE  Freed'
<1>1. CASE [Next]_allVars
  BY <1>1, FreedStep DEF Driven, Held
<1>2. CASE UNCHANGED freedVars
  BY <1>2, QuietFreed
<1>3. ASSUME NEW i \in Rows, StepStart(i) PROVE Freed'
  <2>1. Startable(i) /\ {} \in Gathered(i) /\ (Launch(i, {}) \/ LaunchFails(i, {}))
    BY <1>3, NoPeers DEF StepStart, Driven, Called
  <2> QED
    BY <2>1, StartFreed DEF Driven, Held
<1>4. ASSUME NEW i \in Rows, StepScan(i) PROVE Freed'
  <2>1. CASE SettleRow(i)
    BY <2>1, SettleRowFreed DEF Driven, Held
  <2>2. CASE UNCHANGED vars
    BY <1>2, <2>2 DEF vars, rowVars, execVars, freedVars
  <2> QED
    BY <1>4, <2>1, <2>2 DEF StepScan
<1>5. CASE AdvanceReady \/ (\E i \in Rows : Advance(i)) \/ StepScanned
  BY <1>2, <1>5 DEF AdvanceReady, Advance, Call, StepScanned, vars, rowVars, execVars, freedVars
<1>6. CASE StepFilled \/ StepWait
  BY <1>2, <1>6 DEF StepFilled, StepWait, RunOver, vars, rowVars, execVars, freedVars
<1> QED
  BY <1>1, <1>3, <1>4, <1>5, <1>6 DEF StepNext, everything

\* A released row holds nothing and never runs again, and an operating point
\* that nobody asked for goes with the last row that reads it: what release
\* leaves behind is what nobody released, the lanes of a split query.
THEOREM ReleasedRowsAreFree ==
  ASSUME Lanes = "gpu" => ~TimingInDepth
  PROVE  StepSpec => []ReleasedIsFree
<1>1. StepInit => Freed
  BY DEF StepInit, PoolInit, Init, Freed, Rows
<1> QED
  BY <1>1, FreedIsFree, SteppedFreed, DrivenInvariant, PTL DEF StepSpec

\* Whole queries, and nothing but operating points beside what was asked for.
Unsplit ==
  \A r \in Rows : /\ job[r].lanes = 0 /\ owner[r] = None
                  /\ dep[r] # None => requested[r]

LEMMA SteppedUnsplit ==
  ASSUME \A j \in Jobs : j.lanes = 0, Held, Unsplit, [StepNext]_everything
  PROVE  Unsplit'
<1>1. CASE UNCHANGED rowVars
  BY <1>1 DEF rowVars, Unsplit, Rows
<1>2. ASSUME NEW j \in Jobs, AppendJob(j) PROVE Unsplit'
  <2> DEFINE added == Rows' \ Rows
  <2>1. \A r \in Rows : job'[r] = job[r] /\ owner'[r] = owner[r]
    BY <1>2, AppendGrows DEF Held
  <2>2. \A r \in Rows : dep'[r] = dep[r]
    BY <1>2, AppendAdds DEF Held, Sharing
  <2>3. \A r \in Rows : requested[r] => requested'[r]
    BY <1>2, AppendAdds DEF Held, Sharing
  <2>4. \A r \in added : job'[r].lanes \in {0, j.lanes}
    BY <1>2, AppendAdds DEF Held, Sharing
  <2>5. \A r \in added : dep'[r] # None /\ owner'[r] = None => requested'[r]
    BY <1>2, AppendAdds DEF Held, Sharing
  <2>6. \A r \in added : owner'[r] # None => \E g \in added : IsSplit(g)'
    BY <1>2, AppendAdds DEF Held, Sharing
  <2>7. \A r \in added : job'[r].lanes = 0 /\ owner'[r] = None
    BY <2>4, <2>6 DEF IsSplit
  <2> QED
    BY <2>1, <2>2, <2>3, <2>5, <2>7 DEF Unsplit
<1>3. CASE CoordStep \/ Add \/ Abort \/ RunStep
  <2>1. UNCHANGED rowVars
    BY <1>3 DEF CoordStep, FillOne, Launch, LaunchFails, Full, Dry, RunOver, Wait, ScanDone,
      Aborted, ScanStopped, ScanRunning, AbortSettle, SettleRow, Add, Abort, RunStep, SetUp,
      Park, End, FailFirst, Stop, vars
  <2> QED
    BY <1>1, <2>1
<1>4. CASE Caller
  <2>1. ASSUME NEW i \in Rows, Refuse(i) \/ Release(i) PROVE UNCHANGED rowVars
    BY <2>1 DEF Refuse, Release
  <2> QED
    BY <1>1, <1>2, <1>4, <2>1 DEF Caller
<1>5. CASE (\E i \in Rows : StepStart(i) \/ StepScan(i) \/ Advance(i)) \/ AdvanceReady
           \/ StepFilled \/ StepWait \/ StepScanned
  <2>1. UNCHANGED rowVars
    BY <1>5 DEF StepStart, Launch, LaunchFails, StepScan, SettleRow, Advance, AdvanceReady, Call,
      StepFilled, RunOver, StepWait, StepScanned, vars
  <2> QED
    BY <1>1, <2>1
<1>6. CASE UNCHANGED everything
  BY <1>1, <1>6 DEF everything, allVars, vars
<1> QED
  BY <1>3, <1>4, <1>5, <1>6 DEF StepNext, Next

\* Where no query is split, releasing a query frees all that was built for
\* it, as the doc of release has it.
THEOREM UnsplitReleaseFreesAll ==
  ASSUME Lanes = "gpu" => ~TimingInDepth, \A j \in Jobs : j.lanes = 0
  PROVE  StepSpec => []ReleaseFreesAll
<1>1. StepInit => Freed /\ Unsplit
  BY DEF StepInit, PoolInit, Init, Freed, Unsplit, Rows
<1>2. Driven /\ Freed /\ Unsplit => ReleaseFreesAll
  <2> SUFFICES ASSUME Held, Freed, Unsplit, NEW g \in Rows, released[g]
               PROVE  /\ \A l \in LanesOf(g) : ~exec[l]
                      /\ dep[g] # None /\ ~requested[dep[g]]
                           /\ (\A r \in Rows : dep[r] = dep[g] /\ requested[r] => released[r])
                         => ~exec[dep[g]]
    BY DEF ReleaseFreesAll, Driven
  <2>1. LanesOf(g) = {}
    BY DEF Unsplit, LanesOf, Rows, None
  <2>2. ASSUME dep[g] # None, ~requested[dep[g]],
               \A r \in Rows : dep[r] = dep[g] /\ requested[r] => released[r]
        PROVE  ~exec[dep[g]]
    <3>1. dep[g] \in Rows
      BY <2>2 DEF Held, Sharing, Shape
    <3>2. g \in Dependents(dep[g])
      BY DEF Dependents, Unsplit, IsSplit
    <3>3. \A r \in Dependents(dep[g]) : released[r]
      BY <2>2 DEF Dependents, Unsplit
    <3> QED
      BY <2>2, <3>1, <3>2, <3>3 DEF Freed
  <2> QED
    BY <2>1, <2>2
<1>3. Driven => Held
  BY DEF Driven
<1> QED
  BY <1>1, <1>2, <1>3, SteppedFreed, SteppedUnsplit, DrivenInvariant, PTL DEF StepSpec

-----------------------------------------------------------------------------
(* The lines of Pool.fill. *)

InLine == queue \union ToSet(urgent)

Distinct(s) == \A k, m \in DOMAIN s : s[k] = s[m] => k = m

\* Nobody is in line twice, and all have what they wait for.
Lines ==
  /\ queue \subseteq Rows /\ urgent \in Seq(Rows) /\ Distinct(urgent)
  /\ queue \intersect ToSet(urgent) = {}
  /\ \A x \in InLine : Rests(x)

\* While a run lasts, who can start is in line, and who leads is not.
Served ==
  pc \in {"fill", "wait", "scan"} =>
    /\ \A x \in Rows : Startable(x) => x \in InLine
    /\ \A x \in InLine : worker[x] = "idle"

LEMMA Enumerates ==
  ASSUME NEW S, IsFiniteSet(S), NEW new \in SetToSeqs(S)
  PROVE  new \in Seq(S) /\ ToSet(new) = S /\ Distinct(new)
<1> DEFINE D == 1..Cardinality(S)
<1>1. Cardinality(S) \in Nat
  BY FS_CardinalityType
<1>2. new \in [D -> S] /\ \A k, m \in D : k # m => new[k] # new[m]
  BY DEF SetToSeqs
<1>3. new \in Injection(D, S)
  BY <1>2 DEF Injection, IsInjective
<1>4. IsFiniteSet(D) /\ Cardinality(D) = Cardinality(S)
  BY <1>1, FS_Interval
<1>5. new \in Surjection(D, S)
  BY <1>3, <1>4, FS_Injection
<1>6. ToSet(new) = S
  BY <1>2, <1>5 DEF Surjection, ToSet
<1> QED
  BY <1>1, <1>2, <1>6 DEF Distinct

\* Nobody twice in line: the stack has at most one entry per row.
LEMMA LinesFit == Typed /\ Lines => UrgentFits
<1> SUFFICES ASSUME Typed, Lines PROVE UrgentFits
  OBVIOUS
<1>1. n \in Nat /\ Len(urgent) \in Nat /\ DOMAIN urgent = 1..Len(urgent)
  BY SessionAssumption DEF Typed, Lines
<1>2. urgent \in Injection(1..Len(urgent), Rows)
  BY <1>1 DEF Lines, Distinct, Injection, IsInjective
<1>3. IsFiniteSet(Rows) /\ Cardinality(Rows) = n
  BY <1>1, FS_Interval DEF Rows
<1>4. \A k \in Nat : Cardinality(1..k) = k
  BY FS_Interval
<1>5. Len(urgent) <= n
  BY <1>2, <1>3, <1>4, FS_Injection
<1>6. \A k \in DOMAIN urgent : urgent[k] \notin queue
  BY DEF Lines, ToSet
<1> QED
  BY <1>5, <1>6 DEF Lines, Distinct, UrgentFits

\* A row keeps what it rests on.
LEMMA RestsStay ==
  ASSUME Held, Decides \/ Appends, NEW x \in Rows, Rests(x)
  PROVE  x \in Rows' /\ Rests(x)'
<1>1. Rows \subseteq Rows' /\ dep'[x] = dep[x]
  BY DEF Decides, Appends, Rows, Held, Typed
<1>2. ASSUME NEW d \in Rows, status[d] = "complete" PROVE status'[d] = "complete"
  <2>1. Terminal(d) /\ EffectiveStatus(d) = "complete"
    BY <1>2 DEF Terminal, EffectiveStatus, Ended
  <2>2. EffectiveStatus(d)' = "complete"
    BY <2>1 DEF Decides, Appends
  <2> QED
    BY <2>2 DEF EffectiveStatus
<1>3. dep[x] # None => dep[x] \in Rows
  BY DEF Held, Sharing, Shape
<1> QED
  BY <1>1, <1>2, <1>3 DEF Rests

\* What is looked through is dropped from the lines.
Shrinks ==
  /\ queue' \subseteq queue
  /\ urgent' \in Seq(Rows) /\ Len(urgent') <= Len(urgent)
  /\ \A k \in 1..Len(urgent') : urgent'[k] = urgent[k]

LEMMA ShrunkLines ==
  ASSUME Held, Lines, Decides \/ Appends, Shrinks
  PROVE  Lines' /\ InLine' \subseteq InLine
<1>1. /\ urgent \in Seq(Rows) /\ queue \subseteq Rows
      /\ \A k, m \in 1..Len(urgent) : urgent[k] = urgent[m] => k = m
  BY DEF Lines, Distinct
<1>2. PICK u : u = urgent'
  OBVIOUS
<1>3. /\ u \in Seq(Rows) /\ Len(u) <= Len(urgent)
      /\ \A k \in 1..Len(u) : k \in 1..Len(urgent) /\ u[k] = urgent[k]
  BY <1>1, <1>2 DEF Shrinks
<1>4. DOMAIN u = 1..Len(u) /\ ToSet(u) \subseteq ToSet(urgent)
  BY <1>1, <1>3 DEF ToSet
<1>5. Distinct(u)
  BY <1>1, <1>3, <1>4 DEF Distinct
<1>6. \A x \in InLine : x \in Rows
  BY <1>1 DEF InLine, ToSet
<1>7. Rows \subseteq Rows'
  BY DEF Decides, Appends, Rows, Held, Typed
<1>8. queue' \subseteq queue /\ queue' \subseteq Rows' /\ u \in Seq(Rows')
  BY <1>1, <1>3, <1>7 DEF Shrinks
<1>9. InLine' \subseteq InLine
  BY <1>2, <1>4, <1>8 DEF InLine
<1>10. \A x \in InLine' : Rests(x)'
  BY <1>6, <1>9, RestsStay DEF Lines
<1> QED
  BY <1>2, <1>4, <1>5, <1>8, <1>9, <1>10 DEF Lines

LEMMA SameLines ==
  ASSUME Held, Lines, Decides \/ Appends, UNCHANGED <<queue, urgent>>
  PROVE  Lines' /\ InLine' = InLine
<1>1. Shrinks
  BY DEF Shrinks, Lines
<1> QED
  BY <1>1, ShrunkLines DEF InLine

\* The stack keeps what is below entry k.
LEMMA CutAt ==
  ASSUME NEW u, u \in Seq(Rows), NEW k \in 1..Len(u) + 1
  PROVE  LET v == SubSeq(u, 1, k - 1) IN
         v \in Seq(Rows) /\ Len(v) = k - 1 /\ \A m \in 1..k - 1 : v[m] = u[m]
  OBVIOUS

\* nextReady takes one row out of the lines, and none that could start.
LEMMA NextTakes ==
  ASSUME Lines, NEW i \in Rows, NextIs(i)
  PROVE  /\ Startable(i) /\ Shrinks /\ i \notin InLine'
         /\ \A x \in InLine : Startable(x) /\ x # i => x \in InLine'
<1>1. /\ urgent \in Seq(Rows) /\ queue \subseteq Rows /\ i \in Int
      /\ \A k, m \in 1..Len(urgent) : urgent[k] = urgent[m] => k = m
      /\ DOMAIN urgent = 1..Len(urgent) /\ Len(urgent) \in Nat
      /\ \A x \in queue : x \in Int /\ \A k \in 1..Len(urgent) : urgent[k] # x
  <2>1. \A x \in Rows : x \in Int
    BY DEF Rows
  <2>2. urgent \in Seq(Rows) /\ queue \subseteq Rows
    BY DEF Lines
  <2>3. DOMAIN urgent = 1..Len(urgent) /\ Len(urgent) \in Nat
    BY <2>2
  <2>4. \A x \in queue : \A k \in 1..Len(urgent) : urgent[k] # x
    BY <2>3 DEF Lines, ToSet
  <2> QED
    BY <2>1, <2>2, <2>3, <2>4 DEF Lines, Distinct
<1>2. CASE FromUrgent(i) /\ queue' \in {queue, {}} /\ (queue' = {} => QueueHeads = {} \/ queue = {})
  <2>1. PICK k \in UrgentTops : /\ \A m \in UrgentTops : m <= k
                                /\ i = urgent[k] /\ urgent' = SubSeq(urgent, 1, k - 1)
    BY <1>2 DEF FromUrgent
  <2>2. k \in 1..Len(urgent) /\ Startable(i)
    BY <1>1, <2>1 DEF UrgentTops
  <2>3. PICK u : u = urgent'
    OBVIOUS
  <2>4. u \in Seq(Rows) /\ Len(u) = k - 1 /\ \A m \in 1..k - 1 : u[m] = urgent[m]
    BY <1>1, <2>1, <2>2, <2>3, CutAt
  <2>5. Shrinks
    BY <1>1, <1>2, <2>2, <2>3, <2>4 DEF Shrinks
  <2>6. i \notin InLine'
    <3>1. \A m \in 1..k - 1 : u[m] # i
      BY <1>1, <2>1, <2>2, <2>4
    <3>2. i \notin ToSet(u)
      BY <2>4, <3>1 DEF ToSet
    <3>3. i \notin queue'
      BY <1>1, <1>2, <2>1, <2>2
    <3> QED
      BY <2>3, <3>2, <3>3 DEF InLine
  <2>7. ASSUME NEW x \in InLine, Startable(x), x # i PROVE x \in InLine'
    <3>1. CASE x \in queue
      BY <1>2, <2>7, <3>1 DEF QueueHeads, InLine
    <3>2. ASSUME NEW m \in 1..Len(urgent), x = urgent[m] PROVE x \in InLine'
      <4>1. m \in UrgentTops
        BY <1>1, <2>7, <3>2 DEF UrgentTops
      <4>2. m \in 1..k - 1
        BY <2>1, <2>2, <2>7, <3>2, <4>1
      <4>3. x \in ToSet(u)
        BY <2>4, <3>2, <4>2 DEF ToSet
      <4> QED
        BY <2>3, <4>3 DEF InLine
    <3> QED
      BY <1>1, <2>7, <3>1, <3>2 DEF InLine, ToSet
  <2> QED
    BY <2>2, <2>5, <2>6, <2>7
<1>3. CASE FromQueue(i) /\ (UNCHANGED urgent \/ (urgent' = <<>> /\ UrgentTops = {}))
  <2>1. Startable(i) /\ i \in queue /\ queue' = {k \in queue : k > i} /\ \A m \in QueueHeads : i <= m
    BY <1>3 DEF FromQueue, QueueHeads
  <2>2. PICK u : u = urgent'
    OBVIOUS
  <2>3. u = urgent \/ (u = <<>> /\ UrgentTops = {})
    BY <1>3, <2>2
  <2>4. u \in Seq(Rows) /\ Len(u) <= Len(urgent) /\ \A k \in 1..Len(u) : u[k] = urgent[k]
    <3>1. CASE u = urgent
      BY <1>1, <3>1
    <3>2. CASE u = <<>>
      BY <1>1, <3>2
    <3> QED
      BY <1>1, <2>3, <3>1, <3>2
  <2>5. Shrinks
    BY <2>1, <2>2, <2>4 DEF Shrinks
  <2>6. ToSet(u) \subseteq ToSet(urgent)
    BY <1>1, <2>3 DEF ToSet
  <2>7. i \notin ToSet(urgent)
    BY <1>1, <2>1 DEF ToSet
  <2>8. i \notin InLine'
    BY <1>1, <2>1, <2>2, <2>6, <2>7 DEF InLine
  <2>9. ASSUME NEW x \in InLine, Startable(x), x # i PROVE x \in InLine'
    <3>1. CASE x \in queue
      <4>1. i <= x /\ x \in Int
        BY <1>1, <2>1, <2>9, <3>1 DEF QueueHeads
      <4>2. x > i
        BY <1>1, <2>9, <4>1
      <4> QED
        BY <2>1, <3>1, <4>2 DEF InLine
    <3>2. ASSUME NEW m \in 1..Len(urgent), x = urgent[m] PROVE x \in InLine'
      <4>1. m \in UrgentTops
        BY <1>1, <2>9, <3>2 DEF UrgentTops
      <4>2. u = urgent
        BY <2>3, <4>1
      <4> QED
        BY <1>1, <2>2, <3>2, <4>2 DEF InLine, ToSet
    <3> QED
      BY <1>1, <2>9, <3>1, <3>2 DEF InLine, ToSet
  <2> QED
    BY <2>1, <2>5, <2>8, <2>9
<1> QED
  BY <1>2, <1>3 DEF NextIs

LEMMA NoneDropped ==
  ASSUME Lines, NextIsNone
  PROVE  Shrinks /\ \A x \in InLine : Startable(x) => x \in InLine'
<1>1. /\ urgent \in Seq(Rows) /\ DOMAIN urgent = 1..Len(urgent) /\ Len(urgent) \in Nat
      /\ QueueHeads = {} /\ queue' = {}
  BY DEF Lines, NextIsNone
<1>2. UNCHANGED urgent \/ (urgent' = <<>> /\ UrgentTops = {})
  BY DEF NextIsNone
<1>3. PICK u : u = urgent'
  OBVIOUS
<1>4. u \in Seq(Rows) /\ Len(u) <= Len(urgent) /\ \A k \in 1..Len(u) : u[k] = urgent[k]
  <2>1. CASE u = urgent
    BY <1>1, <2>1
  <2>2. CASE u = <<>>
    BY <1>1, <2>2
  <2> QED
    BY <1>1, <1>2, <1>3, <2>1, <2>2
<1>5. Shrinks
  BY <1>1, <1>3, <1>4 DEF Shrinks
<1>6. ASSUME NEW x \in InLine, Startable(x) PROVE x \in ToSet(u)
  <2>1. x \notin queue
    BY <1>1, <1>6 DEF QueueHeads
  <2>2. PICK m \in 1..Len(urgent) : x = urgent[m]
    BY <1>1, <2>1 DEF InLine, ToSet
  <2>3. m \in UrgentTops
    BY <1>1, <1>6, <2>2 DEF UrgentTops
  <2> QED
    BY <1>1, <1>2, <1>3, <2>2, <2>3 DEF ToSet
<1> QED
  BY <1>3, <1>5, <1>6 DEF InLine

\* Who can start after rows of B were settled: a row that parked, one that
\* waited for an operating point of B, or one that could before.
LEMMA WhoCanStart ==
  ASSUME Held, NEW B \in SUBSET Rows, NEW built \in SUBSET Row, NEW out,
         Settle(B, out, built), UNCHANGED <<n, job, dep, owner>>,
         NEW x \in Rows, Startable(x)', x \notin B => ~running[x]
  PROVE  \/ x \in B /\ status'[x] = out[x] /\ out[x] \notin Ended
         \/ dep[x] \in B /\ status'[dep[x]] = "complete" /\ ~IsSplit(x)
         \/ x \notin B /\ Startable(x)
<1>0. Rows \subseteq Row
  BY SessionAssumption DEF Held, Typed, Rows, Row
<1>1. ~IsSplit(x) /\ status'[x] \notin Ended /\ (dep[x] = None \/ status'[dep[x]] = "complete")
  BY DEF Startable, Ready, Terminal, EffectiveStatus, IsSplit
<1>2. status'[x] = IF x \in B THEN out[x] ELSE status[x]
  BY <1>0, <1>1, SettleLeaves
<1>3. CASE x \in B
  BY <1>1, <1>2, <1>3
<1>4. CASE x \notin B /\ dep[x] # None /\ dep[x] \notin B
  <2>1. dep[x] \in Rows /\ ~IsSplit(dep[x])
    BY <1>4 DEF Held, Sharing, Shape, IsSplit
  <2>2. status[dep[x]] = "complete"
    BY <1>0, <1>1, <1>4, <2>1, SettleLeaves
  <2> QED
    BY <1>1, <1>2, <1>4, <2>2 DEF Startable, Ready, Terminal, EffectiveStatus, Ended
<1>5. CASE x \notin B /\ dep[x] = None
  BY <1>1, <1>2, <1>5 DEF Startable, Ready, Terminal, EffectiveStatus
<1>6. CASE x \notin B /\ dep[x] # None /\ dep[x] \in B
  BY <1>1, <1>6
<1> QED
  BY <1>3, <1>4, <1>5, <1>6

LEMMA Joined ==
  ASSUME NEW S, NEW u \in Seq(S), NEW v \in Seq(S), Distinct(u), Distinct(v),
         \A x \in ToSet(u) : x \notin ToSet(v)
  PROVE  /\ u \o v \in Seq(S) /\ Distinct(u \o v)
         /\ ToSet(u \o v) = ToSet(u) \union ToSet(v)
<1>0. PICK w : w = u \o v
  OBVIOUS
<1>1. PICK a \in Nat : a = Len(u) /\ DOMAIN u = 1..a
  OBVIOUS
<1>2. PICK b \in Nat : b = Len(v) /\ DOMAIN v = 1..b
  OBVIOUS
<1>3. /\ w \in Seq(S) /\ DOMAIN w = 1..a + b
      /\ \A k \in 1..a : w[k] = u[k]
      /\ \A k \in 1..a + b : k > a => w[k] = v[k - a] /\ k - a \in 1..b
  BY <1>0, <1>1, <1>2
<1>4. \A k \in 1..b : k + a \in 1..a + b /\ k + a > a /\ w[k + a] = v[k]
  BY <1>3
<1>5. ToSet(w) = ToSet(u) \union ToSet(v)
  <2>1. \A k \in 1..a : k \in 1..a + b
    OBVIOUS
  <2>2. \A x \in ToSet(w) : x \in ToSet(u) \/ x \in ToSet(v)
    <3> SUFFICES ASSUME NEW k \in 1..a + b PROVE w[k] \in ToSet(u) \/ w[k] \in ToSet(v)
      BY <1>3 DEF ToSet
    <3>1. CASE k > a
      BY <1>2, <1>3, <3>1 DEF ToSet
    <3>2. CASE ~(k > a)
      <4>1. k \in 1..a
        BY <3>2
      <4> QED
        BY <1>1, <1>3, <4>1 DEF ToSet
    <3> QED
      BY <3>1, <3>2
  <2>3. \A x \in ToSet(u) : x \in ToSet(w)
    BY <1>1, <1>3, <2>1 DEF ToSet
  <2>4. ASSUME NEW k \in 1..b PROVE v[k] \in ToSet(w)
    <3>1. PICK m \in 1..a + b : w[m] = v[k]
      BY <1>4
    <3> QED
      BY <1>3, <3>1 DEF ToSet
  <2>5. \A x \in ToSet(v) : x \in ToSet(w)
    BY <1>2, <2>4 DEF ToSet
  <2> QED
    BY <2>2, <2>3, <2>5
<1>6. ASSUME NEW k \in 1..a, NEW m \in 1..a + b, m > a PROVE w[k] # w[m]
  <2>1. u[k] \in ToSet(u) /\ v[m - a] \in ToSet(v)
    BY <1>1, <1>2, <1>3, <1>6 DEF ToSet
  <2> QED
    BY <1>3, <1>6, <2>1
<1>7. ASSUME NEW k \in 1..a + b, NEW m \in 1..a + b, w[k] = w[m] PROVE k = m
  <2>1. CASE k > a /\ m > a
    <3>1. k - a \in DOMAIN v /\ m - a \in DOMAIN v /\ v[k - a] = v[m - a]
      BY <1>2, <1>3, <1>7, <2>1
    <3>2. k - a = m - a
      BY <3>1 DEF Distinct
    <3> QED
      BY <3>2
  <2>2. CASE ~(k > a) /\ ~(m > a)
    <3>1. k \in 1..a /\ m \in 1..a
      BY <2>2
    <3> QED
      BY <1>1, <1>3, <1>7, <3>1 DEF Distinct
  <2>3. CASE k > a /\ ~(m > a)
    <3>1. m \in 1..a
      BY <2>3
    <3> QED
      BY <1>6, <1>7, <2>3, <3>1
  <2>4. CASE ~(k > a) /\ m > a
    <3>1. k \in 1..a
      BY <2>4
    <3> QED
      BY <1>6, <1>7, <2>4, <3>1
  <2> QED
    BY <2>1, <2>2, <2>3, <2>4
<1> QED
  BY <1>0, <1>3, <1>5, <1>7 DEF Distinct

\* What follows settled row i, and who that makes startable.
LEMMA FollowsLines ==
  ASSUME Lanes = "gpu" => ~TimingInDepth, Held, Lines, Served, pc = "scan",
         NEW i \in Rows, SettleRow(i), Follow(i), UNCHANGED queue
  PROVE  /\ Lines'
         /\ \A x \in Rows : Startable(x)' => x \in InLine'
         /\ \A x \in InLine' : worker'[x] = "idle"
<1> DEFINE out == [r \in BatchOf(i) |-> IF r = i THEN Outcome(i) ELSE PeerOutcome(i, r)]
           follows == UNION {FollowOne(r) : r \in BatchOf(i)}
<1>0. Rows \subseteq Row /\ i \in Row /\ None \notin Rows
  BY SessionAssumption DEF Held, Typed, Rows, Row, None
<1>1. Held' /\ Decides
  BY SettleDriven
<1>2. /\ Settle(BatchOf(i), out, {}) /\ UNCHANGED <<n, job, dep, owner>> /\ worker[i] = "stopped"
      /\ running' = [r \in Row |-> running[r] /\ r \notin BatchOf(i)]
      /\ worker' = [worker EXCEPT ![i] = "idle"]
  BY DEF SettleRow, rowVars
<1>3. BatchOf(i) \subseteq Rows /\ \A r \in BatchOf(i) : running[r]
  BY <1>0, <1>2 DEF Held, Threads, Batches, Flags, BatchOf
<1>4. \A r \in BatchOf(i) : /\ status[r] \notin Ended /\ ~IsSplit(r) /\ Rests(r)
                            /\ status'[r] = out[r]
  <2>1. \A r \in BatchOf(i) : status[r] \notin Ended /\ ~IsSplit(r) /\ Rests(r)
    BY <1>0, <1>3 DEF Held, Sharing, Live, Ended
  <2> HIDE DEF out
  <2> QED
    BY <1>0, <1>2, <1>3, <2>1, SettleLeaves
<1>5. \A r \in BatchOf(i) : out[r] \in Ended \/ (out[r] = "paused" /\ r = i)
  BY <1>0, <1>2 DEF Held, Typed, Threads, Stops, Outcome, PeerOutcome, Ended
<1>6. Rows' = Rows /\ \A x \in Rows : IsSplit(x)' = IsSplit(x)
  BY <1>2 DEF Rows, IsSplit
<1> HIDE DEF out
<1>7. ASSUME NEW x \in follows
      PROVE  \/ x = i /\ status'[i] = "paused"
             \/ x \in Rows /\ dep[x] \in BatchOf(i) /\ Startable(x)'
  <2>1. PICK r \in BatchOf(i) : x \in FollowOne(r)
    BY <1>7
  <2>2. CASE x = r /\ status'[r] = "paused"
    BY <1>4, <1>5, <2>1, <2>2 DEF Ended
  <2>3. CASE x \in Dependents(r) /\ Ready(x)' /\ ~running'[x]
    BY <2>1, <2>3 DEF Dependents, Startable
  <2> QED
    BY <2>1, <2>2, <2>3 DEF FollowOne
<1>8. \A x \in follows : x \in Rows /\ x \notin InLine
  <2>1. i \notin InLine
    BY <1>2 DEF Served
  <2>2. \A x \in InLine : dep[x] \notin BatchOf(i)
    BY <1>0, <1>3, <1>4 DEF Lines, Rests, Ended
  <2> QED
    BY <1>7, <2>1, <2>2
<1>9. \A x \in follows : Rests(x)'
  <2>1. Rests(i)'
    BY <1>1, <1>4, RestsStay DEF BatchOf
  <2>2. \A x \in Rows : Startable(x)' => Rests(x)'
    BY DEF Startable, Ready, Rests
  <2> QED
    BY <1>7, <2>1, <2>2
<1>10. \A x \in follows : worker'[x] = "idle"
  <2>1. worker'[i] = "idle"
    BY <1>0, <1>2 DEF Held, Typed
  <2>2. ASSUME NEW x \in Rows, Startable(x)' PROVE worker'[x] = "idle"
    <3>1. x \in Row /\ ~running'[x] /\ x \in BatchOf(x)'
      BY <1>0, <2>2 DEF Startable, BatchOf
    <3> QED
      BY <1>1, <3>1 DEF Held, Threads, Flags
  <2> QED
    BY <1>7, <2>1, <2>2
<1>11. IsFiniteSet(follows)
  BY <1>8, WaitingFinite, FS_Subset DEF Held
<1>12. PICK new \in SetToSeqs(follows) : urgent' = urgent \o new
  BY DEF Follow
<1> HIDE DEF follows
<1>13. new \in Seq(follows) /\ ToSet(new) = follows /\ Distinct(new)
  BY <1>11, Enumerates
<1>14. PICK u : u = urgent'
  OBVIOUS
<1>15. /\ urgent \in Seq(Rows) /\ new \in Seq(Rows) /\ queue \subseteq Rows
       /\ Distinct(urgent)
       /\ queue \intersect ToSet(urgent) = {}
  BY <1>8, <1>13 DEF Lines
<1>16. \A x \in ToSet(urgent) : x \notin ToSet(new)
  BY <1>8, <1>13 DEF InLine
<1>17. u \in Seq(Rows) /\ ToSet(u) = ToSet(urgent) \union follows /\ Distinct(u)
  <2>1. u = urgent \o new
    BY <1>12, <1>14
  <2>2. u \in Seq(Rows) /\ ToSet(u) = ToSet(urgent) \union ToSet(new) /\ Distinct(u)
    <3>1. /\ urgent \in Seq(Rows) /\ new \in Seq(Rows) /\ Distinct(urgent) /\ Distinct(new)
          /\ \A x \in ToSet(urgent) : x \notin ToSet(new)
      BY <1>13, <1>15, <1>16
    <3> QED
      BY <2>1, <3>1, Joined
  <2> QED
    BY <1>13, <2>2
<1>18. InLine' = InLine \union follows
  BY <1>14, <1>17 DEF InLine
<1>19. Lines'
  <2>1. \A x \in InLine : x \in Rows
    BY <1>15 DEF InLine, ToSet
  <2>2. \A x \in InLine' : Rests(x)'
    BY <1>1, <1>9, <1>18, <2>1, RestsStay DEF Lines
  <2>3. queue \intersect ToSet(u) = {}
    BY <1>8, <1>15, <1>17 DEF InLine
  <2> QED
    BY <1>6, <1>14, <1>15, <1>17, <2>2, <2>3 DEF Lines
<1>20. \A x \in InLine' : worker'[x] = "idle"
  BY <1>2, <1>10, <1>18 DEF Served, Held, Typed
<1>21. ASSUME NEW x \in Rows, Startable(x)' PROVE x \in InLine'
  <2>1. x \notin BatchOf(i) => ~running[x]
    BY <1>0, <1>2, <1>21 DEF Startable
  <2>2. \/ x \in BatchOf(i) /\ status'[x] = out[x] /\ out[x] \notin Ended
        \/ dep[x] \in BatchOf(i) /\ status'[dep[x]] = "complete" /\ ~IsSplit(x)
        \/ x \notin BatchOf(i) /\ Startable(x)
    BY <1>2, <1>3, <1>21, <2>1, WhoCanStart
  <2>3. CASE x \in BatchOf(i) /\ status'[x] = out[x] /\ out[x] \notin Ended
    <3>1. x \in FollowOne(x)
      BY <1>5, <2>3 DEF FollowOne
    <3> QED
      BY <1>18, <2>3, <3>1 DEF follows
  <2>4. CASE dep[x] \in BatchOf(i) /\ status'[dep[x]] = "complete" /\ ~IsSplit(x)
    <3>1. x \in FollowOne(dep[x])
      BY <1>21, <2>4 DEF FollowOne, Dependents, Startable
    <3> QED
      BY <1>18, <2>4, <3>1 DEF follows
  <2>5. CASE Startable(x)
    BY <1>18, <2>5 DEF Served
  <2> QED
    BY <2>2, <2>3, <2>4, <2>5
<1> QED
  BY <1>19, <1>20, <1>21

\* A turn of Pool.fill takes the row it starts out of the lines.
LEMMA FillLines ==
  ASSUME Held, Lines, Served, Decides, FillOne
  PROVE  Lines' /\ Served'
<1>0. Rows \subseteq Row
  BY SessionAssumption DEF Held, Typed, Rows, Row
<1>1. PICK i \in Rows : NextIs(i) /\ \E P \in Gathered(i) : Launch(i, P) \/ LaunchFails(i, P)
  BY DEF FillOne
<1>2. /\ Startable(i) /\ Shrinks /\ i \notin InLine'
      /\ \A x \in InLine : Startable(x) /\ x # i => x \in InLine'
  BY <1>1, NextTakes
<1>3. Lines' /\ InLine' \subseteq InLine
  BY <1>2, ShrunkLines
<1>4. /\ \A x \in Rows : Startable(x) => x \in InLine
      /\ \A x \in InLine : worker[x] = "idle"
      /\ pc' = "fill" /\ Rows' = Rows
  BY DEF FillOne, Served, Decides, Rows
<1>5. \A x \in Rows : Startable(x)' => Startable(x) /\ x # i
  <2>1. ASSUME NEW P, Launch(i, P) PROVE \A x \in Rows : Startable(x)' => Startable(x) /\ x # i
    BY <1>0, <2>1 DEF Launch, rowVars, Startable, Ready, Terminal, EffectiveStatus, IsSplit
  <2>2. ASSUME NEW P \in Gathered(i), LaunchFails(i, P), NEW x \in Rows, Startable(x)'
        PROVE  Startable(x) /\ x # i
    <3> DEFINE out == [r \in {i} |-> "failed"]
    <3>1. PICK built \in SUBSET Row : Settle({i}, out, built)
      <4>1. {i} \union P \subseteq Row
        BY <1>0 DEF Gathered
      <4> QED
        BY <2>2, <4>1 DEF LaunchFails
    <3>2. UNCHANGED <<n, job, dep, owner>> /\ ~running[x]
      BY <2>2 DEF LaunchFails, rowVars, Startable
    <3>3. ~IsSplit(i) /\ out[i] = "failed"
      BY <1>2, StartableRests DEF Held
    <3> HIDE DEF out
    <3>4. status'[i] = "failed"
      BY <1>0, <3>1, <3>3, SettleLeaves
    <3>5. {i} \in SUBSET Rows
      OBVIOUS
    <3>6. \/ x \in {i} /\ out[x] \notin Ended
          \/ dep[x] \in {i} /\ status'[dep[x]] = "complete"
          \/ x \notin {i} /\ Startable(x)
      BY <2>2, <3>1, <3>2, <3>5, WhoCanStart
    <3> QED
      BY <3>3, <3>4, <3>6 DEF Ended
  <2> QED
    BY <1>1, <2>1, <2>2
<1>6. \A x \in InLine' : worker'[x] = "idle"
  <2>1. ASSUME NEW P, Launch(i, P) PROVE \A x \in InLine' : worker'[x] = "idle"
    BY <1>0, <1>2, <1>3, <1>4, <2>1 DEF Launch, Held, Typed
  <2>2. ASSUME NEW P, LaunchFails(i, P) PROVE \A x \in InLine' : worker'[x] = "idle"
    BY <1>3, <1>4, <2>2 DEF LaunchFails, workVars
  <2> QED
    BY <1>1, <2>1, <2>2
<1> QED
  BY <1>2, <1>3, <1>4, <1>5, <1>6 DEF Served

\* Every step, of the pool or between its runs, keeps the lines.
LEMMA LinesStep ==
  ASSUME Lanes = "gpu" => ~TimingInDepth, Held, Lines, Served, Decides \/ Appends,
         [Next]_allVars \/ StepNext
  PROVE  Lines' /\ Served'
<1>0. Rows \subseteq Row
  BY SessionAssumption DEF Held, Typed, Rows, Row
<1>1. CASE UNCHANGED <<queue, urgent>> /\ pc' \notin {"fill", "wait", "scan"}
  BY <1>1, SameLines DEF Served
<1>2. CASE /\ UNCHANGED <<n, job, dep, owner, status, running, queue, urgent>>
           /\ \A x \in Row : worker[x] = "idle" => worker'[x] = "idle"
           /\ pc' \in {"fill", "wait", "scan"} => pc \in {"fill", "wait", "scan"}
  <2>1. Lines' /\ InLine' = InLine
    BY <1>2, SameLines
  <2>2. Rows' = Rows /\ \A x \in Rows : Startable(x)' => Startable(x)
    BY <1>2 DEF Rows, Startable, Ready, Terminal, EffectiveStatus, IsSplit
  <2>3. InLine \subseteq Row
    BY <1>0 DEF Lines, InLine, ToSet
  <2> QED
    BY <1>2, <2>1, <2>2, <2>3 DEF Served
<1>3. CASE FillOne
  <2>1. CASE Decides
    BY <1>3, <2>1, FillLines
  <2>2. CASE Appends
    <3>1. Decides
      BY <1>3, <2>2 DEF FillOne, Launch, LaunchFails, rowVars, Decides, Appends
    <3> QED
      BY <1>3, <3>1, FillLines
  <2> QED
    BY <2>1, <2>2
<1>4. CASE Dry
  <2>1. Shrinks /\ \A x \in InLine : Startable(x) => x \in InLine'
    BY <1>4, NoneDropped DEF Dry
  <2>2. Lines' /\ InLine' \subseteq InLine
    BY <2>1, ShrunkLines
  <2>3. CASE RunOver
    BY <2>2, <2>3 DEF RunOver, Served
  <2>4. CASE UNCHANGED vars
    <3>1. /\ pc = "fill" /\ Rows' = Rows /\ UNCHANGED worker
          /\ \A x \in Rows : Startable(x)' => Startable(x)
      BY <1>4, <2>4 DEF Dry, vars, rowVars, workVars, Rows, Startable, Ready, Terminal, EffectiveStatus, IsSplit
    <3> QED
      BY <2>1, <2>2, <3>1 DEF Served
  <2> QED
    BY <1>4, <2>3, <2>4 DEF Dry
<1>5. CASE Add
  <2>1. /\ UNCHANGED vars /\ urgent' = <<>> /\ queue' = {r \in Rows : Startable(r)} /\ Rows' = Rows
    BY <1>5 DEF Add, vars, rowVars, Rows
  <2>2. \A x \in Rows : /\ Startable(x)' <=> Startable(x)
                        /\ Rests(x)' <=> Rests(x)
    BY <2>1 DEF vars, rowVars, Startable, Ready, Terminal, EffectiveStatus, IsSplit, Rests
  <2>3. PICK u : u = urgent'
    OBVIOUS
  <2>4. u \in Seq(Rows) /\ Distinct(u) /\ ToSet(u) = {}
    BY <2>1, <2>3 DEF Distinct, ToSet
  <2>5. InLine' = {r \in Rows : Startable(r)}
    BY <2>1, <2>3, <2>4 DEF InLine
  <2>6. \A x \in Rows : Startable(x) => Rests(x) /\ worker[x] = "idle"
    BY IdleStartable DEF Held, Startable, Ready, Rests
  <2>7. Lines'
    BY <2>1, <2>2, <2>3, <2>4, <2>5, <2>6 DEF Lines
  <2>8. UNCHANGED worker
    BY <2>1 DEF vars, workVars
  <2> QED
    BY <2>1, <2>2, <2>5, <2>6, <2>7, <2>8 DEF Served
<1>6. ASSUME NEW i \in Rows, ScanStopped(i) PROVE Lines' /\ Served'
  <2>1. pc = "scan" /\ SettleRow(i) /\ Follow(i) /\ UNCHANGED queue
    BY <1>6 DEF ScanStopped
  <2>2. Lines' /\ (\A x \in Rows : Startable(x)' => x \in InLine') /\ \A x \in InLine' : worker'[x] = "idle"
    BY <2>1, FollowsLines
  <2>3. Rows' = Rows
    BY <2>1 DEF SettleRow, rowVars, Rows
  <2> QED
    BY <2>2, <2>3 DEF Served
<1>7. CASE RunStep /\ UNCHANGED poolVars
  <2>1. PICK i \in Rows : (\E r \in Rows : SetUp(i, r)) \/ Park(i) \/ End(i) \/ FailFirst(i)
    BY <1>7 DEF RunStep
  <2>2. UNCHANGED <<n, job, dep, owner, status, running>> /\ worker[i] = "working"
    BY <2>1 DEF SetUp, Park, End, FailFirst, Stop, rowVars
  <2>3. UNCHANGED worker \/ worker' = [worker EXCEPT ![i] = "stopped"]
    BY <2>1 DEF SetUp, Park, End, FailFirst, Stop, workVars
  <2> QED
    BY <1>0, <1>2, <1>7, <2>2, <2>3 DEF poolVars, Held, Typed
<1>8. ASSUME NEW i \in Rows, ScanRunning(i) \/ AbortSettle(i) PROVE Lines' /\ Served'
  BY <1>1, <1>2, <1>8 DEF ScanRunning, AbortSettle, vars, rowVars, workVars
<1>9. CASE Full \/ ScanDone \/ Wait
  BY <1>2, <1>9 DEF Full, ScanDone, Wait, vars, rowVars, workVars
<1>10. CASE Abort \/ Aborted \/ Caller
  BY <1>1, <1>10 DEF Abort, Aborted, Caller, RunOver, poolVars
<1>11. CASE StepFilled \/ StepWait \/ StepScanned
  BY <1>1, <1>11 DEF StepFilled, StepWait, StepScanned, RunOver
<1>12. CASE AdvanceReady \/ \E i \in Rows : Advance(i)
  BY <1>1, <1>12 DEF AdvanceReady, Advance, Call
<1>13. ASSUME NEW i \in Rows, StepStart(i) \/ StepScan(i) PROVE Lines' /\ Served'
  BY <1>1, <1>13 DEF StepStart, StepScan
<1>14. CASE UNCHANGED allVars
  BY <1>2, <1>14 DEF allVars, poolVars, vars, rowVars, workVars
<1> QED
  BY <1>3, <1>4, <1>5, <1>6, <1>7, <1>8, <1>9, <1>10, <1>11, <1>12, <1>13, <1>14
     DEF StepNext, Next, CoordStep

LEMMA LinesInit == PoolInit => Lines /\ Served
<1> SUFFICES ASSUME PoolInit PROVE Lines /\ Served
  OBVIOUS
<1>1. queue = {} /\ urgent = <<>> /\ pc = "idle"
  BY DEF PoolInit
<1>2. ToSet(urgent) = {} /\ urgent \in Seq(Rows) /\ Distinct(urgent)
  BY <1>1 DEF ToSet, Distinct
<1> QED
  BY <1>1, <1>2 DEF Lines, Served, InLine

\* A run that ends by itself found nobody in line, so all have ended.
LEMMA DryLeavesNothing ==
  ASSUME Held, Manned, Laned, Lines, Served, [Next]_allVars \/ StepNext,
         pc = "fill", pc' = "idle"
  PROVE  \A r \in Rows : Terminal(r)
<1>0. Rows \subseteq Row
  BY SessionAssumption DEF Held, Typed, Rows, Row
<1>1. Dry /\ pool = {}
  <2>1. Dry
    <3>1. CASE [Next]_allVars
      BY <3>1 DEF Next, CoordStep, RunStep, poolVars, Caller, Add, Abort, FillOne, Full, Wait,
                  ScanDone, Aborted, ScanStopped, ScanRunning, AbortSettle, allVars
    <3>2. ~(AdvanceReady \/ StepFilled \/ StepWait \/ StepScanned)
      BY DEF AdvanceReady, StepFilled, StepWait, StepScanned
    <3>3. ~\E i \in Rows : Advance(i) \/ StepStart(i) \/ StepScan(i)
      BY DEF Advance, StepStart, StepScan
    <3> QED
      BY <3>1, <3>2, <3>3 DEF StepNext
  <2> QED
    BY <2>1 DEF Dry
<1>2. \A r \in Row : ~running[r]
  BY <1>1 DEF Manned, Held, Threads, Flags
<1>3. QueueHeads = {} /\ UrgentTops = {}
  BY <1>0, <1>1, <1>2 DEF Dry, NextIsNone, HoldsBack
<1>4. \A r \in Rows : ~Startable(r)
  BY <1>3 DEF Served, InLine, ToSet, QueueHeads, UrgentTops
<1>5. \A r \in Rows : ~Ready(r)
  BY <1>0, <1>2, <1>4 DEF Startable
<1> QED
  BY <1>5, SomeReady DEF Steps

LEMMA PoolInvariant ==
  ASSUME Lanes = "gpu" => ~TimingInDepth
  PROVE  /\ PoolInit => Held /\ Manned /\ Laned /\ Lines /\ Served
         /\ Held /\ Manned /\ Laned /\ Lines /\ Served /\ [Next]_allVars =>
              (Held /\ Manned /\ Laned /\ Lines /\ Served)'
<1>1. PoolInit => Held /\ Manned /\ Laned /\ Lines /\ Served
  <2> SUFFICES ASSUME PoolInit PROVE Held /\ Manned /\ Laned /\ Lines /\ Served
    OBVIOUS
  <2>1. Typed /\ Threads /\ Sharing /\ Lines /\ Served
    BY InitIInv, InitSharing, LinesInit
  <2>2. Rows = {}
    BY DEF PoolInit, Init, Rows
  <2>3. Whole
    BY <2>2 DEF PoolInit, Init, Whole, StatusTyped, Splits, Ends
  <2> QED
    BY <2>1, <2>2, <2>3 DEF PoolInit, Init, Held, Manned, Laned
<1>2. ASSUME Held, Manned, Laned, Lines, Served, [Next]_allVars
      PROVE  (Held /\ Manned /\ Laned /\ Lines /\ Served)'
  <2>1. Typed' /\ Threads'
    BY <1>2, TypedStep, ThreadsStep DEF Held
  <2>2. Held' /\ (Decides \/ Appends)
    BY <1>2, <2>1, SharingStep, WholeStep DEF Held
  <2> QED
    BY <1>2, <2>2, MannedStep, LanedStep, LinesStep
<1> QED
  BY <1>1, <1>2

LEMMA LinedInvariant ==
  ASSUME Lanes = "gpu" => ~TimingInDepth
  PROVE  StepSpec => [](Driven /\ Lines /\ Served)
<1>1. StepInit => Driven /\ Lines /\ Served
  BY LinesInit, DrivenInvariant DEF StepInit
<1>2. Driven /\ Lines /\ Served /\ [StepNext]_everything => (Driven /\ Lines /\ Served)'
  BY DrivenInvariant, LinesStep DEF Driven, everything
<1> QED
  BY <1>1, <1>2, PTL DEF StepSpec

\* The urgent stack never holds more entries than the session has rows, and
\* no startable row twice, in runs of the pool and with steps between them.
THEOREM UrgentStaysInBounds ==
  ASSUME Lanes = "gpu" => ~TimingInDepth
  PROVE  (Spec => []UrgentFits) /\ (StepSpec => []UrgentFits)
<1>1. Held /\ Lines => UrgentFits
  BY LinesFit DEF Held
<1>2. Spec => []UrgentFits
  BY <1>1, PoolInvariant, PTL DEF Spec
<1>3. Driven => Held
  BY DEF Driven
<1>4. StepSpec => []UrgentFits
  BY <1>1, <1>3, LinedInvariant, PTL
<1> QED
  BY <1>2, <1>4

\* A run that ends by itself leaves no query behind that has not ended:
\* runAll never fails with error.SchedulingFailure.
THEOREM RunAllSucceeds ==
  ASSUME Lanes = "gpu" => ~TimingInDepth
  PROVE  (Spec => RunLeavesNothing) /\ (StepSpec => RunLeavesNothing)
<1>1. Held /\ Manned /\ Laned /\ Lines /\ Served /\ [Next]_allVars =>
        [pc = "fill" /\ pc' = "idle" => \A r \in Rows : Terminal(r)]_allVars
  BY DryLeavesNothing
<1>2. Spec => RunLeavesNothing
  BY <1>1, PoolInvariant, PTL DEF Spec, RunLeavesNothing
<1>3. Driven /\ Lines /\ Served /\ [StepNext]_everything =>
        [pc = "fill" /\ pc' = "idle" => \A r \in Rows : Terminal(r)]_allVars
  BY DryLeavesNothing DEF Driven, everything
<1>4. StepSpec => RunLeavesNothing
  BY <1>3, LinedInvariant, PTL DEF StepSpec, RunLeavesNothing
<1> QED
  BY <1>2, <1>4
=============================================================================

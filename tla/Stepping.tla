------------------------------ MODULE Stepping ------------------------------
(***************************************************************************)
(* The stepping drivers of a session (advanceReady and advance in          *)
(* src/analysis/session.zig), beside the pool of Pool.tla: between two     *)
(* runs the caller may also advance some ready rows by one quantum each.   *)
(* Nothing is gathered, nothing follows, and each call sleeps on a         *)
(* semaphore of its own.                                                   *)
(***************************************************************************)
EXTENDS Pool

VARIABLES
  ids,      \* the rows of the call still to be started
  cursor    \* Session.cursor: the row that the scheduler order starts with

stepVars == <<ids, cursor>>
everything == <<allVars, stepVars>>

StepInit == PoolInit /\ ids = {} /\ cursor = 1

-----------------------------------------------------------------------------
\* Faulty: a query's scope without the operating point it waits for.
InScopeAlone(target, i) == i = target \/ owner[i] = target
\* Session.contains, for the scope of one query.
InScope(target, i) == i = target \/ owner[i] = target \/ dep[target] = i

\* The ready rows a step towards the target may advance.
Steps(target) == {r \in Rows : InScope(target, r) /\ Ready(r)}

\* The first row of S in scheduler order.
FirstOf(S) ==
  LET later == {r \in S : r >= cursor}
  IN Min(IF later # {} THEN later ELSE S)

\* A call of advanceReady begins.  Its list ends with `last', which sets the
\* cursor; the order of the others is open.
Call(rows, last) ==
  /\ ids' = rows
  /\ cursor' = (last % n) + 1
  /\ pc' = "stepFill"
  /\ UNCHANGED <<vars, pool, toScan, queue, urgent>>

\* advanceReady on some of the rows readyQueries gives, in any order.
\* (validateReady refuses a row that is not ready, and one given twice.)
AdvanceReady ==
  /\ pc = "idle"
  /\ \E rows \in SUBSET {r \in Rows : Ready(r)} : \E last \in rows : Call(rows, last)

\* advance: the first ready row that the target waits for, or the target.
Advance(target) ==
  /\ pc = "idle" /\ target \in Rows /\ ~Terminal(target)
  /\ Steps(target) # {}
  /\ LET next == FirstOf(Steps(target)) IN Call({next}, next)

\* The list's next row starts, the last of the list last.
StepStart(i) ==
  /\ pc = "stepFill" /\ i \in ids /\ Cardinality(pool) < Limit
  /\ (i % n) + 1 = cursor => ids = {i}
  /\ \/ Launch(i, {}) /\ pool' = pool \union {i}
     \/ MayRunOut /\ LaunchFails(i, {}) /\ UNCHANGED pool
  /\ ids' = ids \ {i}
  /\ UNCHANGED <<pc, toScan, queue, urgent, cursor>>

\* Nothing more can start: the call ends, or sleeps until a quantum stops.
StepFilled ==
  /\ pc = "stepFill" /\ (ids = {} \/ Cardinality(pool) >= Limit)
  /\ IF pool = {} THEN RunOver ELSE pc' = "stepWait" /\ UNCHANGED vars
  /\ UNCHANGED <<pool, toScan, queue, urgent, stepVars>>

StepWait ==
  /\ pc = "stepWait" /\ permits > 0
  /\ permits' = permits - 1
  /\ WaitAll
  /\ pc' = "stepScan"
  /\ UNCHANGED <<rowVars, status, readers, rootReaders, running, released,
                 execVars, worker, stop, cancelled, pool, queue, urgent, stepVars>>

StepScan(i) ==
  /\ pc = "stepScan" /\ i \in toScan
  /\ toScan' = toScan \ {i}
  /\ \/ SettleRow(i) /\ pool' = pool \ {i}
     \/ worker[i] = "working" /\ UNCHANGED <<vars, pool>>
  /\ UNCHANGED <<pc, queue, urgent, stepVars>>

StepScanned ==
  /\ pc = "stepScan" /\ toScan = {}
  /\ pc' = "stepFill"
  /\ UNCHANGED <<vars, pool, toScan, queue, urgent, stepVars>>

StepNext ==
  \/ Next /\ UNCHANGED stepVars
  \/ AdvanceReady
  \/ \E i \in Rows : Advance(i) \/ StepStart(i) \/ StepScan(i)
  \/ StepFilled \/ StepWait \/ StepScanned

StepSpec == StepInit /\ [][StepNext]_everything
-----------------------------------------------------------------------------
\* advance never fails with error.SchedulingFailure: between two calls every
\* query that has not ended is ready, or waits for a row that is, whatever
\* mix of runs, steps, failures, cancels, refusals and releases came before.
NeverStuck ==
  pc = "idle" => \A q \in Rows : ~Terminal(q) => Steps(q) # {}
=============================================================================

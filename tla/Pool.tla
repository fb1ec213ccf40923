-------------------------------- MODULE Pool --------------------------------
(***************************************************************************)
(* The refilling scheduler (Pool in src/analysis/session.zig) over one     *)
(* session: up to Limit quanta in flight, a stopped one settled and        *)
(* replaced at once, lane batches gathered as rows start.  The coordinator *)
(* sleeps on one semaphore that every worker posts when its quantum stops. *)
(* Between runs the caller appends, refuses and releases rows.             *)
(***************************************************************************)
EXTENDS Session, SequencesExt

CONSTANTS
  Limit,          \* Limits.max_parallel
  Lanes,          \* which batches are gathered: "off", "cpu" or "gpu"
  LaneWidth,      \* rows of a batch at most (lane_width, gpu_lane_cap)
  MayAbort        \* the caller may tear the pool down with rows running

ASSUME PoolAssumption ==
  /\ Limit \in Nat \ {0}
  /\ Lanes \in {"off", "cpu", "gpu"}
  /\ LaneWidth \in Nat \ {0}
  /\ MayAbort \in BOOLEAN

VARIABLES
  pc,        \* "idle", "fill", "wait", "scan", "abort"
  pool,      \* Pool.running
  toScan,    \* the rows of this scan of Pool.running still to look at
  queue,     \* Session.queue from queue_head on; taken in row order
  urgent     \* Session.urgent, a stack

poolVars == <<pc, pool, toScan, queue, urgent>>
allVars == <<vars, poolVars>>

PoolInit ==
  /\ Init
  /\ pc = "idle" /\ pool = {} /\ toScan = {}
  /\ queue = {} /\ urgent = <<>>

-----------------------------------------------------------------------------
(* Choosing the next row. *)

Startable(i) == Ready(i) /\ ~running[i]

\* Where the urgent stack holds startable rows, and those of the queue.
UrgentTops == {k \in DOMAIN urgent : Startable(urgent[k])}
QueueHeads == {i \in queue : Startable(i)}

\* The topmost startable row of the stack, which keeps what is below it.
FromUrgent(i) ==
  \E k \in UrgentTops :
    /\ \A m \in UrgentTops : m <= k
    /\ i = urgent[k] /\ urgent' = SubSeq(urgent, 1, k - 1)

FromQueue(i) ==
  /\ i \in QueueHeads /\ \A m \in QueueHeads : i <= m
  /\ queue' = {k \in queue : k > i}

\* Faulty: waits for the rest of its sweep with nothing running.
HoldsBackAlways == urgent # <<>> /\ job[Last(urgent)].kind = "tran"
\* Under GPU lanes a transient waits while anything still runs.
HoldsBack ==
  /\ urgent # <<>> /\ job[Last(urgent)].kind = "tran"
  /\ \E r \in Rows : running[r]

\* nextReady: urgent rows first; under GPU lanes breadth first.
NextIs(i) ==
  IF Lanes = "gpu"
  THEN \/ FromQueue(i) /\ UNCHANGED urgent
       \/ QueueHeads = {} /\ queue' = {} /\ ~HoldsBack /\ FromUrgent(i)
  ELSE \/ FromUrgent(i) /\ UNCHANGED queue
       \/ UrgentTops = {} /\ urgent' = <<>> /\ FromQueue(i)

\* nextReady finds nothing: what it looked through is stale, and dropped.
NextIsNone ==
  /\ QueueHeads = {} /\ queue' = {}
  /\ IF Lanes = "gpu" /\ HoldsBack THEN UNCHANGED urgent
     ELSE UrgentTops = {} /\ urgent' = <<>>

Batchable(j) == j.kind \in {"op", "tran", "sweep"}

MayGather(i) ==
  /\ ~exec[i]
  /\ \/ Lanes = "gpu" /\ job[i].kind = "tran"
     \/ Lanes = "cpu" /\ ~TimingInDepth /\ Batchable(job[i])

\* Faulty: a row another batch is running may join.
MayJoinRunning(i, j) ==
  /\ j # i /\ Ready(j)
  /\ job[j].kind = job[i].kind /\ job[j].class = job[i].class

\* Whether waiting row j may run as a lane of row i's batch.
MayJoin(i, j) ==
  /\ j # i /\ Startable(j) /\ ~exec[j]
  /\ job[j].template = job[i].template
  /\ (dep[j] = None) = (dep[i] = None)
  /\ job[j].kind = job[i].kind /\ job[j].class = job[i].class

\* gather: the peers of row i.  Peers stay queued; a row whose executor
\* cannot be built, or past the window, is left out.
Gathered(i) ==
  IF ~MayGather(i) THEN {{}}
  ELSE {P \in SUBSET {j \in Rows : j \in queue \union ToSet(urgent) /\ MayJoin(i, j)} :
          Cardinality(P) < LaneWidth}

-----------------------------------------------------------------------------
(* The coordinator. *)

\* Pool.init and Pool.add: queue what is ready
\* now.  (done_rows only lets requeue skip rows that have ended.)
Add ==
  /\ pc = "idle" /\ \E r \in Rows : ~Terminal(r)
  /\ queue' = {r \in Rows : Startable(r)}
  /\ urgent' = <<>>
  /\ pc' = "fill"
  /\ UNCHANGED <<vars, pool, toScan>>

\* One turn of Pool.fill.
FillOne ==
  /\ pc = "fill" /\ Cardinality(pool) < Limit
  /\ \E i \in Rows :
       /\ NextIs(i)
       /\ \E P \in Gathered(i) :
            \/ Launch(i, P) /\ pool' = pool \union {i}
            \/ MayRunOut /\ LaunchFails(i, P) /\ UNCHANGED pool
  /\ UNCHANGED <<pc, toScan>>

\* Pool.fill stops with the pool full.
Full ==
  /\ pc = "fill" /\ Cardinality(pool) >= Limit
  /\ pc' = "wait"
  /\ UNCHANGED <<vars, pool, toScan, queue, urgent>>

\* The run returns, and with it goes its semaphore.
RunOver ==
  /\ pc' = "idle" /\ permits' = 0
  /\ UNCHANGED <<rowVars, status, readers, rootReaders, running, released,
                 execVars, worker, stop, cancelled>>

\* Pool.fill stops with nothing to start; Pool.wait ends the run if nothing
\* runs either.
Dry ==
  /\ pc = "fill" /\ Cardinality(pool) < Limit
  /\ NextIsNone
  /\ IF pool = {} THEN RunOver ELSE pc' = "wait" /\ UNCHANGED vars
  /\ UNCHANGED <<pool, toScan>>

\* Faulty: looks at one row per permit.
WaitOne == toScan' \in {{r} : r \in pool}
WaitAll == toScan' = pool

\* Pool.wait: one permit, then a look at every row of the pool.
Wait ==
  /\ pc = "wait" /\ permits > 0
  /\ permits' = permits - 1
  /\ WaitAll
  /\ pc' = "scan"
  /\ UNCHANGED <<rowVars, status, readers, rootReaders, running, released,
                 execVars, worker, stop, cancelled, pool, queue, urgent>>

\* Faulty: every ready dependent follows every quantum.
FollowAll(i) ==
  {r \in {i} : status'[r] = "paused"}
    \union {j \in Rows : dep[j] # None /\ Ready(j)' /\ ~running'[j]}
\* followOne: a parked row is urgent again, and so is what it made ready.
FollowOne(i) ==
  {r \in {i} : status'[r] = "paused"}
    \union {j \in Dependents(i) : status'[i] = "complete" /\ Ready(j)' /\ ~running'[j]}

\* Whom row x follows: its own quantum, or its operating point's.
Followed(x) == IF status'[x] = "paused" THEN x ELSE dep[x]

\* follow: what follows the peers (whose order is left open), then what
\* follows their leader, of the same operating point the newest row first.
Follow(i) ==
  \E new \in SetToSeqs(UNION {FollowOne(r) : r \in BatchOf(i)}) :
    /\ \A k, m \in DOMAIN new : k < m =>
         /\ Followed(new[k]) = i => Followed(new[m]) = i
         /\ Followed(new[k]) = Followed(new[m]) => new[k] > new[m]
    /\ urgent' = urgent \o new

\* Pool.wait looks at row i of the pool.
ScanStopped(i) ==
  /\ pc = "scan" /\ i \in toScan
  /\ SettleRow(i)
  /\ Follow(i)
  /\ pool' = pool \ {i}
  /\ toScan' = toScan \ {i}
  /\ UNCHANGED <<pc, queue>>

ScanRunning(i) ==
  /\ pc = "scan" /\ i \in toScan /\ worker[i] = "working"
  /\ toScan' = toScan \ {i}
  /\ UNCHANGED <<vars, pc, pool, queue, urgent>>

ScanDone ==
  /\ pc = "scan" /\ toScan = {}
  /\ pc' = "fill"
  /\ UNCHANGED <<vars, pool, toScan, queue, urgent>>

\* Pool.deinit between two calls (after a fill, after a wait): cancel what
\* runs, then settle each.
Abort ==
  /\ MayAbort /\ pool # {}
  /\ pc = "wait" \/ (pc = "scan" /\ toScan = {})
  /\ cancelled' = [r \in Row |-> cancelled[r] \/ (r \in pool /\ stop[r] \notin {"complete", "failed"})]
  /\ pc' = "abort"
  /\ UNCHANGED <<rowVars, status, readers, rootReaders, running, released,
                 execVars, worker, stop, permits, pool, toScan, queue, urgent>>

AbortSettle(i) ==
  /\ pc = "abort" /\ i \in pool
  /\ SettleRow(i)
  /\ pool' = pool \ {i}
  /\ UNCHANGED <<pc, toScan, queue, urgent>>

Aborted ==
  /\ pc = "abort" /\ pool = {}
  /\ RunOver
  /\ UNCHANGED <<pool, toScan, queue, urgent>>

CoordStep ==
  \/ FillOne \/ Full \/ Dry \/ Wait \/ ScanDone \/ Aborted
  \/ \E i \in Rows : ScanStopped(i) \/ ScanRunning(i) \/ AbortSettle(i)

\* Between runs.  A caller with a final plan (the CLI) only appends.
Caller ==
  /\ pc = "idle"
  /\ UNCHANGED poolVars
  /\ \/ \E j \in Jobs : AppendJob(j)
     \/ ~FinalPlan /\ \E i \in Rows : Refuse(i) \/ Release(i)

Next == \/ RunStep /\ UNCHANGED poolVars
        \/ CoordStep \/ Caller \/ Add \/ Abort

\* Threads are scheduled, a circuit is built, an analysis ends after finitely
\* many checkpoints, and a run once begun is driven on; the caller owes nothing.
Fairness ==
  /\ \A i \in Row : WF_allVars(UNCHANGED poolVars /\ i \in Rows /\ \E r \in Rows : SetUp(i, r))
  /\ \A i \in Row : SF_allVars(UNCHANGED poolVars /\ i \in Rows /\ (End(i) \/ FailFirst(i)))
  /\ WF_allVars(CoordStep)

Spec == PoolInit /\ [][Next]_allVars /\ Fairness
-----------------------------------------------------------------------------
(* Properties. *)

\* No wake-up is lost: with rows in the pool and no permit to take, some row
\* of the pool is still running and will post one.
NoLostWakeup ==
  pc = "wait" /\ permits = 0 => \E i \in pool : worker[i] = "working"

\* urgent was sized for one entry per row (requeue, appendAt): its appends
\* never pass that capacity, and no startable row is in it twice, or in the
\* queue as well, for gather to take twice.
UrgentFits ==
  /\ Len(urgent) <= n
  /\ \A k \in DOMAIN urgent : Startable(urgent[k]) =>
       /\ urgent[k] \notin queue
       /\ \A m \in DOMAIN urgent : urgent[k] = urgent[m] => k = m

\* A run that ends by itself leaves nothing behind: every row has ended
\* (never error.SchedulingFailure).
RunLeavesNothing ==
  [][pc = "fill" /\ pc' = "idle" => \A r \in Rows : Terminal(r)]_allVars

\* settlePeers asserts that every peer it settles is still running.
PeersStillRunning ==
  \A i \in Rows : worker[i] = "stopped" => \A p \in peers[i] : running[p]

\* A run of the pool ends.
RunEnds == pc # "idle" ~> pc = "idle"
=============================================================================

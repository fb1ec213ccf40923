------------------------------ MODULE Session ------------------------------
(***************************************************************************)
(* The query graph (src/analysis/session.zig) and what the analysis       *)
(* threads do to it (src/analysis/executor.zig): rows, their shared        *)
(* operating points, the device state a row copies or takes over from its  *)
(* source, lane batches that run on their leader's thread, split queries   *)
(* and release.  Pool.tla adds the scheduler that drives it.               *)
(*                                                                         *)
(* A settled quantum's effects (settle, settlePeers, readerDone,           *)
(* releaseIfRead, laneDone, assemble) are one step over the set of rows it *)
(* settles: the code's loops over those rows touch disjoint fields, so     *)
(* their order cannot be observed.                                         *)
(***************************************************************************)
EXTENDS Naturals, FiniteSets

CONSTANTS
  MaxRows,            \* bound: rows of the session
  MaxPermits,         \* bound: permits at which no further row parks
  Jobs,               \* the requests a caller may append
  FinalPlan,          \* Config.final_plan: nothing is appended once a row ran
  LastTemplateReader, \* Session.last_template_reader
  TimingInDepth,      \* Config.timing_in_depth: quanta end at checkpoints too
  MayRunOut,          \* building a circuit or a split result may fail
  LeaderMayFailFirst  \* a GPU batch may fail before it books any lane

Kinds == {"op", "tran", "sweep", "other"}

\* A request.  `op' names the operating point it needs (or, for an .op, is):
\* Ops with equal names share a row.  `class' is what sameLaneJob compares.
\* `lanes' is splitLanes: 0, or at least 2 for a .mc or .temp kept apart.
JobType == [kind : Kinds, class : Nat, op : Nat, uic : BOOLEAN,
            lanes : Nat, template : Nat]

ASSUME SessionAssumption ==
  /\ MaxRows \in Nat /\ MaxPermits \in Nat
  /\ Jobs \subseteq JobType
  /\ \A j \in Jobs : j.lanes # 1 /\ (j.lanes # 0 => j.kind = "sweep" /\ ~j.uic)
  /\ {FinalPlan, LastTemplateReader, TimingInDepth, MayRunOut, LeaderMayFailFirst}
       \subseteq BOOLEAN

Row  == 1..MaxRows
None == 0                       \* invalid_query, and an executor that is null

VARIABLES
  n,            \* rows appended
  job,          \* Row.job
  dep,          \* Row.dependency
  owner,        \* Row.owner: the split query a lane row belongs to
  requested,    \* Row.requested
  status,       \* Row.status
  readers,      \* Row.readers: dependents that have not stopped a quantum
  rootReaders,  \* Session.root_readers
  running,      \* Row.running
  released,     \* Row.released
  exec,         \* Row.executor is set
  take,         \* Executor.take
  peers,        \* Executor.peers
  circuit,      \* Executor.circuit: "none", "own", "taken", "released"
  template,     \* the circuit rows with no dependency start from
  lane,         \* a batch member's outcome: "none", "published", "failed"
  worker,       \* the row's thread: "idle", "working", "stopped"
  stop,         \* what the stopped quantum's wait returns
  cancelled,    \* the row's worker was told to cancel
  permits       \* permits of the scheduler's shared semaphore

rowVars  == <<n, job, dep, owner, requested>>
execVars == <<exec, take, peers, circuit, template, lane>>
workVars == <<worker, stop, cancelled, permits>>
vars == <<rowVars, status, readers, rootReaders, running, released, execVars,
          workVars>>

Templates == {j.template : j \in Jobs}
NoJob == [kind |-> "other", class |-> 0, op |-> 0, uic |-> TRUE, lanes |-> 0,
          template |-> 0]

Init ==
  /\ n = 0
  /\ job = [r \in Row |-> NoJob]
  /\ dep = [r \in Row |-> None] /\ owner = [r \in Row |-> None]
  /\ requested = [r \in Row |-> FALSE]
  /\ status = [r \in Row |-> "pending"]
  /\ readers = [r \in Row |-> 0] /\ rootReaders = 0
  /\ running = [r \in Row |-> FALSE] /\ released = [r \in Row |-> FALSE]
  /\ exec = [r \in Row |-> FALSE] /\ take = [r \in Row |-> FALSE]
  /\ peers = [r \in Row |-> {}]
  /\ circuit = [r \in Row |-> "none"]
  /\ template = [t \in Templates |-> "own"]
  /\ lane = [r \in Row |-> "none"]
  /\ worker = [r \in Row |-> "idle"] /\ stop = [r \in Row |-> "none"]
  /\ cancelled = [r \in Row |-> FALSE]
  /\ permits = 0

-----------------------------------------------------------------------------
(* Reading the graph. *)

Rows == 1..n
Ended == {"complete", "failed", "dependency_failed", "cancelled"}

\* A row whose operating point ended without a result reads as failed.
EffectiveStatus(i) ==
  IF /\ status[i] \notin Ended
     /\ dep[i] # None
     /\ status[dep[i]] \in Ended \ {"complete"}
  THEN "dependency_failed" ELSE status[i]

Terminal(i) == EffectiveStatus(i) \in Ended

IsSplit(i) == job[i].lanes # 0 /\ owner[i] = None
LanesOf(g) == {l \in Rows : owner[l] = g}

Ready(i) ==
  /\ ~IsSplit(i) /\ ~Terminal(i)
  /\ dep[i] = None \/ status[dep[i]] = "complete"

Prerequisite(j) == j.kind # "op" /\ ~j.uic    \* it needs an operating point

\* The session's operating-point index: the unreleased .op rows.
OpRows(j) ==
  {r \in Rows : /\ job[r].kind = "op" /\ ~released[r]
                /\ job[r].op = j.op /\ job[r].template = j.template}

\* Rows that read row d's device state.
Dependents(d) == {r \in Rows : dep[r] = d /\ ~IsSplit(r)}

-----------------------------------------------------------------------------
(* append, refuse, release. *)

Fresh(r, j, d, o, req) ==
  [job |-> j, dep |-> d, owner |-> o, requested |-> req]

\* The rows job j adds after row n: the operating point no row shares yet,
\* the lanes, the row itself.
NewRows(j) ==
  LET old   == OpRows(j)
      first == IF Prerequisite(j) /\ old = {} THEN 1 ELSE 0
      d     == IF ~Prerequisite(j) THEN None
               ELSE IF old = {} THEN n + 1 ELSE CHOOSE r \in old : TRUE
      id    == n + first + j.lanes + 1
  IN [r \in (n + 1)..id |->
       IF first = 1 /\ r = n + 1
       THEN Fresh(r, [j EXCEPT !.kind = "op", !.lanes = 0, !.class = 0], None, None, FALSE)
       ELSE Fresh(r, j, d, IF r < id THEN id ELSE None, r = id)]

\* append of one job; a longer list is one append after the other.
AppendJob(j) ==
  /\ FinalPlan => \A r \in Rows : status[r] = "pending" /\ ~exec[r]
  /\ IF j.kind = "op" /\ OpRows(j) # {}
     THEN /\ requested' = [r \in Row |-> requested[r] \/ r \in OpRows(j)]
          /\ UNCHANGED <<n, job, dep, owner, readers, rootReaders>>
     ELSE LET new == NewRows(j)
              reads(d) == {r \in DOMAIN new : new[r].dep = d /\ d # None
                             /\ (j.lanes = 0 \/ new[r].owner # None)}
          IN /\ n + Cardinality(DOMAIN new) <= MaxRows
             /\ n' = n + Cardinality(DOMAIN new)
             /\ job' = [r \in Row |-> IF r \in DOMAIN new THEN new[r].job ELSE job[r]]
             /\ dep' = [r \in Row |-> IF r \in DOMAIN new THEN new[r].dep ELSE dep[r]]
             /\ owner' = [r \in Row |-> IF r \in DOMAIN new THEN new[r].owner ELSE owner[r]]
             /\ requested' = [r \in Row |-> IF r \in DOMAIN new THEN new[r].requested ELSE requested[r]]
             /\ readers' = [d \in Row |-> readers[d] + Cardinality(reads(d))]
             /\ rootReaders' = rootReaders
                  + Cardinality({r \in DOMAIN new : new[r].dep = None})
  /\ UNCHANGED <<status, running, released, execVars, workVars>>

\* A point whose circuit could not be built ends before it runs, with the
\* operating point only it reads.  Its readers stay counted.
Refuse(i) ==
  /\ i \in Rows /\ requested[i] /\ status[i] = "pending"
  /\ \A r \in {i, dep[i]} \ {None} : ~exec[r] /\ status[r] = "pending"
  /\ dep[i] # None => /\ ~requested[dep[i]]
                      /\ \A r \in Dependents(dep[i]) : r = i \/ owner[r] = i
  /\ Dependents(i) = {}
  /\ status' = [r \in Row |-> IF r \in {i, dep[i]} THEN "failed" ELSE status[r]]
  /\ UNCHANGED <<rowVars, readers, rootReaders, running, released, execVars, workVars>>

\* Faulty: an operating point goes while rows may still read it.
MayFreeHasty(i, gone) == Terminal(i) /\ ~running[i]
MayFree(i, gone) ==
  Terminal(i) /\ ~running[i] /\ Dependents(i) \subseteq gone

\* release: free row i's executor, and its operating point's once no
\* unreleased row reads that.
Release(i) ==
  LET gone == {r \in Rows : released[r]} \union {i}
      d    == dep[i]
      free == {i} \union {r \in {d} \ {None} :
                            ~requested[r] /\ ~released[r] /\ MayFree(r, gone)}
  IN /\ i \in Rows /\ ~released[i] /\ MayFree(i, gone)
     /\ released' = [r \in Row |-> released[r] \/ r \in free]
     /\ exec'     = [r \in Row |-> exec[r] /\ r \notin free]
     /\ circuit'  = [r \in Row |-> IF r \in free THEN "none" ELSE circuit[r]]
     /\ peers'    = [r \in Row |-> IF r \in free THEN {} ELSE peers[r]]
     /\ UNCHANGED <<rowVars, status, readers, rootReaders, running, take,
                    template, lane, workVars>>

-----------------------------------------------------------------------------
(* Starting a quantum. *)

\* Faulty: takes the source's state with another reader still to copy it.
LastReaderHasty(i) == dep[i] # None \/ LastTemplateReader
\* Row i alone still has to copy its source's device state.
LastReader(i) ==
  IF dep[i] = None THEN LastTemplateReader /\ rootReaders = 1
                   ELSE readers[dep[i]] = 1

\* makeExecutor decides, for the rows of B that have no executor yet, whether
\* the row takes its source's state over or copies it.
DecideTake(B) ==
  take' = [r \in Row |-> IF r \in B /\ ~exec[r] THEN FinalPlan /\ LastReader(r)
                                                 ELSE take[r]]

BatchOf(i) == {i} \union peers[i]

\* gather made P row i's peers, and launch started its quantum.
Launch(i, P) ==
  /\ exec' = [r \in Row |-> exec[r] \/ r \in {i} \union P]
  /\ DecideTake({i} \union P)
  /\ peers' = [peers EXCEPT ![i] = IF exec[i] THEN @ ELSE P]
  /\ running' = [r \in Row |-> running[r] \/ r \in {i} \union P]
  /\ worker' = [worker EXCEPT ![i] = "working"]
  /\ UNCHANGED <<rowVars, status, readers, rootReaders, released, circuit,
                 template, lane, stop, cancelled, permits>>

-----------------------------------------------------------------------------
(* Settling: the rows of B, which stopped with outcome out[r], and the     *)
(* split queries whose last lane that was.  `built' are rows that got      *)
(* their executor in the same step.                                        *)

\* Faulty: one failed lane does not fail the split query.
SplitStatusLax(g, st) == "complete"
\* assemble: the first lane, in lane order, that did not complete decides.
SplitStatus(g, st) ==
  LET bad == {l \in LanesOf(g) : st[l] # "complete"}
  IN IF bad = {} THEN "complete"
     ELSE st[CHOOSE l \in bad : \A m \in bad : l <= m]

\* Faulty: a row leaves its source's count each time it stops.
NewlyReadAlways(B) == B
\* The rows of B whose first quantum this was: their copy is done.
NewlyRead(B) == {r \in B : status[r] = "pending"}

\* Faulty: the circuit never goes when nothing reads it.
MayReleaseRead(r, st, left) ==
  FinalPlan /\ st[r] = "complete" /\ left[r] = 0 /\ Dependents(r) # {}
\* releaseIfRead
MayRelease(r, st, left) == FinalPlan /\ st[r] = "complete" /\ left[r] = 0

\* laneDone: the split queries whose last lane ended here.
SplitsEnded(B, st) ==
  {g \in Rows : /\ IsSplit(g) /\ LanesOf(g) \intersect B # {}
                /\ \A l \in LanesOf(g) : st[l] \in Ended}

Settle(B, out, built) ==
  LET st    == [r \in Row |-> IF r \in B THEN out[r] ELSE status[r]]
      first == NewlyRead(B)
      left  == [d \in Row |-> readers[d] - Cardinality(first \intersect Dependents(d))]
      whole == SplitsEnded(B, st)
      seen  == B \union {dep[r] : r \in first}
  IN /\ \E failed \in SUBSET whole :
          /\ ~MayRunOut => failed = {}
          /\ status' = [r \in Row |-> IF r \in failed THEN "failed"
                          ELSE IF r \in whole THEN SplitStatus(r, st) ELSE st[r]]
     /\ exec' = [r \in Row |-> \/ exec[r] \/ r \in built
                               \/ r \in whole /\ status'[r] = "complete"]
     /\ readers' = left
     /\ rootReaders' = rootReaders - Cardinality({r \in first : dep[r] = None})
     /\ circuit' = [r \in Row |->
          IF r \in seen /\ circuit[r] = "own" /\ MayRelease(r, st, left)
          THEN "released" ELSE circuit[r]]

\* launch fails: no executor (then nobody gathered peers), or no thread.  The
\* row fails; its peers keep their executors and run on their own.
LaunchFails(i, P) ==
  \E built \in BOOLEAN :
    LET B == IF built THEN {i} \union P ELSE {}
    IN /\ ~built => ~exec[i] /\ P = {}
       /\ Settle({i}, [r \in {i} |-> "failed"], B)
       /\ DecideTake(B)
       /\ peers' = [peers EXCEPT ![i] = {}]
       /\ UNCHANGED <<rowVars, running, released, template, lane, workVars>>

\* What wait returns of a stopped quantum: a run cancelled while it was
\* parked ends as cancelled.
Outcome(i) ==
  CASE stop[i] = "progress" -> IF cancelled[i] THEN "cancelled" ELSE "paused"
    [] OTHER -> stop[i]

\* Faulty: a lane that failed reads as cancelled.
PeerOutcomeLax(i, p) == IF lane[p] = "published" THEN "complete" ELSE "cancelled"
\* settlePeers: a peer takes the outcome its lane left, or a cancel.
PeerOutcome(i, p) ==
  IF lane[p] = "published" THEN "complete"
  ELSE IF lane[p] = "none" \/ Outcome(i) = "cancelled" THEN "cancelled"
  ELSE "failed"

\* settle, for the stopped worker of row i.
SettleRow(i) ==
  /\ worker[i] = "stopped"
  /\ Settle(BatchOf(i),
            [r \in BatchOf(i) |-> IF r = i THEN Outcome(i) ELSE PeerOutcome(i, r)], {})
  /\ running' = [r \in Row |-> running[r] /\ r \notin BatchOf(i)]
  /\ worker' = [worker EXCEPT ![i] = "idle"]
  /\ stop' = [stop EXCEPT ![i] = "none"]
  /\ UNCHANGED <<rowVars, released, take, peers, template, lane, cancelled,
                 permits>>

-----------------------------------------------------------------------------
(* The analysis threads. *)

NeedsSetUp(r) == circuit[r] = "none" /\ lane[r] # "failed"

\* Executor.materialize, for row r on the thread of leader i: the circuit is
\* a copy of its source's state, or takes that state over.
SetUp(i, r) ==
  /\ worker[i] = "working" /\ r \in BatchOf(i) /\ NeedsSetUp(r)
  /\ \/ /\ MayRunOut
        /\ lane' = [lane EXCEPT ![r] = "failed"]
        /\ UNCHANGED <<circuit, template>>
     \/ /\ circuit' = [x \in Row |-> CASE x = r -> "own"
                                       [] x = dep[r] /\ take[r] -> "taken"
                                       [] OTHER -> circuit[x]]
        /\ template' = [t \in Templates |->
             IF dep[r] = None /\ take[r] /\ t = job[r].template THEN "taken"
             ELSE template[t]]
        /\ UNCHANGED lane
  /\ UNCHANGED <<rowVars, status, readers, rootReaders, running, released,
                 exec, take, peers, workVars>>

\* The quantum stops: the worker posts the scheduler's semaphore.
Stop(i, outcome) ==
  /\ worker' = [worker EXCEPT ![i] = "stopped"]
  /\ stop' = [stop EXCEPT ![i] = outcome]
  /\ permits' = permits + 1
  /\ UNCHANGED <<rowVars, status, readers, rootReaders, running, released,
                 exec, take, peers, circuit, template, cancelled>>

Park(i) ==
  /\ TimingInDepth /\ permits < MaxPermits
  /\ worker[i] = "working" /\ ~cancelled[i]
  /\ \A r \in BatchOf(i) : ~NeedsSetUp(r)
  /\ \E r \in BatchOf(i) : lane[r] # "failed"
  /\ Stop(i, "progress")
  /\ UNCHANGED lane

\* execute and executeBatch: the rows in `ok' end with a result.
End(i) ==
  /\ worker[i] = "working"
  /\ \A r \in BatchOf(i) : ~NeedsSetUp(r)
  /\ \E ok \in SUBSET {r \in BatchOf(i) : lane[r] # "failed"} :
       /\ Stop(i, IF cancelled[i] THEN "cancelled"
                  ELSE IF i \in ok THEN "complete" ELSE "failed")
       /\ lane' = [r \in Row |-> CASE r \in peers[i] \intersect ok -> "published"
                                   [] r \in peers[i] \ ok -> "failed"
                                   [] OTHER -> lane[r]]

\* executeGpuBatch runs out of memory before it has booked its lanes.
FailFirst(i) ==
  /\ LeaderMayFailFirst
  /\ worker[i] = "working" /\ peers[i] # {}
  /\ \A r \in BatchOf(i) : NeedsSetUp(r)
  /\ Stop(i, IF cancelled[i] THEN "cancelled" ELSE "failed")
  /\ UNCHANGED lane

RunStep ==
  \E i \in Rows :
    \/ \E r \in Rows : SetUp(i, r)
    \/ Park(i) \/ End(i) \/ FailFirst(i)

-----------------------------------------------------------------------------
(* Properties of the graph. *)

TypeOK ==
  /\ n \in 0..MaxRows
  /\ job \in [Row -> JobType]
  /\ dep \in [Row -> Row \union {None}] /\ owner \in [Row -> Row \union {None}]
  /\ requested \in [Row -> BOOLEAN]
  /\ status \in [Row -> {"pending", "paused", "complete", "failed", "cancelled"}]
  /\ readers \in [Row -> Nat] /\ rootReaders \in Nat
  /\ running \in [Row -> BOOLEAN] /\ released \in [Row -> BOOLEAN]
  /\ exec \in [Row -> BOOLEAN] /\ take \in [Row -> BOOLEAN]
  /\ peers \in [Row -> SUBSET Row]
  /\ circuit \in [Row -> {"none", "own", "taken", "released"}]
  /\ template \in [Templates -> {"own", "taken"}]
  /\ lane \in [Row -> {"none", "published", "failed"}]
  /\ worker \in [Row -> {"idle", "working", "stopped"}]
  /\ stop \in [Row -> {"none", "progress", "complete", "failed", "cancelled"}]
  /\ cancelled \in [Row -> BOOLEAN]
  /\ permits \in Nat

\* No row ever builds its circuit from device state that another row took
\* over, or that was released: whoever still has to copy finds it whole.
SourceIntact ==
  \A i \in Rows : \A r \in BatchOf(i) :
    worker[i] = "working" /\ NeedsSetUp(r) =>
      IF dep[r] = None THEN template[job[r].template] = "own"
      ELSE exec[dep[r]] /\ circuit[dep[r]] = "own" /\ status[dep[r]] = "complete"

\* A row is on at most one thread, and its running flag says so.
OneThreadPerRow ==
  /\ \A i, k \in Rows : i # k /\ worker[i] # "idle" /\ worker[k] # "idle" =>
       BatchOf(i) \intersect BatchOf(k) = {}
  /\ \A i \in Rows : running[i] <=> \E k \in Rows : worker[k] # "idle" /\ i \in BatchOf(k)

\* A final plan gives all device state back: once every row has ended, none
\* that completed still holds its circuit.
NothingKept ==
  FinalPlan /\ (\A r \in Rows : Terminal(r)) =>
    \A r \in Rows : status[r] = "complete" => circuit[r] # "own"

\* A row reads as cancelled only if its own thread was told to cancel (a split
\* query has no thread: it repeats what a lane says; a released leader no
\* longer knows whom it led).
CancelledOnlyByCancel ==
  \A r \in Rows : status[r] = "cancelled" /\ ~IsSplit(r) =>
    \E i \in Rows : cancelled[i] /\ (r \in BatchOf(i) \/ released[i])

\* releasing a query frees all that was built for it, and its operating
\* point once every query on that point is released.
ReleaseFreesAll ==
  \A g \in Rows : released[g] =>
    /\ \A l \in LanesOf(g) : ~exec[l]
    /\ dep[g] # None /\ ~requested[dep[g]]
         /\ (\A r \in Rows : dep[r] = dep[g] /\ requested[r] => released[r])
       => ~exec[dep[g]]

Graph == INSTANCE QueryGraph
  WITH rows <- Rows, needs <- dep, whole <- owner,
       outcome <- [r \in Row |-> IF r <= n /\ Terminal(r) THEN EffectiveStatus(r)
                                 ELSE "none"]

\* The session keeps the promise of QueryGraph: queries end once, results rest
\* on results, and split queries end with their lanes.
KeepsGraph == Graph!Spec
=============================================================================

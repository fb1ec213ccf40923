# ESPice: specifications of the scheduling core

TLA+ modules of the parts of ESPice where threads, processes, files and order
decide whether an answer is right: the resumable analysis thread, the query
session with its refilling scheduler and its stepping drivers, the threaded
device stamp, the shared cache of compiled models, the way results reach the
output file, and the developers' gates that judge runs and generated code.
Each module is translated from the source named below (Zig, and Python for the
gates); TLC checks them on small instances, and TLAPS proves every safety
property of the worker, the session and its drivers, the stamp, the model cache,
the delivery and the two lane gates for every value of their bounds.  All paths are relative to `src/src/` unless they begin
with `src/`.

## 1. The system

ESPice reads a SPICE or Spectre deck, elaborates it to a plan of analyses
("queries") over one or more circuit templates, runs the queries, and writes
the results.  `main.zig` and the C API drive an `espice.zig` `Problem`; a
`Problem` drives a `Session`; a `Session` runs each query on a `Worker` thread
that executes an `Executor`; an executor builds its own circuit and calls an
analysis, and the analysis's inner loops share each device evaluation with the
lanes of a `ParallelEval`.

| component | state it keeps | operations | correct when |
|---|---|---|---|
| analysis worker (`analysis/worker.zig`) | state, quantum, cancel flag, mutex and condition, semaphore pointer, join handle | `start`, `checkpoint` (on the thread), `post`, `stopped`, `wait`, `cancel`, `deinit` | the analysis runs only inside a granted quantum; each round gets one post, to a semaphore that still exists; a cancel decides the verdict; every call returns |
| query session (`analysis/session.zig`, `Session`) | table of rows: dependency, owner of split lanes, status, reader counts, executor, circuit of each executor | `append`, `refuse`, `release`, `makeExecutor`, `launch`, `settle`, `settlePeers`, `laneDone`, `assemble` | a row ends once, with its prerequisites; device state is copied before it is taken over or released; a final plan gives all memory back |
| session pool (`session.zig`, `Pool`) | rows in flight, queue, urgent stack, one semaphore | `add`, `fill`, `nextReady`, `gather`, `wait`, `follow`, `deinit` | no lost wake-up, no row on two threads, no row left behind, the urgent stack stays inside its capacity |
| query executor (`analysis/executor.zig`) | its circuit, result, peers, and what a lane left | `materialize`, `execute`, `executeBatch`, `executeGpuBatch` | every lane ends with its own outcome |
| threaded stamp (`analysis/par_eval.zig`) | epoch, sleepers, claim counters, staging array, planes | `run`, `deinit`, `workerMain`, `pass`, `reduceBlock` | every pass sums each stamp once; nobody sleeps through a bell |
| stepping drivers (`session.zig`, `advance`, `advanceReady`) | the ids of a call, `cursor` | start each, wait, settle each | an unfinished query always has a row to advance |
| compiled-model cache (`device/loader.zig`) | index files, build directories with a lock and a library | look up, lock, open; compile, lock, unlink, copy, open, record | no library is rewritten under the process that mapped it; a build opens what it wrote; a torn index is a miss; nobody waits for ever |
| results delivery (`espice.zig`, `output/session.zig`) | next plots, delivery error, replacement file, stream | `run_all`, `advance`, `age`, `deliverRuns`, `publish`, `beginStream`, `endStream`, `finish` | every result reaches the file, once, in order; a file is whole or untouched |
| code probe (`src/tools/asm_probe.py`) | one assembly listing, pairs, verdicts | parse, find, body, judge | a verdict says what is true of the two functions |
| lane gates (`src/tools/lane_diff.py`, `src/tools/gpu_lane_parity.py`) | decks, two runs of each | run, read, compare | the gate fails exactly when runs differ |
| benchmark reports (`src/tools/bench_plot.py`, `src/bench/matcha/compare_hspice.py`) | a report, a measure table | count devices, drop vendors, sum up; match points | numbers belong to the simulator and point they are shown under |
| operating point ladder (`analysis/dc/op.zig`) | iterate, gmin, source scale, holds | plain Newton, gmin, source and pseudo-transient steps | every path out restores what it changed |
| transient stepping (`analysis/tran/tran.zig`) | time, step, history rings, method | accept, reject, breakpoints, promotion | a rejected step leaves no trace |
| other analyses (`analysis/ac`, `pss`, `sweep`, `eigen`, `post`, GPU) | per-run arrays | real-valued computations | numerical |
| solvers (`solver/`), optimisers (`core/lm.zig`, `core/bisect.zig`) | factors, per-lane masks; ask/tell state | `newton`, `newtonLanes`; `points`, `feed` | a lane is accepted only through its gates; an optimiser asks only inside its bounds |
| devices and model library (`device/`) | parameters, state | evaluate, move state between circuits | numerical |
| front end (`frontend/`) | text and a deck | parse, elaborate, lint | sequential |
| rest of facade and entry points (`espice.zig`, `main.zig`, `c_api.zig`) | templates, variants, points | `append_points`, `release_points`, measures, tangents | all-or-nothing appends |

How they interact:

* coordinator and worker share the worker's mutex, its condition, an atomic
  cancel flag, and a semaphore that lives on the coordinator's stack;
* a row's thread reads its source's circuit (its operating point's, or the
  template) to build its own, by copy or by taking it over; the coordinator
  decided which when it built the executor, and it releases circuits when the
  last reader is settled;
* a batch leader's thread writes its peers' outcome; the coordinator reads it
  when the leader is settled;
* the caller appends, refuses and releases rows between runs of the pool;
* stamp lanes share plain arrays ordered only by two atomic counters and an
  epoch;
* loads in several threads and processes share the cache directory, ordered by
  one lock file per build; the index files are read without it;
* the `Problem` delivers each ended query's plot to one output session, in
  request order; the session writes a replacement file and renames it;
* the gates start simulator runs as processes and read the files they leave.

The hard behaviours are therefore interleaving (worker against coordinator,
lanes in a pass), the lifetime of shared memory (semaphore frames, taken-over
and released circuits), partial failure (a thread, circuit or batch that does
not start, a write that fails, a build that dies under its lock), teardown with
threads running, and long legal sequences of append, run, step, refuse and
release.  `PROJECT.json` lists each at its line.

## 2. The modules

| module | models | size |
|---|---|---|
| `Worker` | `analysis/worker.zig`: one thread, one coordinator | detailed |
| `RunContract` | what a worker promises its coordinator | abstract |
| `Worker_proofs` | theorems about `Worker` | proofs |
| `Session` | rows, sharing, settling, take-over, and what a quantum does to them (`session.zig`, `executor.zig`) | operators, actions |
| `QueryGraph` | what a session promises its caller | abstract |
| `Pool` | the refilling scheduler over `Session` | composition |
| `Pool_proofs` | theorems about `Pool` and its threads | proofs |
| `Session_proofs` | the device state rows share; `Pool` implements `QueryGraph`; its types | proofs |
| `Stepping_proofs` | the same with steps between the runs; never stuck; the lines of the pool; what release frees | proofs |
| `Stepping` | `advance` and `advanceReady`, beside the pool | composition |
| `MCPool`, `MCStepping` | small sets of jobs for TLC | instances |
| `ParEval` | `analysis/par_eval.zig` | detailed |
| `ParEval_proofs` | theorems about `ParEval` | proofs |
| `ModelCache` | `device/loader.zig`, processes over one cache directory | detailed |
| `MCModelCache` | two loads for TLC | instance |
| `ModelCache_proofs` | theorems about `ModelCache` | proofs |
| `Delivery` | results from ended queries to files (`espice.zig`, `output/session.zig`) | detailed |
| `Delivery_proofs` | theorems about `Delivery` | proofs |
| `AsmProbe` | `src/tools/asm_probe.py` | pure algorithm, against a reference |
| `LaneDiff` | `src/tools/lane_diff.py`, a pool of threads | detailed |
| `GpuParity` | `src/tools/gpu_lane_parity.py` | detailed |
| `Gates_proofs` | theorems about `LaneDiff` and `GpuParity` | proofs |
| `BenchReport` | `src/tools/bench_plot.py`, `src/bench/matcha/compare_hspice.py` | pure algorithm, against a reference |
| `MCTools` | the four tool modules, one at a time, with their inputs | instance |

### Worker

`state`, `result`, `quantum`, `cancelRequested`, `signal`, `thread` are the
fields of `Worker`; `mutex` and `waiting` are its lock and the wait set of
`changed`; `pcRun` and `pcCoord` say where the two threads are.  `starts`
numbers the semaphores, `frame` is the one whose stack frame is alive and
`permits` what it holds.  A critical section of the thread that ends in a post
is two steps with the mutex held in between (`Park`/`PostAndSleep`,
`Finish`/`PostAndExit`), because a wait on the semaphore needs no mutex: the
coordinator may run between the post and the unlock, and, if the post were
outside the lock, after its own return.  A suppressed checkpoint
(`PollCancel`) reads the flag without the lock, as the code does.  A
coordinator call whose critical section nobody sees inside is one step.
Every wait on the condition may wake spuriously.  The coordinator is the one
the sessions are: it calls `stopped` only after a permit, and does not schedule
a query again that has been cancelled.  The single-threaded build's branch of
`start` is left out: it runs the quantum inline.

### Session and Pool

One row of the table is one index `1..n` of functions over `Row`; the optional
fields use 0 for none.  `circuit[r]` says where the circuit of an executor is:
not built, `"own"`, `"taken"` by a reader, or `"released"`.  `take[r]` is the
decision `makeExecutor` made.  One session shares the pool; the facade may
add the sessions of variant runs, whose rows have no state in common.  `lane[r]` is what a batch left in row r's
executor (`published`, `peer_failure`).  `worker`, `stop` and `permits`
reduce a `Worker` to the contract of `RunContract`: working, or stopped with an
outcome, one post for each stop.  `append` adds its rows in one step: it is
called between runs, when no thread runs.  `Settle` is the body of `settle` with
everything it calls: statuses, reader counts, releases, and assembling the
split queries whose last lane this was.

`Pool` adds `Pool.running`, the queue, the urgent stack and the coordinator's
place.  `NextIs` and `NextIsNone` are `nextReady` with its two orders
(depth first, or breadth first under GPU lanes with transients held back).
`Gathered` offers every set of eligible peers that fits: `gather` builds
each peer's executor and drops those whose build fails, and the window it
looks through depends on data the model does not have, so any eligible subset
is a superset of what the code can choose.  `Follow` pushes what `FollowOne` of
the batch's rows gives, the leader's last and of one row's dependents the newest
first; the order of the peers is left open, because `executor.peers` is in the
order `gather` found them.  `FillOne` is one turn of
the fill loop; `Wait`, `ScanStopped`, `ScanRunning`, `ScanDone` are
`Pool.wait`; `Abort` and `AbortSettle` are `Pool.deinit` with rows still
running, which `runAll` and `run_all` only reach through an error between two
calls of the pool.

### Stepping

`ids` are the rows of a call still to be started and `cursor` is the session's.
`AdvanceReady` is `advanceReady` on any rows that are ready, listed in any order
(the last of the list is started last: it sets `cursor`); `Advance(target)` picks
the first ready row in the target's scope.
`StepStart`, `StepFilled`, `StepWait`, `StepScan` and `StepScanned` are the loop
of `advanceReady`: start what fits, sleep on a semaphore of the call's own,
settle what stopped.  Nothing is gathered and nothing follows.  Steps and
pool runs alternate freely, with appends, refusals and releases between them.

### ParEval

`epoch`, `sleepers`, `quit`, the four counters and the staging array are the
fields of the code.  A staged position holds 0 at rest and k once stamped with
the arguments of the k-th `run`; a plane block holds k if the reduction read
exactly the k-th run's stamps, else `Torn`.  Each atomic operation is a step; so is the
stamp of one claimed task and the reduction of one claimed block.
The spin and yield loops before parking are a choice of when to park.  Atomics
are sequentially consistent, which the epoch's publication and the counters'
acquire/release orders give the accesses that matter here; weaker orders are
not explored.

### ModelCache

One load is one call of `cachedLoad` in some thread of some process; `Step` has
one action for each file operation whose order matters.  A file is its inode:
`library[b]` is the inode linked at the library path of build `b`, `mapped[p]`
the one a load has opened, `whole` the inodes whose copy ended.  `Unlink`,
`Create` and `Copy` are `deleteFile` and `compileRelease`; two builds of one
source hash to one directory, and two sources may.  `index[s]` is `"torn"`
between the truncation and the write of `recordInputs`.  `Fail` is any error
return, `Exit` any end of the process, both of which close the lock file.
Nobody checks that a library is whole before `dlopen`: `HitOpen` maps whatever is
at the path, a library that a failed or killed build left torn included, and
`Miss` covers the times when `dlopen` refuses it.
`Keyed` are the sources whose includes `inputKey` can follow.

### Delivery

A plot is the number of the query it shows, a file the sequence of its plots;
`Torn` is a plot that was not written to its end.  `Deliver`, `Publish`,
`EndStream`, `AbortStream` and `Finish` are the functions of
`output/session.zig`, each with a twin for its failures.  `Age`, `Open`, `Run`,
`DeliverOne`, `FinishWhenDone` and `Check` are the parts of `run_all` and of a
step in the order the code calls them; `Run` lets any of the remaining queries
end, in any order and with any outcome (what `Pool` and `Stepping` do).  `next`
and `nextRun` are `next_output` of the main session and of the variant runs.
The selection (format, kind of destination, final plan, MOSRA card) is chosen
at the start.  `set_params`, which also calls `age`, is not a separate action.

### The developers' tools

`AsmProbe` keeps the parser of the listing, the search for a function through
equates and qualified names, the normalisation of labels, pools and tables,
the cost counters and the order of the verdicts.  A line is a
record; the text of an operand is reduced to its kind and the name in it.
The reference definitions read the listing directly: `SameCode` compares two bodies
by what their operands lead to, `Escapes` finds the lines where a body goes
elsewhere, tail calls included.  `ExitPromise` says what a build step may take from
an exit status of 0; a pair of one mnemonic sequence (EQUIVALENT) is exempt, since the
script does not look at its operands.  `LaneDiff` has one
action for each run of a deck by a thread of its pool, in any order.
`GpuParity` interpolates over samples that are integers or `NaN`.  `BenchReport` has one action
for each script pass.  Their inputs are small listings, files and tables in
`MCTools`, built to contain each case the scripts distinguish.

## 3. The runs

| run | bounds | checks | shows |
|---|---|---|---|
| `worker` | 3 starts, 3 checkpoints | `TypeOK`, `Isolation`, `OneWakeup`, `PostsToLiveFrame`, `CancelDecides`, `ReapedBeforeUse`, `CallsReturn`, `CancelEnds`, `KeepsContract` | one thread against one coordinator with spurious wake-ups, failed spawns, cancels and teardown at every point |
| `par_eval` | 3 workers, 2 tasks, 2 blocks, 2 runs | `TypeOK`, `SumsWhole`, `PhasesApart`, `JobQuiet`, `CallsReturn` | passes never mix, nobody sleeps through a bell |
| `pool_plan` | 3 rows, 2 in flight, parking | `TypeOK`, `SourceIntact`, `NothingKept`, `NoLostWakeup`, `UrgentFits`, `RunEnds` | a final plan with take-over and release of device state, and every run ends |
| `pool_live` | 5 rows, 2 in flight, split queries, CPU batches up to 3, steps | `SourceIntact`, `OneThreadPerRow`, `CancelledOnlyByCancel`, `NeverStuck`, `KeepsGraph` | a caller that appends, runs, steps, refuses and releases, with circuits, threads and lanes that fail one by one |
| `pool_gpu` | 4 rows, GPU batches of 2, teardown | `PeersStillRunning`, `RunLeavesNothing` | the breadth-first order never strands a held-back row |
| `model_cache` | 2 loads, 2 sources of 1 build, 3 inodes | `LibrariesIntact`, `LoadsEnd` | loads that hit, miss, build, fail and die in any order share one directory |
| `delivery` | 3 main queries, 1 variant run, every format and destination | `DestinationWhole`, `AllDelivered`, `StreamAlone`, `OnlyGrows` | runs, steps, streams, failed writes and teardown in any order |
| `tools` | 18 bodies each against each, 27 listings with an ambiguous name, 9 result files, 7 waves, 2 parents of subcircuits, reports of 2 decks | `VerdictsAreTrue`, `ExitPromise`, `GateComparesRuns`, `ParityIsCloseness`, `DevicesExpanded`, `SummaryPerSimulator`, `MeasuresMatched` | what each script answers is what its inputs say |
| `gpu_park`, `gpu_memory`, `release_split`, `delivery_failure` | 4 or 5 rows; 2 queries | one property each | the four findings of section 6 |

Why the bounds are enough.  Worker: three starts give a first quantum, a
resumed one and one more after a stop was seen, so a permit or pointer of an
earlier round can meet a later one; three checkpoints give parks in different
rounds.  Pool: three rows are an operating point with two readers, the least
with a reader that must not be the last; five are a split query of two lanes
with its point and another reader (with batches of up to three, the lanes and
the reader); two in flight is the least with a choice of
which stops first; two permits let a parked row stop before the previous
permit is taken (`MaxPermits` bounds only how many stops may be outstanding
while rows keep parking).  ParEval: three workers let two lanes be past the barrier while
another still sleeps; two tasks and two blocks give lanes with and without
work; two runs let a late worker of one pass meet the next pass's counters.
ModelCache: the lock, the library and the index of one build are only ever
contended by two loads at a time; two sources of one build let a load under
one key rebuild what another key names, and three inodes give both loads
an old library mapped while a third is copied.  Delivery: three queries are a
first that may stream, one that is late and one after it; one variant run is
delivered after all of them.  Tools: each body of `Shapes` is one thing the
probe must tell apart, and every ordered pair of them is judged; vector code that
ends in a tail call is what only a full count of the escapes tells from a gain.  Two
of the GPU waves hold a `NaN`, one of them as the first sample, which `max` keeps.

Deadlock is checked in `Worker`, `ParEval` (whose finished callers stutter
explicitly) and `ModelCache`.  The pool's runs turn it off, because a caller
with no more rows to append has nothing left to ask; so do `Delivery`, whose
problem may be destroyed, and the tools, which end.

## 4. Fairness

* `Worker`: `WF` on the thread's next step and on the coordinator's next step
  *inside* a call.  The operating system schedules both, and every analysis
  reaches a checkpoint or returns (it iterates to limits; `MaxCheckpoints`
  stands for that).  The coordinator owes no call: nothing makes it start,
  cancel or wait.  `CallsReturn` is not assumed of the condition variable:
  wake-ups may also be spurious.
* `Pool`: `WF` on the coordinator's step and on each row's circuit set-up; `SF`
  on each row's end, because a row that parks leaves the state in which it
  can end, and comes back to it: an analysis that is resumed for ever ends.
* `ModelCache`: `WF` on each load's next step, `SF` on taking a lock, which an
  exclusive file lock gives to somebody each time it is free.  Nobody
  must fail or die.
* `Delivery`, `Stepping` and the tools state none: only safety is claimed of them.
* `ParEval`: `WF` on the caller inside `run` or `deinit` and on each worker,
  spurious futex returns excluded.

## 5. What is proved

`Worker_proofs` proves for every `MaxStarts`, `MaxCheckpoints` and
`ReportNonlinear` (assumed only to be numbers and a Boolean):

| theorem | says |
|---|---|
| `TypeCorrect` | `Spec => []TypeOK` |
| `AnalysisIsolated` | `Spec => []Isolation` |
| `WokenOnce` | `Spec => []OneWakeup` |
| `NoDanglingPost` | `Spec => []PostsToLiveFrame` |
| `CancelIsDecisive` | `Spec => []CancelDecides` |
| `ReapedFirst` | `Spec => []ReapedBeforeUse` |
| `ImplementsContract` | initial states map to `RunContract`'s, and every step to a step or a stutter |

None of the invariants is inductive alone.  The inductive invariant `IInv`
adds who holds the mutex (`MutexInv`: the thread, exactly between a change of
state and its post), where the thread can be in each state (`PhaseInv`), that
an armed semaphore belongs to the round in progress and to a quantum that has
not posted (`PostInv`), that verdict and flag agree
(`ResultInv`), and that the join handle outlives the thread (`ReapInv`).
`PostInv` is the heart: that `signal # 0` implies `signal = frame` needs the
coordinator to be inside the round, which needs the thread to post before it
lets the mutex go, which is what `MutexInv` and `PhaseInv` say.  The lemma
`Invariance` has one step per action; the safety theorems and the refinement
follow from it.

`ParEval_proofs` proves for every finite set of workers (the empty one
included) and every number of tasks, blocks and runs:

| theorem | says |
|---|---|
| `TypeCorrect` | `Spec => []TypeOK`: in particular `sleepers` never goes below zero |
| `PhasesStayApart` | `Spec => []PhasesApart` |
| `SumsAreWhole` | `Spec => []SumsWhole` |
| `JobStaysQuiet` | `Spec => JobQuiet` |

Its inductive invariant says where the workers can be at each of the caller's
places (`MainPlaces`, `WorkerPlaces`), what the counters count (`SleepCount`,
`PassCounts`: `stamped` is the number of lanes that have arrived, `done` of
workers that are back), that nobody is past the barrier before everybody
arrived (`Barrier`), that claims are distinct and exhausted at the end of a
phase (`Claims`, `Progress`), and what each staged position and each block
holds at every moment (`Sums`).  The code compares a counter with the number of
lanes; `EveryoneArrived` and `EveryoneHome` show, from cardinalities, that the
counter reaches it only when every lane has arrived, or every worker is back.

`Pool_proofs` proves for every set of jobs, number of rows, limit, width and
setting (from the typing of the constants that `SessionAssumption` and
`PoolAssumption` state):

| theorem | says | besides |
|---|---|---|
| `NoWakeupLost` | `Spec => []NoLostWakeup` | |
| `RowOnOneThread` | `Spec => []OneThreadPerRow` | GPU batches do not park |
| `PeersKeepRunning` | `Spec => []PeersStillRunning` | GPU batches do not park |
| `CancelledByCancel` | `Spec => []CancelledOnlyByCancel` | they neither park nor fail before they book their lanes |

The two conditions are exactly what findings 1 and 2 break.  `Wakeup` is the
invariant behind the first: a stopped row of the pool has its permit
still to be taken, or is in the scan that a taken permit pays for.  `Threads`
is behind the others: `Flags` ties `running` to the batches of busy threads;
`Batches` keeps those disjoint; `Leaders` says that a row that led a batch has
its executor and has ended once it is idle, so that a row that may start
leads nobody, and that a lane is never a leader.  `Cancels` adds that a batch
that stops has an outcome for every lane.  `SettleLeaves` isolates the one
fact about settling they need: rows that are not split keep their status
unless they are in the batch.

`Session_proofs` builds on them, from the same typing of the constants and for
GPU batches that do not park:

| theorem | says |
|---|---|
| `SourceStaysIntact` | `Spec => []SourceIntact` |
| `NothingIsKept` | `Spec => []NothingKept` |
| `SessionKeepsGraph` | `Spec => KeepsGraph`: the refinement of `QueryGraph` |
| `SessionTypeCorrect` | `Spec => []TypeOK`: no count of readers goes below zero |

`SourceStaysIntact` rests on `Counts`: `readers[d]` is never below the number
of rows on `d` that have not stopped a quantum, and equals it under a final plan
(under another plan a refused row stays counted, so equality would be
false).  A row that sees the count at one while it is such a row itself is
therefore `Alone`; nothing is appended any more, so it stays so (`Taking`), and
nobody is left who could find the state it took, or the circuit a count of zero
released.  The rest of `Sharing` says which rows have a circuit, so that the
source was there to begin with.  `NothingIsKept` adds `Kept`: a completed row
holds its circuit only for a row that has yet to copy it.

For the refinement, `Whole` says that lanes have their query's operating point,
that a completed row rests on a completed one, and that a split query has ended
exactly when all its lanes have, unless its operating point ended without
a result; then every lane reads as `dependency_failed`, as it does.  `Decides` and
`Appends` are what a step may do to the outcomes; `StepMaps` takes them to
`QueryGraph`'s two actions.  `FirstRow` gives the first lane that did not complete,
which `assemble` reports, by well-founded induction on finite sets.  `Fields` has the
types no other invariant needs.

`Stepping_proofs` takes the step to the composed system, `StepSpec`, again for GPU
batches that do not park:

| theorem | says |
|---|---|
| `AdvanceSucceeds` | `StepSpec => []NeverStuck` |
| `SteppingKeepsGraph` | `StepSpec => KeepsGraph` |
| `SteppingKeepsThreadsApart` | `StepSpec => []OneThreadPerRow` |
| `SteppingKeepsSources` | `StepSpec => []SourceIntact` |
| `SteppingKeepsCancels` | `StepSpec => []CancelledOnlyByCancel` (and they do not fail before they book their lanes) |
| `SteppingLosesNoWakeup` | `StepSpec => []NoLostWakeup` |
| `SteppingKeepsPeers` | `StepSpec => []PeersStillRunning` |
| `SteppingKeepsNothing` | `StepSpec => []NothingKept` |
| `SteppingTypeCorrect` | `StepSpec => []TypeOK` |
| `ReleasedRowsAreFree` | `StepSpec => []ReleasedIsFree` |
| `UnsplitReleaseFreesAll` | `StepSpec => []ReleaseFreesAll`, if no query is split |
| `UrgentStaysInBounds` | `Spec => []UrgentFits` and `StepSpec => []UrgentFits` |
| `RunAllSucceeds` | `Spec => RunLeavesNothing` and `StepSpec => RunLeavesNothing` |

`advanceReady` checks that its rows are ready, not that they are on no thread, and
checks all of them before it starts the first.  `Manned` closes the first gap:
threads belong to the pool, which is empty between calls.  `Called` closes the
second: `StaysStartable` shows that a row that could start still can after
others of its call have failed or stopped, since what it rests on has ended and
ended rows stay as they are.  With that, each start is one `Pool` could have made with no
peers, and its invariants hold on.  `AdvanceSucceeds` then follows from `Whole` and
`Laned` (a split query has lanes): whatever has not ended is ready, or its
operating point is, or one of its lanes.  `SteppingKeepsCancels` carries `Cancels` of
`Pool_proofs` through the steps: a call sets no cancel flag, and the batch it starts
is one row.

So every safety property of the pool also holds of the system that is stepped
between its runs.  `SteppingLosesNoWakeup` needs a second account of permits, for a
call sleeps on a semaphore of its own: each stopped row of the call has its permit
still to be taken, or is in the scan that a taken permit pays for.

Two theorems say what finding 3 leaves standing.  A released row has ended and
holds nothing, and an operating point nobody asked for goes with the last row that
reads it, a lane included (`ReleasedIsFree`).  Where no query is split that is all the
doc of `release` promises (`UnsplitReleaseFreesAll`): split queries are the whole of
the finding.

`UrgentStaysInBounds` and `RunAllSucceeds` are about the queue and the urgent stack, the *lines* of
`Pool.fill`.  `Lines` says that nobody is in line twice, in one line or in both, and
that all who are have an operating point that has ended with a result (`Rests`);
`Served` that, while a run lasts, whoever could be started is in line, and whoever is
in line is on no thread.  Both were checked by TLC, on the constants of all three
pool runs, before they were proved.  Neither is inductive alone: that a batch's
dependents are not in line *before* `follow` pushes them is that they did not rest
on anything yet (`Lines`), that they are not pushed twice is that a row has one
operating point, and that a parked row may be pushed is that it was not in line
while it worked (`Served`).  `NextTakes` shows that what `nextReady` leaves in line is
who was there before, less the row it returns and rows that cannot start, and
`NoneDropped` the same of a search in vain; `WhoCanStart` which rows settling a
batch makes startable (a parked row of it, or a dependent of a complete one), and
`FollowsLines` that `follow` adds just these, all of them newcomers.  `LinesFit` then counts: a stack without
repetitions is an injection into the rows.  `DryLeavesNothing` is where the two
drivers meet: a run that ends has empty lines and an empty pool, so no row could be
started, and by `SomeReady`, the lemma behind `AdvanceSucceeds`, every row has ended.

`ModelCache_proofs` proves for any number of loads, sources, builds and inodes:

| theorem | says |
|---|---|
| `TypeCorrect` | `Spec => []TypeOK` |
| `LibrariesStayIntact` | `Spec => []LibrariesIntact` |
| `MappedStaysWhole` | `Spec /\ [][CopiesEnd]_vars => []MappedWhole` |

The argument is the lock: `Holds` says that a load between its lock and its
release holds it, so (`Exclusive`) only one load at a time unlinks, creates or
opens a build's library; `Fresh` that its path is free when it creates the file,
which therefore gets an inode nobody maps; `Once` that what others map meanwhile,
at other paths, is another inode.  So no library changes under a load that maps it.

That the library a load maps is whole is not a theorem of `Spec`, and TLC refutes it:
an index names a build, a later build of the same directory is cut short in its
copy, and the next hit maps what it left.  `MappedStaysWhole` says when it is true:
as long as nobody fails or dies in the copy (`CopiesEnd`), a library that is not
whole is one that somebody is copying under the lock (`TornIsCopied`).

`Delivery_proofs` proves for any number of main queries and variant runs, every
selection, and any write, plot or query that fails:

| theorem | says |
|---|---|
| `FilesAreWhole` | `Spec => []DestinationWhole` |
| `FilesOnlyGrow` | `Spec => OnlyGrows` |
| `SuccessLeavesNothingOut` | `Spec => []AllDelivered` |
| `AssertionsOfStreamsHold` | `Spec => []StreamAlone` |
| `FailedRunKeepsResults` | `Spec => []FailedRunHolds` |

Its inductive invariant `IInv` (theorem `DeliveryInvariant`) has one part for each kind
of output.  Where several plots share a file (`Replaces`, `Gathers`) there is at most
one replacement; it begins with what the destination holds, or the destination
still holds its old bytes; and both hold whole plots in request order, of queries
the delivery has passed (`Behind`), as long as no write failed.  That is why a
rename only ever lengthens a file, and why the next plot belongs at the end.  Where
each plot has its file (`Separates`), a file whose number was not published yet is
as it was.  `Kept` says that every complete query the delivery has passed is in the
replacement or in a file, until an error is reported; `Progress` says that `finish`
runs only when all main plots are out or the next query has not ended, and the last
check only when everything was passed, which gives `AllDelivered`.  `Fresh` covers the stress run of a
MOSRA card (before it nothing was written), `Counted` that the numbers of files do
not run out, and `Streams` that a stream is open exactly while it is due, with nothing
written next to it before its first plot.

`FailedRunHolds` says what finding 4 leaves standing: whatever a failed run has not
put in the output waits, whole, in the replacement, and only a regular file of
a format that holds many plots has one; every other output has every result.

`Gates_proofs` proves of the two lane gates, for any decks and for any answers of the
runs:

| theorem | says | assumes |
|---|---|---|
| `GateIsTrue` | `LaneSpec => []GateComparesRuns` | a result file is a sequence of plots |
| `ParityIsTrue` | `GpuSpec => []ParityIsCloseness` | `GpuAssumption`: columns are as long as their time column and hold integers or `NaN`, times of a transient ascend, and runs that print as many plots print the same analyses |
| `UnorderedPasses` | a deck whose GPU transients hold only `NaN` is never judged far | `GpuAssumption` |

`GateIsTrue` rests on `LaneKept`: the runs of a deck write different files, each of
which is absent before its run, so what the script reads back is what that run
left; and that 4 copies, one after the other, are what comparing each
plot with the plot at its remainder tells.  `ParityIsTrue` reasons about
`interp`: `bisect_left` on a grid that ascends is a count of samples
(`FirstOnes`), so on a sample's own time it returns that sample (`OnGrid`), and
between samples of a straight line, whatever its slope, it stays on the line exactly
(`ChordReads`, `OnLine`; `Straight` states the line without a division).  Plots
with one remainder modulo the plots of a replica are all equal to
replica 0's, hence to each other (`ReplicasEqual`, `SameRemainder`).

A sample is an integer or `NaN`, which compares with nothing, as in the script:
`Beyond` is false of it and `max` passes over it, unless it comes first.  So
`CloseIsClose` speaks of numbers only, and of replicas only where they share the
plots out evenly (the script compares none otherwise).  `UnorderedPasses` proves
what is left open: a GPU column without a single number passes, whatever the CPU's
holds.  Infinities, and what rounding and the absolute tolerance of 1e-15 do to a
difference near the limit, are left out.

Only model-checked, and why:

* everything temporal under fairness (`CallsReturn`, `CancelEnds`, `RunEnds`,
  `LoadsEnd`, the fairness half of `KeepsContract`) is out of the prover's reach;
* `AsmProbe` (`VerdictsAreTrue`, `ExitPromise`) and `BenchReport` (`DevicesExpanded`,
  `SummaryPerSimulator`, `MeasuresMatched`) are recursive algorithms over listings and
  tables: what they compute for every input needs induction over data;
* the findings' runs show violations, which are not theorems.

## 6. Findings

1. `gpu_park` — `settle` (`analysis/session.zig:658`) settles a leader's peers
   at every stop, a park included.  With GPU lanes and `timing_in_depth` a
   leader parks with peers (`gatherWide` does not ask for the option to be off,
   as `gather` does): its peers are marked cancelled while it still integrates
   them, and the assertion of `settlePeers` (line 599) fails when it stops again.
2. `gpu_memory` — `executeGpuBatch` (`analysis/executor.zig:484`) may fail
   before it books its lanes; the peers then read as cancelled though nobody
   cancelled, where the comments (`executor.zig:345`, `session.zig:592`) promise
   a result or a failure for each.
3. `release_split` — `release` (`analysis/session.zig:913`) does not reach the
   lanes of a split query: they, and the operating point they read, stay built.
   `UnsplitReleaseFreesAll` proves that nothing else does.
4. `delivery_failure` — `run_all` (`espice.zig:959`) returns the first query
   failure before it calls `delivery.finish` (line 964): with a format that
   keeps its plots in a replacement file, the results of the queries that
   did complete stay there and are dropped with the `Problem`, where the docs
   (`espice.zig:927-931`, `src/include/espice.h:197`) promise that every result is
   published and the output finished before the failure is returned.
   `FailedRunKeepsResults` proves that every other result is in the output.

Seen while modelling, without a run of their own: a hit of the model cache may open
a library that a failed build left torn (`MappedStaysWhole` delimits it), though
the doc of `Error` (`device/loader.zig:447`) says that the next load rebuilds a tree
so left, as it does only when no index names it or `dlopen` refuses it; the GPU
gate passes a deck whose GPU columns are NaN (`UnorderedPasses`; every comparison
with one is false), though its header asks for closeness; the probe calls two bodies equivalent when one swaps
a direct call for an indirect or a panicking one, calls a difference of registers
or mnemonics a residue when the counts agree, and calls two functions folded
when one's name ends with the other's, though the shorter fits two labels
(`ExitPromise` is stated for names that fit one); `compare_hspice.py`
matches points by position, so a missing block shifts those after it; an include
edited between hashing and compiling is cached under its old key; `age` sets
`degradation` before it publishes the table, so a table refused once is not
retried; an `.sp` whose Touchstone file fails is an output error with its plot
already counted.

## 7. Left out, and the plan

Left out for good: real-valued numerics (what an iteration computes is a choice of
outcome), encoders, parsing, device kernels, and the scripts that only generate
decks or kernels for experiments (`src/bench/replication`,
`gen_mux_sweep.py`, `src/dev/research`), which keep no state and make no decision
to check.  Left out of the modelled parts: printing from a session, the
32-bit row limit, weak memory, files edited while they are loaded,
`.save` and `.stim` files.

Order of work, most important first:

1. `Problem`: all-or-nothing `append_points` over variants and templates.
2. `OpLadder` and `TranStep`: save and restore over every path.
3. `Optimisers` (ask/tell over a small grid).
4. The pure algorithms of `par_eval.zig` (gather tables, chunks, cuts) against
   a reference definition.

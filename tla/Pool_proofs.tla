---------------------------- MODULE Pool_proofs ----------------------------
(***************************************************************************)
(* For every set of jobs, number of rows and limit: the pool never sleeps  *)
(* with nobody left to wake it; and, unless a GPU batch parks, a row is on *)
(* at most one thread and reads as cancelled only if that was cancelled.   *)
(***************************************************************************)
EXTENDS Pool, TLAPS, FiniteSetTheorems

\* The types the arguments need.
Typed ==
  /\ n \in 0..MaxRows
  /\ permits \in Nat
  /\ worker \in [Row -> {"idle", "working", "stopped"}]
  /\ stop \in [Row -> {"none", "progress", "complete", "failed", "cancelled"}]
  /\ peers \in [Row -> SUBSET Row]

\* What the coordinator's sleep rests on, in a run and in a stepping call.
Wakeup ==
  /\ \A i \in pool : i \in Rows /\ worker[i] # "idle"
  /\ \A i \in pool : worker[i] = "stopped" => permits > 0 \/ i \in toScan
  /\ pc \notin {"scan", "stepScan"} => toScan = {}
  /\ pc \in {"wait", "stepWait"} => pool # {}

\* A batch of running rows is put together from rows that lead none.
Batches ==
  /\ \A i, k \in Row : i # k /\ worker[i] # "idle" /\ worker[k] # "idle" =>
       BatchOf(i) \intersect BatchOf(k) = {}
  /\ \A k \in Row : worker[k] # "idle" =>
       \A r \in peers[k] : r # k /\ r \in Rows /\ peers[r] = {}

\* The running flags are those of the batches.
Flags ==
  \A r \in Row : running[r] <=> \E k \in Row : worker[k] # "idle" /\ r \in BatchOf(k)

\* A row that leads has its executor, runs to its end in one quantum, and
\* has ended once it is idle again.
Leaders ==
  /\ \A i \in Row : worker[i] # "idle" \/ peers[i] # {} => i \in Rows /\ ~IsSplit(i)
  /\ \A i \in Row : peers[i] # {} => exec[i] /\ ~TimingInDepth
  /\ \A i \in Row : peers[i] # {} /\ worker[i] = "idle" => status[i] \in Ended

\* A stopped quantum has an outcome, and only timing in depth parks one.
Stops ==
  /\ \A i \in Row : worker[i] = "stopped" => stop[i] # "none"
  /\ \A i \in Row : stop[i] = "progress" => TimingInDepth

Threads == Batches /\ Flags /\ Leaders /\ Stops

\* What an append leaves of the rows there are.
LEMMA AppendGrows ==
  ASSUME Typed, NEW j \in Jobs, AppendJob(j)
  PROVE  /\ n' \in 0..MaxRows /\ n <= n'
         /\ \A r \in Rows : job'[r] = job[r] /\ owner'[r] = owner[r]
<1>1. n \in Nat /\ MaxRows \in Nat /\ j.lanes \in Nat /\ Rows \subseteq Row
  BY SessionAssumption DEF Typed, JobType, Rows, Row
<1>2. CASE j.kind = "op" /\ OpRows(j) # {}
  BY <1>1, <1>2 DEF AppendJob, Typed
<1>3. CASE ~(j.kind = "op" /\ OpRows(j) # {})
  <2> DEFINE new == NewRows(j)
  <2>1. PICK id \in Nat : id > n /\ DOMAIN new = (n + 1)..id
    BY <1>1 DEF NewRows
  <2>2. Cardinality(DOMAIN new) \in Nat
    BY <1>1, <2>1, FS_Interval, FS_CardinalityType
  <2>3. /\ n + Cardinality(DOMAIN new) <= MaxRows
        /\ n' = n + Cardinality(DOMAIN new)
        /\ job' = [r \in Row |-> IF r \in DOMAIN new THEN new[r].job ELSE job[r]]
        /\ owner' = [r \in Row |-> IF r \in DOMAIN new THEN new[r].owner ELSE owner[r]]
    BY <1>3 DEF AppendJob
  <2>4. \A r \in Rows : r \in Row /\ r \notin DOMAIN new
    BY <1>1, <2>1 DEF Rows
  <2> HIDE DEF new
  <2> QED
    BY <1>1, <2>2, <2>3, <2>4
<1> QED
  BY <1>2, <1>3

LEMMA InitIInv == PoolInit => Typed /\ Wakeup /\ Threads
<1> SUFFICES ASSUME PoolInit PROVE Typed /\ Wakeup /\ Threads
  OBVIOUS
<1>1. Typed
  BY SessionAssumption DEF PoolInit, Init, Typed, Row
<1>2. Wakeup
  BY DEF PoolInit, Init, Wakeup
<1>3. Threads
  BY <1>1 DEF PoolInit, Init, Typed, Threads, Batches, Flags, Leaders, Stops, BatchOf, Rows
<1> QED
  BY <1>1, <1>2, <1>3

LEMMA TypedStep == Typed /\ [Next]_allVars => Typed'
<1> SUFFICES ASSUME Typed, [Next]_allVars PROVE Typed'
  OBVIOUS
<1>0. Rows \subseteq Row
  BY SessionAssumption DEF Typed, Rows, Row
<1> USE DEF Typed, vars, rowVars, execVars, workVars, allVars
<1>1. CASE UNCHANGED vars
  BY <1>1
<1>2. ASSUME NEW j \in Jobs, AppendJob(j) PROVE Typed'
  BY <1>2, AppendGrows DEF AppendJob
<1>3. ASSUME NEW i \in Rows, Refuse(i) PROVE Typed'
  BY <1>3 DEF Refuse
<1>4. ASSUME NEW i \in Rows, Release(i) PROVE Typed'
  BY <1>4 DEF Release
<1>5. ASSUME NEW i \in Rows, NEW P \in Gathered(i), Launch(i, P) PROVE Typed'
  BY <1>0, <1>5 DEF Launch, Gathered
<1>6. ASSUME NEW i \in Rows, NEW P \in Gathered(i), LaunchFails(i, P) PROVE Typed'
  BY <1>0, <1>6 DEF LaunchFails
<1>7. ASSUME NEW i \in Rows, SettleRow(i) PROVE Typed'
  BY <1>0, <1>7 DEF SettleRow
<1>8. ASSUME NEW i \in Rows, NEW r \in Rows, SetUp(i, r) PROVE Typed'
  BY <1>8 DEF SetUp
<1>9. ASSUME NEW i \in Rows, Park(i) \/ End(i) \/ FailFirst(i) PROVE Typed'
  BY <1>0, <1>9 DEF Park, End, FailFirst, Stop
<1>10. CASE Dry \/ Aborted \/ Wait \/ Abort
  BY <1>1, <1>10 DEF Dry, Aborted, RunOver, Wait, Abort
<1>11. CASE FillOne
  BY <1>5, <1>6, <1>11 DEF FillOne
<1>12. CASE Full \/ ScanDone \/ Add
  BY <1>1, <1>12 DEF Full, ScanDone, Add
<1>13. ASSUME NEW i \in Rows, ScanStopped(i) \/ ScanRunning(i) \/ AbortSettle(i) PROVE Typed'
  BY <1>1, <1>7, <1>13 DEF ScanStopped, ScanRunning, AbortSettle
<1> HIDE DEF Typed, vars
<1>14. CASE RunStep
  BY <1>8, <1>9, <1>14 DEF RunStep
<1>15. CASE CoordStep
  BY <1>10, <1>11, <1>12, <1>13, <1>15 DEF CoordStep
<1>16. CASE Caller
  BY <1>2, <1>3, <1>4, <1>16 DEF Caller
<1>17. CASE Add \/ Abort
  BY <1>10, <1>12, <1>17
<1> QED
  BY <1>1, <1>14, <1>15, <1>16, <1>17 DEF Next

\* Every step keeps a stopped quantum's permit, or the look it is owed.
LEMMA WakeupStep == Typed /\ Wakeup /\ [Next]_allVars => Wakeup'
<1> SUFFICES ASSUME Typed, Wakeup, [Next]_allVars PROVE Wakeup'
  OBVIOUS
<1>0. Rows \subseteq Row
  BY SessionAssumption DEF Typed, Rows, Row
<1> USE DEF Wakeup
<1>1. CASE UNCHANGED <<workVars, poolVars>> /\ (n' = n \/ (n' \in Nat /\ n <= n'))
  BY <1>1 DEF workVars, poolVars, Rows, Typed
<1>2. CASE FillOne
  <2>1. PICK i \in Rows : \E P \in Gathered(i) :
          \/ Launch(i, P) /\ pool' = pool \union {i}
          \/ LaunchFails(i, P) /\ UNCHANGED pool
    BY <1>2 DEF FillOne
  <2>2. /\ pc = "fill" /\ UNCHANGED <<pc, toScan, permits, n>>
        /\ \/ pool' = pool \union {i} /\ worker' = [worker EXCEPT ![i] = "working"]
           \/ UNCHANGED <<pool, worker>>
    BY <1>2, <2>1 DEF FillOne, Launch, LaunchFails, workVars, rowVars
  <2> QED
    BY <1>0, <2>2 DEF Typed, Rows
<1>3. CASE Full
  <2>1. pool # {}
    BY <1>3, PoolAssumption, FS_EmptySet DEF Full
  <2> QED
    BY <1>3, <2>1 DEF Full, vars, workVars, rowVars, Rows
<1>4. CASE Dry \/ Aborted
  BY <1>4 DEF Dry, Aborted, RunOver, vars, workVars, rowVars, Rows
<1>5. CASE Wait
  BY <1>5 DEF Wait, WaitAll, rowVars, Rows
<1>6. CASE ScanDone \/ Add
  BY <1>6 DEF ScanDone, Add, vars, workVars, rowVars, Rows
<1>7. CASE Abort
  BY <1>7 DEF Abort, rowVars, Rows
<1>8. ASSUME NEW i \in Rows, ScanStopped(i) \/ AbortSettle(i) PROVE Wakeup'
  <2>1. /\ worker' = [worker EXCEPT ![i] = "idle"] /\ pool' = pool \ {i}
        /\ toScan' \in {toScan, toScan \ {i}} /\ UNCHANGED <<n, permits, pc>>
        /\ pc \in {"scan", "abort"}
    BY <1>8 DEF ScanStopped, AbortSettle, SettleRow, rowVars
  <2> QED
    BY <1>0, <2>1 DEF Typed, Rows
<1>9. ASSUME NEW i \in Rows, ScanRunning(i) PROVE Wakeup'
  BY <1>9 DEF ScanRunning, vars, workVars, rowVars, Rows
<1>10. CASE RunStep /\ UNCHANGED poolVars
  <2>1. ASSUME NEW i \in Rows, Park(i) \/ End(i) \/ FailFirst(i) PROVE Wakeup'
    <3>1. /\ worker' = [worker EXCEPT ![i] = "stopped"] /\ permits' = permits + 1
          /\ UNCHANGED <<n, pc, pool, toScan>>
      BY <1>10, <2>1 DEF Park, End, FailFirst, Stop, poolVars, rowVars
    <3> QED
      BY <1>0, <3>1 DEF Typed, Rows
  <2>2. ASSUME NEW i \in Rows, NEW r \in Rows, SetUp(i, r) PROVE Wakeup'
    BY <1>1, <1>10, <2>2 DEF SetUp, rowVars
  <2> QED
    BY <1>10, <2>1, <2>2 DEF RunStep
<1>11. CASE Caller
  <2>1. ASSUME NEW j \in Jobs, AppendJob(j) PROVE n' \in Nat /\ n <= n' /\ UNCHANGED workVars
    <3>1. n' \in 0..MaxRows /\ n <= n'
      BY <2>1, AppendGrows
    <3>2. UNCHANGED workVars
      BY <2>1 DEF AppendJob
    <3> QED
      BY <3>1, <3>2
  <2>2. ASSUME NEW i \in Rows, Refuse(i) \/ Release(i) PROVE n' = n /\ UNCHANGED workVars
    BY <2>2 DEF Refuse, Release, rowVars
  <2> QED
    BY <1>1, <1>11, <2>1, <2>2 DEF Caller
<1>12. CASE UNCHANGED allVars
  BY <1>1, <1>12 DEF allVars, vars, rowVars
<1> QED
  BY <1>2, <1>3, <1>4, <1>5, <1>6, <1>7, <1>8, <1>9, <1>10, <1>11, <1>12 DEF Next, CoordStep


\* Asleep, the coordinator has a permit to take or a row that will post one.
LEMMA Awakes ==
  ASSUME Typed, Wakeup, pc \in {"wait", "stepWait"}, permits = 0
  PROVE  \E i \in pool : worker[i] = "working"
<1>1. PICK i \in pool : TRUE
  BY DEF Wakeup
<1>2. i \in Row
  BY SessionAssumption DEF Wakeup, Typed, Rows, Row
<1> QED
  BY <1>1, <1>2 DEF Wakeup, Typed

\* The pool sleeps only with somebody left to wake it.
THEOREM NoWakeupLost == Spec => []NoLostWakeup
<1>1. PoolInit => Typed /\ Wakeup
  BY InitIInv
<1>2. Typed /\ Wakeup /\ [Next]_allVars => (Typed /\ Wakeup)'
  BY TypedStep, WakeupStep
<1>3. Typed /\ Wakeup => NoLostWakeup
  BY Awakes DEF NoLostWakeup
<1> QED
  BY <1>1, <1>2, <1>3, PTL DEF Spec

-----------------------------------------------------------------------------
(* One thread per row. *)

\* The variables that the batches and flags are about.
threadVars == <<n, job, owner, status, running, exec, peers, worker, stop>>

\* A row that is on no thread and has not ended leads nobody.
LEMMA IdleStartable ==
  ASSUME Typed, Threads, NEW i \in Rows, Startable(i)
  PROVE  worker[i] = "idle" /\ peers[i] = {} /\ ~IsSplit(i)
         /\ \A k \in Row : worker[k] # "idle" => i \notin BatchOf(k)
<1>0. i \in Row
  BY SessionAssumption DEF Typed, Rows, Row
<1>1. ~running[i] /\ ~IsSplit(i) /\ status[i] \notin Ended
  BY DEF Startable, Ready, Terminal, EffectiveStatus
<1>2. \A k \in Row : worker[k] # "idle" => i \notin BatchOf(k)
  BY <1>0, <1>1 DEF Threads, Flags
<1>3. worker[i] = "idle"
  BY <1>0, <1>2 DEF BatchOf
<1> QED
  BY <1>0, <1>1, <1>2, <1>3 DEF Threads, Leaders

\* An append leaves the rows there are, and rows that are not there idle.
LEMMA AppendThreads ==
  ASSUME Typed, Threads, NEW j \in Jobs, AppendJob(j)
  PROVE  Threads'
<1>1. /\ n' \in 0..MaxRows /\ n <= n'
      /\ \A r \in Rows : job'[r] = job[r] /\ owner'[r] = owner[r]
  BY AppendGrows
<1>2. UNCHANGED <<status, running, exec, peers, worker, stop>>
  BY DEF AppendJob, execVars, workVars
<1>3. Rows \subseteq Rows' /\ Rows' \subseteq Row
  BY <1>1, SessionAssumption DEF Rows, Row, Typed
<1>4. Batches'
  BY <1>2, <1>3 DEF Threads, Batches, BatchOf
<1>5. Flags'
  BY <1>2 DEF Threads, Flags, BatchOf
<1>6. Leaders'
  BY <1>1, <1>2, <1>3 DEF Threads, Leaders, IsSplit
<1>7. Stops'
  BY <1>2 DEF Threads, Stops
<1> QED
  BY <1>4, <1>5, <1>6, <1>7 DEF Threads

\* A row is refused before it runs, and ends.
LEMMA RefuseThreads ==
  ASSUME Threads, NEW i \in Rows, Refuse(i)
  PROVE  Threads'
<1>1. /\ UNCHANGED <<n, job, owner, running, exec, peers, worker, stop>>
      /\ \A r \in Row : status'[r] \in {status[r], "failed"}
  BY DEF Refuse, rowVars, execVars, workVars
<1>2. Batches' /\ Flags' /\ Stops'
  BY <1>1 DEF Threads, Batches, Flags, Stops, BatchOf, Rows
<1>3. Leaders'
  BY <1>1 DEF Threads, Leaders, IsSplit, Rows, Ended
<1> QED
  BY <1>2, <1>3 DEF Threads

\* Only rows on no thread are freed.
LEMMA ReleaseThreads ==
  ASSUME Typed, Threads, NEW i \in Rows, Release(i)
  PROVE  Threads'
<1>0. Rows \subseteq Row
  BY SessionAssumption DEF Typed, Rows, Row
<1>1. PICK free :
        /\ \A r \in free : ~running[r]
        /\ exec' = [r \in Row |-> exec[r] /\ r \notin free]
        /\ peers' = [r \in Row |-> IF r \in free THEN {} ELSE peers[r]]
  BY DEF Release, MayFree
<1>2. UNCHANGED <<n, job, owner, status, running, worker, stop>>
  BY DEF Release, rowVars, workVars
<1>3. \A r \in Row : worker[r] # "idle" => peers'[r] = peers[r]
  BY <1>1 DEF Threads, Flags, BatchOf
<1>4. \A r \in Row : peers'[r] \in {peers[r], {}}
  BY <1>1
<1>5. Batches'
  BY <1>0, <1>2, <1>3, <1>4 DEF Threads, Batches, BatchOf, Rows
<1>6. Flags'
  BY <1>2, <1>3 DEF Threads, Flags, BatchOf
<1>7. Leaders'
  BY <1>1, <1>2 DEF Threads, Leaders, IsSplit, Rows
<1>8. Stops'
  BY <1>2 DEF Threads, Stops
<1> QED
  BY <1>5, <1>6, <1>7, <1>8 DEF Threads

\* A batch starts from rows that are on no thread and lead nobody.
LEMMA LaunchThreads ==
  ASSUME Typed, Threads, Lanes = "gpu" => ~TimingInDepth,
         NEW i \in Rows, Startable(i), NEW P \in Gathered(i), Launch(i, P)
  PROVE  Threads'
<1>0. Rows \subseteq Row
  BY SessionAssumption DEF Typed, Rows, Row
<1>1. /\ worker[i] = "idle" /\ peers[i] = {} /\ ~IsSplit(i)
      /\ \A k \in Row : worker[k] # "idle" => i \notin BatchOf(k)
  BY IdleStartable
<1>2. P # {} => ~exec[i] /\ ~TimingInDepth
  BY DEF Gathered, MayGather, MayJoin
<1>3. ASSUME NEW r \in P
      PROVE  /\ r \in Rows /\ r # i /\ worker[r] = "idle" /\ peers[r] = {}
             /\ \A k \in Row : worker[k] # "idle" => r \notin BatchOf(k)
  <2>1. r \in Rows /\ r # i /\ Startable(r)
    BY <1>3 DEF Gathered, MayJoin
  <2> QED
    BY <2>1, IdleStartable
<1>4. /\ peers' = [peers EXCEPT ![i] = P]
      /\ worker' = [worker EXCEPT ![i] = "working"]
      /\ running' = [r \in Row |-> running[r] \/ r \in {i} \union P]
      /\ exec' = [r \in Row |-> exec[r] \/ r \in {i} \union P]
      /\ UNCHANGED <<n, job, owner, status, stop>>
  <2>1. exec[i] => P = {}
    BY DEF Gathered, MayGather
  <2> QED
    BY <1>1, <2>1 DEF Launch, rowVars
<1>5. Batches'
  <2>1. \A k \in Row : k # i => peers'[k] = peers[k] /\ worker'[k] = worker[k]
    BY <1>0, <1>4 DEF Typed
  <2>2. peers'[i] = P /\ worker'[i] = "working" /\ i \in Row
    BY <1>0, <1>4 DEF Typed
  <2>3. \A k \in Row : k # i /\ worker[k] # "idle" => BatchOf(k) \intersect ({i} \union P) = {}
    BY <1>1, <1>3
  <2>4. \A r \in P : r \in Rows /\ r # i /\ peers'[r] = {}
    BY <1>0, <1>3, <2>1
  <2>5. Rows' = Rows
    BY <1>4 DEF Rows
  <2>6. \A a, b \in Row : a # b /\ worker'[a] # "idle" /\ worker'[b] # "idle" =>
          BatchOf(a)' \intersect BatchOf(b)' = {}
    BY <2>1, <2>2, <2>3 DEF Threads, Batches, BatchOf
  <2>7. \A k \in Row : worker'[k] # "idle" =>
          \A r \in peers'[k] : r # k /\ r \in Rows /\ peers'[r] = {}
    <3> SUFFICES ASSUME NEW k \in Row, worker'[k] # "idle", NEW r \in peers'[k]
                 PROVE  r # k /\ r \in Rows /\ peers'[r] = {}
      OBVIOUS
    <3>1. CASE k = i
      BY <2>2, <2>4, <3>1
    <3>2. CASE k # i
      <4>1. worker[k] # "idle" /\ r \in peers[k]
        BY <2>1, <3>2
      <4>2. r # k /\ r \in Rows /\ peers[r] = {}
        BY <4>1 DEF Threads, Batches
      <4>3. r # i
        BY <1>1, <4>1 DEF BatchOf
      <4> QED
        BY <1>0, <2>1, <4>2, <4>3
    <3> QED
      BY <3>1, <3>2
  <2> QED
    BY <2>5, <2>6, <2>7 DEF Batches
<1>6. Flags'
  <2>1. \A k \in Row : k # i => BatchOf(k)' = BatchOf(k) /\ worker'[k] = worker[k]
    BY <1>0, <1>4 DEF Typed, BatchOf
  <2>2. BatchOf(i)' = {i} \union P /\ worker'[i] = "working" /\ i \in Row
    BY <1>0, <1>4 DEF Typed, BatchOf
  <2> QED
    BY <1>1, <1>4, <2>1, <2>2 DEF Threads, Flags
<1>7. Leaders'
  BY <1>0, <1>1, <1>2, <1>4 DEF Threads, Leaders, Typed, IsSplit, Rows
<1>8. Stops'
  BY <1>0, <1>4 DEF Threads, Stops, Typed
<1> QED
  BY <1>5, <1>6, <1>7, <1>8 DEF Threads

\* What a settled step leaves of rows that are not split.
LEMMA SettleLeaves ==
  ASSUME NEW B \in SUBSET Rows, NEW built \in SUBSET Row, NEW out,
         NEW r \in Row, Settle(B, out, built)
  PROVE  /\ exec[r] => exec'[r]
         /\ ~IsSplit(r) => status'[r] = IF r \in B THEN out[r] ELSE status[r]
         /\ r \notin Rows => status'[r] = status[r]
<1> DEFINE st == [x \in Row |-> IF x \in B THEN out[x] ELSE status[x]]
<1>1. PICK failed \in SUBSET SplitsEnded(B, st) :
        status' = [x \in Row |-> IF x \in failed THEN "failed"
                     ELSE IF x \in SplitsEnded(B, st) THEN SplitStatus(x, st) ELSE st[x]]
  BY DEF Settle
<1>2. \A x \in SplitsEnded(B, st) : IsSplit(x)
  BY DEF SplitsEnded
<1>3. ~IsSplit(r) => status'[r] = st[r]
  BY <1>1, <1>2
<1>4. r \notin Rows => r \notin B /\ r \notin SplitsEnded(B, st)
  BY DEF SplitsEnded
<1>5. r \notin Rows => status'[r] = status[r]
  BY <1>1, <1>4
<1>6. exec[r] => exec'[r]
  BY DEF Settle
<1> QED
  BY <1>3, <1>5, <1>6

\* A row that cannot be started fails on its own.
LEMMA FailsThreads ==
  ASSUME Typed, Threads, NEW i \in Rows, Startable(i), NEW P \in Gathered(i),
         LaunchFails(i, P)
  PROVE  Threads'
<1>0. Rows \subseteq Row
  BY SessionAssumption DEF Typed, Rows, Row
<1>1. peers[i] = {} /\ ~IsSplit(i) /\ worker[i] = "idle"
  BY IdleStartable
<1>2. /\ peers' = peers
      /\ UNCHANGED <<n, job, owner, running, worker, stop>>
  BY <1>1 DEF LaunchFails, rowVars, workVars, Typed
<1>3. PICK built \in SUBSET Row : Settle({i}, [r \in {i} |-> "failed"], built)
  <2>1. {i} \union P \subseteq Row
    BY <1>0 DEF Gathered
  <2> QED
    BY <2>1 DEF LaunchFails
<1>4. \A r \in Row : /\ exec[r] => exec'[r]
                     /\ ~IsSplit(r) => status'[r] \in {"failed", status[r]}
  BY <1>3, SettleLeaves
<1>5. Batches' /\ Flags' /\ Stops'
  BY <1>2 DEF Threads, Batches, Flags, Stops, BatchOf, Rows
<1>6. Leaders'
  BY <1>2, <1>4 DEF Threads, Leaders, IsSplit, Rows, Ended
<1> QED
  BY <1>5, <1>6 DEF Threads

\* A settled batch is idle again, and its leader has ended if it led anybody.
LEMMA SettleThreads ==
  ASSUME Typed, Threads, NEW i \in Rows, SettleRow(i)
  PROVE  Threads'
<1>0. Rows \subseteq Row /\ i \in Row
  BY SessionAssumption DEF Typed, Rows, Row
<1>1. /\ worker[i] = "stopped"
      /\ worker' = [worker EXCEPT ![i] = "idle"]
      /\ stop' = [stop EXCEPT ![i] = "none"]
      /\ running' = [r \in Row |-> running[r] /\ r \notin BatchOf(i)]
      /\ UNCHANGED <<n, job, owner, peers>>
  BY DEF SettleRow, rowVars
<1>2. ~IsSplit(i) /\ BatchOf(i) \subseteq Rows
  BY <1>0, <1>1 DEF Threads, Leaders, Batches, BatchOf
<1>3. \A r \in Row :
        /\ exec[r] => exec'[r]
        /\ ~IsSplit(r) => status'[r] = IF r \notin BatchOf(i) THEN status[r]
                                       ELSE IF r = i THEN Outcome(i) ELSE PeerOutcome(i, r)
  <2> DEFINE out == [r \in BatchOf(i) |-> IF r = i THEN Outcome(i) ELSE PeerOutcome(i, r)]
  <2>1. Settle(BatchOf(i), out, {})
    BY DEF SettleRow
  <2>2. \A r \in Row : /\ exec[r] => exec'[r]
                       /\ ~IsSplit(r) => status'[r] = IF r \in BatchOf(i) THEN out[r] ELSE status[r]
    BY <1>2, <2>1, SettleLeaves
  <2> QED
    BY <2>2
<1>4. Batches'
  BY <1>0, <1>1 DEF Threads, Batches, BatchOf, Typed, Rows
<1>5. Flags'
  <2>1. \A k \in Row : worker'[k] # "idle" <=> worker[k] # "idle" /\ k # i
    BY <1>0, <1>1 DEF Typed
  <2>2. \A k \in Row : BatchOf(k)' = BatchOf(k)
    BY <1>1 DEF BatchOf
  <2>3. \A k \in Row : worker[k] # "idle" /\ k # i => BatchOf(k) \intersect BatchOf(i) = {}
    BY <1>0, <1>1 DEF Threads, Batches
  <2> QED
    BY <1>0, <1>1, <2>1, <2>2, <2>3 DEF Threads, Flags
<1>6. Leaders'
  <2>1. \A r \in Row : worker'[r] # "idle" \/ peers'[r] # {} => r \in Rows /\ ~IsSplit(r)
    BY <1>0, <1>1 DEF Threads, Leaders, Typed
  <2>2. \A r \in Row : peers'[r] # {} => exec'[r] /\ ~TimingInDepth
    BY <1>1, <1>3 DEF Threads, Leaders
  <2>3. ASSUME NEW r \in Row, peers[r] # {}, worker'[r] = "idle" PROVE status'[r] \in Ended
    <3>1. CASE r = i
      <4>1. status'[i] = Outcome(i)
        BY <1>0, <1>2, <1>3 DEF BatchOf
      <4>2. stop[i] \notin {"none", "progress"}
        BY <1>0, <1>1, <2>3, <3>1 DEF Threads, Leaders, Stops
      <4>3. stop[i] \in {"complete", "failed", "cancelled"}
        BY <1>0, <4>2 DEF Typed
      <4> QED
        BY <3>1, <4>1, <4>3 DEF Outcome, Ended
    <3>2. CASE r # i
      <4>1. worker[r] = "idle" /\ ~IsSplit(r)
        BY <1>0, <1>1, <2>3, <3>2 DEF Typed, Threads, Leaders
      <4>2. r \notin BatchOf(i)
        BY <1>0, <1>1, <2>3, <3>2 DEF Threads, Batches, BatchOf
      <4> QED
        BY <1>3, <2>3, <4>1, <4>2 DEF Threads, Leaders
    <3> QED
      BY <3>1, <3>2
  <2> QED
    BY <1>1, <2>1, <2>2, <2>3 DEF Leaders, IsSplit, Rows
<1>7. Stops'
  BY <1>0, <1>1 DEF Threads, Stops, Typed
<1> QED
  BY <1>4, <1>5, <1>6, <1>7 DEF Threads

\* A quantum that stops is still on its thread's batch.
LEMMA StopThreads ==
  ASSUME Typed, Threads, NEW i \in Rows, Park(i) \/ End(i) \/ FailFirst(i)
  PROVE  Threads'
<1>0. Rows \subseteq Row /\ i \in Row
  BY SessionAssumption DEF Typed, Rows, Row
<1>1. PICK outcome \in {"progress", "complete", "failed", "cancelled"} :
        /\ outcome = "progress" => TimingInDepth
        /\ worker[i] = "working" /\ Stop(i, outcome)
  BY DEF Park, End, FailFirst
<1>2. /\ worker' = [worker EXCEPT ![i] = "stopped"]
      /\ stop' = [stop EXCEPT ![i] = outcome]
      /\ UNCHANGED <<n, job, owner, status, running, exec, peers>>
  BY <1>1 DEF Stop, rowVars
<1>3. \A k \in Row : worker'[k] # "idle" <=> worker[k] # "idle"
  BY <1>0, <1>1, <1>2 DEF Typed
<1>4. Batches' /\ Flags'
  BY <1>2, <1>3 DEF Threads, Batches, Flags, BatchOf, Rows
<1>5. Leaders'
  BY <1>2, <1>3 DEF Threads, Leaders, IsSplit, Rows
<1>6. Stops'
  BY <1>0, <1>1, <1>2 DEF Threads, Stops, Typed
<1> QED
  BY <1>4, <1>5, <1>6 DEF Threads

\* Every step keeps one thread per row, unless a GPU batch may park.
LEMMA ThreadsStep ==
  ASSUME Lanes = "gpu" => ~TimingInDepth, Typed, Threads, [Next]_allVars
  PROVE  Threads'
<1>1. CASE UNCHANGED threadVars
  BY <1>1 DEF threadVars, Threads, Batches, Flags, Leaders, Stops, BatchOf, IsSplit, Rows
<1>2. CASE FillOne
  <2>1. PICK i \in Rows : NextIs(i) /\ \E P \in Gathered(i) : Launch(i, P) \/ LaunchFails(i, P)
    BY <1>2 DEF FillOne
  <2>2. Startable(i)
    BY <2>1 DEF NextIs, FromUrgent, FromQueue, UrgentTops, QueueHeads
  <2> QED
    BY <2>1, <2>2, LaunchThreads, FailsThreads
<1>3. ASSUME NEW i \in Rows, ScanStopped(i) \/ ScanRunning(i) \/ AbortSettle(i) PROVE Threads'
  <2>1. CASE SettleRow(i)
    BY <2>1, SettleThreads
  <2>2. CASE UNCHANGED vars
    BY <1>1, <2>2 DEF vars, rowVars, execVars, workVars, threadVars
  <2> QED
    BY <1>3, <2>1, <2>2 DEF ScanStopped, ScanRunning, AbortSettle
<1>4. CASE RunStep
  <2>1. ASSUME NEW i \in Rows, NEW r \in Rows, SetUp(i, r) PROVE Threads'
    BY <1>1, <2>1 DEF SetUp, rowVars, workVars, threadVars
  <2> QED
    BY <1>4, <2>1, StopThreads DEF RunStep
<1>5. CASE Caller
  BY <1>5, AppendThreads, RefuseThreads, ReleaseThreads DEF Caller
<1>6. CASE Dry \/ Aborted \/ Wait \/ Abort
  <2>1. UNCHANGED threadVars
    BY <1>6 DEF Dry, Aborted, RunOver, Wait, Abort, threadVars, vars, rowVars, execVars, workVars
  <2> QED
    BY <1>1, <2>1
<1>7. CASE Full \/ ScanDone \/ Add \/ UNCHANGED allVars
  <2>1. UNCHANGED threadVars
    BY <1>7 DEF Full, ScanDone, Add, allVars, threadVars, vars, rowVars, execVars, workVars
  <2> QED
    BY <1>1, <2>1
<1> QED
  BY <1>2, <1>3, <1>4, <1>5, <1>6, <1>7 DEF Next, CoordStep

LEMMA BatchesAreApart == Typed /\ Threads => OneThreadPerRow
<1> SUFFICES ASSUME Typed, Threads PROVE OneThreadPerRow
  OBVIOUS
<1>1. \A r \in Rows : r \in Row
  BY SessionAssumption DEF Typed, Rows, Row
<1>2. \A k \in Row : worker[k] # "idle" => k \in Rows
  BY DEF Threads, Leaders
<1> QED
  BY <1>1, <1>2 DEF OneThreadPerRow, Threads, Batches, Flags

\* A row is on at most one thread, and its flag says so.  GPU batches must
\* not park: gpu_park shows what happens when they do.
THEOREM RowOnOneThread ==
  ASSUME Lanes = "gpu" => ~TimingInDepth
  PROVE  Spec => []OneThreadPerRow
<1>1. PoolInit => Typed /\ Threads
  BY InitIInv
<1>2. Typed /\ Threads /\ [Next]_allVars => (Typed /\ Threads)'
  BY TypedStep, ThreadsStep
<1> QED
  BY <1>1, <1>2, BatchesAreApart, PTL DEF Spec

\* Who leads at work has peers at work.
LEMMA PeersAtWork == Typed /\ Threads => PeersStillRunning
<1> SUFFICES ASSUME Typed, Threads, NEW i \in Rows, worker[i] = "stopped", NEW p \in peers[i]
             PROVE  running[p]
  BY DEF PeersStillRunning
<1>1. \A r \in Rows : r \in Row
  BY SessionAssumption DEF Typed, Rows, Row
<1>2. p \in Row
  BY <1>1 DEF Typed
<1> QED
  BY <1>1, <1>2 DEF Threads, Flags, BatchOf

\* Whoever settles a batch finds every one of its peers still running.
THEOREM PeersKeepRunning ==
  ASSUME Lanes = "gpu" => ~TimingInDepth
  PROVE  Spec => []PeersStillRunning
<1>1. PoolInit => Typed /\ Threads
  BY InitIInv
<1>2. Typed /\ Threads /\ [Next]_allVars => (Typed /\ Threads)'
  BY TypedStep, ThreadsStep
<1> QED
  BY <1>1, <1>2, PeersAtWork, PTL DEF Spec

-----------------------------------------------------------------------------
(* Who is cancelled. *)

\* Row r's end as cancelled is accounted for.
Accounted(r) ==
  \E i \in Rows : cancelled[i] /\ (r \in BatchOf(i) \/ released[i])

\* A cancelled outcome comes from a cancelled thread, and a batch that stops
\* has booked every lane.
Cancels ==
  /\ lane \in [Row -> {"none", "published", "failed"}]
  /\ \A r \in Row : status[r] = "cancelled" => r \in Rows /\ (IsSplit(r) \/ Accounted(r))
  /\ \A i \in Row : worker[i] = "stopped" /\ stop[i] = "cancelled" => cancelled[i]
  /\ \A i \in Row : worker[i] = "stopped" => \A p \in peers[i] : lane[p] # "none"

cancelVars == <<threadVars, released, lane, cancelled>>

\* A launch starts or fails a row; a cancelled one stays accounted for.
LEMMA FillCancels ==
  ASSUME Typed, Threads, Cancels, NEW i \in Rows, Startable(i), NEW P \in Gathered(i),
         Launch(i, P) \/ LaunchFails(i, P)
  PROVE  Cancels'
<1>0. Rows \subseteq Row
  BY SessionAssumption DEF Typed, Rows, Row
<1>1. peers[i] = {} /\ worker[i] = "idle" /\ ~IsSplit(i)
  BY IdleStartable
<1>2. /\ UNCHANGED <<n, job, owner, released, lane, stop, cancelled>>
      /\ \A k \in Row : k # i => peers'[k] = peers[k] /\ worker'[k] = worker[k]
      /\ worker'[i] # "stopped"
  BY <1>0, <1>1 DEF Launch, LaunchFails, Typed, rowVars, workVars
<1>3. \A r \in Row : Accounted(r) => Accounted(r)'
  BY <1>0, <1>1, <1>2 DEF Accounted, BatchOf, Rows
<1>4. \A r \in Row : status'[r] = "cancelled" => r \in Rows /\ (status[r] = "cancelled" \/ IsSplit(r))
  <2>1. CASE Launch(i, P)
    BY <2>1 DEF Launch, Cancels
  <2>2. CASE LaunchFails(i, P)
    <3>1. PICK built \in SUBSET Row : Settle({i}, [r \in {i} |-> "failed"], built)
      <4>1. {i} \union P \subseteq Row
        BY <1>0 DEF Gathered
      <4> QED
        BY <2>2, <4>1 DEF LaunchFails
    <3>2. {i} \in SUBSET Rows
      OBVIOUS
    <3>3. \A r \in Row :
            /\ ~IsSplit(r) => status'[r] = IF r \in {i} THEN [x \in {i} |-> "failed"][r] ELSE status[r]
            /\ r \notin Rows => status'[r] = status[r]
      BY <3>1, <3>2, SettleLeaves
    <3> QED
      BY <3>3 DEF Cancels
  <2> QED
    BY <2>1, <2>2
<1> QED
  BY <1>0, <1>2, <1>3, <1>4 DEF Cancels, IsSplit, Rows

\* A settled row reads as cancelled only if its thread was cancelled.
LEMMA SettleCancels ==
  ASSUME Typed, Threads, Cancels, NEW i \in Rows, SettleRow(i)
  PROVE  Cancels'
<1>0. Rows \subseteq Row /\ i \in Row
  BY SessionAssumption DEF Typed, Rows, Row
<1>1. /\ worker[i] = "stopped"
      /\ worker' = [worker EXCEPT ![i] = "idle"]
      /\ stop' = [stop EXCEPT ![i] = "none"]
      /\ UNCHANGED <<n, job, owner, released, peers, lane, cancelled>>
  BY DEF SettleRow, rowVars
<1>2. BatchOf(i) \subseteq Rows
  BY <1>0, <1>1 DEF Threads, Batches, BatchOf
<1>3. ASSUME NEW r \in Row, status'[r] = "cancelled"
      PROVE  r \in Rows /\ (IsSplit(r) \/ Accounted(r))
  <2> DEFINE out == [x \in BatchOf(i) |-> IF x = i THEN Outcome(i) ELSE PeerOutcome(i, x)]
  <2>1. Settle(BatchOf(i), out, {})
    BY DEF SettleRow
  <2>2. /\ ~IsSplit(r) => status'[r] = IF r \in BatchOf(i) THEN out[r] ELSE status[r]
        /\ r \notin Rows => status'[r] = status[r]
    BY <1>2, <2>1, SettleLeaves
  <2>3. r \in Rows
    BY <1>3, <2>2 DEF Cancels
  <2>4. CASE r \notin BatchOf(i)
    BY <1>3, <2>2, <2>3, <2>4 DEF Cancels
  <2>5. CASE r \in BatchOf(i) /\ ~IsSplit(r)
    <3>1. "cancelled" = IF r = i THEN Outcome(i) ELSE PeerOutcome(i, r)
      BY <1>3, <2>2, <2>5
    <3>2. r # i => lane[r] # "none"
      BY <1>0, <1>1, <2>5 DEF Cancels, BatchOf
    <3>3. Outcome(i) = "cancelled"
      BY <3>1, <3>2 DEF PeerOutcome
    <3>4. cancelled[i]
      BY <1>0, <1>1, <3>3 DEF Outcome, Cancels
    <3> QED
      BY <2>3, <2>5, <3>4 DEF Accounted
  <2> QED
    BY <2>3, <2>4, <2>5
<1>4. \A r \in Row : Accounted(r) => Accounted(r)'
  BY <1>1 DEF Accounted, BatchOf, Rows
<1> QED
  BY <1>0, <1>1, <1>3, <1>4 DEF Cancels, IsSplit, Rows, Typed

\* A batch that reaches its end has booked every lane.
LEMMA StopCancels ==
  ASSUME ~LeaderMayFailFirst, Typed, Threads, Cancels, NEW i \in Rows,
         Park(i) \/ End(i) \/ FailFirst(i)
  PROVE  Cancels'
<1>0. Rows \subseteq Row /\ i \in Row
  BY SessionAssumption DEF Typed, Rows, Row
<1>1. PICK outcome \in {"progress", "complete", "failed", "cancelled"} :
        /\ Stop(i, outcome)
        /\ outcome = "cancelled" => cancelled[i]
  BY DEF Park, End, FailFirst
<1>2. /\ worker' = [worker EXCEPT ![i] = "stopped"]
      /\ stop' = [stop EXCEPT ![i] = outcome]
      /\ UNCHANGED <<n, job, owner, status, released, peers, cancelled>>
  BY <1>1 DEF Stop, rowVars
<1>3. /\ lane' \in [Row -> {"none", "published", "failed"}]
      /\ \A r \in Row : lane[r] # "none" => lane'[r] # "none"
      /\ \A p \in peers[i] : lane'[p] # "none"
  <2>1. CASE Park(i)
    <3>1. peers[i] = {}
      BY <1>0, <2>1 DEF Park, Threads, Leaders
    <3> QED
      BY <2>1, <3>1 DEF Park, Cancels
  <2>2. CASE End(i)
    <3>1. PICK ok : lane' = [r \in Row |-> CASE r \in peers[i] \intersect ok -> "published"
                                            [] r \in peers[i] \ ok -> "failed"
                                            [] OTHER -> lane[r]]
      BY <2>2 DEF End
    <3>2. \A r \in Row : lane'[r] = IF r \in peers[i]
                                    THEN IF r \in ok THEN "published" ELSE "failed"
                                    ELSE lane[r]
      BY <3>1
    <3>3. DOMAIN lane' = Row /\ lane' = [r \in Row |-> lane'[r]]
      BY <3>1
    <3>4. peers[i] \subseteq Row
      BY <1>0 DEF Typed
    <3> QED
      BY <3>2, <3>3, <3>4 DEF Cancels
  <2>3. ~FailFirst(i)
    BY DEF FailFirst
  <2> QED
    BY <2>1, <2>2, <2>3
<1>4. \A r \in Row : Accounted(r) => Accounted(r)'
  BY <1>2 DEF Accounted, BatchOf, Rows
<1>5. \A k \in Row : peers[k] \subseteq Row
  BY DEF Typed
<1> QED
  BY <1>0, <1>1, <1>2, <1>3, <1>4, <1>5 DEF Cancels, IsSplit, Rows, Typed

LEMMA CancelsStep ==
  ASSUME ~LeaderMayFailFirst, Typed, Threads, Cancels, [Next]_allVars
  PROVE  Cancels'
<1>0. Rows \subseteq Row
  BY SessionAssumption DEF Typed, Rows, Row
<1>1. CASE UNCHANGED cancelVars
  BY <1>1 DEF cancelVars, threadVars, Cancels, Accounted, BatchOf, IsSplit, Rows
<1>2. CASE FillOne
  <2>1. PICK i \in Rows : NextIs(i) /\ \E P \in Gathered(i) : Launch(i, P) \/ LaunchFails(i, P)
    BY <1>2 DEF FillOne
  <2>2. Startable(i)
    BY <2>1 DEF NextIs, FromUrgent, FromQueue, UrgentTops, QueueHeads
  <2> QED
    BY <2>1, <2>2, FillCancels
<1>3. ASSUME NEW i \in Rows, ScanStopped(i) \/ ScanRunning(i) \/ AbortSettle(i) PROVE Cancels'
  <2>1. CASE SettleRow(i)
    BY <2>1, SettleCancels
  <2>2. CASE UNCHANGED vars
    BY <1>1, <2>2 DEF vars, rowVars, execVars, workVars, threadVars, cancelVars
  <2> QED
    BY <1>3, <2>1, <2>2 DEF ScanStopped, ScanRunning, AbortSettle
<1>4. CASE RunStep
  <2>1. ASSUME NEW i \in Rows, NEW r \in Rows, SetUp(i, r) PROVE Cancels'
    <3>1. /\ UNCHANGED <<threadVars, released, cancelled>>
          /\ lane' \in {lane, [lane EXCEPT ![r] = "failed"]}
      BY <2>1 DEF SetUp, rowVars, workVars, threadVars
    <3>2. \A k \in Row : peers[k] \subseteq Row
      BY DEF Typed
    <3> QED
      BY <1>0, <3>1, <3>2 DEF threadVars, Cancels, Accounted, BatchOf, IsSplit, Rows
  <2> QED
    BY <1>4, <2>1, StopCancels DEF RunStep
<1>5. CASE Caller
  <2>1. ASSUME NEW j \in Jobs, AppendJob(j) PROVE Cancels'
    <3>1. /\ n' \in 0..MaxRows /\ n <= n'
          /\ \A r \in Rows : job'[r] = job[r] /\ owner'[r] = owner[r]
      BY <2>1, AppendGrows
    <3>2. Rows \subseteq Rows'
      BY <3>1, SessionAssumption DEF Rows, Typed
    <3>3. UNCHANGED <<status, released, peers, lane, worker, stop, cancelled>>
      BY <2>1 DEF AppendJob, execVars, workVars
    <3> QED
      BY <3>1, <3>2, <3>3 DEF Cancels, Accounted, BatchOf, IsSplit
  <2>2. ASSUME NEW i \in Rows, Refuse(i) PROVE Cancels'
    <3>1. /\ UNCHANGED <<n, job, owner, released, peers, lane, worker, stop, cancelled>>
          /\ \A r \in Row : status'[r] \in {status[r], "failed"}
      BY <2>2 DEF Refuse, rowVars, execVars, workVars
    <3> QED
      BY <3>1 DEF Cancels, Accounted, BatchOf, IsSplit, Rows
  <2>3. ASSUME NEW i \in Rows, Release(i) PROVE Cancels'
    <3>1. PICK free :
            /\ peers' = [r \in Row |-> IF r \in free THEN {} ELSE peers[r]]
            /\ released' = [r \in Row |-> released[r] \/ r \in free]
      BY <2>3 DEF Release
    <3>2. UNCHANGED <<n, job, owner, status, lane, worker, stop, cancelled>>
      BY <2>3 DEF Release, rowVars, workVars
    <3>3. \A r \in Row : Accounted(r) => Accounted(r)'
      BY <1>0, <3>1, <3>2 DEF Accounted, BatchOf, Rows
    <3> QED
      BY <3>1, <3>2, <3>3 DEF Cancels, IsSplit, Rows
  <2> QED
    BY <1>5, <2>1, <2>2, <2>3 DEF Caller
<1>6. CASE Dry \/ Aborted \/ Wait
  <2>1. UNCHANGED cancelVars
    BY <1>6 DEF Dry, Aborted, RunOver, Wait, cancelVars, threadVars, vars, rowVars, execVars, workVars
  <2> QED
    BY <1>1, <2>1
<1>7. CASE Abort
  <2>1. /\ UNCHANGED <<threadVars, released, lane>>
        /\ \A r \in Row : cancelled[r] => cancelled'[r]
    BY <1>7 DEF Abort, threadVars, rowVars, execVars
  <2> QED
    BY <1>0, <2>1 DEF threadVars, Cancels, Accounted, BatchOf, IsSplit, Rows
<1>8. CASE Full \/ ScanDone \/ Add \/ UNCHANGED allVars
  <2>1. UNCHANGED cancelVars
    BY <1>8 DEF Full, ScanDone, Add, allVars, cancelVars, threadVars, vars, rowVars, execVars, workVars
  <2> QED
    BY <1>1, <2>1
<1> QED
  BY <1>2, <1>3, <1>4, <1>5, <1>6, <1>7, <1>8 DEF Next, CoordStep

LEMMA CancelsAreOwn == Typed /\ Cancels => CancelledOnlyByCancel
<1>1. Typed => \A r \in Rows : r \in Row
  BY SessionAssumption DEF Typed, Rows, Row
<1> QED
  BY <1>1 DEF CancelledOnlyByCancel, Cancels, Accounted

\* A row reads as cancelled only if its thread was told to cancel.  GPU
\* batches must not park, nor fail before they book their lanes (gpu_memory).
THEOREM CancelledByCancel ==
  ASSUME Lanes = "gpu" => ~TimingInDepth, ~LeaderMayFailFirst
  PROVE  Spec => []CancelledOnlyByCancel
<1>1. PoolInit => Typed /\ Threads /\ Cancels
  <2>1. PoolInit => Typed /\ Threads
    BY InitIInv
  <2>2. PoolInit => Cancels
    BY DEF PoolInit, Init, Cancels
  <2> QED
    BY <2>1, <2>2
<1>2. Typed /\ Threads /\ Cancels /\ [Next]_allVars => (Typed /\ Threads /\ Cancels)'
  BY TypedStep, ThreadsStep, CancelsStep
<1> QED
  BY <1>1, <1>2, CancelsAreOwn, PTL DEF Spec
=============================================================================

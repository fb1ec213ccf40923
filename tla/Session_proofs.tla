--------------------------- MODULE Session_proofs ---------------------------
(***************************************************************************)
(* For every set of jobs and number of rows: whoever still has to copy its *)
(* source's device state finds it whole, though other rows take sources    *)
(* over and settled rows release them; and the session, its threads, lane  *)
(* batches and device state implement QueryGraph.                          *)
(*                                                                         *)
(* The argument for device state is the count of readers.  Under a final   *)
(* plan readers[d] is the number of rows on d that have not stopped a      *)
(* first quantum; a row that sees the count at one when its executor is    *)
(* made is alone, since it is such a row itself, and stays alone, since    *)
(* nothing is appended any more.                                           *)
(***************************************************************************)
EXTENDS Pool_proofs

\* The state a row is built from has a result.
Rests(r) == dep[r] = None \/ status[dep[r]] = "complete"

\* The rows that have still to copy operating point d, or a template.
Waiting(d) == {r \in Dependents(d) : status[r] = "pending"}
Roots == {r \in Rows : dep[r] = None /\ status[r] = "pending"}

\* No other row still has to copy row r's source.
Alone(r) ==
  \A x \in Rows : x # r /\ dep[x] = dep[r] /\ ~IsSplit(x) => status[x] # "pending"

StateTyped ==
  /\ circuit \in [Row -> {"none", "own", "taken", "released"}]
  /\ template \in [Templates -> {"own", "taken"}]
  /\ DOMAIN dep = Row /\ DOMAIN lane = Row
  /\ \A r \in Rows : ~IsSplit(r) => status[r] \in {"pending", "paused"} \union Ended

\* The graph: prerequisites are operating points, split queries have one.
Shape ==
  /\ \A r \in Rows : /\ job[r].template \in Templates
                     /\ job[r].kind = "op" => job[r].lanes = 0
                     /\ dep[r] # None => dep[r] \in Rows /\ job[dep[r]].kind = "op"
                     /\ IsSplit(r) => dep[r] # None
  /\ \A r \in Row \ Rows : status[r] = "pending" /\ ~exec[r] /\ ~released[r]

\* A row on a thread has not ended and rests on a result.
Live ==
  \A r \in Row : running[r] =>
    /\ ~IsSplit(r) /\ exec[r] /\ ~released[r]
    /\ status[r] \in {"pending", "paused"} /\ Rests(r)

\* Who has a circuit.
Built ==
  /\ \A r \in Row : circuit[r] # "none" => exec[r]
  /\ \A r \in Rows : status[r] = "paused" /\ ~IsSplit(r) => circuit[r] # "none" /\ Rests(r)
  /\ \A r \in Row : status[r] = "complete" /\ ~IsSplit(r) /\ ~released[r] => circuit[r] # "none"
  /\ \A i \in Row : worker[i] = "stopped" /\ stop[i] \in {"progress", "complete"} => circuit[i] # "none"
  /\ \A i \in Row : worker[i] = "stopped" =>
       \A p \in peers[i] : lane[p] = "published" => circuit[p] # "none"
  /\ \A r \in Row : lane[r] = "published" =>
       /\ r \in Rows /\ ~IsSplit(r)
       /\ status[r] = "complete" \/ \E i \in Row : worker[i] = "stopped" /\ r \in peers[i]

\* A released row has ended, and so have the rows that read it.
Gone ==
  /\ \A r \in Row : released[r] /\ ~IsSplit(r) => Terminal(r)
  /\ \A d \in Row : released[d] => \A r \in Dependents(d) : released[r]

\* A count of readers is never below the rows it stands for, nor above them
\* under a final plan (a row refused under another plan stays counted).
Counted(count, waiting) ==
  /\ count \in Nat /\ Cardinality(waiting) <= count
  /\ FinalPlan => count = Cardinality(waiting)

Counts ==
  /\ \A d \in Row : Counted(readers[d], Waiting(d))
  /\ Counted(rootReaders, Roots)

\* Who takes a source over is alone with it.
Taking ==
  /\ \A r \in Row : take[r] => FinalPlan
  /\ \A r \in Rows : take[r] /\ exec[r] /\ status[r] = "pending" /\ ~IsSplit(r) => Alone(r)
  /\ \A d \in Row : circuit[d] = "taken" =>
       FinalPlan /\ \E r \in Rows : dep[r] = d /\ circuit[r] # "none" /\ Alone(r)
  /\ \A t \in Templates : template[t] = "taken" =>
       FinalPlan /\ \E r \in Rows : dep[r] = None /\ circuit[r] # "none" /\ Alone(r)
  /\ \A d \in Row : circuit[d] = "released" => FinalPlan /\ Waiting(d) = {}

Sharing == StateTyped /\ Shape /\ Live /\ Built /\ Gone /\ Counts /\ Taking

-----------------------------------------------------------------------------
(* The initial state, and steps that leave all this alone. *)

shareVars ==
  <<n, job, dep, owner, status, readers, rootReaders, running, released,
    exec, take, peers, circuit, template, lane, worker, stop>>

LEMMA InitSharing == PoolInit => Sharing
<1> SUFFICES ASSUME PoolInit PROVE Sharing
  OBVIOUS
<1>0. Rows = {}
  BY DEF PoolInit, Init, Rows
<1>1. StateTyped /\ Shape /\ Live /\ Built /\ Gone
  BY <1>0 DEF PoolInit, Init, StateTyped, Shape, Live, Built, Gone, Dependents
<1>2. \A d \in Row : Waiting(d) = {}
  BY <1>0 DEF Waiting, Dependents
<1>3. Roots = {}
  BY <1>0 DEF Roots
<1>4. Counts
  <2>1. Cardinality({}) = 0
    BY FS_EmptySet
  <2>2. Counted(0, {})
    BY <2>1 DEF Counted
  <2>3. rootReaders = 0 /\ \A d \in Row : readers[d] = 0
    BY DEF PoolInit, Init
  <2> QED
    BY <1>2, <1>3, <2>2, <2>3 DEF Counts
<1>5. Taking
  BY <1>0 DEF PoolInit, Init, Taking
<1> QED
  BY <1>1, <1>4, <1>5 DEF Sharing

LEMMA QuietSharing ==
  ASSUME Sharing, UNCHANGED shareVars
  PROVE  Sharing'
<1>1. Rows' = Rows /\ Waiting(0)' = Waiting(0)
  BY DEF shareVars, Rows, Waiting, Dependents, IsSplit
<1>2. \A r \in Row : /\ IsSplit(r)' = IsSplit(r) /\ Rests(r)' = Rests(r)
                     /\ Terminal(r)' = Terminal(r) /\ Dependents(r)' = Dependents(r)
                     /\ Waiting(r)' = Waiting(r)
  BY DEF shareVars, IsSplit, Rests, Terminal, EffectiveStatus, Dependents, Waiting, Rows
<1>3. \A r : Alone(r)' = Alone(r)
  BY DEF shareVars, Alone, IsSplit, Rows
<1>4. Roots' = Roots
  BY DEF shareVars, Roots, Rows
<1>5. \A r \in Rows : IsSplit(r)' = IsSplit(r) /\ Rests(r)' = Rests(r)
  BY DEF shareVars, IsSplit, Rests
<1>6. StateTyped' /\ Shape' /\ Live' /\ Built' /\ Gone'
  BY <1>1, <1>2, <1>5 DEF Sharing, shareVars, StateTyped, Shape, Live, Built, Gone
<1>7. Counts' /\ Taking'
  BY <1>1, <1>2, <1>3, <1>4, <1>5 DEF Sharing, shareVars, Counts, Counted, Taking
<1> QED
  BY <1>6, <1>7 DEF Sharing

-----------------------------------------------------------------------------
(* The caller: append, refuse, release. *)

\* The rows an append adds.
LEMMA AppendAdds ==
  ASSUME Typed, StateTyped, Shape, NEW j \in Jobs, AppendJob(j)
  PROVE  LET added == Rows' \ Rows IN
         /\ \A r \in Rows : requested[r] => requested'[r]
         /\ \A r \in added : /\ job'[r].lanes \in {0, j.lanes}
                             /\ dep'[r] # None /\ owner'[r] = None => requested'[r]
         /\ DOMAIN dep' = Row /\ \A r \in Rows : dep'[r] = dep[r]
         /\ \A r \in added :
              /\ job'[r].template \in Templates
              /\ job'[r].kind = "op" => job'[r].lanes = 0 /\ dep'[r] = None
              /\ dep'[r] # None => /\ dep'[r] \in Rows' /\ job'[dep'[r]].kind = "op"
                                   /\ ~released[dep'[r]]
              /\ IsSplit(r)' => dep'[r] # None
              /\ owner'[r] # None =>
                   \E g \in added : owner'[r] = g /\ IsSplit(g)' /\ dep'[r] = dep'[g]
              /\ IsSplit(r)' => \E l \in added : owner'[l] = r
         /\ \/ added = {} /\ UNCHANGED <<readers, rootReaders>>
            \/ /\ \A d \in Row : readers'[d] = readers[d]
                     + Cardinality({r \in added : dep'[r] = d /\ ~IsSplit(r)'})
               /\ rootReaders' = rootReaders + Cardinality({r \in added : dep'[r] = None})
<1>1. n \in Nat /\ MaxRows \in Nat /\ j.lanes \in Nat /\ Rows \subseteq Row
  BY SessionAssumption DEF Typed, JobType, Rows, Row
<1>2. CASE j.kind = "op" /\ OpRows(j) # {}
  <2>1. UNCHANGED <<n, job, dep, owner, readers, rootReaders>>
        /\ requested' = [r \in Row |-> requested[r] \/ r \in OpRows(j)]
    BY <1>2 DEF AppendJob
  <2>2. Rows' = Rows
    BY <2>1 DEF Rows
  <2> QED
    BY <1>1, <2>1, <2>2 DEF StateTyped
<1>3. CASE ~(j.kind = "op" /\ OpRows(j) # {})
  <2> DEFINE new   == NewRows(j)
             old   == OpRows(j)
             first == IF Prerequisite(j) /\ old = {} THEN 1 ELSE 0
             d0    == IF ~Prerequisite(j) THEN None
                      ELSE IF old = {} THEN n + 1 ELSE CHOOSE r \in old : TRUE
             id    == n + first + j.lanes + 1
             opJob == [j EXCEPT !.kind = "op", !.lanes = 0, !.class = 0]
             reads(d) == {r \in DOMAIN new : new[r].dep = d /\ d # None
                            /\ (j.lanes = 0 \/ new[r].owner # None)}
  <2>1. /\ n + Cardinality(DOMAIN new) <= MaxRows
        /\ n' = n + Cardinality(DOMAIN new)
        /\ job' = [r \in Row |-> IF r \in DOMAIN new THEN new[r].job ELSE job[r]]
        /\ dep' = [r \in Row |-> IF r \in DOMAIN new THEN new[r].dep ELSE dep[r]]
        /\ owner' = [r \in Row |-> IF r \in DOMAIN new THEN new[r].owner ELSE owner[r]]
    BY <1>3 DEF AppendJob
  <2>2. /\ \A d \in Row : readers'[d] = readers[d] + Cardinality(reads(d))
        /\ rootReaders' = rootReaders + Cardinality({r \in DOMAIN new : new[r].dep = None})
    BY <1>3 DEF AppendJob
  <2>3. new = [r \in (n + 1)..id |->
                 IF first = 1 /\ r = n + 1
                 THEN Fresh(r, opJob, None, None, FALSE)
                 ELSE Fresh(r, j, d0, IF r < id THEN id ELSE None, r = id)]
    BY DEF NewRows
  <2>4. id \in Nat /\ id > n /\ first \in {0, 1} /\ (first = 1 => id > n + 1)
    BY <1>1
  <2>5. DOMAIN new = (n + 1)..id
    BY <2>3
  <2>6. Cardinality((n + 1)..id) = id - n
    <3> HIDE DEF id
    <3>1. n + 1 \in Int /\ id \in Int /\ ~(n + 1 > id)
      BY <1>1, <2>4
    <3>2. Cardinality((n + 1)..id) = id - (n + 1) + 1
      BY <3>1, FS_Interval
    <3> QED
      BY <1>1, <3>1, <3>2
  <2>7. n' = id /\ id <= MaxRows
    BY <1>1, <2>1, <2>4, <2>5, <2>6
  <2>8. Rows' \ Rows = DOMAIN new /\ DOMAIN new \subseteq Row \ Rows /\ Rows' = Rows \union DOMAIN new
    BY <1>1, <2>4, <2>5, <2>7 DEF Rows, Row
  <2>9. \A r \in DOMAIN new :
          /\ job'[r] = IF first = 1 /\ r = n + 1 THEN opJob ELSE j
          /\ dep'[r] = IF first = 1 /\ r = n + 1 THEN None ELSE d0
          /\ owner'[r] = IF first = 1 /\ r = n + 1 THEN None ELSE IF r < id THEN id ELSE None
          /\ new[r].dep = dep'[r] /\ new[r].owner = owner'[r]
    BY <2>1, <2>3, <2>5, <2>8 DEF Fresh
  <2>10. j \in JobType /\ (j.lanes # 0 => j.kind = "sweep" /\ ~j.uic) /\ j.template \in Templates
    BY SessionAssumption DEF Templates
  <2>11. opJob.kind = "op" /\ opJob.lanes = 0 /\ opJob.template = j.template
    BY <2>10 DEF JobType
  <2>12. d0 # None => /\ d0 \in Rows' /\ ~released[d0]
                      /\ job'[d0].kind = "op"
    <3>1. CASE Prerequisite(j) /\ old = {}
      <4>1. d0 = n + 1 /\ first = 1 /\ n + 1 \in DOMAIN new
        BY <1>1, <2>4, <2>5, <3>1
      <4> QED
        BY <2>8, <2>9, <2>11, <4>1 DEF Shape
    <3>2. CASE Prerequisite(j) /\ old # {}
      <4>1. d0 \in old
        BY <3>2
      <4>2. d0 \in Rows /\ job[d0].kind = "op" /\ ~released[d0]
        BY <4>1 DEF OpRows
      <4>3. job'[d0] = job[d0]
        BY <1>1, <2>1, <2>8, <4>2
      <4> QED
        BY <2>8, <4>2, <4>3
    <3>3. CASE ~Prerequisite(j)
      BY <3>3
    <3> QED
      BY <3>1, <3>2, <3>3
  <2>13. requested' = [r \in Row |-> IF r \in DOMAIN new THEN new[r].requested ELSE requested[r]]
    BY <1>3 DEF AppendJob
  <2>14. \A r \in DOMAIN new :
           new[r].requested = IF first = 1 /\ r = n + 1 THEN FALSE ELSE r = id
    BY <2>3, <2>5 DEF Fresh
  <2> HIDE DEF new, old, first, d0, id, opJob, reads
  <2>15. DOMAIN dep' = Row /\ \A r \in Rows : dep'[r] = dep[r]
    BY <1>1, <2>1, <2>8
  <2>16. \A r \in DOMAIN new :
           /\ job'[r].template \in Templates
           /\ job'[r].kind = "op" => job'[r].lanes = 0
           /\ dep'[r] # None => dep'[r] \in Rows' /\ job'[dep'[r]].kind = "op" /\ ~released[dep'[r]]
    BY <2>9, <2>10, <2>11, <2>12
  <2>17. \A r \in DOMAIN new : IsSplit(r)' <=> ~(first = 1 /\ r = n + 1) /\ j.lanes # 0 /\ owner'[r] = None
    BY <2>9, <2>11 DEF IsSplit
  <2>18. \A r \in DOMAIN new : IsSplit(r)' => dep'[r] # None
    <3>1. j.lanes # 0 => d0 # None
      <4> SUFFICES ASSUME j.lanes # 0 PROVE d0 # None
        OBVIOUS
      <4>1. Prerequisite(j)
        BY <2>10 DEF Prerequisite
      <4>2. old # {} => (CHOOSE r \in old : TRUE) \in old
        OBVIOUS
      <4>3. 0 \notin old
        BY DEF OpRows, Rows, old
      <4> QED
        BY <1>1, <4>1, <4>2, <4>3 DEF d0, None
    <3> QED
      BY <2>9, <2>17, <3>1
  <2>19. ASSUME NEW d \in Row
         PROVE  reads(d) = {r \in Rows' \ Rows : dep'[r] = d /\ ~IsSplit(r)'}
    <3>1. d # None
      BY <1>1 DEF Row, None
    <3>2. \A r \in DOMAIN new : dep'[r] = d => ~(first = 1 /\ r = n + 1)
      BY <2>9, <3>1
    <3> QED
      BY <2>8, <2>9, <2>17, <3>1, <3>2 DEF reads
  <2>20. {r \in DOMAIN new : new[r].dep = None} = {r \in Rows' \ Rows : dep'[r] = None}
    BY <2>8, <2>9
  <2>21. id = n + first + j.lanes + 1
    BY DEF id
  <2>22. PICK g \in DOMAIN new : g = id /\ owner'[g] = None /\ ~(first = 1 /\ g = n + 1)
    BY <1>1, <2>4, <2>5, <2>9
  <2>23. ASSUME NEW r \in DOMAIN new, owner'[r] # None
         PROVE  owner'[r] = g /\ IsSplit(g)' /\ dep'[r] = dep'[g]
    <3>1. owner'[r] = g /\ r < g /\ ~(first = 1 /\ r = n + 1)
      BY <2>9, <2>22, <2>23
    <3>2. dep'[r] = dep'[g]
      BY <2>9, <2>22, <3>1
    <3>3. r \in Nat /\ r >= n + 1
      BY <1>1, <2>4, <2>5
    <3>4. j.lanes # 0
      BY <1>1, <2>4, <2>21, <2>22, <3>1, <3>3
    <3> QED
      BY <2>17, <2>22, <3>1, <3>2, <3>4
  <2>24. ASSUME NEW r \in DOMAIN new, IsSplit(r)'
         PROVE  \E l \in DOMAIN new : owner'[l] = r
    <3>1. j.lanes # 0 /\ owner'[r] = None /\ ~(first = 1 /\ r = n + 1)
      BY <2>17, <2>24
    <3>2. r \in Nat /\ r <= id /\ ~(r < id)
      BY <1>1, <2>4, <2>5, <2>9, <3>1 DEF None
    <3>3. PICK l \in DOMAIN new : l = n + first + 1
      BY <1>1, <2>4, <2>5, <2>21
    <3>4. l < id /\ ~(first = 1 /\ l = n + 1)
      BY <1>1, <2>4, <2>21, <3>1, <3>3
    <3>5. owner'[l] = id
      BY <2>9, <3>4
    <3> QED
      BY <2>4, <3>2, <3>5
  <2>25. \A r \in DOMAIN new : job'[r].kind = "op" => dep'[r] = None
    <3>1. j.kind = "op" => d0 = None
      BY DEF Prerequisite, d0
    <3> QED
      BY <2>9, <3>1
  <2>26. \A r \in DOMAIN new : owner'[r] # None =>
           \E x \in DOMAIN new : owner'[r] = x /\ IsSplit(x)' /\ dep'[r] = dep'[x]
    BY <2>22, <2>23
  <2>27. \A r \in DOMAIN new : IsSplit(r)' => \E l \in DOMAIN new : owner'[l] = r
    BY <2>24
  <2>28. /\ \A d \in Row : readers'[d] = readers[d]
                + Cardinality({r \in Rows' \ Rows : dep'[r] = d /\ ~IsSplit(r)'})
         /\ rootReaders' = rootReaders + Cardinality({r \in Rows' \ Rows : dep'[r] = None})
    BY <2>2, <2>19, <2>20
  <2>29. \A r \in DOMAIN new : dep'[r] # None /\ owner'[r] = None => requested'[r]
    <3>1. \A r \in DOMAIN new : requested'[r] = new[r].requested
      BY <2>8, <2>13
    <3>2. \A r \in DOMAIN new : r \in Nat /\ r <= id
      BY <1>1, <2>4, <2>5
    <3>3. \A r \in DOMAIN new : r < id \/ r = id
      BY <2>4, <3>2
    <3>4. id # None
      BY <1>1, <2>4 DEF None
    <3> QED
      BY <2>9, <2>14, <3>1, <3>3, <3>4
  <2>30. \A r \in Rows : requested[r] => requested'[r]
    BY <1>1, <2>8, <2>13
  <2>31. \A r \in DOMAIN new : job'[r].lanes \in {0, j.lanes}
    BY <2>9, <2>11
  <2> QED
    BY <2>8, <2>15, <2>16, <2>18, <2>25, <2>26, <2>27, <2>28, <2>29, <2>30, <2>31
<1> QED
  BY <1>2, <1>3

LEMMA WaitingFinite ==
  ASSUME Typed, NEW d
  PROVE  /\ IsFiniteSet(Rows) /\ IsFiniteSet(Waiting(d)) /\ IsFiniteSet(Roots)
         /\ Cardinality(Waiting(d)) \in Nat /\ Cardinality(Roots) \in Nat
<1>1. IsFiniteSet(Rows)
  BY FS_Interval, SessionAssumption DEF Rows, Typed
<1>2. Waiting(d) \in SUBSET Rows /\ Roots \in SUBSET Rows
  BY DEF Waiting, Dependents, Roots
<1>3. IsFiniteSet(Waiting(d)) /\ IsFiniteSet(Roots)
  BY <1>1, <1>2, FS_Subset
<1> QED
  BY <1>1, <1>3, FS_CardinalityType

LEMMA AppendSharing ==
  ASSUME Typed, Threads, Sharing, NEW j \in Jobs, AppendJob(j)
  PROVE  Sharing'
<1> DEFINE added == Rows' \ Rows
<1>1. /\ n' \in 0..MaxRows /\ n <= n'
      /\ \A r \in Rows : job'[r] = job[r] /\ owner'[r] = owner[r]
  BY AppendGrows
<1>2. Rows \subseteq Rows' /\ Rows' \subseteq Row /\ None \notin Row
  BY <1>1, SessionAssumption DEF Rows, Row, Typed, None
<1>3. /\ DOMAIN dep' = Row /\ \A r \in Rows : dep'[r] = dep[r]
      /\ \A r \in added :
           /\ job'[r].template \in Templates
           /\ job'[r].kind = "op" => job'[r].lanes = 0
           /\ dep'[r] # None => dep'[r] \in Rows' /\ job'[dep'[r]].kind = "op" /\ ~released[dep'[r]]
           /\ IsSplit(r)' => dep'[r] # None
  BY AppendAdds DEF Sharing
<1>4. /\ UNCHANGED <<status, running, released, exec, take, peers, circuit, template, lane, worker, stop>>
      /\ FinalPlan => \A r \in Rows : status[r] = "pending" /\ ~exec[r]
  BY DEF AppendJob, execVars, workVars
<1>5. \A r \in Rows : IsSplit(r)' = IsSplit(r)
  BY <1>1 DEF IsSplit
<1>6. \A r \in Row \ Rows : status[r] = "pending" /\ ~exec[r] /\ ~released[r] /\ ~running[r] /\ circuit[r] = "none"
  BY DEF Sharing, Shape, Live, Built
<1>7. \A r \in Rows : dep[r] # None => dep[r] \in Rows
  BY DEF Sharing, Shape
<1>8. \A r \in Rows : Rests(r)' = Rests(r) /\ Terminal(r)' = Terminal(r)
  BY <1>3, <1>4, <1>7 DEF Rests, Terminal, EffectiveStatus
<1>9. StateTyped'
  BY <1>2, <1>3, <1>4, <1>5, <1>6 DEF Sharing, StateTyped
<1>10. Shape'
  <2>1. ASSUME NEW r \in Rows'
        PROVE  /\ job'[r].template \in Templates
               /\ job'[r].kind = "op" => job'[r].lanes = 0
               /\ dep'[r] # None => dep'[r] \in Rows' /\ job'[dep'[r]].kind = "op"
               /\ IsSplit(r)' => dep'[r] # None
    <3>1. CASE r \in Rows
      BY <1>1, <1>2, <1>3, <1>5, <3>1 DEF Sharing, Shape
    <3>2. CASE r \in added
      BY <1>3, <3>2
    <3> QED
      BY <2>1, <3>1, <3>2
  <2> QED
    BY <1>2, <1>4, <1>6, <2>1 DEF Shape
<1>11. Live'
  BY <1>4, <1>5, <1>6, <1>8 DEF Sharing, Live
<1>12. Built'
  BY <1>2, <1>4, <1>5, <1>6, <1>8 DEF Sharing, Built
<1>13. Gone'
  <2>1. \A r \in Row : released'[r] /\ ~IsSplit(r)' => Terminal(r)'
    BY <1>4, <1>5, <1>6, <1>8 DEF Sharing, Gone
  <2>2. ASSUME NEW d \in Row, released'[d], NEW r \in Rows', dep'[r] = d, ~IsSplit(r)'
        PROVE  released'[r]
    <3>1. r \in Rows
      BY <1>2, <1>3, <1>4, <2>2
    <3> QED
      BY <1>3, <1>4, <1>5, <2>2, <3>1 DEF Sharing, Gone, Dependents
  <2> QED
    BY <2>1, <2>2 DEF Gone, Dependents
<1>14. Counts'
  <2>1. IsFiniteSet(Rows')
    BY <1>1, SessionAssumption, FS_Interval DEF Rows
  <2>2. added \in SUBSET Rows'
    OBVIOUS
  <2>3. \A r \in added : status[r] = "pending"
    BY <1>2, <1>6
  <2>4. CASE added = {} /\ UNCHANGED <<readers, rootReaders>>
    <3>1. Rows' = Rows
      BY <1>2, <2>4
    <3>2. \A d \in Row : Waiting(d)' = Waiting(d)
      BY <1>3, <1>4, <1>5, <3>1 DEF Waiting, Dependents
    <3>3. Roots' = Roots
      BY <1>3, <1>4, <3>1 DEF Roots
    <3> QED
      BY <2>4, <3>2, <3>3 DEF Sharing, Counts, Counted
  <2>5. CASE /\ \A d \in Row : readers'[d] = readers[d]
                  + Cardinality({r \in added : dep'[r] = d /\ ~IsSplit(r)'})
             /\ rootReaders' = rootReaders + Cardinality({r \in added : dep'[r] = None})
    <3>1. ASSUME NEW d \in Row PROVE Counted(readers'[d], Waiting(d)')
      <4> DEFINE more == {r \in added : dep'[r] = d /\ ~IsSplit(r)'}
      <4>1. Waiting(d)' = Waiting(d) \union more
        BY <1>2, <1>3, <1>4, <1>5, <2>3 DEF Waiting, Dependents
      <4>2. Waiting(d) \intersect more = {}
        BY DEF Waiting, Dependents
      <4>3. IsFiniteSet(more)
        <5>1. more \in SUBSET Rows'
          OBVIOUS
        <5> QED
          BY <2>1, <5>1, FS_Subset
      <4>4. IsFiniteSet(Waiting(d)) /\ Cardinality(Waiting(d)) \in Nat
        BY WaitingFinite
      <4>5. Cardinality(more) \in Nat
        BY <4>3, FS_CardinalityType
      <4>6. Counted(readers[d], Waiting(d))
        BY DEF Sharing, Counts
      <4>7. readers'[d] = readers[d] + Cardinality(more)
        BY <2>5
      <4> HIDE DEF more
      <4>8. Cardinality(Waiting(d) \union more)
              = Cardinality(Waiting(d)) + Cardinality(more) - Cardinality(Waiting(d) \intersect more)
        BY <4>3, <4>4, FS_Union
      <4>9. Cardinality(Waiting(d) \intersect more) = 0
        BY <4>2, FS_EmptySet
      <4> QED
        BY <4>1, <4>4, <4>5, <4>6, <4>7, <4>8, <4>9 DEF Counted
    <3>2. Counted(rootReaders', Roots')
      <4> DEFINE more == {r \in added : dep'[r] = None}
      <4>1. Roots' = Roots \union more
        BY <1>2, <1>3, <1>4, <2>3 DEF Roots
      <4>2. Roots \intersect more = {}
        BY DEF Roots
      <4>3. IsFiniteSet(more)
        <5>1. more \in SUBSET Rows'
          OBVIOUS
        <5> QED
          BY <2>1, <5>1, FS_Subset
      <4>4. IsFiniteSet(Roots) /\ Cardinality(Roots) \in Nat
        BY WaitingFinite
      <4>5. Cardinality(more) \in Nat
        BY <4>3, FS_CardinalityType
      <4>6. Counted(rootReaders, Roots)
        BY DEF Sharing, Counts
      <4>7. rootReaders' = rootReaders + Cardinality(more)
        BY <2>5
      <4> HIDE DEF more
      <4>8. Cardinality(Roots \union more)
              = Cardinality(Roots) + Cardinality(more) - Cardinality(Roots \intersect more)
        BY <4>3, <4>4, FS_Union
      <4>9. Cardinality(Roots \intersect more) = 0
        BY <4>2, FS_EmptySet
      <4> QED
        BY <4>1, <4>4, <4>5, <4>6, <4>7, <4>8, <4>9 DEF Counted
    <3> QED
      BY <3>1, <3>2 DEF Counts
  <2>6. \/ added = {} /\ UNCHANGED <<readers, rootReaders>>
        \/ /\ \A d \in Row : readers'[d] = readers[d]
                + Cardinality({r \in added : dep'[r] = d /\ ~IsSplit(r)'})
           /\ rootReaders' = rootReaders + Cardinality({r \in added : dep'[r] = None})
    BY AppendAdds DEF Sharing
  <2> QED
    BY <2>4, <2>5, <2>6
<1>15. Taking'
  <2>1. FinalPlan => \A r \in Row : ~exec[r] /\ circuit[r] = "none"
    BY <1>4, <1>6 DEF Sharing, Built
  <2>2. \A r \in Row : take[r] => FinalPlan
    BY DEF Sharing, Taking
  <2>3. \A d \in Row : circuit[d] = "taken" \/ circuit[d] = "released" => FinalPlan
    BY DEF Sharing, Taking
  <2>4. \A t \in Templates : template[t] = "taken" => FinalPlan /\ \E r \in Rows : circuit[r] # "none"
    BY DEF Sharing, Taking
  <2> QED
    BY <1>2, <1>4, <2>1, <2>2, <2>3, <2>4 DEF Taking
<1> QED
  BY <1>9, <1>10, <1>11, <1>12, <1>13, <1>14, <1>15 DEF Sharing

\* Refusing and releasing are for a plan that is not final: nothing is taken.
LEMMA NothingTaken ==
  ASSUME Sharing, ~FinalPlan
  PROVE  /\ \A r \in Row : ~take[r] /\ circuit[r] \notin {"taken", "released"}
         /\ \A t \in Templates : template[t] # "taken"
BY DEF Sharing, Taking

LEMMA RefuseSharing ==
  ASSUME Typed, Threads, Sharing, ~FinalPlan, NEW i \in Rows, Refuse(i)
  PROVE  Sharing'
<1>0. Rows \subseteq Row
  BY SessionAssumption DEF Typed, Rows, Row
<1> DEFINE refused == {i, dep[i]} \ {None}
<1>1. /\ UNCHANGED <<n, job, dep, owner, readers, rootReaders, running, released, exec, take,
                     peers, circuit, template, lane, worker, stop>>
      /\ status' = [r \in Row |-> IF r \in {i, dep[i]} THEN "failed" ELSE status[r]]
      /\ \A r \in refused : ~exec[r] /\ status[r] = "pending"
  BY DEF Refuse, rowVars, execVars, workVars
<1>2. refused \subseteq Rows /\ None \notin Row
  BY <1>0, SessionAssumption DEF Sharing, Shape, Row, None
<1>3. \A r \in Row : status'[r] = IF r \in refused THEN "failed" ELSE status[r]
  BY <1>1, <1>2
<1>4. Rows' = Rows /\ \A r \in Row : IsSplit(r)' = IsSplit(r) /\ Dependents(r)' = Dependents(r)
  BY <1>1 DEF Rows, IsSplit, Dependents
<1>5. ASSUME NEW r \in Row, Rests(r), status[r] # "pending" \/ running[r]
      PROVE  Rests(r)'
  <2>1. r \in Rows
    BY <1>5 DEF Sharing, Shape, Live
  <2>2. dep[r] # None => dep[r] \in Rows /\ dep[r] \notin refused
    BY <1>1, <1>5, <2>1 DEF Sharing, Shape, Rests
  <2> QED
    BY <1>0, <1>1, <1>3, <1>5, <2>2 DEF Rests
<1>6. StateTyped'
  BY <1>0, <1>1, <1>3, <1>4 DEF Sharing, StateTyped, Ended
<1>7. Shape'
  BY <1>1, <1>2, <1>3, <1>4 DEF Sharing, Shape, IsSplit
<1>8. Live'
  BY <1>1, <1>3, <1>4, <1>5 DEF Sharing, Live
<1>9. Built'
  BY <1>0, <1>1, <1>3, <1>4, <1>5 DEF Sharing, Built
<1>10. Gone'
  <2>1. \A r \in Row : released[r] => r \in Rows
    BY DEF Sharing, Shape
  <2>2. ASSUME NEW r \in Rows, Terminal(r) PROVE Terminal(r)'
    <3>1. dep[r] # None => dep[r] \in Row
      BY <1>0 DEF Sharing, Shape
    <3>2. \A x \in Row : status[x] \in Ended => status'[x] = status[x]
      BY <1>1, <1>3 DEF Ended
    <3>3. status[r] \in Ended \/ (dep[r] # None /\ status[dep[r]] \in Ended \ {"complete"})
      BY <2>2 DEF Terminal, EffectiveStatus
    <3> QED
      BY <1>0, <1>1, <3>1, <3>2, <3>3 DEF Terminal, EffectiveStatus, Ended
  <2> QED
    BY <1>1, <1>4, <2>1, <2>2 DEF Sharing, Gone
<1>11. Taking'
  BY <1>0, <1>1, <1>4, NothingTaken DEF Taking
<1>12. Counts'
  <2>1. Roots' \subseteq Roots /\ \A d \in Row : Waiting(d)' \subseteq Waiting(d)
    BY <1>0, <1>1, <1>3, <1>4 DEF Roots, Waiting, Dependents
  <2>2. Cardinality(Roots') <= Cardinality(Roots) /\ Cardinality(Roots) \in Nat
        /\ Cardinality(Roots') \in Nat
    BY <2>1, WaitingFinite, FS_Subset, FS_CardinalityType
  <2>3. ASSUME NEW d \in Row
        PROVE  Cardinality(Waiting(d)') <= Cardinality(Waiting(d)) /\ Cardinality(Waiting(d)) \in Nat
               /\ Cardinality(Waiting(d)') \in Nat
    BY <2>1, WaitingFinite, FS_Subset, FS_CardinalityType
  <2> QED
    BY <1>1, <2>2, <2>3 DEF Sharing, Counts, Counted
<1> QED
  BY <1>6, <1>7, <1>8, <1>9, <1>10, <1>11, <1>12 DEF Sharing

LEMMA ReleaseSharing ==
  ASSUME Typed, Threads, Sharing, ~FinalPlan, NEW i \in Rows, Release(i)
  PROVE  Sharing'
<1>0. Rows \subseteq Row
  BY SessionAssumption DEF Typed, Rows, Row
<1>1. PICK free :
        /\ i \in free
        /\ \A r \in free : /\ Terminal(r) /\ ~running[r]
                           /\ Dependents(r) \subseteq {x \in Rows : released[x]} \union {i}
        /\ free \subseteq {i} \union ({dep[i]} \ {None})
        /\ released' = [r \in Row |-> released[r] \/ r \in free]
        /\ exec' = [r \in Row |-> exec[r] /\ r \notin free]
        /\ circuit' = [r \in Row |-> IF r \in free THEN "none" ELSE circuit[r]]
        /\ peers' = [r \in Row |-> IF r \in free THEN {} ELSE peers[r]]
  BY DEF Release, MayFree
<1>2. UNCHANGED <<n, job, dep, owner, status, readers, rootReaders, running, take, template, lane,
                  worker, stop>>
  BY DEF Release, rowVars, workVars
<1>3. free \subseteq Rows
  BY <1>1 DEF Sharing, Shape
<1>4. /\ Rows' = Rows
      /\ \A r \in Row : /\ IsSplit(r)' = IsSplit(r) /\ Dependents(r)' = Dependents(r)
                        /\ Rests(r)' = Rests(r) /\ Terminal(r)' = Terminal(r)
  BY <1>2 DEF Rows, IsSplit, Dependents, Rests, Terminal, EffectiveStatus
<1>5. \A k \in Row : worker[k] # "idle" =>
        /\ k \notin free /\ peers'[k] = peers[k]
        /\ \A p \in peers[k] : p \in Row /\ p \notin free
  <2>1. \A k \in Row : worker[k] # "idle" => running[k] /\ \A p \in peers[k] : p \in Row /\ running[p]
    BY DEF Threads, Flags, BatchOf, Typed
  <2> QED
    BY <1>0, <1>1, <2>1
<1>6. StateTyped'
  BY <1>0, <1>1, <1>2, <1>4 DEF Sharing, StateTyped
<1>7. Shape'
  BY <1>1, <1>2, <1>3, <1>4 DEF Sharing, Shape, IsSplit
<1>8. Live'
  BY <1>1, <1>2, <1>4 DEF Sharing, Live
<1>9. Built'
  <2>1. \A r \in Rows : status[r] = "paused" /\ ~IsSplit(r) => r \notin free
    BY <1>1 DEF Sharing, Built, Rests, Terminal, EffectiveStatus, Ended
  <2>2. \A r \in Row : circuit'[r] # "none" => exec'[r]
    BY <1>1 DEF Sharing, Built
  <2>3. \A r \in Rows' : status'[r] = "paused" /\ ~IsSplit(r)' => circuit'[r] # "none" /\ Rests(r)'
    BY <1>0, <1>1, <1>2, <1>4, <2>1 DEF Sharing, Built
  <2>4. \A r \in Row : status'[r] = "complete" /\ ~IsSplit(r)' /\ ~released'[r] => circuit'[r] # "none"
    BY <1>1, <1>2, <1>4 DEF Sharing, Built
  <2>5. \A k \in Row : worker'[k] = "stopped" /\ stop'[k] \in {"progress", "complete"} => circuit'[k] # "none"
    BY <1>1, <1>2, <1>5 DEF Sharing, Built
  <2>6. \A k \in Row : worker'[k] = "stopped" =>
          \A p \in peers'[k] : lane'[p] = "published" => circuit'[p] # "none"
    BY <1>1, <1>2, <1>5 DEF Sharing, Built
  <2>7. \A r \in Row : lane'[r] = "published" =>
          /\ r \in Rows' /\ ~IsSplit(r)'
          /\ status'[r] = "complete" \/ \E k \in Row : worker'[k] = "stopped" /\ r \in peers'[k]
    BY <1>2, <1>4, <1>5 DEF Sharing, Built
  <2> QED
    BY <2>2, <2>3, <2>4, <2>5, <2>6, <2>7 DEF Built
<1>10. Gone'
  <2>1. \A r \in Row : released'[r] /\ ~IsSplit(r)' => Terminal(r)'
    BY <1>1, <1>4 DEF Sharing, Gone
  <2>2. \A d \in Row : released'[d] => \A r \in Dependents(d) : released'[r]
    <3>1. \A d \in Row : Dependents(d) \subseteq Row
      BY <1>0 DEF Dependents
    <3>2. \A d \in Row, r \in Row : released[d] /\ r \in Dependents(d) => released[r]
      BY DEF Sharing, Gone
    <3>3. \A d \in free, r \in Row : r \in Dependents(d) => released[r] \/ r = i
      BY <1>1
    <3> QED
      BY <1>1, <3>1, <3>2, <3>3
  <2> QED
    BY <1>4, <2>1, <2>2 DEF Gone
<1>11. Taking'
  <2>1. \A r \in Row : ~take'[r] /\ circuit'[r] \notin {"taken", "released"}
    BY <1>1, <1>2, NothingTaken
  <2>2. \A t \in Templates : template'[t] # "taken"
    BY <1>2, NothingTaken
  <2> QED
    BY <1>0, <1>4, <2>1, <2>2 DEF Taking
<1>12. Counts'
  <2>1. Roots' = Roots /\ \A d \in Row : Waiting(d)' = Waiting(d)
    BY <1>2, <1>4 DEF Roots, Waiting
  <2> QED
    BY <1>2, <2>1 DEF Sharing, Counts
<1> QED
  BY <1>6, <1>7, <1>8, <1>9, <1>10, <1>11, <1>12 DEF Sharing

-----------------------------------------------------------------------------
(* Settling. *)

\* A settled step's statuses, executors and circuits.
LEMMA SettleFacts ==
  ASSUME Typed, NEW B \in SUBSET Rows, NEW built \in SUBSET Row, NEW out,
         Settle(B, out, built)
  PROVE  /\ \A r \in Row : exec[r] => exec'[r]
         /\ \A r \in Row : exec'[r] => exec[r] \/ r \in built \/ (r \in Rows /\ IsSplit(r))
         /\ DOMAIN circuit' = Row
         /\ \A r \in Row : circuit'[r] # circuit[r] =>
              circuit'[r] = "released" /\ circuit[r] = "own" /\ FinalPlan /\ readers'[r] = 0
<1> DEFINE st == [r \in Row |-> IF r \in B THEN out[r] ELSE status[r]]
<1>1. \A g \in SplitsEnded(B, st) : g \in Rows /\ IsSplit(g)
  BY DEF SplitsEnded
<1>2. exec' = [r \in Row |-> \/ exec[r] \/ r \in built
                             \/ r \in SplitsEnded(B, st) /\ status'[r] = "complete"]
  BY DEF Settle
<1>3. /\ DOMAIN circuit' = Row
      /\ \A r \in Row : circuit'[r] # circuit[r] =>
           circuit'[r] = "released" /\ circuit[r] = "own" /\ FinalPlan /\ readers'[r] = 0
  BY DEF Settle, MayRelease
<1> QED
  BY <1>1, <1>2, <1>3

\* The counts follow what is settled: a settled row no longer waits.
LEMMA SettleCounts ==
  ASSUME Typed, Sharing, NEW B \in SUBSET Rows, NEW built \in SUBSET Row, NEW out,
         Settle(B, out, built), UNCHANGED <<n, job, dep, owner>>,
         \A r \in B : ~IsSplit(r) /\ out[r] # "pending"
  PROVE  /\ \A d \in Row : Waiting(d)' = Waiting(d) \ B
         /\ Roots' = Roots \ B
         /\ Counts'
<1>0. Rows \subseteq Row
  BY SessionAssumption DEF Typed, Rows, Row
<1>1. Rows' = Rows /\ \A r \in Rows : IsSplit(r)' = IsSplit(r)
  BY DEF Rows, IsSplit
<1>2. \A r \in Rows : ~IsSplit(r) => status'[r] = IF r \in B THEN out[r] ELSE status[r]
  BY <1>0, SettleLeaves
<1>3. \A d \in Row : Waiting(d)' = Waiting(d) \ B
  BY <1>1, <1>2 DEF Waiting, Dependents
<1>4. Roots' = Roots \ B
  <2>1. \A r \in Rows : dep[r] = None => ~IsSplit(r)
    BY DEF Sharing, Shape
  <2> QED
    BY <1>1, <1>2, <2>1 DEF Roots
<1>5. /\ readers' = [d \in Row |-> readers[d] - Cardinality(NewlyRead(B) \intersect Dependents(d))]
      /\ rootReaders' = rootReaders - Cardinality({r \in NewlyRead(B) : dep[r] = None})
  BY DEF Settle
<1>6. \A d \in Row : NewlyRead(B) \intersect Dependents(d) = Waiting(d) \intersect B
  BY DEF NewlyRead, Waiting, Dependents
<1>7. {r \in NewlyRead(B) : dep[r] = None} = Roots \intersect B
  BY DEF NewlyRead, Roots
<1>8. ASSUME NEW d \in Row PROVE Counted(readers'[d], Waiting(d)')
  <2>1. IsFiniteSet(Waiting(d)) /\ Cardinality(Waiting(d)) \in Nat
    BY WaitingFinite
  <2>2. Waiting(d) \intersect B \in SUBSET Waiting(d)
    OBVIOUS
  <2>3. /\ IsFiniteSet(Waiting(d) \intersect B)
        /\ Cardinality(Waiting(d) \intersect B) <= Cardinality(Waiting(d))
    BY <2>1, <2>2, FS_Subset
  <2>4. Cardinality(Waiting(d) \intersect B) \in Nat
    BY <2>3, FS_CardinalityType
  <2>5. Cardinality(Waiting(d) \ B) = Cardinality(Waiting(d)) - Cardinality(Waiting(d) \intersect B)
    BY <2>1, FS_Difference
  <2>6. Counted(readers[d], Waiting(d))
    BY <1>8 DEF Sharing, Counts
  <2>7. readers'[d] = readers[d] - Cardinality(Waiting(d) \intersect B)
    BY <1>5, <1>6
  <2>8. Cardinality(Waiting(d)') = Cardinality(Waiting(d)) - Cardinality(Waiting(d) \intersect B)
    BY <1>3, <2>5
  <2> QED
    BY <2>1, <2>3, <2>4, <2>6, <2>7, <2>8 DEF Counted
<1>9. Counted(rootReaders', Roots')
  <2>1. IsFiniteSet(Roots) /\ Cardinality(Roots) \in Nat
    BY WaitingFinite
  <2>2. Roots \intersect B \in SUBSET Roots
    OBVIOUS
  <2>3. IsFiniteSet(Roots \intersect B) /\ Cardinality(Roots \intersect B) <= Cardinality(Roots)
    BY <2>1, <2>2, FS_Subset
  <2>4. Cardinality(Roots \intersect B) \in Nat
    BY <2>3, FS_CardinalityType
  <2>5. Cardinality(Roots \ B) = Cardinality(Roots) - Cardinality(Roots \intersect B)
    BY <2>1, FS_Difference
  <2>6. Counted(rootReaders, Roots)
    BY DEF Sharing, Counts
  <2>7. rootReaders' = rootReaders - Cardinality(Roots \intersect B)
    BY <1>5, <1>7
  <2>8. Cardinality(Roots') = Cardinality(Roots) - Cardinality(Roots \intersect B)
    BY <1>4, <2>5
  <2> QED
    BY <2>1, <2>3, <2>4, <2>6, <2>7, <2>8 DEF Counted
<1>10. Counts'
  BY <1>8, <1>9 DEF Counts
<1> QED
  BY <1>3, <1>4, <1>10

\* What a row must bring along to be settled, for the sharing to survive it.
LEMMA SettleShares ==
  ASSUME Typed, Sharing, NEW B \in SUBSET Rows, NEW built \in SUBSET Row, NEW out,
         Settle(B, out, built),
         UNCHANGED <<n, job, dep, owner, released, template, lane>>,
         built \subseteq Rows,
         \A r \in B : /\ ~IsSplit(r) /\ status[r] \in {"pending", "paused"} /\ Rests(r)
                      /\ out[r] \in {"paused", "complete", "failed", "cancelled"}
                      /\ out[r] \in {"paused", "complete"} => circuit[r] # "none",
         \A r \in Row : running'[r] => running[r] /\ r \notin B,
         \A k \in Row : worker'[k] = "stopped" =>
           worker[k] = "stopped" /\ stop'[k] = stop[k] /\ peers'[k] = peers[k],
         \A k \in Row : worker[k] = "stopped" /\ worker'[k] # "stopped" =>
           \A r \in peers[k] : lane[r] = "published" => r \in B /\ out[r] = "complete",
         \A r \in Row : take'[r] => FinalPlan,
         \A r \in Rows : take'[r] /\ (exec[r] \/ r \in built) /\ status[r] = "pending" /\ ~IsSplit(r) =>
           r \in B \/ Alone(r)
  PROVE  Sharing'
<1>0. Rows \subseteq Row
  BY SessionAssumption DEF Typed, Rows, Row
<1>1. Rows' = Rows /\ \A r \in Rows : IsSplit(r)' = IsSplit(r)
  BY DEF Rows, IsSplit
<1>2. \A r \in Row : /\ ~IsSplit(r) => status'[r] = IF r \in B THEN out[r] ELSE status[r]
                     /\ r \notin Rows => status'[r] = status[r]
  BY SettleLeaves
<1>3. /\ \A r \in Row : exec[r] => exec'[r]
      /\ \A r \in Row : exec'[r] => exec[r] \/ r \in built \/ (r \in Rows /\ IsSplit(r))
      /\ DOMAIN circuit' = Row
      /\ \A r \in Row : circuit'[r] # circuit[r] =>
           circuit'[r] = "released" /\ circuit[r] = "own" /\ FinalPlan /\ readers'[r] = 0
  BY SettleFacts
<1>4. /\ \A d \in Row : Waiting(d)' = Waiting(d) \ B
      /\ Roots' = Roots \ B
      /\ Counts'
  BY SettleCounts
<1>5. \A r \in Rows : dep[r] # None => dep[r] \in Rows /\ ~IsSplit(dep[r])
  BY <1>0 DEF Sharing, Shape, IsSplit
<1>6. \A r \in Rows : ~IsSplit(r) /\ status[r] \in Ended => status'[r] = status[r]
  BY <1>0, <1>2 DEF Ended
<1>7. \A r \in Rows : Rests(r) => Rests(r)'
  BY <1>5, <1>6 DEF Rests, Ended
<1>8. \A r \in Rows : Alone(r) => Alone(r)'
  BY <1>0, <1>1, <1>2 DEF Alone
<1>9. StateTyped'
  <2>1. circuit' \in [Row -> {"none", "own", "taken", "released"}]
    <3>1. \A r \in Row : circuit'[r] \in {circuit[r], "released"}
      BY <1>3
    <3>2. circuit' = [r \in Row |-> circuit'[r]]
      BY DEF Settle
    <3> QED
      BY <3>1, <3>2 DEF Sharing, StateTyped
  <2>2. \A r \in Rows : ~IsSplit(r) => status'[r] \in {"pending", "paused"} \union Ended
    BY <1>0, <1>2 DEF Sharing, StateTyped, Ended
  <2> QED
    BY <1>1, <2>1, <2>2 DEF Sharing, StateTyped
<1>10. Shape'
  <2>1. \A r \in Row \ Rows : status'[r] = "pending" /\ ~exec'[r] /\ ~released'[r]
    BY <1>2, <1>3 DEF Sharing, Shape
  <2> QED
    BY <1>1, <2>1 DEF Sharing, Shape
<1>11. Live'
  <2> SUFFICES ASSUME NEW r \in Row, running'[r]
               PROVE  /\ ~IsSplit(r)' /\ exec'[r] /\ ~released'[r]
                      /\ status'[r] \in {"pending", "paused"} /\ Rests(r)'
    BY DEF Live
  <2>1. running[r] /\ r \notin B
    OBVIOUS
  <2>2. ~IsSplit(r) /\ exec[r] /\ ~released[r] /\ status[r] \in {"pending", "paused"} /\ Rests(r)
    BY <2>1 DEF Sharing, Live
  <2>3. r \in Rows
    BY <2>2 DEF Sharing, Shape
  <2> QED
    BY <1>1, <1>2, <1>3, <1>7, <2>1, <2>2, <2>3
<1>12. \A r \in Row : circuit[r] # "none" => circuit'[r] # "none"
  BY <1>3
<1>13. Built'
  <2>1. \A r \in Row : circuit'[r] # "none" => exec'[r]
    <3>1. \A r \in Row : circuit'[r] # "none" => circuit[r] # "none"
      BY <1>3
    <3> QED
      BY <1>3, <3>1 DEF Sharing, Built
  <2>2. \A r \in Rows : status'[r] = "paused" /\ ~IsSplit(r) => circuit'[r] # "none" /\ Rests(r)'
    BY <1>0, <1>2, <1>7, <1>12 DEF Sharing, Built
  <2>3. \A r \in Row : status'[r] = "complete" /\ ~IsSplit(r) /\ ~released[r] => circuit'[r] # "none"
    BY <1>2, <1>12 DEF Sharing, Built
  <2>4. \A k \in Row : worker'[k] = "stopped" /\ stop'[k] \in {"progress", "complete"} => circuit'[k] # "none"
    BY <1>12 DEF Sharing, Built
  <2>5. ASSUME NEW k \in Row, worker'[k] = "stopped", NEW p \in peers'[k], lane[p] = "published"
        PROVE  circuit'[p] # "none"
    <3>1. worker[k] = "stopped" /\ p \in peers[k] /\ p \in Row
      BY <2>5 DEF Typed
    <3> QED
      BY <1>12, <2>5, <3>1 DEF Sharing, Built
  <2>6. ASSUME NEW r \in Row, lane[r] = "published"
        PROVE  /\ r \in Rows /\ ~IsSplit(r)
               /\ status'[r] = "complete" \/ \E k \in Row : worker'[k] = "stopped" /\ r \in peers'[k]
    <3>1. r \in Rows /\ ~IsSplit(r)
      BY <2>6 DEF Sharing, Built
    <3>2. CASE status[r] = "complete"
      BY <1>6, <3>1, <3>2 DEF Ended
    <3>3. ASSUME NEW k \in Row, worker[k] = "stopped", r \in peers[k]
          PROVE  status'[r] = "complete" \/ (worker'[k] = "stopped" /\ r \in peers'[k])
      <4>1. CASE worker'[k] = "stopped"
        BY <3>3, <4>1
      <4>2. CASE worker'[k] # "stopped"
        BY <1>0, <1>2, <2>6, <3>1, <3>3, <4>2
      <4> QED
        BY <4>1, <4>2
    <3> QED
      BY <2>6, <3>1, <3>2, <3>3 DEF Sharing, Built
  <2>7. \A r \in Row : r \in Rows \/ status'[r] # "complete"
    BY <1>2 DEF Sharing, Shape
  <2> QED
    BY <1>1, <2>1, <2>2, <2>3, <2>4, <2>5, <2>6, <2>7 DEF Built
<1>14. Gone'
  <2>1. \A r \in Rows : ~IsSplit(r) /\ Terminal(r) => Terminal(r)'
    BY <1>0, <1>5, <1>6 DEF Terminal, EffectiveStatus, Ended
  <2>2. \A r \in Row : released[r] => r \in Rows
    BY DEF Sharing, Shape
  <2>3. \A r \in Row : released[r] /\ ~IsSplit(r)' => Terminal(r)'
    BY <1>1, <2>1, <2>2 DEF Sharing, Gone
  <2>4. \A d \in Row : Dependents(d)' = Dependents(d)
    BY <1>1 DEF Dependents
  <2> QED
    BY <2>3, <2>4 DEF Sharing, Gone
<1>15. Taking'
  <2>1. ASSUME NEW r \in Rows, take'[r], exec'[r], status'[r] = "pending", ~IsSplit(r)
        PROVE  Alone(r)'
    <3>1. r \notin B /\ status[r] = "pending"
      BY <1>0, <1>2, <2>1
    <3>2. exec[r] \/ r \in built
      BY <1>0, <1>3, <2>1
    <3> QED
      BY <1>8, <2>1, <3>1, <3>2
  <2>2. ASSUME NEW d \in Row, circuit'[d] = "taken"
        PROVE  FinalPlan /\ \E r \in Rows : dep[r] = d /\ circuit'[r] # "none" /\ Alone(r)'
    <3>1. circuit[d] = "taken"
      BY <1>3, <2>2
    <3>2. FinalPlan /\ \E r \in Rows : dep[r] = d /\ circuit[r] # "none" /\ Alone(r)
      BY <3>1 DEF Sharing, Taking
    <3> QED
      BY <1>0, <1>8, <1>12, <3>2
  <2>3. ASSUME NEW t \in Templates, template[t] = "taken"
        PROVE  FinalPlan /\ \E r \in Rows : dep[r] = None /\ circuit'[r] # "none" /\ Alone(r)'
    <3>1. FinalPlan /\ \E r \in Rows : dep[r] = None /\ circuit[r] # "none" /\ Alone(r)
      BY <2>3 DEF Sharing, Taking
    <3> QED
      BY <1>0, <1>8, <1>12, <3>1
  <2>4. ASSUME NEW d \in Row, circuit'[d] = "released"
        PROVE  FinalPlan /\ Waiting(d)' = {}
    <3>1. CASE circuit[d] = "released"
      BY <1>4, <3>1 DEF Sharing, Taking
    <3>2. CASE circuit[d] # "released"
      <4>1. FinalPlan /\ readers'[d] = 0
        BY <1>3, <2>4, <3>2
      <4>2. Cardinality(Waiting(d)') = 0
        BY <1>4, <4>1 DEF Counts, Counted
      <4>3. IsFiniteSet(Waiting(d)')
        <5>1. IsFiniteSet(Waiting(d))
          BY WaitingFinite
        <5>2. IsFiniteSet(Waiting(d) \ B)
          BY <5>1, FS_Difference
        <5> QED
          BY <1>4, <5>2
      <4> QED
        BY <4>1, <4>2, <4>3, FS_EmptySet
    <3> QED
      BY <3>1, <3>2
  <2> QED
    BY <1>1, <2>1, <2>2, <2>3, <2>4 DEF Taking
<1> QED
  BY <1>4, <1>9, <1>10, <1>11, <1>13, <1>14, <1>15 DEF Sharing

\* A batch that stopped brings that along.
LEMMA SettleRowSharing ==
  ASSUME Typed, Threads, Sharing, NEW i \in Rows, SettleRow(i)
  PROVE  Sharing'
<1>0. Rows \subseteq Row /\ i \in Row
  BY SessionAssumption DEF Typed, Rows, Row
<1> DEFINE out == [r \in BatchOf(i) |-> IF r = i THEN Outcome(i) ELSE PeerOutcome(i, r)]
<1>1. /\ worker[i] = "stopped" /\ Settle(BatchOf(i), out, {})
      /\ worker' = [worker EXCEPT ![i] = "idle"]
      /\ stop' = [stop EXCEPT ![i] = "none"]
      /\ running' = [r \in Row |-> running[r] /\ r \notin BatchOf(i)]
      /\ UNCHANGED <<n, job, dep, owner, released, template, lane, take, peers>>
  BY DEF SettleRow, rowVars
<1>2. /\ BatchOf(i) \subseteq Rows /\ \A p \in peers[i] : p # i
      /\ \A r \in BatchOf(i) : running[r]
  BY <1>0, <1>1 DEF Threads, Batches, Flags, BatchOf
<1>3. \A r \in BatchOf(i) : ~IsSplit(r) /\ status[r] \in {"pending", "paused"} /\ Rests(r)
  BY <1>0, <1>2 DEF Sharing, Live
<1>4. /\ Outcome(i) \in {"paused", "complete", "failed", "cancelled"}
      /\ Outcome(i) \in {"paused", "complete"} => circuit[i] # "none"
  <2>1. stop[i] \in {"progress", "complete", "failed", "cancelled"}
    BY <1>0, <1>1 DEF Typed, Threads, Stops
  <2>2. Outcome(i) = IF stop[i] = "progress" THEN IF cancelled[i] THEN "cancelled" ELSE "paused" ELSE stop[i]
    BY DEF Outcome
  <2>3. stop[i] \in {"progress", "complete"} => circuit[i] # "none"
    BY <1>0, <1>1 DEF Sharing, Built
  <2> QED
    BY <2>1, <2>2, <2>3
<1>5. ASSUME NEW p \in peers[i]
      PROVE  /\ PeerOutcome(i, p) \in {"complete", "failed", "cancelled"}
             /\ PeerOutcome(i, p) = "complete" <=> lane[p] = "published"
             /\ lane[p] = "published" => circuit[p] # "none"
  <2>1. lane[p] = "published" => circuit[p] # "none"
    BY <1>0, <1>1 DEF Sharing, Built
  <2> QED
    BY <2>1 DEF PeerOutcome
<1>6. \A r \in BatchOf(i) : /\ out[r] \in {"paused", "complete", "failed", "cancelled"}
                            /\ out[r] \in {"paused", "complete"} => circuit[r] # "none"
  BY <1>4, <1>5 DEF BatchOf
<1>7. \A r \in peers[i] : lane[r] = "published" => r \in BatchOf(i) /\ out[r] = "complete"
  BY <1>2, <1>5 DEF BatchOf
<1>8. \A k \in Row : k # i => worker'[k] = worker[k] /\ stop'[k] = stop[k]
  BY <1>1
<1>9. worker'[i] = "idle"
  BY <1>0, <1>1 DEF Typed
<1>10. \A k \in Row : worker'[k] = "stopped" =>
         worker[k] = "stopped" /\ stop'[k] = stop[k] /\ peers'[k] = peers[k]
  BY <1>1, <1>8, <1>9
<1>11. \A k \in Row : worker[k] = "stopped" /\ worker'[k] # "stopped" =>
         \A r \in peers[k] : lane[r] = "published" => r \in BatchOf(i) /\ out[r] = "complete"
  BY <1>7, <1>8
<1>12. /\ \A r \in Row : take'[r] => FinalPlan
       /\ \A r \in Rows : take'[r] /\ exec[r] /\ status[r] = "pending" /\ ~IsSplit(r) => Alone(r)
  BY <1>1 DEF Sharing, Taking
<1>13. \A r \in Row : running'[r] => running[r] /\ r \notin BatchOf(i)
  BY <1>1
<1> HIDE DEF out
<1> QED
  BY <1>1, <1>2, <1>3, <1>6, <1>10, <1>11, <1>12, <1>13, SettleShares

\* Who sees the count at one, and has still to copy, is alone.
LEMMA LastIsAlone ==
  ASSUME Typed, Sharing, FinalPlan, NEW r \in Rows, ~IsSplit(r), status[r] = "pending", LastReader(r)
  PROVE  Alone(r)
<1>0. Rows \subseteq Row
  BY SessionAssumption DEF Typed, Rows, Row
<1>1. CASE dep[r] = None
  <2>1. r \in Roots /\ Cardinality(Roots) = 1
    BY <1>1 DEF LastReader, Roots, Sharing, Counts, Counted
  <2>2. IsFiniteSet(Roots)
    BY WaitingFinite
  <2>3. PICK y : Roots = {y}
    BY <2>1, <2>2, FS_Singleton
  <2> QED
    BY <1>1, <2>1, <2>3 DEF Alone, Roots
<1>2. CASE dep[r] # None
  <2>1. dep[r] \in Row
    BY <1>0, <1>2 DEF Sharing, Shape
  <2>2. r \in Waiting(dep[r]) /\ Cardinality(Waiting(dep[r])) = 1
    BY <1>2, <2>1 DEF LastReader, Waiting, Dependents, Sharing, Counts, Counted
  <2>3. IsFiniteSet(Waiting(dep[r]))
    BY WaitingFinite
  <2>4. PICK y : Waiting(dep[r]) = {y}
    BY <2>2, <2>3, FS_Singleton
  <2> QED
    BY <2>2, <2>4 DEF Alone, Waiting, Dependents
<1> QED
  BY <1>1, <1>2

\* A row that may start has not ended, rests on a result and was not released.
LEMMA StartableRests ==
  ASSUME Typed, Sharing, NEW i \in Rows, Startable(i)
  PROVE  ~IsSplit(i) /\ status[i] \in {"pending", "paused"} /\ Rests(i) /\ ~released[i] /\ ~running[i]
<1>1. ~IsSplit(i) /\ ~Terminal(i) /\ Rests(i) /\ ~running[i]
  BY DEF Startable, Ready, Rests
<1>2. status[i] \notin Ended
  BY <1>1 DEF Terminal, EffectiveStatus
<1>3. i \in Row
  BY SessionAssumption DEF Typed, Rows, Row
<1> QED
  BY <1>1, <1>2, <1>3 DEF Sharing, StateTyped, Gone

\* What a launch, or one that fails, decides about taking sources over.
LEMMA DecideShares ==
  ASSUME Typed, Sharing, NEW B \in SUBSET Rows, \A r \in B : Startable(r), DecideTake(B)
  PROVE  /\ \A r \in Row : take'[r] => FinalPlan
         /\ \A r \in Rows : take'[r] /\ (exec[r] \/ r \in B) /\ status[r] = "pending" /\ ~IsSplit(r) => Alone(r)
<1>0. Rows \subseteq Row
  BY SessionAssumption DEF Typed, Rows, Row
<1>1. \A r \in Row : take'[r] = IF r \in B /\ ~exec[r] THEN FinalPlan /\ LastReader(r) ELSE take[r]
  BY DEF DecideTake
<1>2. \A r \in Row : take'[r] => FinalPlan
  BY <1>1 DEF Sharing, Taking
<1>3. ASSUME NEW r \in Rows, take'[r], exec[r] \/ r \in B, status[r] = "pending", ~IsSplit(r)
      PROVE  Alone(r)
  <2>1. CASE r \in B /\ ~exec[r]
    BY <1>0, <1>1, <1>3, <2>1, LastIsAlone
  <2>2. CASE exec[r]
    BY <1>0, <1>1, <1>3, <2>2 DEF Sharing, Taking
  <2> QED
    BY <1>3, <2>1, <2>2
<1> QED
  BY <1>2, <1>3

-----------------------------------------------------------------------------
(* Starting. *)

LEMMA LaunchSharing ==
  ASSUME Typed, Threads, Sharing, NEW i \in Rows, Startable(i), NEW P \in Gathered(i), Launch(i, P)
  PROVE  Sharing'
<1>0. Rows \subseteq Row /\ i \in Row
  BY SessionAssumption DEF Typed, Rows, Row
<1> DEFINE B == {i} \union P
<1>1. B \in SUBSET Rows /\ \A r \in B : Startable(r)
  BY DEF Gathered, MayJoin
<1>2. worker[i] = "idle"
  BY IdleStartable
<1>3. /\ exec' = [r \in Row |-> exec[r] \/ r \in B]
      /\ DecideTake(B)
      /\ running' = [r \in Row |-> running[r] \/ r \in B]
      /\ worker' = [worker EXCEPT ![i] = "working"]
      /\ \A k \in Row : k # i => peers'[k] = peers[k]
      /\ UNCHANGED <<n, job, dep, owner, status, readers, rootReaders, released, circuit, template, lane, stop>>
  BY <1>0 DEF Launch, rowVars, Typed
<1>4. /\ Rows' = Rows /\ Roots' = Roots
      /\ \A r \in Row : /\ IsSplit(r)' = IsSplit(r) /\ Dependents(r)' = Dependents(r)
                        /\ Waiting(r)' = Waiting(r)
                        /\ Rests(r)' = Rests(r) /\ Terminal(r)' = Terminal(r) /\ Alone(r)' = Alone(r)
  BY <1>3 DEF Rows, Roots, Waiting, IsSplit, Dependents, Rests, Terminal, EffectiveStatus, Alone
<1>5. \A r \in B : ~IsSplit(r) /\ status[r] \in {"pending", "paused"} /\ Rests(r) /\ ~released[r]
  BY <1>1, StartableRests
<1>6. \A k \in Row : worker'[k] = "stopped" <=> worker[k] = "stopped"
  BY <1>0, <1>2, <1>3 DEF Typed
<1>7. \A k \in Row : worker[k] = "stopped" => peers'[k] = peers[k]
  BY <1>2, <1>3
<1> HIDE DEF B
<1>8. StateTyped'
  BY <1>0, <1>3, <1>4 DEF Sharing, StateTyped
<1>9. Shape'
  BY <1>0, <1>1, <1>3, <1>4 DEF Sharing, Shape
<1>10. Live'
  BY <1>1, <1>3, <1>4, <1>5 DEF Sharing, Live
<1>11. Built'
  BY <1>0, <1>3, <1>4, <1>6, <1>7 DEF Sharing, Built
<1>12. Gone'
  BY <1>3, <1>4 DEF Sharing, Gone
<1>13. Counts'
  BY <1>3, <1>4 DEF Sharing, Counts
<1>14. Taking'
  <2>1. /\ \A r \in Row : take'[r] => FinalPlan
        /\ \A r \in Rows : take'[r] /\ (exec[r] \/ r \in B) /\ status[r] = "pending" /\ ~IsSplit(r) => Alone(r)
    BY <1>1, <1>3, DecideShares
  <2>2. \A r \in Rows : take'[r] /\ exec'[r] /\ status[r] = "pending" /\ ~IsSplit(r) => Alone(r)
    BY <1>0, <1>3, <2>1
  <2> QED
    BY <1>0, <1>3, <1>4, <2>1, <2>2 DEF Sharing, Taking
<1> QED
  BY <1>8, <1>9, <1>10, <1>11, <1>12, <1>13, <1>14 DEF Sharing

LEMMA FailsSharing ==
  ASSUME Typed, Threads, Sharing, NEW i \in Rows, Startable(i), NEW P \in Gathered(i), LaunchFails(i, P)
  PROVE  Sharing'
<1>0. Rows \subseteq Row /\ i \in Row
  BY SessionAssumption DEF Typed, Rows, Row
<1>1. peers[i] = {}
  BY IdleStartable
<1>2. \A r \in {i} \union P : r \in Rows /\ Startable(r)
  BY DEF Gathered, MayJoin
<1> DEFINE out == [r \in {i} |-> "failed"]
<1>3. PICK B \in SUBSET Rows : /\ \A r \in B : Startable(r)
                               /\ Settle({i}, out, B) /\ DecideTake(B)
  <2>1. PICK built \in BOOLEAN : LET B == IF built THEN {i} \union P ELSE {}
                                 IN Settle({i}, out, B) /\ DecideTake(B)
    BY DEF LaunchFails
  <2> QED
    BY <1>2, <2>1
<1>4. /\ peers' = peers
      /\ UNCHANGED <<n, job, dep, owner, released, template, lane, running, worker, stop>>
  BY <1>0, <1>1 DEF LaunchFails, rowVars, workVars, Typed
<1>5. \A r \in {i} : ~IsSplit(r) /\ status[r] \in {"pending", "paused"} /\ Rests(r) /\ ~running[r] /\ out[r] = "failed"
  BY StartableRests
<1>6. /\ \A r \in Row : take'[r] => FinalPlan
      /\ \A r \in Rows : take'[r] /\ (exec[r] \/ r \in B) /\ status[r] = "pending" /\ ~IsSplit(r) => Alone(r)
  BY <1>3, DecideShares
<1>7. {i} \in SUBSET Rows /\ B \in SUBSET Row
  BY <1>0
<1> HIDE DEF out
<1> QED
  BY <1>3, <1>4, <1>5, <1>6, <1>7, SettleShares

-----------------------------------------------------------------------------
(* The analysis threads. *)

\* A batch on a thread.
LEMMA Working ==
  ASSUME Typed, Threads, Sharing, NEW i \in Rows, worker[i] = "working", NEW r \in BatchOf(i)
  PROVE  /\ r \in Rows /\ running[r] /\ exec[r] /\ ~IsSplit(r) /\ ~released[r]
         /\ status[r] \in {"pending", "paused"} /\ Rests(r)
         /\ lane[r] # "published"
<1>0. Rows \subseteq Row /\ i \in Row
  BY SessionAssumption DEF Typed, Rows, Row
<1>1. r \in Rows /\ running[r]
  BY <1>0 DEF Threads, Batches, Flags, BatchOf
<1>2. exec[r] /\ ~IsSplit(r) /\ ~released[r] /\ status[r] \in {"pending", "paused"} /\ Rests(r)
  BY <1>0, <1>1 DEF Sharing, Live
<1>3. \A k \in Row : worker[k] = "stopped" => r \notin peers[k]
  BY <1>0 DEF Threads, Batches, BatchOf
<1>4. lane[r] # "published"
  BY <1>0, <1>1, <1>2, <1>3 DEF Sharing, Built
<1> QED
  BY <1>1, <1>2, <1>4

LEMMA StopSharing ==
  ASSUME Typed, Threads, Sharing, NEW i \in Rows, Park(i) \/ End(i) \/ FailFirst(i)
  PROVE  Sharing'
<1>0. Rows \subseteq Row /\ i \in Row
  BY SessionAssumption DEF Typed, Rows, Row
<1>1. worker[i] = "working"
  BY DEF Park, End, FailFirst
<1>2. \A r \in BatchOf(i) : r \in Rows /\ ~IsSplit(r) /\ lane[r] # "published"
  BY <1>1, Working
<1>3. PICK outcome :
        /\ Stop(i, outcome)
        /\ outcome \in {"progress", "complete"} => circuit[i] # "none"
        /\ DOMAIN lane' = Row
        /\ \A r \in Row : r \notin peers[i] => lane'[r] = lane[r]
        /\ \A r \in peers[i] : lane'[r] = "published" => circuit[r] # "none"
  <2>0. peers[i] \subseteq Row
    BY <1>0 DEF Typed
  <2>1. CASE Park(i)
    <3>1. peers[i] = {}
      BY <1>0, <2>1 DEF Park, Threads, Leaders
    <3>2. circuit[i] # "none"
      BY <2>1, <3>1 DEF Park, NeedsSetUp, BatchOf
    <3> QED
      BY <2>1, <3>1, <3>2 DEF Park, Sharing, StateTyped
  <2>2. CASE End(i)
    <3>1. PICK ok \in SUBSET {r \in BatchOf(i) : lane[r] # "failed"} :
            /\ Stop(i, IF cancelled[i] THEN "cancelled" ELSE IF i \in ok THEN "complete" ELSE "failed")
            /\ lane' = [r \in Row |-> CASE r \in peers[i] \intersect ok -> "published"
                                        [] r \in peers[i] \ ok -> "failed"
                                        [] OTHER -> lane[r]]
      BY <2>2 DEF End
    <3>2. \A r \in ok : circuit[r] # "none"
      BY <2>2, <3>1 DEF End, NeedsSetUp
    <3>3. \A r \in Row : lane'[r] = IF r \in peers[i] THEN IF r \in ok THEN "published" ELSE "failed"
                                    ELSE lane[r]
      BY <3>1
    <3>4. DOMAIN lane' = Row
      BY <3>1
    <3> QED
      BY <2>0, <3>1, <3>2, <3>3, <3>4
  <2>3. CASE FailFirst(i)
    <3>1. \A r \in peers[i] : lane[r] # "published"
      BY <1>2 DEF BatchOf
    <3> QED
      BY <2>3, <3>1 DEF FailFirst, Sharing, StateTyped
  <2> QED
    BY <2>1, <2>2, <2>3
<1>4. /\ worker' = [worker EXCEPT ![i] = "stopped"]
      /\ stop' = [stop EXCEPT ![i] = outcome]
      /\ UNCHANGED <<n, job, dep, owner, status, readers, rootReaders, running, released, exec, take,
                     peers, circuit, template>>
  BY <1>3 DEF Stop, rowVars
<1>5. /\ Rows' = Rows /\ Roots' = Roots
      /\ \A r \in Row : /\ IsSplit(r)' = IsSplit(r) /\ Dependents(r)' = Dependents(r)
                        /\ Waiting(r)' = Waiting(r)
                        /\ Rests(r)' = Rests(r) /\ Terminal(r)' = Terminal(r) /\ Alone(r)' = Alone(r)
  BY <1>4 DEF Rows, Roots, Waiting, IsSplit, Dependents, Rests, Terminal, EffectiveStatus, Alone
<1>6. /\ worker'[i] = "stopped" /\ stop'[i] = outcome
      /\ \A k \in Row : k # i => worker'[k] = worker[k] /\ stop'[k] = stop[k]
  BY <1>0, <1>4 DEF Typed
<1>7. Built'
  <2>1. \A k \in Row : worker'[k] = "stopped" /\ stop'[k] \in {"progress", "complete"} => circuit[k] # "none"
    BY <1>3, <1>6 DEF Sharing, Built
  <2>2. ASSUME NEW k \in Row, worker'[k] = "stopped", NEW p \in peers[k], lane'[p] = "published"
        PROVE  circuit[p] # "none"
    <3>1. CASE k = i
      BY <1>3, <2>2, <3>1
    <3>2. CASE k # i
      <4>1. worker[k] = "stopped" /\ p \in Row
        BY <1>6, <2>2, <3>2 DEF Typed
      <4>2. p \notin peers[i]
        BY <1>0, <1>1, <2>2, <3>2, <4>1 DEF Threads, Batches, BatchOf
      <4> QED
        BY <1>3, <2>2, <4>1, <4>2 DEF Sharing, Built
    <3> QED
      BY <3>1, <3>2
  <2>3. ASSUME NEW r \in Row, lane'[r] = "published"
        PROVE  /\ r \in Rows /\ ~IsSplit(r)
               /\ status[r] = "complete" \/ \E k \in Row : worker'[k] = "stopped" /\ r \in peers[k]
    <3>1. CASE r \in peers[i]
      BY <1>0, <1>2, <1>6, <3>1 DEF BatchOf
    <3>2. CASE r \notin peers[i]
      <4>1. lane[r] = "published"
        BY <1>3, <2>3, <3>2
      <4>2. \A k \in Row : worker[k] = "stopped" => worker'[k] = "stopped"
        BY <1>6
      <4> QED
        BY <4>1, <4>2 DEF Sharing, Built
    <3> QED
      BY <3>1, <3>2
  <2> QED
    BY <1>0, <1>4, <1>5, <2>1, <2>2, <2>3 DEF Sharing, Built
<1>8. StateTyped'
  BY <1>0, <1>3, <1>4, <1>5 DEF Sharing, StateTyped
<1>9. Shape' /\ Live' /\ Gone'
  BY <1>0, <1>4, <1>5 DEF Sharing, Shape, Live, Gone
<1>10. Counts'
  BY <1>4, <1>5 DEF Sharing, Counts
<1>11. Taking'
  BY <1>0, <1>4, <1>5 DEF Sharing, Taking
<1> QED
  BY <1>7, <1>8, <1>9, <1>10, <1>11 DEF Sharing

\* A row that takes its source over is alone, and its source had its circuit.
LEMMA SetUpSharing ==
  ASSUME Typed, Threads, Sharing, NEW i \in Rows, NEW r \in Rows, SetUp(i, r)
  PROVE  Sharing'
<1>0. Rows \subseteq Row /\ r \in Row
  BY SessionAssumption DEF Typed, Rows, Row
<1>1. worker[i] = "working" /\ r \in BatchOf(i) /\ circuit[r] = "none"
  BY DEF SetUp, NeedsSetUp
<1>2. /\ exec[r] /\ ~IsSplit(r) /\ ~released[r]
      /\ status[r] \in {"pending", "paused"} /\ Rests(r)
  BY <1>1, Working
<1>3. UNCHANGED <<n, job, dep, owner, status, readers, rootReaders, running, released, exec, take,
                  peers, worker, stop>>
  BY DEF SetUp, rowVars, workVars
<1>4. /\ Rows' = Rows /\ Roots' = Roots
      /\ \A x \in Row : /\ IsSplit(x)' = IsSplit(x) /\ Dependents(x)' = Dependents(x)
                        /\ Waiting(x)' = Waiting(x)
                        /\ Rests(x)' = Rests(x) /\ Terminal(x)' = Terminal(x) /\ Alone(x)' = Alone(x)
  BY <1>3 DEF Rows, Roots, Waiting, IsSplit, Dependents, Rests, Terminal, EffectiveStatus, Alone
<1>5. status[r] = "pending"
  BY <1>1, <1>2 DEF Sharing, Built
<1>6. take[r] => FinalPlan /\ Alone(r)
  BY <1>0, <1>2, <1>5 DEF Sharing, Taking
<1>7. CASE lane' = [lane EXCEPT ![r] = "failed"] /\ UNCHANGED <<circuit, template>>
  <2>1. DOMAIN lane' = Row /\ \A x \in Row : lane'[x] = "published" => lane[x] = "published"
    BY <1>0, <1>7 DEF Sharing, StateTyped
  <2>2. StateTyped'
    BY <1>0, <1>3, <1>4, <1>7, <2>1 DEF Sharing, StateTyped
  <2>3. Shape' /\ Live' /\ Gone'
    BY <1>0, <1>3, <1>4 DEF Sharing, Shape, Live, Gone
  <2>4. Built'
    <3>1. \A k \in Row : peers[k] \subseteq Row
      BY DEF Typed
    <3> QED
      BY <1>0, <1>3, <1>4, <1>7, <2>1, <3>1 DEF Sharing, Built
  <2>5. Counts' /\ Taking'
    BY <1>0, <1>3, <1>4, <1>7 DEF Sharing, Counts, Taking
  <2> QED
    BY <2>2, <2>3, <2>4, <2>5 DEF Sharing
<1>8. CASE /\ circuit' = [x \in Row |-> CASE x = r -> "own"
                                          [] x = dep[r] /\ take[r] -> "taken"
                                          [] OTHER -> circuit[x]]
           /\ template' = [t \in Templates |->
                IF dep[r] = None /\ take[r] /\ t = job[r].template THEN "taken" ELSE template[t]]
           /\ UNCHANGED lane
  <2>1. dep[r] # None => /\ dep[r] \in Rows /\ ~IsSplit(dep[r]) /\ status[dep[r]] = "complete"
                         /\ circuit[dep[r]] # "none"
    <3> SUFFICES ASSUME dep[r] # None
                 PROVE  /\ dep[r] \in Rows /\ ~IsSplit(dep[r]) /\ status[dep[r]] = "complete"
                        /\ circuit[dep[r]] # "none"
      OBVIOUS
    <3>1. dep[r] \in Rows /\ ~IsSplit(dep[r])
      BY DEF Sharing, Shape, IsSplit
    <3>2. status[dep[r]] = "complete"
      BY <1>2 DEF Rests
    <3>3. ~released[dep[r]]
      BY <1>0, <1>2, <3>1 DEF Sharing, Gone, Dependents
    <3> QED
      BY <1>0, <3>1, <3>2, <3>3 DEF Sharing, Built
  <2>2. dep[r] # r
    BY <1>0, <1>1, <2>1 DEF None, Row, Rows, Typed
  <2>3. /\ circuit'[r] = "own"
        /\ \A x \in Row : x # r => circuit'[x] = IF x = dep[r] /\ take[r] THEN "taken" ELSE circuit[x]
    BY <1>0, <1>8, <2>2
  <2>4. \A x \in Row : circuit[x] # "none" => circuit'[x] # "none"
    BY <2>3
  <2>5. \A x \in Row : circuit'[x] # "none" => exec[x]
    BY <1>0, <1>2, <2>1, <2>3 DEF Sharing, Built, None, Row
  <2>6. StateTyped'
    <3>1. \A x \in Row : circuit'[x] \in {"none", "own", "taken", "released"}
      BY <2>3 DEF Sharing, StateTyped
    <3>2. circuit' = [x \in Row |-> circuit'[x]]
      BY <1>8
    <3>3. circuit' \in [Row -> {"none", "own", "taken", "released"}]
      BY <3>1, <3>2
    <3>4. template' \in [Templates -> {"own", "taken"}]
      BY <1>8 DEF Sharing, StateTyped
    <3> QED
      BY <1>0, <1>3, <1>4, <1>8, <3>3, <3>4 DEF Sharing, StateTyped
  <2>7. Shape' /\ Live' /\ Gone'
    BY <1>0, <1>3, <1>4 DEF Sharing, Shape, Live, Gone
  <2>8. Built'
    <3>1. \A k \in Row : peers[k] \subseteq Row
      BY DEF Typed
    <3> QED
      BY <1>0, <1>3, <1>4, <1>8, <2>4, <2>5, <3>1 DEF Sharing, Built
  <2>9. Counts'
    BY <1>3, <1>4 DEF Sharing, Counts
  <2>10. Taking'
    <3>1. ASSUME NEW d \in Row, circuit'[d] = "taken"
          PROVE  FinalPlan /\ \E x \in Rows : dep[x] = d /\ circuit'[x] # "none" /\ Alone(x)
      <4>1. CASE d = dep[r] /\ take[r]
        BY <1>6, <2>3, <4>1
      <4>2. CASE ~(d = dep[r] /\ take[r])
        <5>1. circuit[d] = "taken"
          BY <2>3, <3>1, <4>2
        <5>2. FinalPlan /\ \E x \in Rows : dep[x] = d /\ circuit[x] # "none" /\ Alone(x)
          BY <5>1 DEF Sharing, Taking
        <5> QED
          BY <1>0, <2>4, <5>2
      <4> QED
        BY <4>1, <4>2
    <3>2. ASSUME NEW t \in Templates, template'[t] = "taken"
          PROVE  FinalPlan /\ \E x \in Rows : dep[x] = None /\ circuit'[x] # "none" /\ Alone(x)
      <4>1. CASE dep[r] = None /\ take[r]
        BY <1>6, <2>3, <4>1
      <4>2. CASE ~(dep[r] = None /\ take[r])
        <5>1. template[t] = "taken"
          BY <1>8, <3>2, <4>2
        <5>2. FinalPlan /\ \E x \in Rows : dep[x] = None /\ circuit[x] # "none" /\ Alone(x)
          BY <5>1 DEF Sharing, Taking
        <5> QED
          BY <1>0, <2>4, <5>2
      <4> QED
        BY <4>1, <4>2
    <3>3. \A d \in Row : circuit'[d] = "released" => circuit[d] = "released"
      BY <2>3
    <3> QED
      BY <1>0, <1>3, <1>4, <3>1, <3>2, <3>3 DEF Sharing, Taking
  <2> QED
    BY <2>6, <2>7, <2>8, <2>9, <2>10 DEF Sharing
<1> QED
  BY <1>7, <1>8 DEF SetUp

-----------------------------------------------------------------------------

LEMMA SharingStep ==
  ASSUME Typed, Threads, Sharing, [Next]_allVars
  PROVE  Sharing'
<1>1. CASE UNCHANGED shareVars
  BY <1>1, QuietSharing
<1>2. CASE FillOne
  <2>1. PICK i \in Rows : NextIs(i) /\ \E P \in Gathered(i) : Launch(i, P) \/ LaunchFails(i, P)
    BY <1>2 DEF FillOne
  <2>2. Startable(i)
    BY <2>1 DEF NextIs, FromUrgent, FromQueue, UrgentTops, QueueHeads
  <2> QED
    BY <2>1, <2>2, LaunchSharing, FailsSharing
<1>3. ASSUME NEW i \in Rows, ScanStopped(i) \/ ScanRunning(i) \/ AbortSettle(i) PROVE Sharing'
  <2>1. CASE SettleRow(i)
    BY <2>1, SettleRowSharing
  <2>2. CASE UNCHANGED vars
    BY <1>1, <2>2 DEF vars, rowVars, execVars, workVars, shareVars
  <2> QED
    BY <1>3, <2>1, <2>2 DEF ScanStopped, ScanRunning, AbortSettle
<1>4. CASE RunStep
  BY <1>4, SetUpSharing, StopSharing DEF RunStep
<1>5. CASE Caller
  BY <1>5, AppendSharing, RefuseSharing, ReleaseSharing DEF Caller
<1>6. CASE Dry \/ Aborted \/ Wait \/ Abort
  <2>1. UNCHANGED shareVars
    BY <1>6 DEF Dry, Aborted, RunOver, Wait, Abort, shareVars, vars, rowVars, execVars, workVars
  <2> QED
    BY <1>1, <2>1
<1>7. CASE Full \/ ScanDone \/ Add \/ UNCHANGED allVars
  <2>1. UNCHANGED shareVars
    BY <1>7 DEF Full, ScanDone, Add, allVars, shareVars, vars, rowVars, execVars, workVars
  <2> QED
    BY <1>1, <2>1
<1> QED
  BY <1>2, <1>3, <1>4, <1>5, <1>6, <1>7 DEF Next, CoordStep

\* Who still has to copy is not alone with its source.
LEMMA SharingIsIntact == Typed /\ Threads /\ Sharing => SourceIntact
<1> SUFFICES ASSUME Typed, Threads, Sharing, NEW i \in Rows, NEW r \in BatchOf(i),
                    worker[i] = "working", circuit[r] = "none"
             PROVE  IF dep[r] = None THEN template[job[r].template] = "own"
                    ELSE exec[dep[r]] /\ circuit[dep[r]] = "own" /\ status[dep[r]] = "complete"
  BY DEF SourceIntact, NeedsSetUp
<1>0. Rows \subseteq Row
  BY SessionAssumption DEF Typed, Rows, Row
<1>1. r \in Rows /\ ~IsSplit(r) /\ ~released[r] /\ status[r] \in {"pending", "paused"} /\ Rests(r)
  BY Working
<1>2. status[r] = "pending"
  BY <1>1 DEF Sharing, Built
<1>3. \A x \in Rows : dep[x] = dep[r] /\ circuit[x] # "none" => ~Alone(x)
  BY <1>1, <1>2 DEF Alone
<1>4. CASE dep[r] = None
  BY <1>1, <1>3, <1>4 DEF Sharing, StateTyped, Shape, Taking
<1>5. CASE dep[r] # None
  <2>1. dep[r] \in Rows /\ ~IsSplit(dep[r]) /\ status[dep[r]] = "complete"
    BY <1>1, <1>5 DEF Sharing, Shape, IsSplit, Rests
  <2>2. ~released[dep[r]]
    BY <1>0, <1>1, <2>1 DEF Sharing, Gone, Dependents
  <2>3. exec[dep[r]] /\ circuit[dep[r]] # "none"
    BY <1>0, <2>1, <2>2 DEF Sharing, Built
  <2>4. circuit[dep[r]] # "taken"
    BY <1>0, <1>3, <2>1 DEF Sharing, Taking
  <2>5. circuit[dep[r]] # "released"
    BY <1>0, <1>1, <1>2, <2>1 DEF Sharing, Taking, Waiting, Dependents
  <2> QED
    BY <1>0, <1>5, <2>1, <2>3, <2>4, <2>5 DEF Sharing, StateTyped
<1> QED
  BY <1>4, <1>5

\* Whoever still has to copy its source's device state finds it whole,
\* though other rows take sources over and settled rows release them.
THEOREM SourceStaysIntact ==
  ASSUME Lanes = "gpu" => ~TimingInDepth
  PROVE  Spec => []SourceIntact
<1>1. PoolInit => Typed /\ Threads /\ Sharing
  BY InitIInv, InitSharing
<1>2. Typed /\ Threads /\ Sharing /\ [Next]_allVars => (Typed /\ Threads /\ Sharing)'
  BY TypedStep, ThreadsStep, SharingStep
<1> QED
  BY <1>1, <1>2, SharingIsIntact, PTL DEF Spec

-----------------------------------------------------------------------------
(* What a final plan gives back. *)

\* Only rows that ran have circuits, and a finished one still has its own only
\* for a row that has yet to copy it.
Kept ==
  /\ \A r \in Row : circuit[r] # "none" => r \in Rows /\ ~IsSplit(r)
  /\ FinalPlan => \A r \in Rows : status[r] = "complete" /\ circuit[r] = "own" => Waiting(r) # {}

keptVars == <<n, job, dep, owner, status, circuit>>

LEMMA SettleKept ==
  ASSUME Typed, Sharing, Kept, NEW B \in SUBSET Rows, NEW built \in SUBSET Row, NEW out,
         Settle(B, out, built), UNCHANGED <<n, job, dep, owner>>,
         \A r \in B : ~IsSplit(r) /\ out[r] # "pending"
  PROVE  Kept'
<1>0. Rows \subseteq Row
  BY SessionAssumption DEF Typed, Rows, Row
<1>1. Rows' = Rows /\ \A r \in Rows : IsSplit(r)' = IsSplit(r)
  BY DEF Rows, IsSplit
<1>2. /\ \A d \in Row : Waiting(d)' = Waiting(d) \ B
      /\ Counts'
  BY SettleCounts
<1>3. \A r \in Row : circuit'[r] # circuit[r] => circuit'[r] = "released" /\ circuit[r] = "own"
  BY SettleFacts
<1>4. \A r \in Row : circuit'[r] # "none" => r \in Rows /\ ~IsSplit(r)
  BY <1>3 DEF Kept
<1>5. ASSUME FinalPlan, NEW r \in Rows, status'[r] = "complete", circuit'[r] = "own", Waiting(r)' = {}
      PROVE  FALSE
  <2>1. circuit[r] = "own" /\ ~IsSplit(r)
    BY <1>0, <1>3, <1>4, <1>5
  <2> DEFINE st    == [x \in Row |-> IF x \in B THEN out[x] ELSE status[x]]
             first == NewlyRead(B)
             left  == [d \in Row |-> readers[d] - Cardinality(first \intersect Dependents(d))]
             seen  == B \union {dep[x] : x \in first}
  <2>2. circuit' = [x \in Row |-> IF x \in seen /\ circuit[x] = "own" /\ MayRelease(x, st, left)
                                  THEN "released" ELSE circuit[x]]
        /\ readers' = left
    BY DEF Settle
  <2>3. st[r] = "complete"
    BY <1>0, <1>5, <2>1, SettleLeaves
  <2>4. left[r] = 0
    <3>1. Cardinality(Waiting(r)') = 0
      BY <1>5, FS_EmptySet
    <3> QED
      BY <1>0, <1>2, <1>5, <2>2, <3>1 DEF Counts, Counted
  <2>5. r \notin seen
    BY <1>0, <1>5, <2>1, <2>2, <2>3, <2>4 DEF MayRelease
  <2>6. status[r] = "complete"
    BY <1>0, <2>3, <2>5
  <2>7. PICK x \in Waiting(r) : TRUE
    BY <1>5, <2>1, <2>6 DEF Kept
  <2>8. x \in B /\ status[x] = "pending" /\ dep[x] = r
    BY <1>0, <1>2, <1>5, <2>7 DEF Waiting, Dependents
  <2> QED
    BY <2>5, <2>8 DEF NewlyRead
<1> QED
  BY <1>1, <1>4, <1>5 DEF Kept

LEMMA QuietKept ==
  ASSUME Typed, Kept, UNCHANGED keptVars
  PROVE  Kept'
<1>1. Rows' = Rows /\ \A r \in Row : IsSplit(r)' = IsSplit(r) /\ Waiting(r)' = Waiting(r)
  BY DEF keptVars, Rows, IsSplit, Waiting, Dependents
<1>2. Rows \subseteq Row
  BY SessionAssumption DEF Typed, Rows, Row
<1> QED
  BY <1>1, <1>2 DEF keptVars, Kept

LEMMA StartKept ==
  ASSUME Typed, Sharing, Kept, NEW i \in Rows, Startable(i), NEW P \in Gathered(i),
         Launch(i, P) \/ LaunchFails(i, P)
  PROVE  Kept'
<1>0. Rows \subseteq Row
  BY SessionAssumption DEF Typed, Rows, Row
<1>1. CASE Launch(i, P)
  BY <1>1, QuietKept DEF Launch, rowVars, keptVars
<1>2. CASE LaunchFails(i, P)
  <2>1. ~IsSplit(i)
    BY DEF Startable, Ready
  <2>2. {i} \union P \subseteq Row
    BY <1>0 DEF Gathered
  <2> DEFINE out == [r \in {i} |-> "failed"]
  <2>3. PICK built \in SUBSET Row : Settle({i}, out, built)
    BY <1>2, <2>2 DEF LaunchFails
  <2>4. UNCHANGED <<n, job, dep, owner>>
    BY <1>2 DEF LaunchFails, rowVars
  <2>5. \A r \in {i} : ~IsSplit(r) /\ out[r] # "pending"
    BY <2>1
  <2> HIDE DEF out
  <2> QED
    BY <2>3, <2>4, <2>5, SettleKept
<1> QED
  BY <1>1, <1>2

LEMMA SettleRowKept ==
  ASSUME Typed, Threads, Sharing, Kept, NEW i \in Rows, SettleRow(i)
  PROVE  Kept'
<1>0. Rows \subseteq Row
  BY SessionAssumption DEF Typed, Rows, Row
<1> DEFINE out == [r \in BatchOf(i) |-> IF r = i THEN Outcome(i) ELSE PeerOutcome(i, r)]
<1>1. Settle(BatchOf(i), out, {}) /\ UNCHANGED <<n, job, dep, owner>> /\ worker[i] = "stopped"
  BY DEF SettleRow, rowVars
<1>2. BatchOf(i) \subseteq Rows /\ \A r \in BatchOf(i) : running[r]
  BY <1>0, <1>1 DEF Threads, Batches, Flags, BatchOf
<1>3. \A r \in BatchOf(i) : ~IsSplit(r)
  BY <1>0, <1>2 DEF Sharing, Live
<1>4. Outcome(i) # "pending" /\ \A p \in peers[i] : PeerOutcome(i, p) # "pending"
  <2>1. stop[i] # "pending"
    BY <1>0 DEF Typed
  <2> QED
    BY <2>1 DEF Outcome, PeerOutcome
<1>5. \A r \in BatchOf(i) : out[r] # "pending"
  BY <1>4 DEF BatchOf
<1> HIDE DEF out
<1> QED
  BY <1>1, <1>2, <1>3, <1>5, SettleKept

LEMMA KeptStep ==
  ASSUME Typed, Threads, Sharing, Kept, [Next]_allVars
  PROVE  Kept'
<1>0. Rows \subseteq Row
  BY SessionAssumption DEF Typed, Rows, Row
<1>1. CASE UNCHANGED keptVars
  BY <1>1, QuietKept
<1>2. CASE FillOne
  <2>1. PICK i \in Rows : NextIs(i) /\ \E P \in Gathered(i) : Launch(i, P) \/ LaunchFails(i, P)
    BY <1>2 DEF FillOne
  <2>2. Startable(i)
    BY <2>1 DEF NextIs, FromUrgent, FromQueue, UrgentTops, QueueHeads
  <2> QED
    BY <2>1, <2>2, StartKept
<1>3. ASSUME NEW i \in Rows, ScanStopped(i) \/ ScanRunning(i) \/ AbortSettle(i) PROVE Kept'
  <2>1. CASE SettleRow(i)
    BY <2>1, SettleRowKept
  <2>2. CASE UNCHANGED vars
    BY <1>1, <2>2 DEF vars, rowVars, execVars, keptVars
  <2> QED
    BY <1>3, <2>1, <2>2 DEF ScanStopped, ScanRunning, AbortSettle
<1>4. CASE RunStep
  <2>1. ASSUME NEW i \in Rows, Park(i) \/ End(i) \/ FailFirst(i) PROVE Kept'
    BY <1>1, <2>1 DEF Park, End, FailFirst, Stop, rowVars, keptVars
  <2>2. ASSUME NEW i \in Rows, NEW r \in Rows, SetUp(i, r) PROVE Kept'
    <3>1. UNCHANGED <<n, job, dep, owner, status>>
      BY <2>2 DEF SetUp, rowVars
    <3>2. ~IsSplit(r) /\ status[r] # "complete" /\ Rests(r)
      BY <2>2, Working DEF SetUp
    <3>3. \A x \in Row : \/ circuit'[x] = circuit[x]
                         \/ x = r /\ circuit'[x] = "own"
                         \/ x = dep[r] /\ x # r /\ circuit'[x] = "taken"
      <4>1. \/ UNCHANGED circuit
            \/ circuit' = [x \in Row |-> CASE x = r -> "own"
                                           [] x = dep[r] /\ take[r] -> "taken"
                                           [] OTHER -> circuit[x]]
        BY <2>2 DEF SetUp
      <4>2. dep[r] # r
        BY <1>0, <3>2 DEF Rests, None, Row
      <4> QED
        BY <4>1, <4>2
    <3>4. dep[r] # None => dep[r] \in Rows /\ ~IsSplit(dep[r])
      BY DEF Sharing, Shape, IsSplit
    <3>5. Rows' = Rows /\ \A x \in Row : IsSplit(x)' = IsSplit(x) /\ Waiting(x)' = Waiting(x)
      BY <3>1 DEF Rows, IsSplit, Waiting, Dependents
    <3>6. \A x \in Row : x # None
      BY DEF Row, None
    <3> QED
      BY <1>0, <3>1, <3>2, <3>3, <3>4, <3>5, <3>6 DEF Kept
  <2> QED
    BY <1>4, <2>1, <2>2 DEF RunStep
<1>5. CASE Caller
  <2>1. ASSUME NEW j \in Jobs, AppendJob(j) PROVE Kept'
    <3>1. /\ n' \in 0..MaxRows /\ n <= n'
          /\ \A r \in Rows : job'[r] = job[r] /\ owner'[r] = owner[r]
      BY <2>1, AppendGrows
    <3>2. Rows \subseteq Rows' /\ \A r \in Rows : IsSplit(r)' = IsSplit(r)
      BY <3>1, SessionAssumption DEF Rows, Typed, IsSplit
    <3>3. UNCHANGED <<status, circuit>> /\ (FinalPlan => \A r \in Rows : status[r] = "pending")
      BY <2>1 DEF AppendJob, execVars
    <3>4. \A r \in Row \ Rows : status[r] = "pending"
      BY DEF Sharing, Shape
    <3>5. Rows' \subseteq Row
      BY <3>1, SessionAssumption DEF Rows, Row
    <3> QED
      BY <3>2, <3>3, <3>4, <3>5 DEF Kept
  <2>2. ASSUME NEW i \in Rows, ~FinalPlan, Refuse(i) \/ Release(i) PROVE Kept'
    <3>1. UNCHANGED <<n, job, dep, owner>> /\ \A r \in Row : circuit'[r] # "none" => circuit[r] # "none"
      BY <2>2 DEF Refuse, Release, rowVars, execVars
    <3>2. Rows' = Rows /\ \A r \in Row : IsSplit(r)' = IsSplit(r)
      BY <3>1 DEF Rows, IsSplit
    <3> QED
      BY <2>2, <3>1, <3>2 DEF Kept
  <2> QED
    BY <1>5, <2>1, <2>2 DEF Caller
<1>6. CASE Dry \/ Aborted \/ Wait \/ Abort
  <2>1. UNCHANGED keptVars
    BY <1>6 DEF Dry, Aborted, RunOver, Wait, Abort, keptVars, vars, rowVars, execVars
  <2> QED
    BY <1>1, <2>1
<1>7. CASE Full \/ ScanDone \/ Add \/ UNCHANGED allVars
  <2>1. UNCHANGED keptVars
    BY <1>7 DEF Full, ScanDone, Add, allVars, keptVars, vars, rowVars, execVars
  <2> QED
    BY <1>1, <2>1
<1> QED
  BY <1>2, <1>3, <1>4, <1>5, <1>6, <1>7 DEF Next, CoordStep

\* With every row ended nobody has yet to copy anything.
LEMMA KeptIsGiven == Typed /\ Kept => NothingKept
<1> SUFFICES ASSUME Typed, Kept, FinalPlan, \A r \in Rows : Terminal(r),
                    NEW r \in Rows, status[r] = "complete", circuit[r] = "own"
             PROVE  FALSE
  BY DEF NothingKept
<1>1. PICK x \in Waiting(r) : TRUE
  BY DEF Kept
<1>2. x \in Rows /\ dep[x] = r /\ status[x] = "pending"
  BY <1>1 DEF Waiting, Dependents
<1>3. ~Terminal(x)
  BY <1>2 DEF Terminal, EffectiveStatus, Ended
<1> QED
  BY <1>2, <1>3

\* Once every row of a final plan has ended, no finished one still holds its
\* circuit: whoever read a source last let it go.
THEOREM NothingIsKept ==
  ASSUME Lanes = "gpu" => ~TimingInDepth
  PROVE  Spec => []NothingKept
<1>1. PoolInit => Typed /\ Threads /\ Sharing /\ Kept
  <2>1. PoolInit => Typed /\ Threads /\ Sharing
    BY InitIInv, InitSharing
  <2>2. PoolInit => Kept
    BY DEF PoolInit, Init, Kept, Rows
  <2> QED
    BY <2>1, <2>2
<1>2. Typed /\ Threads /\ Sharing /\ Kept /\ [Next]_allVars => (Typed /\ Threads /\ Sharing /\ Kept)'
  BY TypedStep, ThreadsStep, SharingStep, KeptStep
<1> QED
  BY <1>1, <1>2, KeptIsGiven, PTL DEF Spec

-----------------------------------------------------------------------------
(* The graph: queries end once, results on results, splits with lanes. *)

\* Row r's operating point ended without a result.
NoResult(r) == dep[r] # None /\ status[dep[r]] \in Ended \ {"complete"}

StatusTyped == \A r \in Row : status[r] \in {"pending", "paused", "complete", "failed", "cancelled"}

\* Operating points have none of their own; lanes share their query's.
Splits ==
  /\ \A r \in Rows : job[r].kind = "op" => dep[r] = None
  /\ \A l \in Rows : owner[l] # None =>
       owner[l] \in Rows /\ IsSplit(owner[l]) /\ dep[l] = dep[owner[l]]

\* Results rest on results, and split queries end with their lanes.
Ends ==
  /\ \A r \in Rows : status[r] = "complete" => Rests(r)
  /\ \A g \in Rows : LanesOf(g) # {} /\ ~NoResult(g) =>
       (status[g] \in Ended <=> \A l \in LanesOf(g) : status[l] \in Ended)
  /\ \A g \in Rows : LanesOf(g) # {} /\ status[g] = "complete" =>
       \A l \in LanesOf(g) : status[l] = "complete"

Whole == StatusTyped /\ Splits /\ Ends

\* Among any rows one comes first.
LEMMA FirstRow ==
  ASSUME Typed, NEW S \in SUBSET Rows, S # {}
  PROVE  \E l \in S : \A m \in S : l <= m
<1> DEFINE Upto(k) == {x \in Rows : x <= k}
           T == {Upto(k) : k \in S}
<1>1. IsFiniteSet(Rows)
  BY WaitingFinite
<1>2. IsWellFoundedOn(StrictSubsetOrdering(Rows), SUBSET Rows)
  BY <1>1, FS_StrictSubsetOrderingWellFounded, FS_FiniteSubsetsOfFinite
<1>3. T \subseteq SUBSET Rows /\ T # {}
  OBVIOUS
<1>4. PICK u \in T : \A y \in T : ~(<<y, u>> \in StrictSubsetOrdering(Rows))
  <2> HIDE DEF T
  <2> QED
    BY <1>2, <1>3, WFMin
<1>5. PICK l \in S : u = Upto(l)
  BY <1>4
<1>6. ASSUME NEW m \in S, ~(l <= m) PROVE FALSE
  <2>1. l \in Nat /\ m \in Nat /\ l \in Rows
    BY DEF Rows
  <2>2. Upto(m) \subseteq Upto(l) /\ l \in Upto(l) /\ l \notin Upto(m)
    BY <1>6, <2>1 DEF Rows
  <2>3. Upto(m) \in T /\ Upto(m) \subseteq Rows /\ Upto(l) \subseteq Rows
    OBVIOUS
  <2> HIDE DEF Upto, T
  <2>4. <<Upto(m), u>> \in StrictSubsetOrdering(Rows)
    BY <1>5, <2>2, <2>3 DEF StrictSubsetOrdering
  <2> QED
    BY <1>4, <2>3, <2>4
<1> QED
  BY <1>6

\* A split query completes with its lanes, or ends as the first that did not.
LEMMA SplitEnds ==
  ASSUME Typed, NEW st, NEW g \in Rows, \A l \in LanesOf(g) : st[l] \in Ended
  PROVE  /\ SplitStatus(g, st) \in {"complete"} \union {st[l] : l \in LanesOf(g)}
         /\ SplitStatus(g, st) = "complete" => \A l \in LanesOf(g) : st[l] = "complete"
<1> DEFINE bad == {l \in LanesOf(g) : st[l] # "complete"}
<1>1. CASE bad = {}
  BY <1>1 DEF SplitStatus
<1>2. CASE bad # {}
  <2>1. bad \in SUBSET Rows
    BY DEF LanesOf
  <2>2. \E l \in bad : \A m \in bad : l <= m
    <3> HIDE DEF bad
    <3> QED
      BY <1>2, <2>1, FirstRow
  <2>3. (CHOOSE l \in bad : \A m \in bad : l <= m) \in bad
    BY <2>2
  <2> QED
    BY <1>2, <2>3 DEF SplitStatus
<1> QED
  BY <1>1, <1>2

\* A settled step keeps all that, and what has ended stays as it ended.
LEMMA SettleWhole ==
  ASSUME Typed, Sharing, Whole, NEW B \in SUBSET Rows, NEW built \in SUBSET Row, NEW out,
         Settle(B, out, built), UNCHANGED <<n, job, dep, owner>>,
         \A r \in B : /\ ~IsSplit(r) /\ status[r] \in {"pending", "paused"} /\ Rests(r)
                      /\ out[r] \in {"paused", "complete", "failed", "cancelled"}
  PROVE  /\ Whole'
         /\ \A r \in Rows : Terminal(r) => EffectiveStatus(r)' = EffectiveStatus(r)
<1>0. Rows \subseteq Row
  BY SessionAssumption DEF Typed, Rows, Row
<1>1. /\ Rows' = Rows /\ \A r \in Rows : IsSplit(r)' = IsSplit(r) /\ LanesOf(r)' = LanesOf(r)
  BY DEF Rows, IsSplit, LanesOf
<1> DEFINE st    == [r \in Row |-> IF r \in B THEN out[r] ELSE status[r]]
           whole == SplitsEnded(B, st)
<1>2. PICK failed \in SUBSET whole :
        status' = [r \in Row |-> IF r \in failed THEN "failed"
                     ELSE IF r \in whole THEN SplitStatus(r, st) ELSE st[r]]
  BY DEF Settle
<1>3. \A g \in Rows : g \in whole <=> /\ IsSplit(g) /\ LanesOf(g) \intersect B # {}
                                      /\ \A l \in LanesOf(g) : st[l] \in Ended
  BY DEF SplitsEnded
<1>4. /\ whole \subseteq Rows
      /\ \A l \in Rows : st[l] = IF l \in B THEN out[l] ELSE status[l]
      /\ \A r \in Row : r \notin Rows => st[r] = status[r]
  BY <1>0 DEF SplitsEnded
<1> HIDE DEF st, whole
<1>5. \A r \in Row : r \notin whole => status'[r] = st[r]
  BY <1>2
<1>6. ASSUME NEW g \in whole
      PROVE  /\ status'[g] \in {"complete", "failed", "cancelled"}
             /\ status'[g] = "complete" => \A l \in LanesOf(g) : st[l] = "complete"
             /\ \A l \in LanesOf(g) : st[l] \in Ended
             /\ Rests(g) /\ ~(status[g] \in Ended)
  <2>1. g \in Rows /\ g \in Row /\ LanesOf(g) \subseteq Rows
    BY <1>0, <1>4 DEF LanesOf
  <2>2. \A l \in LanesOf(g) : st[l] \in Ended
    BY <1>3, <2>1
  <2>3. \A l \in LanesOf(g) : st[l] \in {"complete", "failed", "cancelled"}
    BY <1>0, <1>4, <2>1, <2>2 DEF Whole, StatusTyped, Ended
  <2>4. /\ SplitStatus(g, st) \in {"complete"} \union {st[l] : l \in LanesOf(g)}
        /\ SplitStatus(g, st) = "complete" => \A l \in LanesOf(g) : st[l] = "complete"
    BY <2>1, <2>2, SplitEnds
  <2>5. status'[g] = "failed" \/ status'[g] = SplitStatus(g, st)
    BY <1>2, <2>1
  <2>6. PICK l \in LanesOf(g) : l \in B
    BY <1>3, <2>1
  <2>7. Rests(l) /\ dep[l] = dep[g] /\ status[l] \in {"pending", "paused"}
    BY <2>1, <2>6 DEF Whole, Splits, LanesOf, None, Rows
  <2>8. Rests(g) /\ ~NoResult(g)
    BY <2>7 DEF Rests, NoResult
  <2>9. status[g] \notin Ended
    BY <2>1, <2>6, <2>7, <2>8 DEF Whole, Ends, Ended
  <2> QED
    BY <2>2, <2>3, <2>4, <2>5, <2>8, <2>9
<1>7. \A r \in Rows : ~IsSplit(r) => r \notin whole /\ status'[r] = st[r]
  BY <1>0, <1>3, <1>5
<1>8. \A r \in Rows : dep[r] # None => /\ dep[r] \in Rows /\ dep[r] \in Row /\ dep[dep[r]] = None
                                       /\ ~IsSplit(dep[r])
  BY <1>0 DEF Sharing, Shape, Whole, Splits, IsSplit
<1>9. \A r \in Rows : status[r] \in Ended => r \notin B /\ r \notin whole /\ status'[r] = status[r]
  BY <1>0, <1>4, <1>5, <1>6 DEF Ended
<1>10. \A r \in Rows : /\ Rests(r) => Rests(r)'
                       /\ NoResult(r) => NoResult(r)'
  BY <1>8, <1>9 DEF Rests, NoResult, Ended
<1>11. \A r \in Rows : NoResult(r) => r \notin B /\ r \notin whole /\ status'[r] = status[r]
  <2>1. \A r \in Rows : NoResult(r) => ~Rests(r)
    BY DEF NoResult, Rests
  <2> QED
    BY <1>0, <1>4, <1>5, <1>6, <2>1
<1>12. StatusTyped'
  BY <1>0, <1>4, <1>5, <1>6 DEF Whole, StatusTyped
<1>13. Splits'
  BY <1>1 DEF Whole, Splits
<1>14. \A r \in Rows : status'[r] = "complete" => Rests(r)'
  <2> SUFFICES ASSUME NEW r \in Rows, status'[r] = "complete" PROVE Rests(r)
    BY <1>10
  <2>1. CASE r \in whole
    BY <1>6, <2>1
  <2>2. CASE r \in B
    BY <2>2
  <2>3. CASE r \notin whole /\ r \notin B
    BY <1>0, <1>4, <1>5, <2>3 DEF Whole, Ends
  <2> QED
    BY <2>1, <2>2, <2>3
<1>15. ASSUME NEW g \in Rows, NEW l \in LanesOf(g)
       PROVE  l \in Rows /\ IsSplit(g) /\ status'[l] = st[l] /\ st[l] = (IF l \in B THEN out[l] ELSE status[l])
  <2>1. l \in Rows /\ owner[l] = g /\ g # None
    BY DEF LanesOf, Rows, None
  <2>2. IsSplit(g) /\ ~IsSplit(l)
    BY <2>1 DEF Whole, Splits, IsSplit
  <2> QED
    BY <1>4, <1>7, <2>1, <2>2
<1>16. ASSUME NEW g \in Rows, LanesOf(g) # {}, ~NoResult(g)'
       PROVE  status'[g] \in Ended <=> \A l \in LanesOf(g) : status'[l] \in Ended
  <2>1. ~NoResult(g) /\ IsSplit(g) /\ g \in Row
    BY <1>0, <1>10, <1>15, <1>16
  <2>2. CASE g \in whole
    <3>1. \A l \in LanesOf(g) : status'[l] \in Ended
      BY <1>6, <1>15, <2>2
    <3> QED
      BY <1>6, <2>2, <3>1 DEF Ended
  <2>3. CASE g \notin whole /\ LanesOf(g) \intersect B = {}
    <3>1. status'[g] = status[g] /\ \A l \in LanesOf(g) : status'[l] = status[l]
      BY <1>4, <1>5, <1>15, <2>1, <2>3
    <3> QED
      BY <1>16, <2>1, <3>1 DEF Whole, Ends
  <2>4. CASE g \notin whole /\ LanesOf(g) \intersect B # {}
    <3>1. PICK k \in LanesOf(g) : st[k] \notin Ended
      BY <1>3, <2>1, <2>4
    <3>2. status'[k] \notin Ended
      BY <1>15, <3>1
    <3>3. PICK l \in LanesOf(g) : l \in B
      BY <2>4
    <3>4. status[l] \notin Ended
      BY <3>3 DEF Ended
    <3>5. status[g] \notin Ended
      BY <2>1, <3>3, <3>4 DEF Whole, Ends
    <3>6. status'[g] = status[g]
      BY <1>4, <1>5, <2>1, <2>4
    <3> QED
      BY <3>2, <3>5, <3>6
  <2> QED
    BY <2>2, <2>3, <2>4
<1>17. ASSUME NEW g \in Rows, LanesOf(g) # {}, status'[g] = "complete", NEW l \in LanesOf(g)
       PROVE  status'[l] = "complete"
  <2>1. CASE g \in whole
    BY <1>6, <1>15, <1>17, <2>1
  <2>2. CASE g \notin whole
    <3>1. status[g] = "complete"
      BY <1>0, <1>4, <1>5, <1>15, <1>17, <2>2
    <3>2. status[l] = "complete"
      BY <1>17, <3>1 DEF Whole, Ends
    <3> QED
      BY <1>9, <1>15, <3>2 DEF Ended
  <2> QED
    BY <2>1, <2>2
<1>18. Ends'
  BY <1>1, <1>14, <1>16, <1>17 DEF Ends
<1>19. ASSUME NEW r \in Rows, Terminal(r) PROVE EffectiveStatus(r)' = EffectiveStatus(r)
  <2>1. CASE status[r] \in Ended
    BY <1>9, <2>1 DEF EffectiveStatus
  <2>2. CASE status[r] \notin Ended /\ NoResult(r)
    BY <1>10, <1>11, <2>2 DEF EffectiveStatus, NoResult
  <2>3. status[r] \in Ended \/ NoResult(r)
    BY <1>19 DEF Terminal, EffectiveStatus, NoResult
  <2> QED
    BY <2>1, <2>2, <2>3
<1> QED
  BY <1>12, <1>13, <1>18, <1>19 DEF Whole

-----------------------------------------------------------------------------
(* Every step adds queries, or lets some end. *)

Decides ==
  /\ UNCHANGED <<n, dep, owner>>
  /\ \A r \in Rows : Terminal(r) => EffectiveStatus(r)' = EffectiveStatus(r)

Appends ==
  /\ n' \in Nat /\ n <= n'
  /\ \A r \in Rows : /\ dep'[r] = dep[r] /\ owner'[r] = owner[r]
                     /\ EffectiveStatus(r)' = EffectiveStatus(r)

LEMMA AppendWhole ==
  ASSUME Typed, Sharing, Whole, NEW j \in Jobs, AppendJob(j)
  PROVE  Whole' /\ Appends
<1> DEFINE added == Rows' \ Rows
<1>1. /\ n' \in 0..MaxRows /\ n <= n'
      /\ \A r \in Rows : job'[r] = job[r] /\ owner'[r] = owner[r]
  BY AppendGrows
<1>2. Rows \subseteq Rows' /\ Rows' \subseteq Row /\ None \notin Row /\ n' \in Nat
  BY <1>1, SessionAssumption DEF Rows, Row, Typed, None
<1>3. /\ \A r \in Rows : dep'[r] = dep[r]
      /\ \A r \in added :
           /\ job'[r].kind = "op" => dep'[r] = None
           /\ owner'[r] # None => \E g \in added : owner'[r] = g /\ IsSplit(g)' /\ dep'[r] = dep'[g]
  <2>1. \A r \in Rows : dep'[r] = dep[r]
    BY AppendAdds DEF Sharing
  <2>2. \A r \in added : job'[r].kind = "op" => dep'[r] = None
    BY AppendAdds DEF Sharing
  <2>3. \A r \in added : owner'[r] # None =>
          \E g \in added : owner'[r] = g /\ IsSplit(g)' /\ dep'[r] = dep'[g]
    BY AppendAdds DEF Sharing
  <2> QED
    BY <2>1, <2>2, <2>3
<1>4. UNCHANGED status
  BY DEF AppendJob
<1>5. \A r \in added : status[r] = "pending"
  BY <1>2 DEF Sharing, Shape
<1>6. \A r \in Rows : dep[r] # None => dep[r] \in Rows
  BY DEF Sharing, Shape
<1>7. \A r \in Rows : /\ IsSplit(r)' = IsSplit(r) /\ Rests(r)' = Rests(r) /\ NoResult(r)' = NoResult(r)
                      /\ EffectiveStatus(r)' = EffectiveStatus(r)
  BY <1>1, <1>3, <1>4 DEF IsSplit, Rests, NoResult, EffectiveStatus
<1>8. Appends
  BY <1>1, <1>2, <1>3, <1>7 DEF Appends
<1>9. StatusTyped'
  BY <1>4 DEF Whole, StatusTyped
<1>10. Splits'
  <2>1. \A r \in Rows' : job'[r].kind = "op" => dep'[r] = None
    BY <1>1, <1>3 DEF Whole, Splits
  <2>2. ASSUME NEW l \in Rows, owner'[l] # None, NEW g, g = owner'[l]
        PROVE  g \in Rows' /\ IsSplit(g)' /\ dep'[l] = dep'[g]
    <3>1. g \in Rows /\ IsSplit(g) /\ dep[l] = dep[g]
      BY <1>1, <2>2 DEF Whole, Splits
    <3> QED
      BY <1>2, <1>3, <1>7, <3>1
  <2>3. ASSUME NEW l \in added, owner'[l] # None, NEW g, g = owner'[l]
        PROVE  g \in Rows' /\ IsSplit(g)' /\ dep'[l] = dep'[g]
    BY <1>3, <2>3
  <2>4. \A l \in Rows' : owner'[l] # None =>
          owner'[l] \in Rows' /\ (job'[owner'[l]].lanes # 0 /\ owner'[owner'[l]] = None)
          /\ dep'[l] = dep'[owner'[l]]
    BY <2>2, <2>3 DEF IsSplit
  <2> QED
    BY <2>1, <2>4 DEF Splits, IsSplit
<1>11. \A g \in Rows : LanesOf(g)' = LanesOf(g)
  BY <1>1, <1>2, <1>3 DEF LanesOf
<1>12. ASSUME NEW g \in added PROVE \A l \in LanesOf(g)' : l \in added
  <2>1. ASSUME NEW l \in Rows PROVE owner'[l] # g
    BY <1>1, <1>2, <2>1 DEF Whole, Splits
  <2> QED
    BY <2>1 DEF LanesOf
<1>13. Ends'
  <2>1. \A r \in Rows' : status'[r] = "complete" => Rests(r)'
    BY <1>4, <1>5, <1>7 DEF Whole, Ends
  <2>2. ASSUME NEW g \in Rows', LanesOf(g)' # {}, ~NoResult(g)'
        PROVE  status'[g] \in Ended <=> \A l \in LanesOf(g)' : status'[l] \in Ended
    <3>1. CASE g \in Rows
      BY <1>4, <1>7, <1>11, <2>2, <3>1 DEF Whole, Ends
    <3>2. CASE g \in added
      BY <1>4, <1>5, <1>12, <2>2, <3>2 DEF Ended
    <3> QED
      BY <3>1, <3>2
  <2>3. ASSUME NEW g \in Rows', LanesOf(g)' # {}, status'[g] = "complete"
        PROVE  \A l \in LanesOf(g)' : status'[l] = "complete"
    BY <1>4, <1>5, <1>11, <2>3 DEF Whole, Ends
  <2> QED
    BY <2>1, <2>2, <2>3 DEF Ends
<1> QED
  BY <1>8, <1>9, <1>10, <1>13 DEF Whole

LEMMA RefuseWhole ==
  ASSUME Typed, Sharing, Whole, NEW i \in Rows, Refuse(i)
  PROVE  Whole' /\ Decides
<1>0. Rows \subseteq Row
  BY SessionAssumption DEF Typed, Rows, Row
<1> DEFINE refused == {i, dep[i]} \ {None}
<1>1. /\ UNCHANGED <<n, job, dep, owner>>
      /\ status' = [r \in Row |-> IF r \in {i, dep[i]} THEN "failed" ELSE status[r]]
      /\ \A r \in refused : status[r] = "pending"
  BY DEF Refuse, rowVars
<1>2. refused \subseteq Rows /\ None \notin Row
  BY <1>0, SessionAssumption DEF Sharing, Shape, Row, None
<1>3. \A r \in Row : status'[r] = IF r \in refused THEN "failed" ELSE status[r]
  BY <1>1, <1>2
<1>4. Rows' = Rows /\ \A r \in Row : IsSplit(r)' = IsSplit(r) /\ LanesOf(r)' = LanesOf(r)
  BY <1>1 DEF Rows, IsSplit, LanesOf
<1>5. \A r \in Rows : dep[r] # None => /\ dep[r] \in Rows /\ dep[r] \in Row /\ dep[dep[r]] = None
                                       /\ ~IsSplit(dep[r])
  BY <1>0 DEF Sharing, Shape, Whole, Splits, IsSplit
<1>6. \A r \in Rows : status[r] \in Ended => status'[r] = status[r]
  BY <1>0, <1>1, <1>3 DEF Ended
<1>7. \A r \in Rows : (Rests(r) => Rests(r)') /\ (NoResult(r) => NoResult(r)')
  BY <1>1, <1>5, <1>6 DEF Rests, NoResult, Ended
<1>8. \A r \in Rows : dep[r] # None /\ dep[r] \in refused => NoResult(r)'
  BY <1>1, <1>3, <1>5 DEF NoResult, Ended
<1>9. StatusTyped' /\ Splits'
  BY <1>0, <1>1, <1>3, <1>4 DEF Whole, StatusTyped, Splits, IsSplit
<1>10. ASSUME NEW g \in Rows, NEW l \in LanesOf(g)
       PROVE  l \in Rows /\ IsSplit(g) /\ dep[l] = dep[g] /\ dep[g] # None
  <2>1. l \in Rows /\ owner[l] = g /\ g # None
    BY DEF LanesOf, Rows, None
  <2> QED
    BY <2>1 DEF Whole, Splits, Sharing, Shape
<1>11. ASSUME NEW g \in Rows, LanesOf(g) # {}, ~NoResult(g)'
       PROVE  /\ ~NoResult(g) /\ g \notin refused
              /\ \A l \in LanesOf(g) : l \notin refused
  <2>1. ~NoResult(g) /\ dep[g] \notin refused /\ dep[g] # None /\ IsSplit(g)
    BY <1>7, <1>8, <1>10, <1>11
  <2>2. \A r \in Rows : dep[r] = dep[g] => r \notin refused
    <3> SUFFICES ASSUME NEW r \in Rows, dep[r] = dep[g], r \in refused PROVE FALSE
      OBVIOUS
    <3>1. CASE r = i
      BY <2>1, <3>1
    <3>2. CASE r = dep[i]
      BY <1>2, <1>5, <2>1, <3>2
    <3> QED
      BY <3>1, <3>2
  <2> QED
    BY <1>10, <2>1, <2>2
<1>12. Ends'
  <2>1. \A r \in Rows : status'[r] = "complete" => Rests(r)'
    BY <1>0, <1>3, <1>7 DEF Whole, Ends
  <2>2. ASSUME NEW g \in Rows, LanesOf(g) # {}, ~NoResult(g)'
        PROVE  status'[g] \in Ended <=> \A l \in LanesOf(g) : status'[l] \in Ended
    <3>1. status'[g] = status[g] /\ \A l \in LanesOf(g) : status'[l] = status[l]
      BY <1>0, <1>3, <1>10, <1>11, <2>2
    <3> QED
      BY <1>11, <2>2, <3>1 DEF Whole, Ends
  <2>3. ASSUME NEW g \in Rows, LanesOf(g) # {}, status'[g] = "complete", NEW l \in LanesOf(g)
        PROVE  status'[l] = "complete"
    <3>1. status[g] = "complete"
      BY <1>0, <1>3, <2>3
    <3>2. status[l] = "complete"
      BY <2>3, <3>1 DEF Whole, Ends
    <3> QED
      BY <1>6, <1>10, <3>2 DEF Ended
  <2> QED
    BY <1>0, <1>4, <2>1, <2>2, <2>3 DEF Ends
<1>13. ASSUME NEW r \in Rows, Terminal(r) PROVE EffectiveStatus(r)' = EffectiveStatus(r)
  <2>1. CASE status[r] \in Ended
    BY <1>6, <2>1 DEF EffectiveStatus
  <2>2. CASE status[r] \notin Ended /\ NoResult(r)
    <3>1. r \notin refused
      <4>1. dep[r] # None /\ status[dep[r]] # "pending"
        BY <2>2 DEF NoResult, Ended
      <4>2. r # i
        BY <1>1, <1>2, <4>1
      <4>3. r # dep[i]
        BY <1>0, <1>2, <1>5, <4>1
      <4> QED
        BY <4>2, <4>3
    <3>2. status'[r] = status[r]
      BY <1>0, <1>3, <3>1
    <3> QED
      BY <1>7, <2>2, <3>2 DEF EffectiveStatus, NoResult
  <2>3. status[r] \in Ended \/ NoResult(r)
    BY <1>13 DEF Terminal, EffectiveStatus, NoResult
  <2> QED
    BY <2>1, <2>2, <2>3
<1> QED
  BY <1>1, <1>9, <1>12, <1>13 DEF Whole, Decides

graphVars == <<n, job, dep, owner, status>>

LEMMA QuietWhole ==
  ASSUME Whole, UNCHANGED graphVars
  PROVE  Whole' /\ Decides
<1>1. /\ Rows' = Rows
      /\ \A r \in Rows : /\ IsSplit(r)' = IsSplit(r) /\ LanesOf(r)' = LanesOf(r)
                         /\ Rests(r)' = Rests(r) /\ NoResult(r)' = NoResult(r)
                         /\ EffectiveStatus(r)' = EffectiveStatus(r)
  BY DEF graphVars, Rows, IsSplit, LanesOf, Rests, NoResult, EffectiveStatus
<1>2. StatusTyped' /\ Splits' /\ Ends'
  BY <1>1 DEF graphVars, Whole, StatusTyped, Splits, Ends
<1> QED
  BY <1>1, <1>2 DEF Whole, Decides, graphVars

LEMMA SettleRowWhole ==
  ASSUME Typed, Threads, Sharing, Whole, NEW i \in Rows, SettleRow(i)
  PROVE  Whole' /\ Decides
<1>0. Rows \subseteq Row
  BY SessionAssumption DEF Typed, Rows, Row
<1> DEFINE out == [r \in BatchOf(i) |-> IF r = i THEN Outcome(i) ELSE PeerOutcome(i, r)]
<1>1. Settle(BatchOf(i), out, {}) /\ UNCHANGED <<n, job, dep, owner>> /\ worker[i] = "stopped"
  BY DEF SettleRow, rowVars
<1>2. BatchOf(i) \subseteq Rows /\ \A r \in BatchOf(i) : running[r]
  BY <1>0, <1>1 DEF Threads, Batches, Flags, BatchOf
<1>3. \A r \in BatchOf(i) : ~IsSplit(r) /\ status[r] \in {"pending", "paused"} /\ Rests(r)
  BY <1>0, <1>2 DEF Sharing, Live
<1>4. Outcome(i) \in {"paused", "complete", "failed", "cancelled"}
  <2>1. stop[i] \in {"progress", "complete", "failed", "cancelled"}
    BY <1>0, <1>1 DEF Typed, Threads, Stops
  <2> QED
    BY <2>1 DEF Outcome
<1>5. \A r \in BatchOf(i) : out[r] \in {"paused", "complete", "failed", "cancelled"}
  BY <1>4 DEF BatchOf, PeerOutcome
<1> HIDE DEF out
<1> QED
  BY <1>1, <1>2, <1>3, <1>5, SettleWhole DEF Decides

LEMMA WholeStep ==
  ASSUME Typed, Threads, Sharing, Whole, [Next]_allVars
  PROVE  Whole' /\ (Decides \/ Appends)
<1>0. Rows \subseteq Row
  BY SessionAssumption DEF Typed, Rows, Row
<1>1. CASE UNCHANGED graphVars
  BY <1>1, QuietWhole
<1>2. CASE FillOne
  <2>1. PICK i \in Rows : NextIs(i) /\ \E P \in Gathered(i) : Launch(i, P) \/ LaunchFails(i, P)
    BY <1>2 DEF FillOne
  <2>2. PICK P \in Gathered(i) : Launch(i, P) \/ LaunchFails(i, P)
    BY <2>1
  <2>3. CASE Launch(i, P)
    BY <1>1, <2>3 DEF Launch, rowVars, graphVars
  <2>4. CASE LaunchFails(i, P)
    <3>1. Startable(i)
      BY <2>1 DEF NextIs, FromUrgent, FromQueue, UrgentTops, QueueHeads
    <3>2. {i} \union P \subseteq Row
      BY <1>0 DEF Gathered
    <3> DEFINE out == [r \in {i} |-> "failed"]
    <3>3. PICK built \in SUBSET Row : Settle({i}, out, built)
      BY <2>4, <3>2 DEF LaunchFails
    <3>4. UNCHANGED <<n, job, dep, owner>>
      BY <2>4 DEF LaunchFails, rowVars
    <3>5. \A r \in {i} : /\ ~IsSplit(r) /\ status[r] \in {"pending", "paused"} /\ Rests(r)
                         /\ out[r] \in {"paused", "complete", "failed", "cancelled"}
      BY <3>1, StartableRests
    <3> HIDE DEF out
    <3> QED
      BY <3>3, <3>4, <3>5, SettleWhole DEF Decides
  <2> QED
    BY <2>2, <2>3, <2>4
<1>3. ASSUME NEW i \in Rows, ScanStopped(i) \/ ScanRunning(i) \/ AbortSettle(i)
      PROVE  Whole' /\ Decides
  <2>1. CASE SettleRow(i)
    BY <2>1, SettleRowWhole
  <2>2. CASE UNCHANGED vars
    BY <1>1, <2>2, QuietWhole DEF vars, rowVars, graphVars
  <2> QED
    BY <1>3, <2>1, <2>2 DEF ScanStopped, ScanRunning, AbortSettle
<1>4. CASE RunStep
  <2>1. UNCHANGED graphVars
    BY <1>4 DEF RunStep, SetUp, Park, End, FailFirst, Stop, rowVars, graphVars
  <2> QED
    BY <1>1, <2>1
<1>5. CASE Caller
  <2>1. ASSUME NEW i \in Rows, Release(i) PROVE Whole' /\ Decides
    <3>1. UNCHANGED graphVars
      BY <2>1 DEF Release, rowVars, graphVars
    <3> QED
      BY <3>1, QuietWhole
  <2> QED
    BY <1>5, <2>1, AppendWhole, RefuseWhole DEF Caller
<1>6. CASE Dry \/ Aborted \/ Wait \/ Abort
  <2>1. UNCHANGED graphVars
    BY <1>6 DEF Dry, Aborted, RunOver, Wait, Abort, graphVars, vars, rowVars
  <2> QED
    BY <1>1, <2>1
<1>7. CASE Full \/ ScanDone \/ Add \/ UNCHANGED allVars
  <2>1. UNCHANGED graphVars
    BY <1>7 DEF Full, ScanDone, Add, allVars, graphVars, vars, rowVars
  <2> QED
    BY <1>1, <2>1
<1> QED
  BY <1>2, <1>3, <1>4, <1>5, <1>6, <1>7 DEF Next, CoordStep

-----------------------------------------------------------------------------
(* The refinement. *)

\* Graph's outcome.
outcomes == [r \in Row |-> IF r <= n /\ Terminal(r) THEN EffectiveStatus(r) ELSE "none"]

LEMMA OutcomeOf ==
  ASSUME Typed, NEW r \in Row
  PROVE  /\ r \in Rows => outcomes[r] = IF Terminal(r) THEN EffectiveStatus(r) ELSE "none"
         /\ r \notin Rows => outcomes[r] = "none"
         /\ outcomes[r] # "none" <=> r \in Rows /\ Terminal(r)
<1>1. r \in Rows <=> r <= n
  BY SessionAssumption DEF Rows, Row, Typed
<1>2. Terminal(r) => EffectiveStatus(r) # "none"
  BY DEF Terminal, Ended
<1> QED
  BY <1>1, <1>2 DEF outcomes

\* The queries and their outcomes are as the graph promises.
LEMMA IsConsistent == Typed /\ Sharing /\ Whole => Graph!Consistent
<1> SUFFICES ASSUME Typed, Sharing, Whole PROVE Graph!Consistent
  OBVIOUS
<1>0. Rows \subseteq Row
  BY SessionAssumption DEF Typed, Rows, Row
<1>1. ASSUME NEW r \in Rows, dep[r] # None
      PROVE  /\ outcomes[r] = "complete" => outcomes[dep[r]] = "complete"
             /\ outcomes[r] = "dependency_failed" => outcomes[dep[r]] \in Graph!Bad
             /\ outcomes[r] = "none" => outcomes[dep[r]] \notin Graph!Bad
  <2>1. dep[r] \in Rows /\ dep[dep[r]] = None
    BY <1>1 DEF Sharing, Shape, Whole, Splits
  <2>2. EffectiveStatus(dep[r]) = status[dep[r]]
    BY <2>1 DEF EffectiveStatus
  <2>3. outcomes[dep[r]] = IF status[dep[r]] \in Ended THEN status[dep[r]] ELSE "none"
    BY <1>0, <2>1, <2>2, OutcomeOf DEF Terminal
  <2>4. outcomes[r] = IF Terminal(r) THEN EffectiveStatus(r) ELSE "none"
    BY <1>0, OutcomeOf
  <2>5. status[r] # "dependency_failed" /\ status[r] # "none"
    BY <1>0 DEF Whole, StatusTyped
  <2>6. status[r] = "complete" => status[dep[r]] = "complete"
    BY <1>1 DEF Whole, Ends, Rests
  <2> QED
    BY <1>1, <2>3, <2>4, <2>5, <2>6 DEF Terminal, EffectiveStatus, Ended, Graph!Bad
<1>2. ASSUME NEW r \in Rows, LanesOf(r) # {}
      PROVE  /\ outcomes[r] # "none" <=> \A l \in LanesOf(r) : outcomes[l] # "none"
             /\ outcomes[r] = "complete" => \A l \in LanesOf(r) : outcomes[l] = "complete"
  <2>1. \A l \in LanesOf(r) : l \in Rows /\ dep[l] = dep[r]
    BY DEF LanesOf, Whole, Splits, Rows, None
  <2>2. \A x \in Rows : outcomes[x] # "none" <=> status[x] \in Ended \/ NoResult(x)
    BY <1>0, OutcomeOf DEF Terminal, EffectiveStatus, NoResult, Ended
  <2>3. \A l \in LanesOf(r) : NoResult(l) <=> NoResult(r)
    BY <2>1 DEF NoResult
  <2>4. outcomes[r] # "none" <=> \A l \in LanesOf(r) : outcomes[l] # "none"
    BY <1>2, <2>1, <2>2, <2>3 DEF Whole, Ends
  <2>5. \A x \in Rows : outcomes[x] = "complete" <=> status[x] = "complete"
    BY <1>0, OutcomeOf DEF Terminal, EffectiveStatus, Ended
  <2>6. outcomes[r] = "complete" => \A l \in LanesOf(r) : outcomes[l] = "complete"
    BY <1>2, <2>1, <2>5 DEF Whole, Ends
  <2> QED
    BY <2>4, <2>6
<1>3. \A r \in Rows : Graph!Parts(r) = LanesOf(r)
  BY DEF Graph!Parts, LanesOf
<1> QED
  BY <1>1, <1>2, <1>3 DEF Graph!Consistent, Graph!Ended, outcomes, None

LEMMA StepMaps ==
  ASSUME Typed, Typed', Decides \/ Appends
  PROVE  Graph!Add \/ Graph!Decide
<1>0. Rows \subseteq Row
  BY SessionAssumption DEF Typed, Rows, Row
<1>1. CASE Decides
  <2>1. Rows' = Rows
    BY <1>1 DEF Decides, Rows
  <2>2. \A r \in Rows : Terminal(r) => Terminal(r)' /\ EffectiveStatus(r)' = EffectiveStatus(r)
    BY <1>1 DEF Decides, Terminal
  <2>3. \A r \in Row : outcomes[r] # "none" => outcomes'[r] = outcomes[r]
    <3> SUFFICES ASSUME NEW r \in Row, r <= n, Terminal(r) PROVE outcomes'[r] = outcomes[r]
      BY DEF outcomes
    <3>1. r \in Rows /\ n' = n
      BY <1>1, SessionAssumption DEF Decides, Rows, Row, Typed
    <3> QED
      BY <2>2, <3>1 DEF outcomes
  <2> QED
    BY <1>1, <2>1, <2>3 DEF Graph!Decide, Graph!Ended, outcomes, Decides
<1>2. CASE Appends
  <2>1. Rows \subseteq Rows'
    BY <1>2 DEF Appends, Rows, Typed
  <2>2. \A r \in Rows : outcomes'[r] = outcomes[r]
    <3> SUFFICES ASSUME NEW r \in Rows PROVE outcomes'[r] = outcomes[r]
      OBVIOUS
    <3>1. r \in Row /\ r <= n /\ r <= n'
      BY <1>0, <1>2 DEF Appends, Rows, Typed
    <3>2. EffectiveStatus(r)' = EffectiveStatus(r) /\ Terminal(r)' = Terminal(r)
      BY <1>2 DEF Appends, Terminal
    <3> QED
      BY <3>1, <3>2 DEF outcomes
  <2>3. \A r \in Rows : dep'[r] = dep[r] /\ owner'[r] = owner[r]
    BY <1>2 DEF Appends
  <2> QED
    BY <1>0, <2>1, <2>2, <2>3 DEF Graph!Add, Graph!Ended, outcomes
<1> QED
  BY <1>1, <1>2

\* The session keeps the promise of QueryGraph, whatever its threads, lane
\* batches and shared device state do.
THEOREM SessionKeepsGraph ==
  ASSUME Lanes = "gpu" => ~TimingInDepth
  PROVE  Spec => KeepsGraph
<1> DEFINE Inv == Typed /\ Threads /\ Sharing /\ Whole
<1>1. PoolInit => Inv /\ Graph!Init
  <2>1. PoolInit => Typed /\ Threads /\ Sharing
    BY InitIInv, InitSharing
  <2> SUFFICES ASSUME PoolInit PROVE Whole /\ Graph!Init
    BY <2>1
  <2>2. Rows = {} /\ \A r \in Row : ~(r <= n)
    BY SessionAssumption DEF PoolInit, Init, Rows, Row
  <2>3. Whole
    BY <2>2 DEF PoolInit, Init, Whole, StatusTyped, Splits, Ends
  <2>4. Graph!Init
    BY <2>2 DEF PoolInit, Init, Graph!Init, None
  <2> QED
    BY <2>3, <2>4
<1>2. Inv /\ [Next]_allVars => Inv' /\ (Graph!Add \/ Graph!Decide)
  <2>1. Inv /\ [Next]_allVars => Inv' /\ (Decides \/ Appends)
    BY TypedStep, ThreadsStep, SharingStep, WholeStep
  <2> QED
    BY <2>1, StepMaps
<1>3. Inv => Graph!Consistent
  BY IsConsistent
<1>4. (Graph!Add \/ Graph!Decide) /\ Graph!Consistent' => [Graph!Next]_(Graph!vars)
  BY DEF Graph!Next
<1> QED
  BY <1>1, <1>2, <1>3, <1>4, PTL DEF Spec, KeepsGraph, Graph!Spec

-----------------------------------------------------------------------------
(* What releasing frees. *)

\* A row that is released has ended and holds nothing; an operating point that
\* nobody asked for goes with the last row, lanes included, that reads it.
ReleasedIsFree ==
  /\ \A r \in Rows : released[r] => Terminal(r) /\ ~exec[r]
  /\ \A d \in Rows : Dependents(d) # {} /\ ~requested[d] /\ (\A r \in Dependents(d) : released[r])
       => ~exec[d]

\* Rows start, and end, after their operating point.
Freed ==
  /\ \A r \in Rows : ~IsSplit(r) /\ dep[r] # None /\ status[r] # "pending" => status[dep[r]] \in Ended
  /\ \A r \in Rows : released[r] => Terminal(r) /\ ~exec[r]
  /\ \A d \in Rows : Dependents(d) # {} /\ ~requested[d] /\ (\A r \in Dependents(d) : released[r])
       => released[d]

freedVars == <<n, job, dep, owner, requested, status, released, exec>>

LEMMA QuietFreed ==
  ASSUME Freed, UNCHANGED freedVars
  PROVE  Freed'
<1>1. /\ Rows' = Rows
      /\ \A r \in Rows : /\ IsSplit(r)' = IsSplit(r) /\ Terminal(r)' = Terminal(r)
                         /\ Dependents(r)' = Dependents(r)
  BY DEF freedVars, Rows, IsSplit, Terminal, EffectiveStatus, Dependents
<1> QED
  BY <1>1 DEF freedVars, Freed

\* A split query is not assembled again once it has ended.
LEMMA SettleFreed ==
  ASSUME Typed, Sharing, Whole, Freed,
         NEW B \in SUBSET Rows, NEW built \in SUBSET Rows, NEW out,
         Settle(B, out, built), UNCHANGED <<n, job, dep, owner, requested, released>>,
         \A r \in B : /\ ~IsSplit(r) /\ status[r] \in {"pending", "paused"} /\ Rests(r)
                      /\ out[r] \in {"paused", "complete", "failed", "cancelled"},
         \A r \in built : ~released[r]
  PROVE  Freed'
<1>0. Rows \subseteq Row /\ built \in SUBSET Row
  BY SessionAssumption DEF Typed, Rows, Row
<1>1. /\ Rows' = Rows
      /\ \A r \in Rows : IsSplit(r)' = IsSplit(r) /\ Dependents(r)' = Dependents(r)
  BY DEF Rows, IsSplit, Dependents
<1>2. \A r \in Rows : Terminal(r) => EffectiveStatus(r)' = EffectiveStatus(r)
  BY <1>0, SettleWhole
<1>3. \A r \in Rows : Terminal(r) => Terminal(r)'
  BY <1>2 DEF Terminal
<1>4. \A r \in Rows : ~IsSplit(r) => status'[r] = IF r \in B THEN out[r] ELSE status[r]
  BY <1>0, SettleLeaves
<1>5. \A r \in Rows : dep[r] # None => dep[r] \in Rows /\ ~IsSplit(dep[r])
  BY DEF Sharing, Shape, IsSplit
<1>6. ASSUME NEW r \in Rows, ~IsSplit(r), dep[r] # None, status'[r] # "pending"
      PROVE  status'[dep[r]] \in Ended
  <2>1. status[dep[r]] \in Ended
    BY <1>4, <1>6 DEF Freed, Rests, Ended
  <2> QED
    BY <1>4, <1>5, <1>6, <2>1 DEF Ended
<1>7. ASSUME NEW r \in Rows, released[r] PROVE ~exec'[r]
  <2>1. Terminal(r) /\ ~exec[r] /\ r \notin built
    BY <1>7 DEF Freed
  <2> DEFINE st == [x \in Row |-> IF x \in B THEN out[x] ELSE status[x]]
  <2>2. exec' = [x \in Row |-> \/ exec[x] \/ x \in built
                               \/ x \in SplitsEnded(B, st) /\ status'[x] = "complete"]
    BY DEF Settle
  <2>3. ASSUME r \in SplitsEnded(B, st) PROVE FALSE
    <3>1. PICK l \in LanesOf(r) : l \in B
      BY <2>3 DEF SplitsEnded
    <3>2. l \in Rows /\ owner[l] = r /\ r # None
      BY <1>0, <3>1 DEF LanesOf, None, Row
    <3>3. dep[l] = dep[r]
      BY <3>2 DEF Whole, Splits
    <3>4. status[l] \notin Ended /\ Rests(l)
      BY <3>1 DEF Ended
    <3>5. ~NoResult(r)
      BY <3>3, <3>4 DEF NoResult, Rests
    <3>6. status[r] \in Ended
      BY <2>1, <3>5 DEF Terminal, EffectiveStatus, NoResult
    <3> QED
      BY <3>1, <3>4, <3>5, <3>6 DEF Whole, Ends
  <2> HIDE DEF st
  <2> QED
    BY <1>0, <2>1, <2>2, <2>3
<1> QED
  BY <1>1, <1>3, <1>6, <1>7 DEF Freed

LEMMA StartFreed ==
  ASSUME Typed, Sharing, Whole, Freed, NEW i \in Rows, Startable(i), NEW P \in Gathered(i),
         Launch(i, P) \/ LaunchFails(i, P)
  PROVE  Freed'
<1>0. Rows \subseteq Row
  BY SessionAssumption DEF Typed, Rows, Row
<1>1. {i} \union P \subseteq Rows /\ \A r \in {i} \union P : ~released[r]
  <2>1. P \subseteq Rows /\ \A r \in P : Startable(r)
    BY DEF Gathered, MayJoin
  <2> QED
    BY <2>1, StartableRests
<1>2. CASE Launch(i, P)
  <2>1. UNCHANGED <<n, job, dep, owner, requested, status, released>>
        /\ \A r \in Rows : exec'[r] => exec[r] \/ r \in {i} \union P
    BY <1>0, <1>2 DEF Launch, rowVars
  <2>2. /\ Rows' = Rows
        /\ \A r \in Rows : /\ IsSplit(r)' = IsSplit(r) /\ Terminal(r)' = Terminal(r)
                           /\ Dependents(r)' = Dependents(r)
    BY <2>1 DEF Rows, IsSplit, Terminal, EffectiveStatus, Dependents
  <2> QED
    BY <1>1, <2>1, <2>2 DEF Freed
<1>3. CASE LaunchFails(i, P)
  <2> DEFINE out == [r \in {i} |-> "failed"]
  <2>1. PICK built \in SUBSET ({i} \union P) : Settle({i}, out, built)
    BY <1>3 DEF LaunchFails
  <2>2. built \in SUBSET Rows /\ \A r \in built : ~released[r]
    BY <1>1, <2>1
  <2>3. UNCHANGED <<n, job, dep, owner, requested, released>>
    BY <1>3 DEF LaunchFails, rowVars
  <2>4. \A r \in {i} : /\ ~IsSplit(r) /\ status[r] \in {"pending", "paused"} /\ Rests(r)
                       /\ out[r] \in {"paused", "complete", "failed", "cancelled"}
    BY StartableRests
  <2> HIDE DEF out
  <2> QED
    BY <2>1, <2>2, <2>3, <2>4, SettleFreed
<1> QED
  BY <1>2, <1>3

LEMMA SettleRowFreed ==
  ASSUME Typed, Threads, Sharing, Whole, Freed, NEW i \in Rows, SettleRow(i)
  PROVE  Freed'
<1>0. Rows \subseteq Row
  BY SessionAssumption DEF Typed, Rows, Row
<1> DEFINE out == [r \in BatchOf(i) |-> IF r = i THEN Outcome(i) ELSE PeerOutcome(i, r)]
<1>1. /\ Settle(BatchOf(i), out, {}) /\ worker[i] = "stopped"
      /\ UNCHANGED <<n, job, dep, owner, requested, released>>
  BY DEF SettleRow, rowVars
<1>2. BatchOf(i) \subseteq Rows /\ \A r \in BatchOf(i) : running[r]
  BY <1>0, <1>1 DEF Threads, Batches, Flags, BatchOf
<1>3. \A r \in BatchOf(i) : ~IsSplit(r) /\ status[r] \in {"pending", "paused"} /\ Rests(r)
  BY <1>0, <1>2 DEF Sharing, Live
<1>4. Outcome(i) \in {"paused", "complete", "failed", "cancelled"}
  <2>1. stop[i] \in {"progress", "complete", "failed", "cancelled"}
    BY <1>0, <1>1 DEF Typed, Threads, Stops
  <2> QED
    BY <2>1 DEF Outcome
<1>5. \A r \in BatchOf(i) : out[r] \in {"paused", "complete", "failed", "cancelled"}
  BY <1>4 DEF BatchOf, PeerOutcome
<1>6. {} \in SUBSET Rows /\ \A r \in {} : ~released[r]
  OBVIOUS
<1> HIDE DEF out
<1> QED
  BY <1>1, <1>2, <1>3, <1>5, <1>6, SettleFreed

LEMMA AppendFreed ==
  ASSUME Typed, Sharing, Whole, Freed, NEW j \in Jobs, AppendJob(j)
  PROVE  Freed'
<1> DEFINE added == Rows' \ Rows
<1>1. /\ n' \in 0..MaxRows /\ n <= n'
      /\ \A r \in Rows : job'[r] = job[r] /\ owner'[r] = owner[r]
  BY AppendGrows
<1>2. Rows \subseteq Rows' /\ Rows' \subseteq Row
  BY <1>1, SessionAssumption DEF Rows, Row, Typed
<1>3. /\ \A r \in Rows : dep'[r] = dep[r] /\ (requested[r] => requested'[r])
      /\ \A r \in added : dep'[r] # None => ~released[dep'[r]]
  BY AppendAdds DEF Sharing
<1>4. UNCHANGED <<status, released, exec>>
  BY DEF AppendJob, execVars
<1>5. \A r \in added : status[r] = "pending" /\ ~released[r]
  BY <1>2 DEF Sharing, Shape
<1>6. \A r \in Rows : IsSplit(r)' = IsSplit(r) /\ Terminal(r)' = Terminal(r)
  BY <1>1, <1>3, <1>4 DEF IsSplit, Terminal, EffectiveStatus
<1>7. ASSUME NEW d \in Rows', Dependents(d)' # {}, ~requested'[d],
             \A r \in Dependents(d)' : released[r]
      PROVE  released[d]
  <2>1. PICK r \in Dependents(d)' : TRUE
    BY <1>7
  <2>2. \A x \in Dependents(d)' : x \in Rows
    BY <1>5, <1>7 DEF Dependents
  <2>3. \A x \in Rows : x \in Dependents(d)' <=> x \in Dependents(d)
    BY <1>2, <1>3, <1>6 DEF Dependents
  <2>4. r \in Rows /\ dep[r] = d
    BY <2>1, <2>2, <2>3 DEF Dependents
  <2>5. d \in Rows
    <3>1. None \notin Row
      BY DEF None, Row
    <3> QED
      BY <1>2, <2>4, <3>1 DEF Sharing, Shape
  <2>6. \A x \in Dependents(d) : released[x]
    BY <1>7, <2>3 DEF Dependents
  <2> QED
    BY <1>3, <1>7, <2>1, <2>3, <2>4, <2>5, <2>6 DEF Freed
<1>8. \A r \in Rows' : released[r] => Terminal(r)' /\ ~exec[r]
  BY <1>5, <1>6 DEF Freed
<1>9. \A r \in Rows' : ~IsSplit(r)' /\ dep'[r] # None /\ status[r] # "pending" =>
         status[dep'[r]] \in Ended
  BY <1>3, <1>5, <1>6 DEF Freed
<1> QED
  BY <1>4, <1>7, <1>8, <1>9 DEF Freed

LEMMA RefuseFreed ==
  ASSUME Typed, Sharing, Whole, Freed, NEW i \in Rows, Refuse(i)
  PROVE  Freed'
<1>0. Rows \subseteq Row /\ None \notin Row
  BY SessionAssumption DEF Typed, Rows, Row, None
<1>1. /\ UNCHANGED <<n, job, dep, owner, requested, released, exec>>
      /\ status' = [r \in Row |-> IF r \in {i, dep[i]} THEN "failed" ELSE status[r]]
  BY DEF Refuse, rowVars, execVars
<1>2. /\ Rows' = Rows
      /\ \A r \in Rows : IsSplit(r)' = IsSplit(r) /\ Dependents(r)' = Dependents(r)
  BY <1>1 DEF Rows, IsSplit, Dependents
<1>3. \A r \in Rows : Terminal(r) => Terminal(r)'
  BY RefuseWhole DEF Decides, Terminal
<1>4. \A r \in Rows : status'[r] = IF r \in {i, dep[i]} THEN "failed" ELSE status[r]
  BY <1>0, <1>1
<1>5. \A r \in Rows : dep[r] # None => dep[r] \in Rows /\ dep[dep[r]] = None
  BY DEF Sharing, Shape, Whole, Splits
<1>6. \A r \in Rows : ~IsSplit(r) /\ dep[r] # None /\ status'[r] # "pending" =>
        status'[dep[r]] \in Ended
  <2> SUFFICES ASSUME NEW r \in Rows, ~IsSplit(r), dep[r] # None, status'[r] # "pending"
               PROVE  status'[dep[r]] \in Ended
    OBVIOUS
  <2>1. dep[r] \in Rows /\ (r = i \/ status[r] # "pending")
    BY <1>0, <1>4, <1>5
  <2>2. r # i => status[dep[r]] \in Ended
    BY <2>1 DEF Freed
  <2> QED
    BY <1>4, <2>1, <2>2 DEF Ended
<1> QED
  BY <1>1, <1>2, <1>3, <1>6 DEF Freed

\* With the last of its readers goes an operating point nobody asked for.
LEMMA ReleaseFreed ==
  ASSUME Typed, Threads, Sharing, Whole, Freed, NEW i \in Rows, Release(i)
  PROVE  Freed'
<1>0. Rows \subseteq Row /\ None \notin Row
  BY SessionAssumption DEF Typed, Rows, Row, None
<1> DEFINE gone == {r \in Rows : released[r]} \union {i}
           d == dep[i]
           free == {i} \union {r \in {d} \ {None} :
                                 ~requested[r] /\ ~released[r] /\ MayFree(r, gone)}
<1>1. /\ MayFree(i, gone)
      /\ released' = [r \in Row |-> released[r] \/ r \in free]
      /\ exec' = [r \in Row |-> exec[r] /\ r \notin free]
  BY DEF Release
<1>2. UNCHANGED <<n, job, dep, owner, requested, status>>
  BY DEF Release, rowVars
<1>3. /\ Rows' = Rows
      /\ \A r \in Rows : /\ IsSplit(r)' = IsSplit(r) /\ Terminal(r)' = Terminal(r)
                         /\ Dependents(r)' = Dependents(r)
  BY <1>2 DEF Rows, IsSplit, Terminal, EffectiveStatus, Dependents
<1>4. \A r \in free : Terminal(r)
  BY <1>1 DEF MayFree
<1>5. ASSUME NEW r \in Rows, released'[r] PROVE Terminal(r) /\ ~exec'[r]
  BY <1>0, <1>1, <1>4, <1>5 DEF Freed
<1>6. ASSUME NEW p \in Rows, Dependents(p) # {}, ~requested[p],
             \A r \in Dependents(p) : released'[r]
      PROVE  released'[p]
  <2>1. \A r \in Dependents(p) : r \in Rows /\ dep[r] = p /\ ~IsSplit(r)
    BY DEF Dependents
  <2>2. \A r \in Dependents(p) : r \in gone
    <3>1. \A r \in Dependents(p) : r # d
      BY <1>0, <2>1 DEF Sharing, Shape, Whole, Splits
    <3> QED
      BY <1>0, <1>1, <1>6, <2>1, <3>1
  <2>3. CASE \A r \in Dependents(p) : released[r]
    BY <1>0, <1>1, <1>6, <2>3 DEF Freed
  <2>4. CASE i \in Dependents(p) /\ ~released[p]
    <3>1. p = d /\ d # None
      BY <1>0, <2>1, <2>4
    <3>2. status[p] \in Ended
      <4>1. Terminal(i) /\ dep[i] = p /\ ~IsSplit(i)
        BY <1>1, <2>1, <2>4 DEF MayFree
      <4>2. status[i] \in Ended \/ status[p] \in Ended
        BY <3>1, <4>1 DEF Terminal, EffectiveStatus
      <4>3. status[i] \in Ended => status[i] # "pending"
        BY DEF Ended
      <4> QED
        BY <3>1, <4>1, <4>2, <4>3 DEF Freed
    <3>3. Terminal(p) /\ ~running[p]
      BY <1>0, <3>2 DEF Terminal, EffectiveStatus, Ended, Sharing, Live
    <3>4. MayFree(p, gone)
      BY <2>2, <3>3 DEF MayFree
    <3> QED
      BY <1>0, <1>1, <1>6, <2>4, <3>1, <3>4
  <2> QED
    BY <1>0, <1>1, <2>2, <2>3, <2>4
<1> HIDE DEF gone, d, free
<1> QED
  BY <1>2, <1>3, <1>5, <1>6 DEF Freed

LEMMA FreedStep ==
  ASSUME Typed, Threads, Sharing, Whole, Freed, [Next]_allVars
  PROVE  Freed'
<1>1. CASE UNCHANGED freedVars
  BY <1>1, QuietFreed
<1>2. CASE FillOne
  <2>1. PICK i \in Rows : NextIs(i) /\ \E P \in Gathered(i) : Launch(i, P) \/ LaunchFails(i, P)
    BY <1>2 DEF FillOne
  <2>2. Startable(i)
    BY <2>1 DEF NextIs, FromUrgent, FromQueue, UrgentTops, QueueHeads
  <2> QED
    BY <2>1, <2>2, StartFreed
<1>3. ASSUME NEW i \in Rows, ScanStopped(i) \/ ScanRunning(i) \/ AbortSettle(i) PROVE Freed'
  <2>1. CASE SettleRow(i)
    BY <2>1, SettleRowFreed
  <2>2. CASE UNCHANGED vars
    BY <1>1, <2>2 DEF vars, rowVars, execVars, freedVars
  <2> QED
    BY <1>3, <2>1, <2>2 DEF ScanStopped, ScanRunning, AbortSettle
<1>4. CASE RunStep
  <2>1. UNCHANGED freedVars
    BY <1>4 DEF RunStep, SetUp, Park, End, FailFirst, Stop, rowVars, freedVars
  <2> QED
    BY <1>1, <2>1
<1>5. CASE Caller
  BY <1>5, AppendFreed, RefuseFreed, ReleaseFreed DEF Caller
<1>6. CASE Dry \/ Aborted \/ Wait \/ Abort
  <2>1. UNCHANGED freedVars
    BY <1>6 DEF Dry, Aborted, RunOver, Wait, Abort, freedVars, vars, rowVars, execVars
  <2> QED
    BY <1>1, <2>1
<1>7. CASE Full \/ ScanDone \/ Add \/ UNCHANGED allVars
  <2>1. UNCHANGED freedVars
    BY <1>7 DEF Full, ScanDone, Add, allVars, freedVars, vars, rowVars, execVars
  <2> QED
    BY <1>1, <2>1
<1> QED
  BY <1>2, <1>3, <1>4, <1>5, <1>6, <1>7 DEF Next, CoordStep

LEMMA FreedIsFree == Freed => ReleasedIsFree
  BY DEF Freed, ReleasedIsFree

-----------------------------------------------------------------------------
(* Types: the fields no invariant above speaks of. *)

Fields ==
  /\ job \in [Row -> JobType]
  /\ dep \in [Row -> Row \union {None}] /\ owner \in [Row -> Row \union {None}]
  /\ requested \in [Row -> BOOLEAN]
  /\ status = [r \in Row |-> status[r]] /\ readers = [r \in Row |-> readers[r]]
  /\ running \in [Row -> BOOLEAN] /\ released \in [Row -> BOOLEAN]
  /\ exec \in [Row -> BOOLEAN] /\ take \in [Row -> BOOLEAN]
  /\ lane \in [Row -> {"none", "published", "failed"}]
  /\ cancelled \in [Row -> BOOLEAN]

\* An operating point a request shares is a row.
LEMMA AppendFields ==
  ASSUME Typed, Fields, NEW j \in Jobs, AppendJob(j)
  PROVE  Fields'
<1>1. n \in Nat /\ j \in JobType /\ Rows \subseteq Row
  BY SessionAssumption DEF Typed, Rows, Row
<1>2. UNCHANGED <<status, running, released, exec, take, lane, cancelled>>
  BY DEF AppendJob, execVars, workVars
<1>3. CASE j.kind = "op" /\ OpRows(j) # {}
  BY <1>2, <1>3 DEF AppendJob, Fields
<1>4. CASE ~(j.kind = "op" /\ OpRows(j) # {})
  <2> DEFINE new == NewRows(j)
             d == IF ~Prerequisite(j) THEN None
                  ELSE IF OpRows(j) = {} THEN n + 1 ELSE CHOOSE r \in OpRows(j) : TRUE
             first == IF Prerequisite(j) /\ OpRows(j) = {} THEN 1 ELSE 0
             id == n + first + j.lanes + 1
             opJob == [j EXCEPT !.kind = "op", !.lanes = 0, !.class = 0]
  <2>1. /\ job' = [r \in Row |-> IF r \in DOMAIN new THEN new[r].job ELSE job[r]]
        /\ dep' = [r \in Row |-> IF r \in DOMAIN new THEN new[r].dep ELSE dep[r]]
        /\ owner' = [r \in Row |-> IF r \in DOMAIN new THEN new[r].owner ELSE owner[r]]
        /\ requested' = [r \in Row |-> IF r \in DOMAIN new THEN new[r].requested ELSE requested[r]]
        /\ readers' = [r \in Row |-> readers'[r]]
        /\ n' = n + Cardinality(DOMAIN new) /\ n' \in 0..MaxRows
    BY <1>4, AppendGrows DEF AppendJob
  <2>2. new = [r \in (n + 1)..id |->
                 IF first = 1 /\ r = n + 1
                 THEN Fresh(r, opJob, None, None, FALSE)
                 ELSE Fresh(r, j, d, IF r < id THEN id ELSE None, r = id)]
    BY DEF NewRows
  <2>3. n' = id
    <3>1. id \in Nat /\ n + 1 \in Int /\ n < id
      BY <1>1 DEF JobType
    <3>2. DOMAIN new = (n + 1)..id
      BY <2>2
    <3> HIDE DEF id, new
    <3>3. Cardinality((n + 1)..id) = id - (n + 1) + 1
      BY <1>1, <3>1, FS_Interval
    <3> QED
      BY <1>1, <2>1, <3>1, <3>2, <3>3
  <2>4. id \in Row /\ (first = 1 => n + 1 \in Row)
    BY <1>1, <2>1, <2>3, SessionAssumption DEF Row, JobType
  <2>5. d \in Row \union {None}
    BY <1>1, <2>4 DEF OpRows
  <2>6. opJob \in JobType
    BY <1>1 DEF JobType, Kinds
  <2> HIDE DEF d, id, first, opJob
  <2>7. \A r \in DOMAIN new :
          /\ new[r].job \in JobType /\ new[r].dep \in Row \union {None}
          /\ new[r].owner \in Row \union {None} /\ new[r].requested \in BOOLEAN
    <3> SUFFICES ASSUME NEW r \in DOMAIN new PROVE
            /\ new[r].job \in JobType /\ new[r].dep \in Row \union {None}
            /\ new[r].owner \in Row \union {None} /\ new[r].requested \in BOOLEAN
      OBVIOUS
    <3>1. \/ new[r] = Fresh(r, opJob, None, None, FALSE)
          \/ new[r] = Fresh(r, j, d, id, r = id) \/ new[r] = Fresh(r, j, d, None, r = id)
      BY <2>2
    <3> HIDE DEF new
    <3>2. (r = id) \in BOOLEAN /\ j \in JobType
      BY <1>1
    <3>3. CASE new[r] = Fresh(r, opJob, None, None, FALSE)
      BY <2>6, <3>3 DEF Fresh
    <3>4. CASE new[r] = Fresh(r, j, d, id, r = id)
      BY <2>4, <2>5, <3>2, <3>4 DEF Fresh
    <3>5. CASE new[r] = Fresh(r, j, d, None, r = id)
      BY <2>5, <3>2, <3>5 DEF Fresh
    <3> QED
      BY <3>1, <3>3, <3>4, <3>5
  <2> HIDE DEF new
  <2> QED
    BY <1>2, <2>1, <2>7 DEF Fields
<1> QED
  BY <1>3, <1>4

LEMMA SettleFields ==
  ASSUME NEW B, NEW out, NEW built, Settle(B, out, built)
  PROVE  /\ status' = [r \in Row |-> status'[r]] /\ readers' = [r \in Row |-> readers'[r]]
         /\ exec' \in [Row -> BOOLEAN]
BY DEF Settle

LEMMA DecideFields ==
  ASSUME Fields, NEW B, DecideTake(B)
  PROVE  take' \in [Row -> BOOLEAN]
BY DEF DecideTake, Fields

LEMMA StartFields ==
  ASSUME Typed, Fields, NEW i \in Rows, NEW P, Launch(i, P) \/ LaunchFails(i, P)
  PROVE  Fields'
<1>0. Rows \subseteq Row
  BY SessionAssumption DEF Typed, Rows, Row
<1>1. CASE Launch(i, P)
  BY <1>0, <1>1, DecideFields DEF Launch, Fields, rowVars
<1>2. CASE LaunchFails(i, P)
  <2>1. UNCHANGED <<job, dep, owner, requested, running, released, lane, cancelled>>
    BY <1>2 DEF LaunchFails, rowVars, workVars
  <2>2. \E B, out, built : Settle(B, out, built) /\ DecideTake(built)
    BY <1>2 DEF LaunchFails
  <2> QED
    BY <2>1, <2>2, DecideFields, SettleFields DEF Fields
<1> QED
  BY <1>1, <1>2

LEMMA SettleRowFields ==
  ASSUME Fields, NEW i, SettleRow(i)
  PROVE  Fields'
<1>1. UNCHANGED <<job, dep, owner, requested, released, take, lane, cancelled>>
  BY DEF SettleRow, rowVars
<1>2. running' \in [Row -> BOOLEAN] /\ \E B, out, built : Settle(B, out, built)
  BY DEF SettleRow, Fields
<1> QED
  BY <1>1, <1>2, SettleFields DEF Fields

LEMMA FieldsStep ==
  ASSUME Typed, Fields, [Next]_allVars
  PROVE  Fields'
<1>0. Rows \subseteq Row
  BY SessionAssumption DEF Typed, Rows, Row
<1> USE DEF vars, rowVars, execVars, workVars, allVars
<1>1. CASE UNCHANGED vars
  BY <1>1 DEF Fields
<1>2. ASSUME NEW i \in Rows, Refuse(i) PROVE Fields'
  BY <1>2 DEF Refuse, Fields
<1>3. ASSUME NEW i \in Rows, Release(i) PROVE Fields'
  BY <1>3 DEF Release, Fields
<1>4. ASSUME NEW i \in Rows, NEW P, Launch(i, P) \/ LaunchFails(i, P) PROVE Fields'
  BY <1>4, StartFields
<1>5. ASSUME NEW i \in Rows, SettleRow(i) PROVE Fields'
  BY <1>5, SettleRowFields
<1>6. ASSUME NEW i \in Rows, NEW r \in Rows, SetUp(i, r) PROVE Fields'
  BY <1>6 DEF SetUp, Fields
<1>7. ASSUME NEW i \in Rows, Park(i) \/ End(i) \/ FailFirst(i) PROVE Fields'
  <2>1. UNCHANGED <<job, dep, owner, requested, status, readers, running, released, exec, take, cancelled>>
    BY <1>7 DEF Park, End, FailFirst, Stop
  <2>2. lane' \in [Row -> {"none", "published", "failed"}]
    BY <1>7 DEF Park, End, FailFirst, Fields
  <2> QED
    BY <2>1, <2>2 DEF Fields
<1>8. CASE Dry \/ Aborted \/ Wait
  BY <1>1, <1>8 DEF Dry, Aborted, RunOver, Wait, Fields
<1>9. CASE Abort
  BY <1>9 DEF Abort, Fields
<1>10. CASE FillOne
  BY <1>4, <1>10 DEF FillOne
<1>11. CASE Full \/ ScanDone \/ Add
  BY <1>1, <1>11 DEF Full, ScanDone, Add
<1>12. ASSUME NEW i \in Rows, ScanStopped(i) \/ ScanRunning(i) \/ AbortSettle(i) PROVE Fields'
  BY <1>1, <1>5, <1>12 DEF ScanStopped, ScanRunning, AbortSettle
<1> HIDE DEF vars
<1>13. CASE RunStep
  BY <1>6, <1>7, <1>13 DEF RunStep
<1>14. CASE CoordStep
  BY <1>8, <1>10, <1>11, <1>12, <1>14 DEF CoordStep
<1>15. CASE Caller
  BY <1>2, <1>3, <1>15, AppendFields DEF Caller
<1> QED
  BY <1>1, <1>9, <1>11, <1>13, <1>14, <1>15 DEF Next

LEMMA InitFields == PoolInit => Fields
<1>1. NoJob \in JobType
  BY DEF NoJob, JobType, Kinds
<1> QED
  BY <1>1 DEF PoolInit, Init, Fields

\* Every variable of the session keeps its type: no count of readers goes
\* below zero, and no outcome of a batch is lost, for any jobs and threads.
THEOREM SessionTypeCorrect ==
  ASSUME Lanes = "gpu" => ~TimingInDepth
  PROVE  Spec => []TypeOK
<1> DEFINE Inv == Typed /\ Threads /\ Sharing /\ Whole /\ Fields
<1>1. PoolInit => Inv
  <2>1. PoolInit => Typed /\ Threads /\ Sharing
    BY InitIInv, InitSharing
  <2> SUFFICES ASSUME PoolInit PROVE Whole
    BY <2>1, InitFields
  <2>2. Rows = {}
    BY DEF PoolInit, Init, Rows
  <2> QED
    BY <2>2 DEF PoolInit, Init, Whole, StatusTyped, Splits, Ends
<1>2. Inv /\ [Next]_allVars => Inv'
  BY TypedStep, ThreadsStep, SharingStep, WholeStep, FieldsStep
<1>3. Inv => TypeOK
  BY DEF Typed, Sharing, StateTyped, Counts, Counted, Whole, StatusTyped, Fields, TypeOK
<1> QED
  BY <1>1, <1>2, <1>3, PTL DEF Spec
=============================================================================

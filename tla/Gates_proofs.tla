---------------------------- MODULE Gates_proofs ----------------------------
(***************************************************************************)
(* For any decks and files: the lane gate passes a deck exactly when what  *)
(* its two runs left agrees.  A run is compared by what it left itself,    *)
(* since the two runs of a deck write two files; and replica by replica,   *)
(* since k % n runs through a point's plots once for each replica.         *)
(***************************************************************************)
EXTENDS LaneDiff, GpuParity, TLAPS, FiniteSetTheorems

File == Files \union {NoFile}
Answer == [rc : Codes, raw : File]

\* What a run returns is what it left, and the file of a run not yet made is
\* not there.
LaneKept ==
  /\ dir \in [Decks -> [{"out0", "out1", "out0old"} -> File]]
  /\ runs \in [Decks -> Seq(Answer)]
  /\ left = runs
  /\ \A d \in Decks :
       /\ Len(runs[d]) <= 2
       /\ \A k \in {1, 2} : Len(runs[d]) < k => dir[d][OutFile(k)] = NoFile

Judged ==
  /\ DOMAIN message = Decks
  /\ \A d \in Decks : message[d] \in {"same", "differs"} =>
       Len(runs[d]) = 2 /\ (message[d] = "same" <=> Same(d))

LEMMA TwoFiles ==
  /\ OutFile(1) # OutFile(2)
  /\ \A k \in {1, 2} : OutFile(k) \in {"out0", "out1", "out0old"}
BY DEF OutFile

LEMMA LaneKeptStep == LaneKept /\ [LaneNext]_laneVars => LaneKept'
<1> SUFFICES ASSUME LaneKept, [LaneNext]_laneVars PROVE LaneKept'
  OBVIOUS
<1>1. ASSUME NEW d \in Decks, Run(d) PROVE LaneKept'
  <2> DEFINE k == Len(runs[d]) + 1
             f == OutFile(k)
  <2>1. PICK rc \in Codes, file \in Files :
          /\ dir' = IF file = NoFile THEN dir ELSE [dir EXCEPT ![d][f] = file]
          /\ left' = [left EXCEPT ![d] = Append(@, [rc |-> rc, raw |-> file])]
          /\ runs' = [runs EXCEPT ![d] = Append(@, [rc |-> rc, raw |-> dir'[d][f]])]
    BY <1>1 DEF Run
  <2>2. k \in {1, 2} /\ mode' = mode /\ runs[d] \in Seq(Answer)
    <3>1. runs[d] \in Seq(Answer) /\ k <= 2 /\ mode' = mode
      BY <1>1 DEF Run, LaneKept
    <3>2. Len(runs[d]) \in Nat
      BY <3>1
    <3> QED
      BY <3>1, <3>2
  <2>3. \A i : OutFile(i)' = OutFile(i)
    BY <2>2 DEF OutFile
  <2>4. f \in {"out0", "out1", "out0old"}
    BY <2>2, TwoFiles
  <2>5. dir[d][f] = NoFile
    BY <2>2 DEF LaneKept
  <2> HIDE DEF f, k
  <2>6. dir'[d][f] = file
    BY <2>1, <2>4, <2>5 DEF LaneKept
  <2>7. dir' \in [Decks -> [{"out0", "out1", "out0old"} -> File]]
    <3>1. CASE file = NoFile
      BY <2>1, <3>1 DEF LaneKept
    <3>2. CASE file # NoFile
      <4>1. dir' = [dir EXCEPT ![d] = [dir[d] EXCEPT ![f] = file]]
        BY <2>1, <3>2
      <4> QED
        BY <2>4, <4>1 DEF LaneKept, File
    <3> QED
      BY <3>1, <3>2
  <2>8. [rc |-> rc, raw |-> file] \in Answer
    BY DEF Answer, File
  <2> DEFINE one == [rc |-> rc, raw |-> file]
  <2>9. runs' = [runs EXCEPT ![d] = Append(runs[d], one)] /\ left' = runs'
    BY <2>1, <2>6 DEF LaneKept
  <2>10. runs' \in [Decks -> Seq(Answer)] /\ Len(runs'[d]) = k
    <3> HIDE DEF one
    <3>1. Append(runs[d], one) \in Seq(Answer) /\ Len(Append(runs[d], one)) = k
      BY <2>2, <2>8 DEF one, k
    <3> QED
      BY <2>9, <3>1 DEF LaneKept
  <2> HIDE DEF one
  <2>11. \A e \in Decks : e # d => runs'[e] = runs[e] /\ dir'[e] = dir[e]
    BY <2>1, <2>9 DEF LaneKept
  <2>12. ASSUME k < 2 PROVE dir'[d][OutFile(2)] = NoFile
    <3>1. k = 1 /\ f # OutFile(2)
      BY <2>2, <2>12, TwoFiles DEF f
    <3>2. dir[d][OutFile(2)] = NoFile
      BY <2>2, <3>1 DEF LaneKept, k
    <3> QED
      BY <2>1, <3>1, <3>2, TwoFiles DEF LaneKept
  <2> QED
    BY <2>2, <2>3, <2>7, <2>9, <2>10, <2>11, <2>12 DEF LaneKept
<1>2. CASE UNCHANGED <<mode, dir, runs, left>>
  BY <1>2 DEF LaneKept, OutFile
<1> QED
  BY <1>1, <1>2 DEF LaneNext, laneVars, LaneEnd, TimeOut, Check

LEMMA JudgedStep == LaneKept /\ Judged /\ [LaneNext]_laneVars => Judged'
<1> SUFFICES ASSUME LaneKept, Judged, [LaneNext]_laneVars PROVE Judged'
  OBVIOUS
<1>1. ASSUME NEW d \in Decks, Run(d) PROVE Judged'
  <2>1. \A e \in Decks : e # d => runs'[e] = runs[e]
    BY <1>1 DEF Run, LaneKept
  <2>2. message[d] = "" /\ message' = message /\ mode' = mode
    BY <1>1 DEF Run
  <2>3. \A e \in Decks : e # d => Same(e)' = Same(e)
    BY <2>1, <2>2 DEF Same
  <2> QED
    BY <2>1, <2>2, <2>3 DEF Judged
<1>2. ASSUME NEW d \in Decks, TimeOut(d) \/ Check(d) PROVE Judged'
  <2>1. runs' = runs /\ mode' = mode
    BY <1>2 DEF TimeOut, Check
  <2>2. \A e \in Decks : Same(e)' = Same(e)
    BY <2>1 DEF Same
  <2>3. DOMAIN message' = Decks /\ \A e \in Decks : e # d => message'[e] = message[e]
    BY <1>2 DEF TimeOut, Check, Judged
  <2>4. message'[d] \in {"same", "differs"} =>
          Len(runs[d]) = 2 /\ (message'[d] = "same" <=> Same(d))
    <3>1. CASE TimeOut(d)
      BY <3>1 DEF TimeOut, Judged
    <3>2. CASE Check(d) /\ Same(d)
      BY <3>2 DEF Check, Judged
    <3>3. CASE Check(d) /\ ~Same(d)
      BY <3>3 DEF Check, Judged
    <3> QED
      BY <1>2, <3>1, <3>2, <3>3
  <2> QED
    BY <2>1, <2>2, <2>3, <2>4 DEF Judged
<1>3. CASE UNCHANGED <<mode, runs, message>>
  BY <1>3 DEF Judged, Same
<1> QED
  BY <1>1, <1>2, <1>3 DEF LaneNext, laneVars, LaneEnd

-----------------------------------------------------------------------------
(* Replicas. *)

\* k % n runs through 0..n - 1 again and again.
LEMMA Modulo ==
  ASSUME NEW n \in Nat \ {0}, NEW k \in 0..(n - 1)
  PROVE  /\ k % n = k /\ (n + k) % n = k
         /\ (2 * n + k) % n = k /\ (3 * n + k) % n = k
OBVIOUS

LEMMA EqualSequences ==
  ASSUME NEW D, NEW E, NEW v \in Seq(D), NEW w \in Seq(E),
         Len(v) = Len(w), \A k \in 1..Len(v) : v[k] = w[k]
  PROVE  v = w
<1>1. v = [k \in 1..Len(v) |-> v[k]]
  OBVIOUS
<1>2. w = [k \in 1..Len(w) |-> w[k]]
  OBVIOUS
<1> QED
  BY <1>1, <1>2

\* Plots agree as replicas when their data is that of one point, repeated.
LEMMA ReplicasRepeat ==
  ASSUME NEW S, NEW T, NEW one \in Seq(S), NEW all \in Seq(T)
  PROVE  ReplicasAgree(one, all) <=>
           [k \in DOMAIN all |-> all[k].data] = Replicated([k \in DOMAIN one |-> one[k].data])
<1> DEFINE u == [k \in DOMAIN one |-> one[k].data]
           v == [k \in DOMAIN all |-> all[k].data]
           n == Len(one)
           D == {one[k].data : k \in DOMAIN one}
           E == {all[k].data : k \in DOMAIN all}
<1>1. u \in Seq(D) /\ Len(u) = n /\ n \in Nat
  OBVIOUS
<1>2. v \in Seq(E) /\ Len(v) = Len(all) /\ Len(all) \in Nat
  OBVIOUS
<1>3. DOMAIN one = 1..n /\ DOMAIN all = 1..Len(all)
  OBVIOUS
<1>4. \A k \in 1..n : u[k] = one[k].data
  BY <1>3
<1>5. \A k \in 1..Len(all) : v[k] = all[k].data
  BY <1>3
<1> HIDE DEF u, v, n, D, E
<1> DEFINE w == Replicated(u)
<1>6. w \in Seq(D) /\ Len(w) = 4 * n
  BY <1>1 DEF Replicated
<1>7. ASSUME NEW k \in 1..(4 * n) PROVE w[k] = one[((k - 1) % n) + 1].data
  <2>1. n \in Nat \ {0}
    BY <1>1
  <2>2. CASE k <= n
    <3>1. w[k] = u[k]
      BY <1>1, <2>2 DEF Replicated
    <3>2. k - 1 \in 0..(n - 1)
      BY <2>1, <2>2
    <3>3. (k - 1) % n = k - 1
      BY <2>1, <3>2, Modulo
    <3> QED
      BY <1>1, <1>4, <2>2, <3>1, <3>3
  <2>3. CASE n < k /\ k <= 2 * n
    <3> DEFINE i == k - n
    <3>1. w[k] = u[i]
      BY <1>1, <2>3 DEF Replicated
    <3>2. i - 1 \in 0..(n - 1) /\ n + (i - 1) = k - 1
      BY <2>1, <2>3
    <3>3. (k - 1) % n = i - 1
      BY <2>1, <3>2, Modulo
    <3> QED
      BY <1>1, <1>4, <2>3, <3>1, <3>3
  <2>4. CASE 2 * n < k /\ k <= 3 * n
    <3> DEFINE i == k - 2 * n
    <3>1. w[k] = u[i]
      BY <1>1, <2>4 DEF Replicated
    <3>2. i - 1 \in 0..(n - 1) /\ 2 * n + (i - 1) = k - 1
      BY <2>1, <2>4
    <3>3. (k - 1) % n = i - 1
      BY <2>1, <3>2, Modulo
    <3> QED
      BY <1>1, <1>4, <2>4, <3>1, <3>3
  <2>5. CASE 3 * n < k
    <3> DEFINE i == k - 3 * n
    <3>1. w[k] = u[i]
      BY <1>1, <2>5 DEF Replicated
    <3>2. i - 1 \in 0..(n - 1) /\ 3 * n + (i - 1) = k - 1
      BY <1>1, <2>1, <2>5
    <3>3. (k - 1) % n = i - 1
      BY <2>1, <3>2, Modulo
    <3> QED
      BY <1>1, <1>4, <2>5, <3>1, <3>3
  <2> QED
    BY <1>1, <2>2, <2>3, <2>4, <2>5
<1> HIDE DEF w
<1>8. v = w <=> Len(all) = 4 * n /\ \A k \in 1..Len(all) : v[k] = w[k]
  <2>1. v = w => Len(v) = Len(w)
    OBVIOUS
  <2>2. ASSUME Len(all) = 4 * n, \A k \in 1..Len(all) : v[k] = w[k] PROVE v = w
    BY <1>2, <1>6, <2>2, EqualSequences
  <2> QED
    BY <1>2, <1>6, <2>1, <2>2
<1>9. ReplicasAgree(one, all) <=>
        Len(all) = 4 * n /\ \A k \in 1..Len(all) : all[k].data = one[((k - 1) % n) + 1].data
  BY <1>3 DEF ReplicasAgree, Replicas, n
<1>10. v = w <=> ReplicasAgree(one, all)
  BY <1>5, <1>7, <1>8, <1>9
<1> QED
  BY <1>10 DEF u, v, w

LEMMA PlotsAreSequences == \A raw \in File : \E S : Plots(raw) \in Seq(S)
<1> TAKE raw \in File
<1>1. CASE raw = NoFile
  BY <1>1 DEF Plots
<1>2. CASE raw # NoFile
  BY <1>2, LaneAssumption DEF Plots, File
<1> QED
  BY <1>1, <1>2

\* A deck passes the lane gate exactly when what its two runs left agrees:
\* the same code and bytes, or one point's data repeated once per replica.
THEOREM GateIsTrue == LaneSpec => []GateComparesRuns
<1>1. LaneInit => LaneKept /\ Judged
  <2> SUFFICES ASSUME LaneInit PROVE LaneKept /\ Judged
    OBVIOUS
  <2>1. NoFile \in File
    BY DEF File
  <2>2. \A k \in {1, 2} : OutFile(k) \in {"out0", "out1", "out0old"}
    BY TwoFiles
  <2>3. dir \in [Decks -> [{"out0", "out1", "out0old"} -> File]]
    BY <2>1 DEF LaneInit
  <2>4. runs \in [Decks -> Seq(Answer)] /\ left = runs /\ \A d \in Decks : Len(runs[d]) = 0
    <3>1. <<>> \in Seq(Answer) /\ Len(<<>>) = 0
      OBVIOUS
    <3> HIDE DEF Answer
    <3> QED
      BY <3>1 DEF LaneInit
  <2>5. \A d \in Decks : \A k \in {1, 2} : dir[d][OutFile(k)] = NoFile
    BY <2>2 DEF LaneInit
  <2>6. DOMAIN message = Decks /\ \A d \in Decks : message[d] = ""
    BY DEF LaneInit
  <2>7. LaneKept
    BY <2>3, <2>4, <2>5 DEF LaneKept
  <2>8. Judged
    BY <2>6 DEF Judged
  <2> QED
    BY <2>7, <2>8
<1>2. LaneKept /\ Judged => GateComparesRuns
  <2> SUFFICES ASSUME LaneKept, Judged, NEW d \in Decks, message[d] \in {"same", "differs"}
               PROVE  LET a == left[d][1]  b == left[d][2]
                      IN message[d] = "same" <=>
                           IF mode = "replicate"
                           THEN a.rc # 0 \/ Values(b.raw) = Replicated(Values(a.raw))
                           ELSE a.rc = b.rc /\ Plots(a.raw) = Plots(b.raw)
    BY DEF GateComparesRuns
  <2> DEFINE a == left[d][1]
             b == left[d][2]
  <2>1. a = runs[d][1] /\ b = runs[d][2] /\ (message[d] = "same" <=> Same(d))
    BY DEF LaneKept, Judged
  <2>2. a.raw \in File /\ b.raw \in File
    <3>1. runs[d] \in Seq(Answer) /\ Len(runs[d]) = 2
      BY DEF LaneKept, Judged
    <3>2. runs[d][1] \in Answer /\ runs[d][2] \in Answer
      BY <3>1
    <3> QED
      BY <2>1, <3>2 DEF Answer
  <2>3. PICK S, T : Plots(a.raw) \in Seq(S) /\ Plots(b.raw) \in Seq(T)
    BY <2>2, PlotsAreSequences
  <2>4. ReplicasAgree(Plots(a.raw), Plots(b.raw)) <=> Values(b.raw) = Replicated(Values(a.raw))
    BY <2>3, ReplicasRepeat DEF Values
  <2> QED
    BY <2>1, <2>4 DEF Same
<1> QED
  BY <1>1, <1>2, LaneKeptStep, JudgedStep, PTL DEF LaneSpec

-----------------------------------------------------------------------------
(* The GPU lane gate. *)

\* A function to integers takes its largest value on a finite set.
LEMMA Highest ==
  ASSUME NEW S, IsFiniteSet(S), S # {}, NEW f \in [S -> Int]
  PROVE  \E i \in S : \A j \in S : f[j] <= f[i]
<1> DEFINE From(i) == {j \in S : f[j] >= f[i]}
           T == {From(i) : i \in S}
<1>1. IsWellFoundedOn(StrictSubsetOrdering(S), SUBSET S)
  BY FS_StrictSubsetOrderingWellFounded, FS_FiniteSubsetsOfFinite
<1>2. T \subseteq SUBSET S /\ T # {}
  <2>1. \A i \in S : From(i) \subseteq S
    OBVIOUS
  <2> HIDE DEF From
  <2> QED
    BY <2>1
<1>3. PICK u \in T : \A y \in T : ~(<<y, u>> \in StrictSubsetOrdering(S))
  <2> HIDE DEF T
  <2> QED
    BY <1>1, <1>2, WFMin
<1>4. PICK i \in S : u = From(i)
  BY <1>3
<1>5. ASSUME NEW j \in S, ~(f[j] <= f[i]) PROVE FALSE
  <2>1. f[i] \in Int /\ f[j] \in Int
    OBVIOUS
  <2>2. From(j) \subseteq From(i) /\ i \in From(i) /\ i \notin From(j)
    BY <1>5, <2>1
  <2>3. From(j) \in T /\ From(j) \subseteq S /\ From(i) \subseteq S
    OBVIOUS
  <2> HIDE DEF From, T
  <2>4. <<From(j), u>> \in StrictSubsetOrdering(S)
    BY <1>4, <2>2, <2>3 DEF StrictSubsetOrdering
  <2> QED
    BY <1>3, <2>3, <2>4
<1> QED
  BY <1>5

LEMMA LowestIn ==
  ASSUME NEW S \in SUBSET Nat, IsFiniteSet(S), S # {}
  PROVE  Min(S) \in S
<1> DEFINE f == [k \in S |-> -k]
<1>1. PICK i \in S : \A j \in S : f[j] <= f[i]
  <2>1. f \in [S -> Int]
    OBVIOUS
  <2> HIDE DEF f
  <2> QED
    BY <2>1, Highest
<1>2. \A j \in S : i <= j
  BY <1>1
<1> QED
  BY <1>2 DEF Min

\* The peak of a column.
LEMMA PeakType ==
  ASSUME NEW y \in Seq(Sample)
  PROVE  Largest(y) \in Nat \union {NaN}
<1> DEFINE D == {i \in DOMAIN y : y[i] # NaN}
           S == {0} \union {Magnitude(y[i]) : i \in D}
           f == [i \in D |-> Magnitude(y[i])]
<1>1. \A i \in D : y[i] \in Int
  BY DEF Sample
<1>2. \A i \in D : Magnitude(y[i]) \in Nat
  BY <1>1 DEF Magnitude
<1>3. IsFiniteSet(D)
  <2>1. DOMAIN y = 1..Len(y) /\ Len(y) \in Nat
    OBVIOUS
  <2>2. IsFiniteSet(1..Len(y))
    BY <2>1, FS_Interval
  <2> QED
    BY <2>1, <2>2, FS_Subset
<1>4. CASE y # <<>> /\ y[1] = NaN
  BY <1>4 DEF Largest
<1>5. CASE ~(y # <<>> /\ y[1] = NaN)
  <2>1. Largest(y) = Max(S)
    BY <1>5 DEF Largest
  <2> HIDE DEF D
  <2>2. \E m \in S : \A x \in S : m >= x
    <3>1. CASE D = {}
      BY <3>1
    <3>2. CASE D # {}
      <4>1. f \in [D -> Int]
        BY <1>2
      <4> HIDE DEF f
      <4>2. PICK i \in D : \A j \in D : f[j] <= f[i]
        BY <1>3, <3>2, <4>1, Highest
      <4> USE DEF f
      <4>3. \A j \in D : Magnitude(y[i]) >= Magnitude(y[j])
        BY <1>2, <4>2
      <4> QED
        BY <1>2, <4>3
    <3> QED
      BY <3>1, <3>2
  <2>3. S \subseteq Nat
    BY <1>2
  <2> HIDE DEF S
  <2>4. Max(S) \in S
    BY <2>2 DEF Max
  <2> QED
    BY <2>1, <2>3, <2>4
<1> QED
  BY <1>4, <1>5

Ascends(t) == \A i, j \in DOMAIN t : i < j => t[i] < t[j]

\* On an ascending grid the samples before `at' are the first ones.
LEMMA FirstOnes ==
  ASSUME NEW t \in Seq(Int), Ascends(t), NEW at \in Int
  PROVE  /\ Before(t, at) \in 0..Len(t)
         /\ \A i \in DOMAIN t : t[i] < at <=> i <= Before(t, at)
<1> DEFINE S == {i \in DOMAIN t : t[i] < at}
<1>1. DOMAIN t = 1..Len(t) /\ Len(t) \in Nat /\ \A i \in DOMAIN t : t[i] \in Int
  OBVIOUS
<1>2. S \subseteq 1..Len(t) /\ Before(t, at) = Cardinality(S)
  BY <1>1 DEF Before
<1>3. \A i \in DOMAIN t : i \in S <=> t[i] < at
  OBVIOUS
<1> HIDE DEF S
<1>4. CASE S = {}
  <2>1. Before(t, at) = 0
    BY <1>2, <1>4, FS_EmptySet
  <2> QED
    BY <1>1, <1>3, <1>4, <2>1
<1>5. CASE S # {}
  <2> DEFINE f == [i \in S |-> i]
  <2>1. PICK m \in S : \A j \in S : j <= m
    <3>1. f \in [S -> Int]
      BY <1>2
    <3>2. IsFiniteSet(S)
      <4>1. IsFiniteSet(1..Len(t))
        BY <1>1, FS_Interval
      <4> QED
        BY <1>2, <4>1, FS_Subset
    <3> HIDE DEF f
    <3>3. PICK m \in S : \A j \in S : f[j] <= f[m]
      BY <1>5, <3>1, <3>2, Highest
    <3>4. \A j \in S : j <= m
      BY <3>3 DEF f
    <3> QED
      BY <3>4
  <2>2. m \in 1..Len(t) /\ \A i \in 1..m : t[i] < at
    <3>1. m \in DOMAIN t /\ t[m] < at
      BY <1>1, <1>2, <1>3
    <3>2. \A i \in 1..m : i \in DOMAIN t /\ (i < m \/ i = m)
      BY <1>1, <3>1
    <3> QED
      BY <1>1, <3>1, <3>2 DEF Ascends
  <2>3. S = 1..m
    <3>1. \A i \in 1..m : i \in DOMAIN t /\ t[i] < at
      BY <1>1, <2>2
    <3>2. 1..m \subseteq S
      BY <1>3, <3>1
    <3>3. S \subseteq 1..m
      BY <1>2, <2>1, <2>2
    <3> QED
      BY <3>2, <3>3
  <2>4. Cardinality(1..m) = m
    BY <1>1, <2>2, FS_Interval
  <2>5. Before(t, at) = m
    BY <1>2, <2>3, <2>4
  <2> QED
    BY <1>1, <1>3, <2>2, <2>3, <2>5
<1> QED
  BY <1>4, <1>5

\* On the grid, interp gives the sample.
LEMMA OnGrid ==
  ASSUME NEW t \in Seq(Int), Ascends(t), NEW y, NEW i \in DOMAIN t
  PROVE  Interp(t, y, t[i]) = <<y[i], 1>>
<1> DEFINE p == Before(t, t[i])
<1>1. DOMAIN t = 1..Len(t) /\ Len(t) \in Nat /\ t[i] \in Int
  OBVIOUS
<1>2. p \in 0..Len(t) /\ \A j \in DOMAIN t : t[j] < t[i] <=> j <= p
  BY <1>1, FirstOnes
<1> HIDE DEF p
<1>3. p + 1 = i
  <2>1. i > p
    BY <1>1, <1>2
  <2>2. \A j \in 1..(i - 1) : j <= p
    BY <1>1, <1>2 DEF Ascends
  <2> QED
    BY <1>1, <1>2, <2>1, <2>2
<1> QED
  BY <1>1, <1>3 DEF Interp, p

\* Samples, all numbers, of the straight waveform (o + s * t) / f.
Straight(t, y, s, o, f) ==
  \A i \in DOMAIN t : y[i] \in Int /\ f * y[i] = o + s * t[i]

\* A transient's columns, and a value read off them on that waveform.
Column(t, y) == t \in Seq(Int) /\ Ascends(t) /\ t # <<>> /\ Len(y) = Len(t)
Reads(got, at, s, o, f) ==
  got[1] \in Int /\ got[2] \in Nat \ {0} /\ f * got[1] = (o + s * at) * got[2]

\* The line between two samples of a straight waveform is the waveform.
LEMMA ChordReads ==
  ASSUME NEW a \in Int, NEW b \in Int, NEW x \in Int, a < b,
         NEW v \in Int, NEW w \in Int, NEW s \in Int, NEW o \in Int, NEW f \in Int,
         f * v = o + s * a, f * w = o + s * b
  PROVE  Reads(Chord(a, v, b, w, x), x, s, o, f)
<1> DEFINE got == v * (b - a) + (x - a) * (w - v)
<1>1. v # NaN /\ w # NaN
  BY GpuAssumption
<1>2. Chord(a, v, b, w, x) = <<got, b - a>>
  BY <1>1 DEF Chord
<1>3. f * got = (f * v) * (b - a) + (x - a) * (f * w - f * v)
  OBVIOUS
<1>4. f * got = (o + s * a) * (b - a) + (x - a) * ((o + s * b) - (o + s * a))
  BY <1>3
<1>5. (o + s * a) * (b - a) + (x - a) * ((o + s * b) - (o + s * a)) = (o + s * x) * (b - a)
  OBVIOUS
<1>6. got \in Int /\ b - a \in Nat \ {0} /\ f * got = (o + s * x) * (b - a)
  BY <1>4, <1>5
<1> HIDE DEF got
<1> QED
  BY <1>2, <1>6 DEF Reads

\* Between its ends, any grid gives a straight waveform exactly.
LEMMA OnLine ==
  ASSUME NEW t, NEW y, Column(t, y), NEW s \in Int, NEW o \in Int, NEW f \in Int,
         Straight(t, y, s, o, f), NEW at \in Int, t[1] <= at, at <= t[Len(t)]
  PROVE  Reads(Interp(t, y, at), at, s, o, f)
<1> DEFINE p == Before(t, at)
           n == Len(t)
<1>1. /\ t \in Seq(Int) /\ Ascends(t)
      /\ DOMAIN t = 1..n /\ n \in Nat \ {0} /\ \A i \in 1..n : t[i] \in Int
  BY DEF Column
<1>2. p \in 0..n /\ \A i \in 1..n : t[i] < at <=> i <= p
  BY <1>1, FirstOnes
<1>0. t[1] <= at /\ at <= t[n] /\ \A i \in 1..n : y[i] \in Int /\ f * y[i] = o + s * t[i]
  BY <1>1 DEF Straight
<1>3. p + 1 \in 1..n /\ at <= t[p + 1]
  <2>1. ~(n <= p)
    <3>1. n \in 1..n /\ t[n] \in Int
      BY <1>1
    <3> QED
      BY <1>0, <1>2, <3>1
  <2>2. p + 1 \in 1..n /\ ~(p + 1 <= p)
    BY <1>1, <1>2, <2>1
  <2>3. ~(t[p + 1] < at)
    BY <1>2, <2>2
  <2> QED
    BY <1>1, <2>2, <2>3
<1> HIDE DEF p, n
<1>4. CASE t[p + 1] = at
  <2>1. Interp(t, y, at) = <<y[p + 1], 1>>
    BY <1>1, <1>2, <1>3, <1>4 DEF Interp, p, n
  <2>2. y[p + 1] \in Int /\ f * y[p + 1] = o + s * at
    BY <1>3, <1>4, <1>0
  <2>3. f * y[p + 1] = (o + s * at) * 1
    BY <2>2
  <2> QED
    BY <2>1, <2>2, <2>3 DEF Reads
<1>5. CASE t[p + 1] # at
  <2>1. p \in 1..n /\ t[p] < at
    <3>1. p # 0
      <4>1. p = 0 => t[p + 1] <= at
        BY <1>0
      <4> QED
        BY <1>1, <1>3, <1>5, <4>1
    <3>2. p \in 1..n /\ p <= p
      BY <1>1, <1>2, <3>1
    <3> QED
      BY <1>2, <3>2
  <2> DEFINE a == t[p]
             b == t[p + 1]
  <2>2. Interp(t, y, at) = Chord(a, y[p], b, y[p + 1], at)
    <3> DEFINE k == Before(t, at) + 1
    <3>1. k <= Len(t) /\ t[k] # at /\ k # 1 /\ ~(k > Len(t)) /\ k - 1 = p /\ k = p + 1
      <4>1. k = p + 1
        BY DEF p
      <4> HIDE DEF k
      <4>2. k \in 1..n /\ k - 1 = p /\ k # 1
        BY <1>1, <1>3, <2>1, <4>1
      <4> QED
        BY <1>1, <1>5, <4>1, <4>2 DEF n
    <3>2. Interp(t, y, at) = Chord(t[k - 1], y[k - 1], t[k], y[k], at)
      <4> HIDE DEF k
      <4>1. Interp(t, y, at) =
              IF k <= Len(t) /\ t[k] = at THEN <<y[k], 1>>
              ELSE IF k = 1 THEN <<y[1], 1>>
              ELSE IF k > Len(t) THEN <<y[Len(y)], 1>>
              ELSE Chord(t[k - 1], y[k - 1], t[k], y[k], at)
        BY Zenon DEF Interp, k
      <4> QED
        BY <3>1, <4>1
    <3> HIDE DEF k
    <3> QED
      BY <3>1, <3>2, Zenon
  <2>3. /\ y[p] \in Int /\ f * y[p] = o + s * a
        /\ y[p + 1] \in Int /\ f * y[p + 1] = o + s * b
    BY <1>3, <1>0, <2>1
  <2>4. a \in Int /\ b \in Int /\ a < b
    BY <1>1, <1>3, <2>1
  <2> HIDE DEF a, b
  <2>5. Reads(Chord(a, y[p], b, y[p + 1], at), at, s, o, f)
    BY <2>3, <2>4, ChordReads
  <2> QED
    BY <2>2, <2>5, Zenon
<1> QED
  BY <1>4, <1>5

\* What reads as the waveform and a sample of it differ by nothing.
LEMMA ReadsSame ==
  ASSUME NEW at \in Int, NEW s \in Int, NEW o \in Int, NEW f \in Nat \ {0},
         NEW got, Reads(got, at, s, o, f), NEW want \in Int, f * want = o + s * at
  PROVE  got[2] \in Nat /\ got[1] - want * got[2] = 0
<1> DEFINE v == got[1]
           d == got[2]
<1>1. v \in Int /\ d \in Nat /\ f * v = (o + s * at) * d
  BY DEF Reads
<1> HIDE DEF v, d
<1>2. f * v = (f * want) * d
  BY <1>1
<1> DEFINE x == v - want * d
<1>3. x \in Int /\ f * x = 0
  BY <1>1, <1>2
<1> HIDE DEF x
<1>4. x = 0
  <2>1. x >= 1 => f * x >= 1
    BY <1>3
  <2>2. x <= -1 => f * x <= -1
    BY <1>3
  <2> QED
    BY <1>3, <2>1, <2>2
<1> QED
  BY <1>1, <1>4 DEF x, v, d

-----------------------------------------------------------------------------
(* The judgement. *)

\* Numbers whose difference n divides leave the same remainder.
LEMMA SameRemainder ==
  ASSUME NEW n \in Nat \ {0}, NEW x \in Nat, NEW z \in Nat, (z - x) % n = 0
  PROVE  x % n = z % n
<1>1. x = n * (x \div n) + (x % n) /\ x % n \in 0..(n - 1) /\ x \div n \in Int
  OBVIOUS
<1>2. z = n * (z \div n) + (z % n) /\ z % n \in 0..(n - 1) /\ z \div n \in Int
  OBVIOUS
<1>3. PICK q \in Int : z - x = n * q
  <2>1. z - x = n * ((z - x) \div n) + ((z - x) % n) /\ (z - x) \div n \in Int
    OBVIOUS
  <2> QED
    BY <2>1
<1> DEFINE d == q - (z \div n) + (x \div n)
<1>4. d \in Int /\ (z % n) - (x % n) = n * d
  BY <1>1, <1>2, <1>3
<1> HIDE DEF d
<1>5. d = 0
  <2>1. n * d < n /\ -n < n * d
    BY <1>1, <1>2, <1>4
  <2>2. d >= 1 => n * d >= n
    BY <1>4
  <2>3. d <= -1 => n * d <= -n
    BY <1>4
  <2> QED
    BY <1>4, <2>1, <2>2, <2>3
<1> QED
  BY <1>1, <1>2, <1>4, <1>5

LEMMA JudgedClose ==
  ASSUME NEW g, NEW c, Judge(g, c) = "close"
  PROVE  /\ g.rc = c.rc /\ Len(g.plots) = Len(c.plots)
         /\ \A k \in DOMAIN c.plots : c.plots[k].tran =>
              ~Differs(g.plots, Per(c), k) /\ ~FarPlot(g.plots[k], c.plots[k])
<1>1. g.rc = c.rc /\ Len(g.plots) = Len(c.plots) /\ Misses(g, c) = {}
  BY DEF Judge
<1> QED
  BY <1>1 DEF Misses

LEMMA JudgedFar ==
  ASSUME NEW g, NEW c, c.plots \in Seq(Range(c.plots)), Judge(g, c) = "far"
  PROVE  /\ Len(g.plots) = Len(c.plots)
         /\ \E k \in DOMAIN c.plots : c.plots[k].tran /\ FarPlot(g.plots[k], c.plots[k])
<1> DEFINE k == Min(Misses(g, c))
<1>1. /\ Len(g.plots) = Len(c.plots) /\ Misses(g, c) # {}
      /\ ~Differs(g.plots, Per(c), k)
  BY DEF Judge
<1>2. k \in Misses(g, c)
  <2>1. DOMAIN c.plots = 1..Len(c.plots) /\ Len(c.plots) \in Nat
    OBVIOUS
  <2>2. IsFiniteSet(1..Len(c.plots)) /\ 1..Len(c.plots) \subseteq Nat
    BY <2>1, FS_Interval
  <2>3. Misses(g, c) \subseteq 1..Len(c.plots)
    BY <2>1 DEF Misses
  <2>4. IsFiniteSet(Misses(g, c))
    BY <2>2, <2>3, FS_Subset
  <2> QED
    BY <1>1, <2>2, <2>3, <2>4, LowestIn
<1> QED
  BY <1>1, <1>2 DEF Misses

LEMMA Portions ==
  ASSUME NEW l \in Nat, NEW r \in Nat, r > 0, l = (l \div r) * r
  PROVE  /\ l \div r \in Nat /\ l % r = 0
         /\ l # 0 => l \div r # 0
<1>1. l = r * (l \div r) + (l % r) /\ l \div r \in Int /\ l % r \in 0..(r - 1)
  OBVIOUS
<1> DEFINE q == l \div r
<1>2. q \in Int /\ l = q * r
  BY <1>1
<1>3. l % r = 0
  BY <1>1, <1>2
<1> HIDE DEF q
<1>4. ~(q <= -1)
  <2>1. q <= -1 => q * r <= -r
    BY <1>2
  <2> QED
    BY <1>2, <2>1
<1>5. q = 0 => l = 0
  BY <1>2
<1> QED
  BY <1>2, <1>3, <1>4, <1>5 DEF q

\* The first n plots are those of replica 0.
LEMMA FirstReplica ==
  ASSUME NEW n \in Nat \ {0}, NEW i \in Nat, i >= 1, ~(i > n)
  PROVE  ((i - 1) % n) + 1 = i
<1>1. i - 1 \in 0..(n - 1)
  OBVIOUS
<1>2. (i - 1) % n = i - 1
  BY <1>1, Modulo
<1> QED
  BY <1>2

\* No replica of a transient is judged to differ, at n plots a replica.
Uniform(c, pg, n) ==
  /\ DOMAIN c \subseteq Nat \ {0}
  /\ \A k \in DOMAIN c : c[k].tran => ~Differs(pg, n, k)
Aligned(k, m, n) == (m - k) % n = 0

\* Plots of replicas that are not judged to differ are equal.
LEMMA ReplicasEqual ==
  ASSUME NEW c, NEW pg, NEW n \in Nat \ {0}, Uniform(c, pg, n),
         NEW k \in DOMAIN c, c[k].tran, NEW m \in DOMAIN c, c[m].tran, Aligned(k, m, n)
  PROVE  pg[k] = pg[m]
<1>1. \A i \in DOMAIN c : c[i].tran => pg[i] = pg[((i - 1) % n) + 1]
  <2> TAKE i \in DOMAIN c
  <2> HAVE c[i].tran
  <2>1. i \in Nat /\ i >= 1 /\ ~Differs(pg, n, i)
    BY DEF Uniform
  <2>2. CASE i > n
    BY <2>1, <2>2 DEF Differs
  <2>3. CASE ~(i > n)
    <3>1. ((i - 1) % n) + 1 = i
      BY <2>1, <2>3, FirstReplica
    <3> QED
      BY <3>1, Zenon
  <2> QED
    BY <2>2, <2>3
<1>2. (k - 1) % n = (m - 1) % n
  <2>1. k - 1 \in Nat /\ m - 1 \in Nat /\ (m - 1) - (k - 1) = m - k
    BY DEF Uniform
  <2>2. ((m - 1) - (k - 1)) % n = 0
    BY <2>1 DEF Aligned
  <2> QED
    BY <2>1, <2>2, SameRemainder
<1> QED
  BY <1>1, <1>2

-----------------------------------------------------------------------------
(* The invariant, and the gate. *)

\* A verdict is that of the two answers.
GpuKept ==
  /\ gpu \in [DOMAIN GpuDecks -> {<<>>} \union {<<a>> : a \in GpuRuns}]
  /\ cpu \in [DOMAIN GpuDecks -> {<<>>} \union {<<a>> : a \in CpuRuns}]
  /\ DOMAIN judged = DOMAIN GpuDecks
  /\ \A d \in DOMAIN GpuDecks : cpu[d] # <<>> => gpu[d] # <<>>
  /\ \A d \in DOMAIN GpuDecks : judged[d] \notin {"", "ineligible"} =>
       cpu[d] # <<>> /\ judged[d] = Judge(gpu[d][1], cpu[d][1])

LEMMA GpuKeptStep == GpuKept /\ [GpuNext]_gpuVars => GpuKept'
<1> SUFFICES ASSUME GpuKept, [GpuNext]_gpuVars PROVE GpuKept'
  OBVIOUS
<1>1. ASSUME NEW d \in DOMAIN GpuDecks, RunGpu(d) PROVE GpuKept'
  <2>1. PICK a \in GpuRuns : /\ gpu' = [gpu EXCEPT ![d] = <<a>>]
                             /\ judged' = [judged EXCEPT ![d] = IF a.lanes THEN "" ELSE "ineligible"]
    BY <1>1 DEF RunGpu
  <2>2. gpu' \in [DOMAIN GpuDecks -> {<<>>} \union {<<b>> : b \in GpuRuns}]
    BY <2>1 DEF GpuKept
  <2>3. gpu'[d] # <<>> /\ judged'[d] \in {"", "ineligible"} /\ DOMAIN judged' = DOMAIN GpuDecks
    BY <2>1 DEF GpuKept
  <2>4. cpu' = cpu
    BY <1>1 DEF RunGpu
  <2>5. \A e \in DOMAIN GpuDecks : e # d => judged'[e] = judged[e] /\ gpu'[e] = gpu[e]
    BY <2>1 DEF GpuKept
  <2> QED
    BY <2>2, <2>3, <2>4, <2>5 DEF GpuKept
<1>2. ASSUME NEW d \in DOMAIN GpuDecks, RunCpu(d) PROVE GpuKept'
  <2>1. PICK a \in CpuRuns : cpu' = [cpu EXCEPT ![d] = <<a>>]
    BY <1>2 DEF RunCpu
  <2>2. gpu[d] # <<>> /\ judged[d] = "" /\ gpu' = gpu /\ judged' = judged
    BY <1>2 DEF RunCpu
  <2>3. cpu' \in [DOMAIN GpuDecks -> {<<>>} \union {<<b>> : b \in CpuRuns}]
    BY <2>1 DEF GpuKept
  <2>4. \A e \in DOMAIN GpuDecks : e # d => cpu'[e] = cpu[e]
    BY <2>1 DEF GpuKept
  <2> QED
    BY <2>2, <2>3, <2>4 DEF GpuKept
<1>3. ASSUME NEW d \in DOMAIN GpuDecks, JudgeDeck(d) PROVE GpuKept'
  <2>1. /\ judged[d] = "" /\ cpu[d] # <<>> /\ gpu' = gpu /\ cpu' = cpu
        /\ judged' = [judged EXCEPT ![d] = Judge(gpu[d][1], cpu[d][1])]
    BY <1>3 DEF JudgeDeck
  <2> QED
    BY <2>1 DEF GpuKept
<1>4. CASE UNCHANGED <<gpu, cpu, judged>>
  BY <1>4 DEF GpuKept
<1> QED
  BY <1>1, <1>2, <1>3, <1>4 DEF GpuNext, gpuVars, GpuEnd

LEMMA AnswerTypes ==
  ASSUME NEW ga \in GpuRuns, NEW ca \in CpuRuns, Len(ga.plots) = Len(ca.plots)
  PROVE  /\ ca.plots \in Seq(Range(ca.plots))
         /\ Len(ca.plots) \in Nat /\ DOMAIN ca.plots = 1..Len(ca.plots)
         /\ DOMAIN ga.plots = DOMAIN ca.plots
         /\ \A k \in DOMAIN ca.plots :
              WellFormed(ga.plots[k]) /\ WellFormed(ca.plots[k]) /\ ga.plots[k].tran = ca.plots[k].tran
<1>1. /\ ga.plots \in Seq(Range(ga.plots)) /\ ca.plots \in Seq(Range(ca.plots))
      /\ \A k \in DOMAIN ga.plots : WellFormed(ga.plots[k])
      /\ \A k \in DOMAIN ca.plots : WellFormed(ca.plots[k])
      /\ \A k \in DOMAIN ca.plots : ga.plots[k].tran = ca.plots[k].tran
  <2>1. ga \in GpuRuns \union CpuRuns /\ ca \in GpuRuns \union CpuRuns
    OBVIOUS
  <2> QED
    BY <2>1, GpuAssumption, Zenon
<1> DEFINE g == ga.plots
           c == ca.plots
<1>2. g \in Seq(Range(g)) /\ c \in Seq(Range(c)) /\ Len(g) = Len(c)
  BY <1>1
<1> HIDE DEF g, c
<1>3. Len(c) \in Nat /\ DOMAIN c = 1..Len(c) /\ DOMAIN g = DOMAIN c
  BY <1>2
<1> USE DEF g, c
<1> QED
  BY <1>1, <1>3

\* A plot that is not far is close wherever the grids meet.
LEMMA NotFar ==
  ASSUME NEW p, NEW q, WellFormed(p), WellFormed(q), p.tran, ~FarPlot(p, q),
         NEW i \in DOMAIN p.t, NEW j \in DOMAIN q.t, p.t[i] = q.t[j],
         NaN \notin {p.y[i], q.y[j], Largest(q.y)}
  PROVE  PerMil * Magnitude(p.y[i] - q.y[j]) <= Magnitude(q.y[j]) + Largest(q.y)
<1> DEFINE y == p.y[i]
           w == q.y[j]
           peak == Largest(q.y)
<1>1. ~Beyond(Interp(p.t, p.y, q.t[j]), w, peak)
  BY DEF FarPlot
<1>2. Interp(p.t, p.y, p.t[i]) = <<y, 1>>
  <2>1. p.t \in Seq(Int) /\ Ascends(p.t)
    BY DEF WellFormed, Ascends
  <2> QED
    BY <2>1, OnGrid
<1>3. ~Beyond(<<y, 1>>, w, peak)
  BY <1>1, <1>2
<1>4. y \in Int /\ w \in Int
  <2>1. DOMAIN p.t = DOMAIN p.y /\ DOMAIN q.t = DOMAIN q.y
    BY DEF WellFormed
  <2> QED
    BY <2>1 DEF WellFormed, Sample
<1>5. peak \in Nat
  BY PeakType DEF WellFormed
<1>9. NaN \notin {y, w, peak}
  OBVIOUS
<1> HIDE DEF y, w, peak
<1>6. ~(Magnitude(y - w * 1) * 1000 > (Magnitude(w) + peak) * 1)
  BY <1>3, <1>9 DEF Beyond, PerMil
<1>7. Magnitude(y - w) \in Int /\ Magnitude(w) \in Int /\ w * 1 = w
  BY <1>4 DEF Magnitude
<1>8. 1000 * Magnitude(y - w) <= Magnitude(w) + peak
  BY <1>5, <1>6, <1>7
<1> QED
  BY <1>8 DEF y, w, peak, PerMil

\* Samples on the line between two of them are those of one waveform.
LEMMA LineIsStraight ==
  ASSUME NEW p, NEW q, NEW n, n = Len(p.t), p.t[1] \in Int, p.t[n] \in Int,
         p.y[1] \in Int, p.y[n] \in Int,
         \A i \in DOMAIN q.t : q.t[i] \in Int /\ q.y[i] \in Sample,
         OnLineOf(p, q)
  PROVE  LET f == p.t[n] - p.t[1]  s == p.y[n] - p.y[1]
         IN Straight(q.t, q.y, s, f * p.y[1] - s * p.t[1], f)
<1> DEFINE f == p.t[n] - p.t[1]
           s == p.y[n] - p.y[1]
<1> SUFFICES ASSUME NEW i \in DOMAIN q.t
             PROVE  q.y[i] \in Int /\ f * q.y[i] = (f * p.y[1] - s * p.t[1]) + s * q.t[i]
  BY DEF Straight
<1>1. q.y[i] # NaN /\ (q.y[i] - p.y[1]) * f = s * (q.t[i] - p.t[1])
  BY DEF OnLineOf
<1>2. q.y[i] \in Int /\ q.t[i] \in Int /\ f \in Int /\ s \in Int
  BY <1>1 DEF Sample
<1> DEFINE v == q.y[i]
           x == q.t[i]
           v0 == p.y[1]
           x0 == p.t[1]
<1>3. v \in Int /\ x \in Int /\ v0 \in Int /\ x0 \in Int /\ (v - v0) * f = s * (x - x0)
  BY <1>1, <1>2
<1> HIDE DEF f, s, v, x, v0, x0
<1>4. f * v = (f * v0 - s * x0) + s * x
  BY <1>2, <1>3
<1> QED
  BY <1>3, <1>4 DEF v, x, v0, x0

\* A grid of a transient, its ends among its samples.
LEMMA GridEnds ==
  ASSUME NEW p, WellFormed(p), p.tran
  PROVE  /\ Column(p.t, p.y) /\ Len(p.t) \in Nat \ {0} /\ DOMAIN p.t = 1..Len(p.t)
         /\ \A i \in DOMAIN p.t : /\ p.t[i] \in Int /\ p.y[i] \in Sample
                                  /\ p.t[1] <= p.t[i] /\ p.t[i] <= p.t[Len(p.t)]
<1> DEFINE t == p.t
           y == p.y
<1>1. t \in Seq(Int) /\ y \in Seq(Sample) /\ Ascends(t) /\ t # <<>> /\ Len(y) = Len(t)
  BY DEF WellFormed, Ascends
<1> HIDE DEF t, y
<1>2. Len(t) \in Nat \ {0} /\ DOMAIN t = 1..Len(t) /\ DOMAIN y = 1..Len(t)
  BY <1>1
<1>3. ASSUME NEW i \in DOMAIN t
      PROVE  t[i] \in Int /\ y[i] \in Sample /\ t[1] <= t[i] /\ t[i] <= t[Len(t)]
  <2>1. /\ 1 \in DOMAIN t /\ Len(t) \in DOMAIN t /\ (i = 1 \/ 1 < i) /\ (i = Len(t) \/ i < Len(t))
        /\ t[i] \in Int /\ t[1] \in Int /\ t[Len(t)] \in Int /\ y[i] \in Sample
    BY <1>1, <1>2, <1>3
  <2>2. i = 1 \/ t[1] < t[i]
    BY <1>1, <1>3, <2>1 DEF Ascends
  <2>3. i = Len(t) \/ t[i] < t[Len(t)]
    BY <1>1, <1>3, <2>1 DEF Ascends
  <2> QED
    BY <2>1, <2>2, <2>3
<1>4. Column(t, y)
  BY <1>1 DEF Column
<1> QED
  BY <1>2, <1>3, <1>4 DEF t, y

\* Two grids over one straight waveform are not far apart.
LEMMA StraightIsClose ==
  ASSUME NEW p, NEW q, WellFormed(p), WellFormed(q), p.tran, q.tran, OneLine(p, q)
  PROVE  ~FarPlot(p, q)
<1> DEFINE n == Len(p.t)
           f == p.t[n] - p.t[1]
           s == p.y[n] - p.y[1]
           o == f * p.y[1] - s * p.t[1]
<1>1. /\ 1 \in DOMAIN p.t /\ n \in DOMAIN p.t
      /\ \A i \in DOMAIN p.t : p.t[i] \in Int /\ p.y[i] \in Sample
      /\ \A i \in DOMAIN q.t : /\ q.t[i] \in Int /\ q.y[i] \in Sample
                               /\ q.t[1] <= q.t[i] /\ q.t[i] <= q.t[Len(q.t)]
      /\ Column(p.t, p.y)
  <2>1. n \in Nat \ {0} /\ DOMAIN p.t = 1..n
    BY GridEnds
  <2> QED
    BY <2>1, GridEnds
<1>2. /\ p.t[1] < p.t[n] /\ p.t[1] = q.t[1] /\ p.t[n] = q.t[Len(q.t)]
      /\ p.y[1] # NaN /\ p.y[n] # NaN /\ OnLineOf(p, p) /\ OnLineOf(p, q)
  BY DEF OneLine
<1>3. p.t[1] \in Int /\ p.t[n] \in Int /\ p.y[1] \in Int /\ p.y[n] \in Int
  BY <1>1, <1>2 DEF Sample
<1>4. Straight(p.t, p.y, s, o, f) /\ Straight(q.t, q.y, s, o, f)
  BY <1>1, <1>2, <1>3, LineIsStraight
<1>5. f \in Nat \ {0} /\ s \in Int
  BY <1>2, <1>3
<1>6. o \in Int
  <2> HIDE DEF f, s
  <2> QED
    BY <1>3, <1>5
<1> HIDE DEF f, s, o, n
<1>7. ASSUME NEW i \in DOMAIN q.t
      PROVE  ~Beyond(Interp(p.t, p.y, q.t[i]), q.y[i], Largest(q.y))
  <2> DEFINE at == q.t[i]
             want == q.y[i]
             got == Interp(p.t, p.y, at)
             peak == Largest(q.y)
  <2>1. at \in Int /\ p.t[1] <= at /\ at <= p.t[Len(p.t)]
    BY <1>1, <1>2 DEF n
  <2>2. want \in Int /\ f * want = o + s * at
    BY <1>4 DEF Straight
  <2>3. Reads(got, at, s, o, f)
    <3> HIDE DEF at
    <3> QED
      BY <1>1, <1>4, <1>5, <1>6, <2>1, OnLine
  <2>4. peak \in Nat \union {NaN}
    BY PeakType DEF WellFormed
  <2> HIDE DEF at, want, got, peak
  <2>5. got[2] \in Nat /\ got[1] - want * got[2] = 0
    BY <1>5, <1>6, <2>1, <2>2, <2>3, ReadsSame
  <2>6. ASSUME peak \in Nat PROVE ~Beyond(got, want, peak)
    <3>1. Magnitude(want) \in Nat
      BY <2>2 DEF Magnitude
    <3>2. (Magnitude(want) + peak) * got[2] \in Nat
      BY <2>5, <2>6, <3>1
    <3>3. Magnitude(got[1] - want * got[2]) * PerMil = 0
      BY <2>5 DEF Magnitude, PerMil
    <3>4. ~(Magnitude(got[1] - want * got[2]) * PerMil > (Magnitude(want) + peak) * got[2])
      BY <3>2, <3>3
    <3> QED
      BY <3>4, Zenon DEF Beyond
  <2>7. ASSUME peak = NaN PROVE ~Beyond(got, want, peak)
    <3>1. NaN \in {got[1], want, peak}
      BY <2>7
    <3> QED
      BY <3>1, Zenon DEF Beyond
  <2> QED
    BY <2>4, <2>6, <2>7 DEF at, want, got, peak
<1> QED
  BY <1>7 DEF FarPlot

\* A column of no number at all is not far from anything.
LEMMA NaNIsClose ==
  ASSUME NEW p, NEW q, WellFormed(p), WellFormed(q), p.tran,
         \A i \in DOMAIN p.y : p.y[i] = NaN
  PROVE  ~FarPlot(p, q)
<1> DEFINE t == p.t
           y == p.y
<1>1. t \in Seq(Int) /\ Ascends(t) /\ t # <<>> /\ Len(y) = Len(t) /\ DOMAIN y = DOMAIN t
      /\ DOMAIN t = 1..Len(t) /\ Len(t) \in Nat \ {0}
  BY DEF WellFormed, Ascends
<1>2. \A i \in DOMAIN y : y[i] = NaN
  OBVIOUS
<1> HIDE DEF t, y
<1>3. ASSUME NEW at \in Int PROVE Interp(t, y, at)[1] = NaN
  <2> DEFINE k == Before(t, at) + 1
  <2>1. k \in 1..(Len(t) + 1)
    <3>1. Before(t, at) \in 0..Len(t)
      BY <1>1, FirstOnes
    <3> QED
      BY <1>1, <3>1
  <2>2. /\ Interp(t, y, at) =
              IF k <= Len(t) /\ t[k] = at THEN <<y[k], 1>>
              ELSE IF k = 1 THEN <<y[1], 1>>
              ELSE IF k > Len(t) THEN <<y[Len(y)], 1>>
              ELSE Chord(t[k - 1], y[k - 1], t[k], y[k], at)
    BY Zenon DEF Interp, k
  <2> HIDE DEF k
  <2>3. CASE k <= Len(t) /\ t[k] = at
    BY <1>1, <1>2, <2>1, <2>2, <2>3
  <2>4. CASE ~(k <= Len(t) /\ t[k] = at) /\ k = 1
    BY <1>1, <1>2, <2>1, <2>2, <2>4
  <2>5. CASE ~(k <= Len(t) /\ t[k] = at) /\ k # 1 /\ k > Len(t)
    BY <1>1, <1>2, <2>1, <2>2, <2>5
  <2>6. CASE ~(k <= Len(t) /\ t[k] = at) /\ k # 1 /\ ~(k > Len(t))
    <3>1. Interp(t, y, at) = Chord(t[k - 1], y[k - 1], t[k], y[k], at)
      BY <2>2, <2>6, Zenon
    <3>2. y[k] = NaN
      BY <1>1, <1>2, <2>1, <2>6
    <3> QED
      BY <3>1, <3>2 DEF Chord
  <2> QED
    BY <2>3, <2>4, <2>5, <2>6
<1>4. \A i \in DOMAIN q.t : q.t[i] \in Int
  BY DEF WellFormed
<1> QED
  BY <1>3, <1>4 DEF FarPlot, Beyond, t, y

LEMMA OnlyOne == ASSUME NEW f, NEW x, f = <<x>> PROVE f[1] = x
OBVIOUS

\* A verdict is the judgement of the two answers.
LEMMA Verdict ==
  ASSUME GpuKept, NEW d \in DOMAIN GpuDecks, judged[d] \notin {"", "ineligible"}
  PROVE  judged[d] = Judge(gpu[d][1], cpu[d][1])
BY DEF GpuKept

\* Whoever is judged has both answers.
LEMMA AnswersIn ==
  ASSUME GpuKept, NEW d \in DOMAIN GpuDecks, judged[d] \notin {"", "ineligible"}
  PROVE  gpu[d][1] \in GpuRuns /\ cpu[d][1] \in CpuRuns
<1>1. gpu[d] # <<>> /\ cpu[d] # <<>>
  BY DEF GpuKept
<1>2. gpu[d] \in {<<a>> : a \in GpuRuns} /\ cpu[d] \in {<<a>> : a \in CpuRuns}
  BY <1>1 DEF GpuKept
<1>3. PICK ga \in GpuRuns : gpu[d] = <<ga>>
  BY <1>2
<1>4. PICK ca \in CpuRuns : cpu[d] = <<ca>>
  BY <1>2
<1>5. gpu[d][1] = ga /\ cpu[d][1] = ca
  BY <1>3, <1>4, OnlyOne
<1> QED
  BY <1>5

LEMMA KeptIsClose == GpuKept => CloseIsClose
<1> SUFFICES ASSUME GpuKept, NEW d \in DOMAIN GpuDecks, judged[d] = "close"
             PROVE  LET g == gpu[d][1].plots  c == cpu[d][1].plots
                        per == Len(c) \div R
                    IN /\ Len(g) = Len(c) /\ gpu[d][1].rc = cpu[d][1].rc
                       /\ R > 0 /\ Len(c) = per * R =>
                            \A k, m \in DOMAIN c :
                              c[k].tran /\ (m - k) % per = 0 /\ c[m].tran => g[k] = g[m]
                       /\ \A k \in DOMAIN c : c[k].tran /\ Largest(c[k].y) # NaN =>
                            \A i \in DOMAIN g[k].t, j \in DOMAIN c[k].t :
                              g[k].t[i] = c[k].t[j] /\ NaN \notin {g[k].y[i], c[k].y[j]} =>
                                PerMil * Magnitude(g[k].y[i] - c[k].y[j])
                                  <= Magnitude(c[k].y[j]) + Largest(c[k].y)
  BY DEF CloseIsClose
<1>1. PICK ga \in GpuRuns, ca \in CpuRuns : gpu[d][1] = ga /\ cpu[d][1] = ca
  <2>1. gpu[d][1] \in GpuRuns /\ cpu[d][1] \in CpuRuns
    BY AnswersIn
  <2> QED
    BY <2>1
<1>2. Judge(ga, ca) = "close"
  BY <1>1 DEF GpuKept
<1>3. /\ ga.rc = ca.rc /\ Len(ga.plots) = Len(ca.plots)
      /\ \A k \in DOMAIN ca.plots : ca.plots[k].tran =>
           ~Differs(ga.plots, Per(ca), k) /\ ~FarPlot(ga.plots[k], ca.plots[k])
  BY <1>2, JudgedClose
<1>4. /\ Len(ca.plots) \in Nat /\ DOMAIN ca.plots = 1..Len(ca.plots)
      /\ \A k \in DOMAIN ca.plots :
           WellFormed(ga.plots[k]) /\ WellFormed(ca.plots[k]) /\ ga.plots[k].tran = ca.plots[k].tran
  BY <1>3, AnswerTypes
<1> DEFINE n == Len(ca.plots) \div R
<1>5. ASSUME R > 0, Len(ca.plots) = n * R,
             NEW k \in DOMAIN ca.plots, NEW m \in DOMAIN ca.plots,
             ca.plots[k].tran, (m - k) % n = 0, ca.plots[m].tran
      PROVE  ga.plots[k] = ga.plots[m]
  <2>1. R \in Nat
    BY GpuAssumption
  <2>2. \A x \in DOMAIN ca.plots : ca.plots[x].tran => ~Differs(ga.plots, Per(ca), x)
    BY <1>3
  <2> QED
    <3>1. PICK l \in Nat : l = Len(ca.plots)
      BY <1>4
    <3>2. n \in Nat /\ l % R = 0 /\ (l # 0 => n # 0)
      BY <1>5, <2>1, <3>1, Portions
    <3>3. l # 0
      BY <1>4, <3>1
    <3>4. Per(ca) = n
      BY <1>5, <3>1, <3>2 DEF Per
    <3> HIDE DEF n
    <3>5. n \in Nat \ {0}
      BY <3>2, <3>3
    <3> DEFINE c == ca.plots
    <3>6. Uniform(c, ga.plots, n) /\ Aligned(k, m, n)
      BY <1>4, <1>5, <2>2, <3>4 DEF Uniform, Aligned
    <3>7. k \in DOMAIN c /\ m \in DOMAIN c /\ c[k].tran /\ c[m].tran
      BY <1>5
    <3> HIDE DEF c
    <3> QED
      BY <3>5, <3>6, <3>7, ReplicasEqual
<1>6. ASSUME NEW k \in DOMAIN ca.plots, ca.plots[k].tran, Largest(ca.plots[k].y) # NaN,
             NEW i \in DOMAIN ga.plots[k].t, NEW j \in DOMAIN ca.plots[k].t,
             ga.plots[k].t[i] = ca.plots[k].t[j],
             NaN \notin {ga.plots[k].y[i], ca.plots[k].y[j]}
      PROVE  PerMil * Magnitude(ga.plots[k].y[i] - ca.plots[k].y[j])
               <= Magnitude(ca.plots[k].y[j]) + Largest(ca.plots[k].y)
  <2>1. WellFormed(ga.plots[k]) /\ WellFormed(ca.plots[k]) /\ ga.plots[k].tran
    BY <1>4, <1>6
  <2>2. ~FarPlot(ga.plots[k], ca.plots[k])
    BY <1>3, <1>6
  <2>3. NaN \notin {ga.plots[k].y[i], ca.plots[k].y[j], Largest(ca.plots[k].y)}
    BY <1>6
  <2> QED
    BY <1>6, <2>1, <2>2, <2>3, NotFar
<1> QED
  BY <1>1, <1>3, <1>5, <1>6, Zenon

\* Two answers none of whose transients are far apart are not judged far.
LEMMA NoneFar ==
  ASSUME GpuKept, NEW d \in DOMAIN GpuDecks, judged[d] \in {"close", "far"},
         \A k \in DOMAIN cpu[d][1].plots :
           LET p == gpu[d][1].plots[k]  q == cpu[d][1].plots[k]
           IN WellFormed(p) /\ WellFormed(q) /\ p.tran /\ q.tran => ~FarPlot(p, q)
  PROVE  judged[d] = "close"
<1>1. judged[d] \notin {"", "ineligible"}
  OBVIOUS
<1>2. PICK ga \in GpuRuns, ca \in CpuRuns : gpu[d][1] = ga /\ cpu[d][1] = ca
  <2>1. gpu[d][1] \in GpuRuns /\ cpu[d][1] \in CpuRuns
    BY <1>1, AnswersIn
  <2> QED
    BY <2>1
<1>3. judged[d] = Judge(ga, ca)
  BY <1>1, <1>2, Verdict
<1>4. ASSUME Judge(ga, ca) = "far" PROVE FALSE
  <2>1. Len(ga.plots) = Len(ca.plots)
    BY <1>4 DEF Judge
  <2>2. PICK k \in DOMAIN ca.plots : ca.plots[k].tran /\ FarPlot(ga.plots[k], ca.plots[k])
    BY <1>4, <2>1, AnswerTypes, JudgedFar
  <2>3. WellFormed(ga.plots[k]) /\ WellFormed(ca.plots[k]) /\ ga.plots[k].tran
    BY <2>1, <2>2, AnswerTypes
  <2> QED
    BY <1>2, <2>2, <2>3
<1> QED
  BY <1>3, <1>4

LEMMA KeptGridsDiffer == GpuKept => GridsMayDiffer
<1> SUFFICES ASSUME GpuKept, NEW d \in DOMAIN GpuDecks, judged[d] \in {"close", "far"},
                    \A k \in DOMAIN cpu[d][1].plots : cpu[d][1].plots[k].tran =>
                      OneLine(gpu[d][1].plots[k], cpu[d][1].plots[k])
             PROVE  judged[d] = "close"
  BY DEF GridsMayDiffer
<1>1. \A k \in DOMAIN cpu[d][1].plots :
        LET p == gpu[d][1].plots[k]  q == cpu[d][1].plots[k]
        IN WellFormed(p) /\ WellFormed(q) /\ p.tran /\ q.tran => ~FarPlot(p, q)
  BY StraightIsClose
<1> QED
  BY <1>1, NoneFar

\* The GPU lane gate passes a deck only if the replicas are equal and every
\* number on a common time is close, and it never fails runs whose transients
\* sample straight waveforms, wherever their samples lie.
THEOREM ParityIsTrue == GpuSpec => []ParityIsCloseness
<1>1. GpuInit => GpuKept
  BY DEF GpuInit, GpuKept
<1>2. GpuKept => ParityIsCloseness
  BY KeptIsClose, KeptGridsDiffer DEF ParityIsCloseness
<1> QED
  BY <1>1, <1>2, GpuKeptStep, PTL DEF GpuSpec

\* No transient of the deck's GPU run has a number in its column.
AllNaN(d) ==
  \A k \in DOMAIN cpu[d][1].plots :
    LET p == gpu[d][1].plots[k] IN p.tran => \A i \in DOMAIN p.y : p.y[i] = NaN

\* Where the gate's promise ends: a deck whose GPU transients are not numbers
\* at all is never told from a close one, whatever the CPU answers.
THEOREM UnorderedPasses ==
  GpuSpec => [](\A d \in DOMAIN GpuDecks :
                  judged[d] \in {"close", "far"} /\ AllNaN(d) => judged[d] = "close")
<1>1. GpuInit => GpuKept
  BY DEF GpuInit, GpuKept
<1>2. GpuKept => \A d \in DOMAIN GpuDecks :
                   judged[d] \in {"close", "far"} /\ AllNaN(d) => judged[d] = "close"
  <2> SUFFICES ASSUME GpuKept, NEW d \in DOMAIN GpuDecks,
                      judged[d] \in {"close", "far"}, AllNaN(d)
               PROVE  judged[d] = "close"
    OBVIOUS
  <2>1. \A k \in DOMAIN cpu[d][1].plots :
          LET p == gpu[d][1].plots[k]  q == cpu[d][1].plots[k]
          IN WellFormed(p) /\ WellFormed(q) /\ p.tran /\ q.tran => ~FarPlot(p, q)
    BY NaNIsClose DEF AllNaN
  <2> QED
    BY <2>1, NoneFar
<1> QED
  BY <1>1, <1>2, GpuKeptStep, PTL DEF GpuSpec
=============================================================================

----------------------------- MODULE GpuParity -----------------------------
(***************************************************************************)
(* The GPU lane gate (tools/gpu_lane_parity.py): each deck is replicated   *)
(* over R identical rows and run as GPU lanes and as CPU lanes.  The GPU   *)
(* columns must be close to the CPU's on the CPU's time grid, and the GPU  *)
(* replicas bitwise equal.  The runs are external.  A plot is              *)
(* [tran, t, y]: whether it is a transient, its time column, and one       *)
(* column of samples over it, each an integer or not a number.             *)
(***************************************************************************)
EXTENDS Integers, SequencesExt

CONSTANTS
  GpuDecks,   \* the decks of the gate, in order
  R,          \* replicas
  GpuRuns,    \* what a GPU run may answer: [rc, lanes, plots]
  CpuRuns,    \* what a CPU run may answer
  NaN         \* the sample that compares with nothing

Sample == Int \union {NaN}

\* Times ascend, and both runs are given one deck: where they print as many
\* plots, the k-th is of the same analysis.
WellFormed(p) ==
  /\ p.t \in Seq(Int) /\ p.y \in Seq(Sample) /\ Len(p.y) = Len(p.t)
  /\ p.tran \in BOOLEAN
  /\ p.tran => p.t # <<>> /\ \A i, j \in DOMAIN p.t : i < j => p.t[i] < p.t[j]
ASSUME GpuAssumption ==
  /\ R \in Nat /\ NaN \notin Int
  /\ \A a \in GpuRuns \union CpuRuns :
       a.plots \in Seq(Range(a.plots)) /\ \A k \in DOMAIN a.plots : WellFormed(a.plots[k])
  /\ \A g \in GpuRuns, c \in CpuRuns : Len(g.plots) = Len(c.plots) =>
       \A k \in DOMAIN c.plots : g.plots[k].tran = c.plots[k].tran

PerMil == 1000   \* the closeness is 1/PerMil of the value and of the peak

VARIABLES
  gpu, cpu,   \* per deck: the runs' answers, or <<>> before them
  judged,     \* per deck: "", "ineligible", "rc", "count", "nondeterministic",
              \* "far" or "close"
  eligible,   \* decks the report counts as compared
  misses,     \* the report's misses
  gpuStatus   \* the exit status, or -1

gpuVars == <<gpu, cpu, judged, eligible, misses, gpuStatus>>

GpuInit ==
  /\ gpu = [d \in DOMAIN GpuDecks |-> <<>>] /\ cpu = [d \in DOMAIN GpuDecks |-> <<>>]
  /\ judged = [d \in DOMAIN GpuDecks |-> ""]
  /\ eligible = 0 /\ misses = <<>> /\ gpuStatus = -1

RunGpu(d) ==
  /\ gpu[d] = <<>>
  /\ \E a \in GpuRuns :
       /\ gpu' = [gpu EXCEPT ![d] = <<a>>]
       /\ judged' = [judged EXCEPT ![d] = IF a.lanes THEN "" ELSE "ineligible"]
  /\ UNCHANGED <<cpu, eligible, misses, gpuStatus>>

RunCpu(d) ==
  /\ gpu[d] # <<>> /\ judged[d] = "" /\ cpu[d] = <<>>
  /\ \E a \in CpuRuns : cpu' = [cpu EXCEPT ![d] = <<a>>]
  /\ UNCHANGED <<gpu, judged, eligible, misses, gpuStatus>>

Magnitude(x) == IF x < 0 THEN -x ELSE x
\* max of the magnitudes, 0 of none: one that is not a number is never above
\* the largest so far, and is never beaten when it is the first.
Largest(y) ==
  IF y # <<>> /\ y[1] = NaN THEN NaN
  ELSE Max({0} \union {Magnitude(y[i]) : i \in {i \in DOMAIN y : y[i] # NaN}})

\* bisect_left on an ascending grid: how many of its samples lie before `at'.
Before(t, at) == Cardinality({i \in DOMAIN t : t[i] < at})

\* Faulty: reads the sample before.
InterpBefore(t, y, at) ==
  LET k == Before(t, at) + 1
  IN IF k = 1 THEN <<y[1], 1>> ELSE <<y[k - 1], 1>>
\* The line from <<t0, y0>> to <<t1, y1>> at `at', as a fraction.
Chord(t0, y0, t1, y1, at) ==
  IF NaN \in {y0, y1} THEN <<NaN, 1>>
  ELSE <<y0 * (t1 - t0) + (at - t0) * (y1 - y0), t1 - t0>>

\* interp, as the fraction <<numerator, denominator>>: the sample at `at', the
\* end samples outside the grid, else the line between the two around it.
Interp(t, y, at) ==
  LET k == Before(t, at) + 1
  IN IF k <= Len(t) /\ t[k] = at THEN <<y[k], 1>>
     ELSE IF k = 1 THEN <<y[1], 1>>
     ELSE IF k > Len(t) THEN <<y[Len(y)], 1>>
     ELSE Chord(t[k - 1], y[k - 1], t[k], y[k], at)

\* The ratio of the error to RTOL * want + 1e-3 * peak is above 1.  A ratio
\* that is not a number is above nothing.
Beyond(got, want, peak) ==
  /\ NaN \notin {got[1], want, peak}
  /\ Magnitude(got[1] - want * got[2]) * PerMil > (Magnitude(want) + peak) * got[2]

FarPlot(g, c) ==
  \E i \in DOMAIN c.t : Beyond(Interp(g.t, g.y, c.t[i]), c.y[i], Largest(c.y))

\* A plot of a later replica differs from replica 0's (names aside).
Differs(pg, per, k) == per # 0 /\ k > per /\ pg[k] # pg[((k - 1) % per) + 1]

\* The plots of one replica, or 0 if the replicas do not tell them apart.
Per(c) == IF R > 0 /\ Len(c.plots) % R = 0 THEN Len(c.plots) \div R ELSE 0

Misses(g, c) ==
  {k \in DOMAIN c.plots : c.plots[k].tran /\ (Differs(g.plots, Per(c), k) \/ FarPlot(g.plots[k], c.plots[k]))}

\* check, with both answers in.
Judge(g, c) ==
  IF g.rc # c.rc THEN "rc"
  ELSE IF Len(g.plots) # Len(c.plots) THEN "count"
  ELSE IF Misses(g, c) = {} THEN "close"
  ELSE IF Differs(g.plots, Per(c), Min(Misses(g, c))) THEN "nondeterministic" ELSE "far"

JudgeDeck(d) ==
  /\ judged[d] = "" /\ cpu[d] # <<>>
  /\ judged' = [judged EXCEPT ![d] = Judge(gpu[d][1], cpu[d][1])]
  /\ UNCHANGED <<gpu, cpu, eligible, misses, gpuStatus>>

\* Every result is in: count and report, in deck order.
GpuEnd ==
  /\ gpuStatus = -1 /\ \A d \in DOMAIN GpuDecks : judged[d] # ""
  /\ eligible' = Cardinality({d \in DOMAIN GpuDecks : judged[d] \in {"close", "far"}})
  /\ misses' = SelectSeq([d \in DOMAIN GpuDecks |-> d], LAMBDA d : judged[d] \notin {"ineligible", "close"})
  /\ gpuStatus' = IF misses' = <<>> THEN 0 ELSE 1
  /\ UNCHANGED <<gpu, cpu, judged>>

GpuNext == GpuEnd \/ \E d \in DOMAIN GpuDecks : RunGpu(d) \/ RunCpu(d) \/ JudgeDeck(d)

GpuSpec == GpuInit /\ [][GpuNext]_gpuVars

-----------------------------------------------------------------------------
(* Properties. *)

\* A deck passes only if both runs end alike with as many plots, the plots of
\* a transient's replicas are equal on the GPU (where the replicas share the
\* plots out evenly), and no GPU number at a time of the CPU's grid is farther
\* from the CPU's number than the closeness allows.  Of a sample that is not a
\* number a pass says nothing.
CloseIsClose ==
  \A d \in DOMAIN GpuDecks : judged[d] = "close" =>
    LET g == gpu[d][1].plots  c == cpu[d][1].plots
        per == Len(c) \div R
    IN /\ Len(g) = Len(c) /\ gpu[d][1].rc = cpu[d][1].rc
       /\ R > 0 /\ Len(c) = per * R =>
            \A k, m \in DOMAIN c : c[k].tran /\ (m - k) % per = 0 /\ c[m].tran => g[k] = g[m]
       /\ \A k \in DOMAIN c : c[k].tran /\ Largest(c[k].y) # NaN =>
            \A i \in DOMAIN g[k].t, j \in DOMAIN c[k].t :
              g[k].t[i] = c[k].t[j] /\ NaN \notin {g[k].y[i], c[k].y[j]} =>
                PerMil * Magnitude(g[k].y[i] - c[k].y[j])
                  <= Magnitude(c[k].y[j]) + Largest(c[k].y)

\* Every sample of q lies on the line between the end samples of p.
OnLineOf(p, q) ==
  LET n == Len(p.t)
  IN \A i \in DOMAIN q.t :
       /\ q.y[i] # NaN
       /\ (q.y[i] - p.y[1]) * (p.t[n] - p.t[1]) = (p.y[n] - p.y[1]) * (q.t[i] - p.t[1])

\* Two grids over one straight waveform, from its first time to its last.
OneLine(p, q) ==
  LET n == Len(p.t)
  IN /\ p.t[1] < p.t[n] /\ p.t[1] = q.t[1] /\ p.t[n] = q.t[Len(q.t)]
     /\ p.y[1] # NaN /\ p.y[n] # NaN
     /\ OnLineOf(p, p) /\ OnLineOf(p, q)

\* Grids that desynchronise do no harm: where each transient of both runs
\* samples one straight waveform, whichever it is and wherever the samples
\* lie, the columns are close.
GridsMayDiffer ==
  \A d \in DOMAIN GpuDecks : judged[d] \in {"close", "far"} =>
    LET g == gpu[d][1].plots  c == cpu[d][1].plots
    IN (\A k \in DOMAIN c : c[k].tran => OneLine(g[k], c[k])) => judged[d] = "close"

\* What passes is close as far as its samples are numbers, and no deck misses
\* for the grid the GPU took.
ParityIsCloseness == CloseIsClose /\ GridsMayDiffer
=============================================================================

------------------------------ MODULE LaneDiff ------------------------------
(***************************************************************************)
(* The lane gate (tools/lane_diff.py): a pool of threads runs every deck   *)
(* twice and compares what the two runs left.  The deck runs themselves    *)
(* are external: a run answers with a return code (which stands for its    *)
(* standard output too) and leaves a result file, or none.                 *)
(***************************************************************************)
EXTENDS Integers, SequencesExt

CONSTANTS
  Decks,    \* the decks of the gate
  Modes,    \* the modes it may be started in
  Files     \* what a run may leave: sequences of plots, or NoFile

ASSUME LaneAssumption == \A f \in Files : f \in Seq(Range(f))

Replicas == 4
NoFile == <<[name |-> "no file", data |-> 0]>>
Codes == {0, 1}

VARIABLES
  mode,      \* "swept", "replicate" or "old"
  dir,       \* per deck: the result files in its temporary directory
  runs,      \* per deck: what each run returned to the script
  left,      \* per deck: what each run itself left (seen by no script)
  message,   \* per deck: "", or its result: "same", "differs", "skip"
  status     \* the gate's exit status, or NoStatus

laneVars == <<mode, dir, runs, left, message, status>>
NoStatus == -1

LaneInit ==
  /\ mode \in Modes
  /\ dir = [d \in Decks |-> [f \in {"out0", "out1", "out0old"} |-> NoFile]]
  /\ runs = [d \in Decks |-> <<>>] /\ left = [d \in Decks |-> <<>>]
  /\ message = [d \in Decks |-> ""] /\ status = NoStatus

\* Faulty: both binaries of mode `old' leave out0.raw.
OutFileShared(k) == IF mode = "old" \/ k = 1 THEN "out0" ELSE "out1"
\* The file of a deck's k-th run: out<lanes>, and `old' if the other binary's.
OutFile(k) ==
  CASE mode = "old" /\ k = 1 -> "out0old"
    [] mode = "old" /\ k = 2 -> "out0"
    [] OTHER -> IF k = 1 THEN "out0" ELSE "out1"

\* run: the k-th run of deck d, which reads back whatever file is there.
Run(d) ==
  LET k == Len(runs[d]) + 1
  IN /\ message[d] = "" /\ k <= 2
     /\ \E rc \in Codes, file \in Files :
          /\ dir' = IF file = NoFile THEN dir ELSE [dir EXCEPT ![d][OutFile(k)] = file]
          /\ left' = [left EXCEPT ![d] = Append(@, [rc |-> rc, raw |-> file])]
          /\ runs' = [runs EXCEPT ![d] = Append(@, [rc |-> rc, raw |-> dir'[d][OutFile(k)]])]
     /\ UNCHANGED <<mode, message, status>>

\* A run over the time limit raises Skip, and guarded turns that to a message.
TimeOut(d) ==
  /\ message[d] = "" /\ Len(runs[d]) < 2
  /\ message' = [message EXCEPT ![d] = "skip"]
  /\ UNCHANGED <<mode, dir, runs, left, status>>

\* A file that is not there reads as no bytes, and has no plots.
Plots(raw) == IF raw = NoFile THEN <<>> ELSE raw

\* Replica j's plots are the j-th run of Len(one) plots; names are not compared.
ReplicasAgree(one, all) ==
  Len(all) = Replicas * Len(one)
    /\ \A k \in DOMAIN all : all[k].data = one[((k - 1) % Len(one)) + 1].data

\* check, with both results in.
Same(d) ==
  LET a == runs[d][1]  b == runs[d][2]
  IN IF mode = "replicate"
     THEN a.rc # 0 \/ ReplicasAgree(Plots(a.raw), Plots(b.raw))
     ELSE a.rc = b.rc /\ Plots(a.raw) = Plots(b.raw)

Check(d) ==
  /\ message[d] = "" /\ Len(runs[d]) = 2
  /\ message' = [message EXCEPT ![d] = IF Same(d) THEN "same" ELSE "differs"]
  /\ UNCHANGED <<mode, dir, runs, left, status>>

Bad == {d \in Decks : message[d] = "differs"}

\* The pool has mapped every deck.
LaneEnd ==
  /\ status = NoStatus /\ \A d \in Decks : message[d] # ""
  /\ status' = IF Bad # {} THEN 1 ELSE 0
  /\ UNCHANGED <<mode, dir, runs, left, message>>

LaneNext == LaneEnd \/ \E d \in Decks : Run(d) \/ TimeOut(d) \/ Check(d)

LaneSpec == LaneInit /\ [][LaneNext]_laneVars

-----------------------------------------------------------------------------
(* Properties. *)

\* One copy of s for each replica, one after the other.
Replicated(s) == s \o s \o s \o s
Values(raw) == [k \in DOMAIN Plots(raw) |-> Plots(raw)[k].data]

\* A deck passes exactly when what its two runs left agrees: the same code and
\* bytes, or one point's data, a whole point after the other, once per replica.
\* In particular no run's result is read from a file another run left.
GateComparesRuns ==
  \A d \in Decks : message[d] \in {"same", "differs"} =>
    LET a == left[d][1]  b == left[d][2]
    IN message[d] = "same" <=>
         IF mode = "replicate" THEN a.rc # 0 \/ Values(b.raw) = Replicated(Values(a.raw))
         ELSE a.rc = b.rc /\ Plots(a.raw) = Plots(b.raw)
=============================================================================

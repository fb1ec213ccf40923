---------------------------- MODULE RunContract ----------------------------
(***************************************************************************)
(* What a Worker promises its coordinator, threads and locks aside: a run  *)
(* advances only by quanta it was granted, each quantum ends held at a     *)
(* checkpoint or over, and a cancel decides the verdict of any run that is *)
(* not over yet.                                                           *)
(***************************************************************************)
VARIABLES phase, verdict, cancelled

vars == <<phase, verdict, cancelled>>

Init == phase = "created" /\ verdict = "none" /\ cancelled = FALSE

Grant ==
  /\ phase \in {"created", "paused"}
  /\ phase' = "running"
  /\ UNCHANGED <<verdict, cancelled>>

Hold ==
  /\ phase = "running" /\ ~cancelled
  /\ phase' = "paused"
  /\ UNCHANGED <<verdict, cancelled>>

End(v) ==
  /\ phase = "running" \/ (phase = "paused" /\ cancelled)
  /\ phase' = "finished"
  /\ verdict' = IF cancelled THEN "cancelled" ELSE v
  /\ UNCHANGED cancelled

\* A run never granted a quantum is over at once.
Cancel ==
  /\ phase # "finished"
  /\ cancelled' = TRUE
  /\ IF phase = "created"
     THEN phase' = "finished" /\ verdict' = "cancelled"
     ELSE UNCHANGED <<phase, verdict>>

EndQuantum == Hold \/ \E v \in {"complete", "failed"} : End(v)

Next == Grant \/ EndQuantum \/ Cancel

Spec == Init /\ [][Next]_vars /\ WF_vars(EndQuantum)
=============================================================================

----------------------------- MODULE QueryGraph -----------------------------
(***************************************************************************)
(* What a Session promises its caller, threads, batches and device state   *)
(* aside: every query ends at most once and stays as it ended; a result is *)
(* built on its operating point's result; a query whose operating point    *)
(* failed ends with it; a split query ends exactly with its lanes and is   *)
(* complete only if all of them are.                                       *)
(***************************************************************************)
EXTENDS Naturals

CONSTANT Row

VARIABLES rows, needs, whole, outcome

vars == <<rows, needs, whole, outcome>>

Bad == {"failed", "dependency_failed", "cancelled"}

Ended(r) == outcome[r] # "none"

Parts(g) == {l \in rows : whole[l] = g}

Consistent ==
  \A r \in rows :
    /\ needs[r] # 0 =>
         /\ outcome[r] = "complete" => outcome[needs[r]] = "complete"
         /\ outcome[r] = "dependency_failed" => outcome[needs[r]] \in Bad
         /\ outcome[r] = "none" => outcome[needs[r]] \notin Bad
    /\ Parts(r) # {} =>
         /\ Ended(r) <=> \A l \in Parts(r) : Ended(l)
         /\ outcome[r] = "complete" => \A l \in Parts(r) : outcome[l] = "complete"

Init ==
  /\ rows = {} /\ outcome = [r \in Row |-> "none"]
  /\ needs = [r \in Row |-> 0] /\ whole = [r \in Row |-> 0]

\* Rows are appended after the ones there are.
Add ==
  /\ rows \subseteq rows'
  /\ \A r \in rows : needs'[r] = needs[r] /\ whole'[r] = whole[r]
  /\ \A r \in Row : Ended(r)' => Ended(r) \/ r \notin rows
  /\ \A r \in rows : outcome'[r] = outcome[r]

Decide ==
  /\ UNCHANGED <<rows, needs, whole>>
  /\ \A r \in Row : Ended(r) => outcome'[r] = outcome[r]

Next == (Add \/ Decide) /\ Consistent'

Spec == Init /\ [][Next]_vars
=============================================================================

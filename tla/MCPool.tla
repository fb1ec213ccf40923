------------------------------- MODULE MCPool -------------------------------
(* Instances of Pool for TLC: small sets of requests. *)
EXTENDS Pool

Job(k, c, o, u, l, t) ==
  [kind |-> k, class |-> c, op |-> o, uic |-> u, lanes |-> l, template |-> t]

\* A transient and an analysis sharing an operating point, an explicit .op
\* that exposes it, a uic transient, and a query on another point.
MixedJobs ==
  {Job("tran", 1, 1, FALSE, 0, 0), Job("op", 0, 1, FALSE, 0, 0),
   Job("tran", 1, 2, TRUE, 0, 0), Job("other", 3, 1, FALSE, 0, 0)}

\* A two-trial .mc split into lanes, and a query on the same point.
SplitJobs == {Job("sweep", 2, 1, FALSE, 2, 0), Job("tran", 1, 1, FALSE, 0, 0)}

\* A sweep: two points of one transient.
SweepJobs == {Job("tran", 1, 1, FALSE, 0, 0), Job("tran", 1, 2, FALSE, 0, 0)}
=============================================================================

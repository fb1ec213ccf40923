----------------------------- MODULE MCStepping -----------------------------
(* The requests of MCPool, for a caller who also steps. *)
EXTENDS Stepping, MCPool
=============================================================================

---------------------------- MODULE MCModelCache ----------------------------
(* Two loads of two sources that compile to one build. *)
EXTENDS ModelCache

CONSTANTS p1, p2, s1, s2, b1

MCBuildOf == [s \in Source |-> b1]
=============================================================================

---------------------------- MODULE MCThreadQueue ----------------------------
(* Instances of ThreadQueue for TLC. *)
EXTENDS ThreadQueue

CONSTANTS p1, p2, c1, c2, a, b
==============================================================================

---------------------------- MODULE MCAsyncClient ----------------------------
(* An instance of AsyncClient for TLC. *)
EXTENDS AsyncClient

CONSTANTS p1, r1, c1, c2
==============================================================================

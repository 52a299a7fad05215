----------------------------- MODULE MCGovernor -----------------------------
(* A small instance of the governor. *)
EXTENDS Governor, TLC

CONSTANTS a1, a2, c1, c2

Symmetry == Permutations(Calls)
=============================================================================

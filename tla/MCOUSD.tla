------------------------------- MODULE MCOUSD -------------------------------
(* Small instances of the token. *)
EXTENDS OUSD, TLC
CONSTANTS c1, c2, e1

Symmetry == Permutations(Deployable) \union Permutations(Accounts \ Deployable)
=============================================================================

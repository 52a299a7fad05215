------------------------------- MODULE MCOUSDs -------------------------------
(* Two small tokens, of which a behaviour is about one: one whose tallies      *)
(* matter, with the constants of the cfg, and one with allowances, with        *)
(* variables of its own.                                                       *)
EXTENDS MCOUSD

VARIABLES token2, allowances2, contracts2, instance

vars2 == <<token2, allowances2, contracts2>>

\* Accounts at a constant rate, with allowances.
Allowing == INSTANCE OUSD WITH
    token <- token2, allowances <- allowances2, contracts <- contracts2,
    FullScale <- 1, MaxSupply <- 3, MaxWord <- 2, Amounts <- {0, 1},
    Approvals <- {0, 1, 2}, Supplies <- {}

InitOfOne ==
    /\ instance \in {"tallies", "allowances"}
    /\ Init /\ Allowing!Init

NextOfOne ==
    /\ UNCHANGED instance
    /\ \/ instance = "tallies" /\ Next /\ UNCHANGED vars2
       \/ instance = "allowances" /\ Allowing!Next /\ UNCHANGED vars

SpecOfOne == InitOfOne /\ [][NextOfOne]_<<vars, vars2, instance>>

\* No account but the spender uses up an allowance, and no more than it was
\* given: OthersBalancesKept of the token with allowances.
AllowancesBoundSpenders == Allowing!OthersBalancesKept
=============================================================================

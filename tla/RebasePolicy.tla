---------------------------- MODULE RebasePolicy ----------------------------
(***************************************************************************)
(* What the token promises each account about the exchange rate between     *)
(* its credits and OUSD, without balances, supply or allowances:            *)
(*   - an account follows the common rate, or has a frozen rate of its own; *)
(*   - whoever has chosen (OptIn, OptOut) stays as it chose until it        *)
(*     chooses again, and can never go back to "NotSet";                    *)
(*   - an account that never chose can only be frozen, and at the common    *)
(*     rate of that moment, so that freezing moves no value.                *)
(* OUSD implements this specification.                                      *)
(***************************************************************************)
EXTENDS Integers

CONSTANT Accounts

VARIABLES rate,     \* the common rate
          frozen,   \* account -> its own frozen rate, 0 if it follows the common one
          choice    \* account -> what it chose

vars == <<rate, frozen, choice>>

Init ==
    /\ rate \in Nat \ {0}
    /\ frozen = [a \in Accounts |-> 0]
    /\ choice = [a \in Accounts |-> "NotSet"]

\* The accounts of S, which never chose and follow the common rate, are frozen.
Freeze(S) ==
    /\ \A a \in S : choice[a] = "NotSet" /\ frozen[a] = 0
    /\ frozen' = [a \in Accounts |-> IF a \in S THEN rate ELSE frozen[a]]
    /\ UNCHANGED <<rate, choice>>

OptIn(a) ==
    /\ choice[a] # "OptIn"
    /\ frozen' = [frozen EXCEPT ![a] = 0]
    /\ choice' = [choice EXCEPT ![a] = "OptIn"]
    /\ UNCHANGED rate

OptOut(a) ==
    /\ frozen[a] = 0
    /\ frozen' = [frozen EXCEPT ![a] = rate]
    /\ choice' = [choice EXCEPT ![a] = "OptOut"]
    /\ UNCHANGED rate

Reprice ==
    /\ rate' \in Nat \ {0}
    /\ UNCHANGED <<frozen, choice>>

Next ==
    \/ \E S \in SUBSET Accounts : Freeze(S)
    \/ \E a \in Accounts : OptIn(a) \/ OptOut(a)
    \/ Reprice

Spec == Init /\ [][Next]_vars
=============================================================================

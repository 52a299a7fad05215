------------------------------ MODULE MCRewards ------------------------------
(* The contracts that give rewards away, for MCOperations, in whose behaviours *)
(* one part moves and the others stand still.  The constants of Rewards are in  *)
(* the cfg.                                                                    *)
EXTENDS Rewards, TLC

CONSTANTS alice, bob, carol, xavier

VARIABLES part

\* Staking: one staker pays in, both may have air drops.
Staked == alice :> {1} @@ bob :> {}
RatesInTurn == <<1 :> 2 @@ 2 :> 4, 1 :> 4 @@ 2 :> 0>>
Drops == {<<<<xavier, 2>>, <<alice, 2>>, <<xavier, 3>>>>}

\* Liquidity mining: two providers, two campaigns.
TokensOf == alice :> 1 @@ bob :> 1
TwoCampaigns == {[rate |-> 2, blocks |-> 2], [rate |-> 3, blocks |-> 1]}

\* Compensation: a file that lists everybody, and one that does not.
ClaimFiles == {alice :> 1 @@ bob :> 1 @@ carol :> 1, alice :> 2}

rewardVars == <<compensationVars, stakingVars, liquidityVars>>

RewardsInit ==
    /\ Init /\ Stk!Init
    /\ L!Init
    /\ CASE part # "liquidity" -> starting = "idle" /\ testing = "idle" /\ reward = 0
         [] starting = "transfer" -> reward = 0
         [] OTHER -> reward = Funding

RewardsNext ==
    \/ /\ part = "compensation" /\ Next
       /\ UNCHANGED <<stakingVars, liquidityVars>>
    \/ /\ part = "staking" /\ Stk!Next
       /\ UNCHANGED <<compensationVars, liquidityVars>>
    \/ /\ part = "liquidity" /\ L!Next
       /\ UNCHANGED <<compensationVars, stakingVars>>
=============================================================================

------------------------------- MODULE Rewards -------------------------------
(***************************************************************************)
(* The contracts that give rewards away for a share in the pool or for a    *)
(* loss, beside each other: compensation claims are the module's own state, *)
(* staking and liquidity mining are instances.  They share nothing.         *)
(***************************************************************************)
EXTENDS Compensation, StableMath

\* Staking.
CONSTANTS Stakers, Stakes, Tariffs, Lists, DropDuration, DropRate, MAX_STAKES, MaxStaked,
          MaxTime, MaxSupplied

VARIABLES now, userStakes, totalOutstanding, paused, tariff, dropRoot, published, ogn

Stk == INSTANCE Staking WITH MaxFunds <- MaxSupplied

ASSUME StakersAssumption ==
    /\ IsFiniteSet(Stakers)
    /\ \A a \in Stakers : Stakes[a] \subseteq Nat
    /\ MAX_STAKES \in Nat /\ MaxStaked \in Nat /\ MaxTime \in Nat /\ MaxSupplied \in Nat
ASSUME TariffsAssumption ==
    /\ Len(Tariffs) \in Nat \ {0} /\ DOMAIN Tariffs = 1 .. Len(Tariffs)
    /\ \A t \in DOMAIN Tariffs : \A duration \in DOMAIN Tariffs[t] :
          duration \in Nat /\ Tariffs[t][duration] \in Nat
ASSUME ListsAssumption ==
    /\ DropDuration \in Nat /\ DropRate \in Nat
    /\ \A list \in Lists :
          /\ Len(list) \in Nat \ {0} /\ DOMAIN list = 1 .. Len(list)
          /\ \A i \in DOMAIN list :
                list[i] = <<list[i][1], list[i][2]>> /\ list[i][2] \in Nat

stakingVars == <<now, userStakes, totalOutstanding, paused, tariff, dropRoot, published, ogn>>

\* What stakers are owed is counted, short only by rewards that came in through
\* the token, and air drops are those that were granted.
StakingTrue ==
    /\ Stk!TypeOK
    /\ Stk!OutstandingIsOwed /\ Stk!ShortfallIsSent
    /\ Stk!DropsAreGranted /\ Stk!VouchersAccepted
-----------------------------------------------------------------------------
\* Liquidity mining.
CONSTANTS Users, tester, Unit, Tokens, Campaigns, MaxBlock, MaxChanges, MaxCampaigns, Funding

VARIABLES block, pool, rewardPerBlock, endBlock, userInfo, totalRewardDebt, reward,
          wallet, starting, testing, changes, campaigns, startBlock, entitled, paid,
          deposits, withdrawals, updates, stoppedLate

L == INSTANCE Liquidity WITH Fund <- Funding

ASSUME UsersAssumption ==
    /\ IsFiniteSet(Users) /\ tester \in Users /\ Tokens \in [Users -> Nat]
    /\ Campaigns \subseteq [rate : Nat, blocks : Nat]
    /\ MaxBlock \in Nat \ {0} /\ MaxChanges \in Nat /\ MaxCampaigns \in Nat
    /\ Funding \in Nat
ASSUME UnitAssumption == Unit \in Nat \ {0} /\ \A n \in 1 .. L!Supply : Unit % n = 0

liquidityVars == <<block, pool, rewardPerBlock, endBlock, userInfo, totalRewardDebt, reward,
                   wallet, starting, testing, changes, campaigns, startBlock, entitled,
                   paid, deposits, withdrawals, updates, stoppedLate>>

\* Each user of the pool has their share of each campaign, no more and no less,
\* and the contract can pay it.
LiquidityTrue ==
    L!TypeOK /\ L!NobodyOverpaid /\ L!NobodyForgotten /\ L!Covered
=============================================================================

------------------------------- MODULE MCVaults -------------------------------
(* Four small vaults, of which a behaviour is about one: the constants of the  *)
(* strategies' are in the cfg, those of the others here.                       *)
EXTENDS MCVault

VARIABLE instance

allVars == <<vars, instance>>

\* One user, one asset whose price moves, no strategy.
Value == INSTANCE Vault WITH
    FullScale <- 4, MaxSupply <- 13, MaxWord <- 100, Accounts <- {u1},
    Deployable <- {}, Amounts <- {}, Approvals <- {}, Supplies <- {},
    Assets <- {cEUR}, Strategies <- {}, Choosers <- {}, Supports <- <<>>,
    Unit <- cEUR :> 4, Prices <- cEUR :> {2, 4, 5}, Deposits <- {4},
    MaxDeposits <- 1, Redemptions <- {4}, Gains <- {1}, Trustees <- {},
    RedeemFees <- {}, TrusteeFees <- {}, Buffers <- {}, SupplyDiffs <- {},
    Thresholds <- {0}, MaxHeld <- 10

\* Two assets of different decimals; balances and prices only, nothing minted.
Redemption == INSTANCE Vault WITH
    FullScale <- 10, MaxSupply <- 6, MaxWord <- 40, Accounts <- {u1},
    Deployable <- {}, Amounts <- {0}, Approvals <- {0}, Supplies <- {},
    Assets <- {cUSD, cEUR}, Strategies <- {}, Choosers <- {u1}, Supports <- <<>>,
    Unit <- cUSD :> 10 @@ cEUR :> 5, Prices <- cUSD :> {10} @@ cEUR :> {9, 12},
    Deposits <- {}, MaxDeposits <- 1, Redemptions <- {1, 2, 5, 10, 13},
    Gains <- {1, 5}, Trustees <- {}, RedeemFees <- {5000}, TrusteeFees <- {},
    Buffers <- {}, SupplyDiffs <- {}, Thresholds <- {0}, MaxHeld <- 16

\* A trustee that may become a contract and cease to be one.
Trustee == INSTANCE Vault WITH
    FullScale <- 4, MaxSupply <- 16, MaxWord <- 40, Accounts <- {u1, u2},
    Deployable <- {u2}, Amounts <- {}, Approvals <- {}, Supplies <- {},
    Assets <- {cUSD}, Strategies <- {}, Choosers <- {}, Supports <- <<>>,
    Unit <- cUSD :> 4, Prices <- cUSD :> {4}, Deposits <- {4},
    MaxDeposits <- 1, Redemptions <- {}, Gains <- {4, 8}, Trustees <- {u2},
    RedeemFees <- {}, TrusteeFees <- {5000}, Buffers <- {}, SupplyDiffs <- {1},
    Thresholds <- {0}, MaxHeld <- 12

InitOfOne ==
    \/ instance = "strategies" /\ Init
    \/ instance = "value" /\ Value!Init
    \/ instance = "redemption" /\ Redemption!Init
    \/ instance = "trustee" /\ Trustee!Init

NextOfOne ==
    /\ UNCHANGED instance
    /\ \/ instance = "strategies" /\ Next
       \/ instance = "value" /\ Value!Next
       \/ instance = "redemption" /\ Redemption!Next
       \/ instance = "trustee" /\ Trustee!Next

SpecOfOne == InitOfOne /\ [][NextOfOne]_allVars
-----------------------------------------------------------------------------
\* The properties of Vault, each in the instances whose bounds let it fail.

\* The state has its types.
TypesKept ==
    /\ instance = "strategies" => TypeOK
    /\ instance = "value" => Value!TypeOK
    /\ instance = "redemption" => Redemption!TypeOK
    /\ instance = "trustee" => Trustee!TypeOK

\* No call that pays nothing out lowers the value behind the supply.
NobodyDilutes ==
    [][/\ instance = "strategies" => KeepsValue
       /\ instance = "value" => Value!KeepsValue]_allVars

\* A rebase hands out the whole yield, and redeemAll leaves its caller no balance.
NothingIsLeft ==
    [][instance = "value" => Value!HandsOutYield /\ Value!RedeemsAll]_allVars

\* An allocation leaves the buffer in the vault.
BufferIsKept == [][instance = "strategies" => KeepsBuffer]_allVars

\* A redemption pays assets worth its amount.
OutputsAreWorthIt == instance = "redemption" => Redemption!RedemptionPaysItsWorth

\* A trustee that does not rebase is paid its part of the yield.
FeeIsPaid == [][instance = "trustee" => Trustee!PaysFee]_allVars
=============================================================================

-------------------------------- MODULE Vault --------------------------------
(***************************************************************************)
(* The vault, contracts/vault/VaultCore.sol and VaultAdmin.sol (two pieces   *)
(* of code on one storage), over the token OUSD, whose functions it calls in *)
(* the course of its own, and over strategies, which are known here by what  *)
(* the vault sees of them: what they hold and say they hold.                 *)
(*                                                                         *)
(* A transaction is one step.  A function called in its course is an         *)
(* operator that yields the set of its outcomes: none if it reverts, and     *)
(* then the whole transaction does not happen.                               *)
(***************************************************************************)
EXTENDS StableMath, SequencesExt

CONSTANTS Accounts, Deployable, MaxSupply, MaxWord, Amounts, Approvals, Supplies   \* of OUSD

CONSTANTS Assets,           \* the stablecoins the oracle prices
          Strategies,
          Nobody,           \* address 0
          ThisVault,        \* the vault itself, as a place where assets lie
          Supports,         \* strategy -> the assets it has a platform token for
          Unit,             \* asset -> 10^decimals
          Prices,           \* asset -> the prices it may have
          Choosers,         \* accounts that transfer, approve, and opt in and out
          Deposits,         \* amounts minted with
          MaxDeposits,      \* assets in one mintMultiple
          Redemptions,      \* amounts redeemed
          Gains,            \* what a place may earn, lose or harvest at once
          Trustees,         \* the accounts that may be made trustee, or Nobody
          RedeemFees, TrusteeFees, Buffers, SupplyDiffs, Thresholds,   \* arguments of the setters
          MaxHeld           \* bound on what there is of one asset

ASSUME AssetsAssumption ==
    /\ ThisVault \notin Strategies /\ Nobody \notin Strategies /\ Nobody \notin Accounts
    /\ Supports \in [Strategies -> SUBSET Assets]
    /\ \A a \in Assets : Unit[a] \in Nat \ {0} /\ FullScale % Unit[a] = 0   \* at most 18 decimals
    /\ \A a \in Assets : Prices[a] \subseteq Nat \ {0}
    /\ \A d \in Deposits : d \in Nat
    /\ Trustees \subseteq Accounts \union {Nobody}

ASSUME StrategiesAssumption == IsFiniteSet(Strategies)

ASSUME ArgumentsAssumption ==       \* uint256
    /\ RedeemFees \subseteq Nat /\ TrusteeFees \subseteq Nat /\ Buffers \subseteq Nat
    /\ SupplyDiffs \subseteq Nat /\ Thresholds \subseteq Nat
    /\ Redemptions \subseteq Nat /\ Gains \subseteq Nat
    /\ Choosers \subseteq Accounts

ASSUME TokenAssumption ==           \* as in OUSD
    /\ IsFiniteSet(Accounts) /\ Deployable \subseteq Accounts
    /\ MaxSupply \in Nat
    /\ MaxWord \in Nat /\ FullScale <= MaxWord
    /\ Amounts \subseteq Nat /\ Approvals \subseteq Nat
    /\ Supplies \subseteq Nat

VARIABLES token, allowances, contracts,     \* the state of OUSD
          vault,                            \* the vault's storage
          held,                             \* place -> asset -> what lies there
          price                             \* what the oracle says

tokenVars == <<token, allowances, contracts>>

vars == <<token, allowances, contracts, vault, held, price>>

Token == INSTANCE OUSD

Places == {ThisVault} \union Strategies

AssetLists == Seq(Assets)

StrategyLists == Seq(Strategies)

VaultStorage ==
    [allAssets : AssetLists, allStrategies : StrategyLists, approved : SUBSET Strategies,
     assetDefaultStrategies : [Assets -> Strategies \union {Nobody}],
     capitalPaused : BOOLEAN, rebasePaused : BOOLEAN,
     redeemFeeBps : Nat, vaultBuffer : 0 .. FullScale, maxSupplyDiff : Nat,
     autoAllocateThreshold : Nat, rebaseThreshold : Nat,
     trustee : Trustees \union {Nobody}, trusteeFeeBps : 0 .. 5000]

Init ==
    /\ Token!Init
    /\ \E allocate, rebase \in Thresholds :
          vault = [allAssets |-> <<>>, allStrategies |-> <<>>, approved |-> {},
                   assetDefaultStrategies |-> [a \in Assets |-> Nobody],
                   capitalPaused |-> TRUE, rebasePaused |-> FALSE,
                   redeemFeeBps |-> 0, vaultBuffer |-> 0, maxSupplyDiff |-> 0,
                   autoAllocateThreshold |-> allocate, rebaseThreshold |-> rebase,
                   trustee |-> Nobody, trusteeFeeBps |-> 0]
    /\ held = [p \in Places |-> [a \in Assets |-> 0]]
    /\ price \in {p \in [Assets -> UNION {Prices[a] : a \in Assets}] : \A a \in Assets : p[a] \in Prices[a]}
-----------------------------------------------------------------------------
(* Values.  h stands for what is held where, at the moment of the call.      *)

Supported == ToSet(vault.allAssets)

\* _assetValueFromOracle
ValueOf(a, amount) == (amount * price[a]) \div Unit[a]

\* scaleBy to 18 decimals
Scaled(a, amount) == amount * (FullScale \div Unit[a])

TotalValueInVault(h) ==
    SumFunction([a \in Supported |-> ValueOf(a, h[ThisVault][a])])

TotalValueInStrategy(h, s) ==
    SumFunction([a \in Supported \intersect Supports[s] |-> ValueOf(a, h[s][a])])

TotalValueInStrategies(h) ==
    SumFunction([i \in DOMAIN vault.allStrategies |-> TotalValueInStrategy(h, vault.allStrategies[i])])

TotalValue(h) == TotalValueInVault(h) + TotalValueInStrategies(h)

\* _checkBalance of one asset
CheckBalance(h, a) ==
    LET balance(s) == IF a \in Supports[s] THEN h[s][a] ELSE 0
    IN  h[ThisVault][a]
            + SumFunction([i \in DOMAIN vault.allStrategies |-> balance(vault.allStrategies[i])])

Move(h, from, to, a, amount) ==
    LET taken == [h EXCEPT ![from][a] = @ - amount]
    IN  [taken EXCEPT ![to][a] = @ + amount]

\* withdrawAll of every strategy in S.
AllWithdrawn(h, S) ==
    LET sum(a) == SumFunction([s \in S |-> h[s][a]])
    IN  [p \in Places |-> [a \in Assets |->
            IF p = ThisVault THEN h[p][a] + sum(a) ELSE IF p \in S THEN 0 ELSE h[p][a]]]

\* _harvest: the rewards of strategies are swapped for the first asset.
Harvested(h) ==
    IF vault.allAssets = <<>> THEN {h}
    ELSE {h} \union {[h EXCEPT ![ThisVault][Head(vault.allAssets)] = @ + r] : r \in Gains}

\* A faulty rebase: the fee is taken of the value, not of the yield.
RebasedFeeOfValue(t, value) ==
    LET fee == (value * vault.trusteeFeeBps) \div 10000
        feePaid == IF vault.trustee # Nobody /\ value > t.totalSupply
                   THEN Token!Minted(t, vault.trustee, fee) ELSE {t}
    IN  IF t.totalSupply = 0 THEN {t}
        ELSE UNION {IF value > u.totalSupply THEN Token!SupplyChanged(u, value) ELSE {u} : u \in feePaid}

\* _rebase: the trustee's fee is minted first, then everybody shares the rest.
Rebased(t, value) ==
    LET yield == value - t.totalSupply
        fee == (yield * vault.trusteeFeeBps) \div 10000
        feePaid ==
            CASE vault.trustee = Nobody \/ yield <= 0 -> {t}
              [] vault.trustee # Nobody /\ yield > 0 /\ fee > 0 /\ yield > fee ->
                    Token!Minted(t, vault.trustee, fee)
              [] vault.trustee # Nobody /\ yield > 0 /\ fee = 0 -> {t}
              [] OTHER -> {}
    IN  IF t.totalSupply = 0 THEN {t}
        ELSE UNION {IF value > u.totalSupply THEN Token!SupplyChanged(u, value) ELSE {u} : u \in feePaid}

RebasedIf(condition, t, value) ==
    IF condition /\ ~vault.rebasePaused THEN Rebased(t, value) ELSE {t}

\* A faulty share: the buffer is taken of what lies in the vault.
VaultBufferModifierOfVault(h) == FullScale - vault.vaultBuffer

\* The share of what lies in the vault that _allocate moves to strategies,
\* nothing if at most 0.
VaultBufferModifier(h) ==
    LET inVault == TotalValueInVault(h)
        inStrategies == TotalValueInStrategies(h)
    IN  CASE inVault = 0 -> 0
          [] inVault # 0 /\ inStrategies = 0 -> FullScale - vault.vaultBuffer
          [] OTHER -> FullScale - (vault.vaultBuffer * (inVault + inStrategies)) \div inVault

Deposited(h, modifier) ==
    LET amount(a) ==
            IF a \in Supported /\ vault.assetDefaultStrategies[a] # Nobody
            THEN MulTruncate(h[ThisVault][a], modifier) ELSE 0
    IN  [p \in Places |-> [a \in Assets |->
            CASE p = ThisVault -> h[p][a] - amount(a)
              [] p # ThisVault /\ p = vault.assetDefaultStrategies[a] -> h[p][a] + amount(a)
              [] OTHER -> h[p][a]]]

\* _allocate, with the harvest at its end.
Allocated(h) ==
    LET modifier == VaultBufferModifier(h)
    IN  CASE modifier <= 0 -> {h}
          [] modifier > 0 /\ vault.allStrategies = <<>> -> {Deposited(h, modifier)}
          [] OTHER -> Harvested(Deposited(h, modifier))

\* _calculateRedeemOutputs: every asset in proportion to what there is of it,
\* so much of all that together they are worth the amount, none taken for less
\* than 1.  The function is defined where its divisions are.
TotalBalance(h) == SumFunction([a \in Supported |-> Scaled(a, CheckBalance(h, a))])

\* What a redemption takes an amount of an asset to be worth, times FullScale.
Worth(a, amount) == Scaled(a, amount) * (IF price[a] < FullScale THEN FullScale ELSE price[a])

\* A faulty ratio: all assets are taken to be worth 1.
TotalOutputRatioOfOne(h) == FullScale

TotalOutputRatio(h) ==
    SumFunction([a \in Supported |-> Worth(a, CheckBalance(h, a)) \div TotalBalance(h)])

AfterFee(amount) == amount - (amount * vault.redeemFeeBps) \div 10000

RedeemOutputs(h, amount) ==
    LET factor == DivPrecisely(AfterFee(amount), TotalOutputRatio(h))
    IN  [a \in Supported |-> (CheckBalance(h, a) * factor) \div TotalBalance(h)]

\* What is held once the outputs are paid: each by the vault if it has enough,
\* by the default strategy of the asset otherwise.
Payer(h, a, amount) ==
    IF h[ThisVault][a] >= amount THEN ThisVault ELSE vault.assetDefaultStrategies[a]

\* A faulty payment: nobody checks that there is enough.
PaidUnchecked(h, outputs) ==
    {[h EXCEPT ![ThisVault] = [a \in Assets |-> IF a \in Supported THEN @[a] - outputs[a] ELSE @[a]]]}

Paid(h, outputs) ==
    IF \A a \in Supported : outputs[a] > 0 =>
           Payer(h, a, outputs[a]) # Nobody /\ h[Payer(h, a, outputs[a])][a] >= outputs[a]
    THEN {[p \in Places |-> [a \in Assets |->
              IF a \in Supported /\ p = Payer(h, a, outputs[a]) THEN h[p][a] - outputs[a] ELSE h[p][a]]]}
    ELSE {}

SupplyNearValue(t, h) ==
    vault.maxSupplyDiff > 0 =>
        /\ TotalValue(h) > 0
        /\ LET diff == DivPrecisely(t.totalSupply, TotalValue(h))
           IN  diff - FullScale <= vault.maxSupplyDiff /\ FullScale - diff <= vault.maxSupplyDiff
-----------------------------------------------------------------------------
(* Users.                                                                    *)

Bounded(h) == \A a \in Assets : SumFunction([p \in Places |-> h[p][a]]) <= MaxHeld

\* A faulty mint: every stablecoin is taken to be worth 1.
PriceAdjustedAtPar(deposits) ==
    SumFunction([i \in DOMAIN deposits |-> Scaled(deposits[i][1], deposits[i][2])])

PriceAdjusted(deposits) ==
    SumFunction([i \in DOMAIN deposits |-> ValueOf(deposits[i][1], deposits[i][2])])

\* mint (one deposit) and mintMultiple: pairs of an asset and an amount.
Mint(user, deposits) ==
    LET units == SumFunction([i \in DOMAIN deposits |-> Scaled(deposits[i][1], deposits[i][2])])
        brought(a) == SumFunction([i \in DOMAIN deposits |->
                                      IF deposits[i][1] = a THEN deposits[i][2] ELSE 0])
        received == [held EXCEPT ![ThisVault] = [a \in Assets |-> @[a] + brought(a)]]
    IN  /\ ~vault.capitalPaused
        /\ \A i \in DOMAIN deposits : deposits[i][1] \in Supported /\ deposits[i][2] > 0
        /\ \E t \in RebasedIf(units >= vault.rebaseThreshold, token, TotalValue(held)) :
              token' \in Token!Minted(t, user, PriceAdjusted(deposits))
        /\ held' \in IF units >= vault.autoAllocateThreshold THEN Allocated(received) ELSE {received}
        /\ Bounded(held')
        /\ UNCHANGED <<allowances, contracts, vault, price>>

\* _redeem, on the storage of the token after the rebase before it.
RedeemFrom(t, user, amount) ==
    /\ amount > 0
    /\ SupplyNearValue(t, held)
    /\ AfterFee(amount) >= 0
    /\ TotalBalance(held) > 0
    /\ TotalOutputRatio(held) > 0
    /\ held' \in Paid(held, RedeemOutputs(held, amount))
    /\ \E u \in Token!Burned(t, user, amount) :
          token' \in RebasedIf(amount > vault.rebaseThreshold, u, TotalValue(held'))
    /\ UNCHANGED <<allowances, contracts, vault, price>>

Redeem(user, amount) ==
    /\ ~vault.capitalPaused
    /\ \E t \in RebasedIf(amount > vault.rebaseThreshold, token, TotalValue(held)) :
          RedeemFrom(t, user, amount)

\* A faulty redeemAll: the balance is not read again.
RedeemAllStale(user) ==
    /\ ~vault.capitalPaused
    /\ \E t \in RebasedIf(Token!BalanceOf(token, user) > vault.rebaseThreshold, token, TotalValue(held)) :
          RedeemFrom(t, user, Token!BalanceOf(token, user))

\* The balance is read again after the rebase.
RedeemAll(user) ==
    /\ ~vault.capitalPaused
    /\ \E t \in RebasedIf(Token!BalanceOf(token, user) > vault.rebaseThreshold, token, TotalValue(held)) :
          RedeemFrom(t, user, Token!BalanceOf(t, user))

Allocate ==
    /\ ~vault.capitalPaused
    /\ held' \in Allocated(held)
    /\ Bounded(held')
    /\ UNCHANGED <<tokenVars, vault, price>>

Rebase ==
    /\ ~vault.rebasePaused
    /\ token' \in Rebased(token, TotalValue(held))
    /\ UNCHANGED <<allowances, contracts, vault, held, price>>
-----------------------------------------------------------------------------
(* The governor and the strategist.                                          *)

SetVault(v) == vault' = v /\ UNCHANGED <<tokenVars, held, price>>

SetRedeemFeeBps(bps) == SetVault([vault EXCEPT !.redeemFeeBps = bps])

SetVaultBuffer(buffer) == buffer <= FullScale /\ SetVault([vault EXCEPT !.vaultBuffer = buffer])

SetAutoAllocateThreshold(threshold) == SetVault([vault EXCEPT !.autoAllocateThreshold = threshold])

SetRebaseThreshold(threshold) == SetVault([vault EXCEPT !.rebaseThreshold = threshold])

SetMaxSupplyDiff(diff) == SetVault([vault EXCEPT !.maxSupplyDiff = diff])

SetTrusteeAddress(a) == SetVault([vault EXCEPT !.trustee = a])

SetTrusteeFeeBps(bps) == bps <= 5000 /\ SetVault([vault EXCEPT !.trusteeFeeBps = bps])

PauseRebase == SetVault([vault EXCEPT !.rebasePaused = TRUE])

UnpauseRebase == SetVault([vault EXCEPT !.rebasePaused = FALSE])

PauseCapital == SetVault([vault EXCEPT !.capitalPaused = TRUE])

UnpauseCapital == SetVault([vault EXCEPT !.capitalPaused = FALSE])

SupportAsset(a) ==
    /\ a \notin Supported
    /\ SetVault([vault EXCEPT !.allAssets = Append(@, a)])

ApproveStrategy(s) ==
    /\ s \notin vault.approved
    /\ SetVault([vault EXCEPT !.allStrategies = Append(@, s), !.approved = @ \union {s}])

SetAssetDefaultStrategy(a, s) ==
    /\ s \in vault.approved /\ a \in Supported /\ a \in Supports[s]
    /\ SetVault([vault EXCEPT !.assetDefaultStrategies[a] = s])

\* A faulty removal: the last strategy goes, whichever is to be removed.
WithoutLast(list, s) == Front(list)

\* The list without s: the last strategy takes its place.
Without(list, s) ==
    LET last == Len(list)
        i == SelectInSeq(list, LAMBDA t : t = s)
    IN  SubSeq([list EXCEPT ![i] = list[last]], 1, last - 1)

\* The list is shortened, the strategy emptied and harvested.  The assets keep
\* their default strategies.
RemoveStrategy(s) ==
    /\ s \in vault.approved
    /\ vault' = [vault EXCEPT !.allStrategies = Without(@, s), !.approved = @ \ {s}]
    /\ held' \in Harvested(AllWithdrawn(held, {s}))
    /\ Bounded(held')
    /\ UNCHANGED <<tokenVars, price>>

Reallocate(from, to, a, amount) ==
    /\ from \in vault.approved /\ to \in vault.approved
    /\ a \in Supports[to]
    /\ held[from][a] >= amount
    /\ held' = Move(held, from, to, a, amount)
    /\ UNCHANGED <<tokenVars, vault, price>>

WithdrawAllFromStrategy(s) ==
    /\ s \in vault.approved
    /\ held' = AllWithdrawn(held, {s})
    /\ UNCHANGED <<tokenVars, vault, price>>

WithdrawAllFromStrategies ==
    /\ held' = AllWithdrawn(held, ToSet(vault.allStrategies))
    /\ UNCHANGED <<tokenVars, vault, price>>

Harvest ==
    /\ vault.allStrategies # <<>>
    /\ held' \in Harvested(held)
    /\ Bounded(held')
    /\ UNCHANGED <<tokenVars, vault, price>>

\* For tokens sent to the vault by mistake.
TransferToken(a, amount) ==
    /\ a \notin Supported
    /\ held[ThisVault][a] >= amount
    /\ held' = [held EXCEPT ![ThisVault][a] = @ - amount]
    /\ UNCHANGED <<tokenVars, vault, price>>

Configure ==
    \/ \E x \in RedeemFees : SetRedeemFeeBps(x)
    \/ \E x \in Buffers : SetVaultBuffer(x)
    \/ \E x \in Thresholds : SetAutoAllocateThreshold(x) \/ SetRebaseThreshold(x)
    \/ \E x \in SupplyDiffs : SetMaxSupplyDiff(x)
    \/ \E x \in Trustees : SetTrusteeAddress(x)
    \/ \E x \in TrusteeFees : SetTrusteeFeeBps(x)
    \/ PauseRebase \/ UnpauseRebase \/ PauseCapital \/ UnpauseCapital

Administer ==
    \/ \E a \in Assets : SupportAsset(a) \/ \E x \in Gains : TransferToken(a, x)
    \/ \E s \in Strategies :
          \/ ApproveStrategy(s) \/ RemoveStrategy(s) \/ WithdrawAllFromStrategy(s)
          \/ \E a \in Assets : SetAssetDefaultStrategy(a, s)
          \/ \E to \in Strategies, a \in Assets, x \in Gains : Reallocate(s, to, a, x)
    \/ WithdrawAllFromStrategies
    \/ Harvest
-----------------------------------------------------------------------------
(* The world: prices move, strategies earn and lose, anyone sends the vault   *)
(* assets, holders use the token.                                            *)

PriceMoves(a) ==
    /\ \E p \in Prices[a] : price' = [price EXCEPT ![a] = p]
    /\ UNCHANGED <<tokenVars, vault, held>>

Earn(p, a, amount) ==
    /\ p = ThisVault \/ held[p][a] > 0
    /\ held' = [held EXCEPT ![p][a] = @ + amount]
    /\ Bounded(held')
    /\ UNCHANGED <<tokenVars, vault, price>>

Lose(s, a, amount) ==
    /\ held[s][a] >= amount
    /\ held' = [held EXCEPT ![s][a] = @ - amount]
    /\ UNCHANGED <<tokenVars, vault, price>>

World ==
    \/ \E a \in Assets : PriceMoves(a)
    \/ \E p \in Places, a \in Assets, x \in Gains : Earn(p, a, x)
    \/ \E s \in Strategies, a \in Assets, x \in Gains : Lose(s, a, x)
    \/ (\E a \in Accounts : Token!Deploy(a) \/ Token!SelfDestruct(a)) /\ UNCHANGED <<vault, held, price>>

Holders == (\E a \in Choosers : Token!By(a)) /\ UNCHANGED <<vault, held, price>>

Users ==
    \/ \E u \in Accounts :
          \/ \E n \in 1 .. MaxDeposits : \E d \in [1 .. n -> Assets \X Deposits] : Mint(u, d)
          \/ \E x \in Redemptions : Redeem(u, x)
          \/ RedeemAll(u)
    \/ Allocate
    \/ Rebase

Next == Users \/ Holders \/ Configure \/ Administer \/ World

Spec == Init /\ [][Next]_vars
-----------------------------------------------------------------------------
(* Properties.                                                              *)

TypeOK ==
    /\ Token!TypeOK
    /\ vault \in VaultStorage
    /\ held \in [Places -> [Assets -> Nat]]
    /\ price \in [Assets -> Nat]

\* The list of strategies, which is counted, and the mapping, which is asked,
\* agree, and no strategy is counted twice.
StrategyListsAgree ==
    /\ IsInjective(vault.allStrategies)
    /\ ToSet(vault.allStrategies) = vault.approved

\* No asset is sent to, or fetched from, a strategy that is not approved.
DefaultStrategiesApproved ==
    \A a \in Supported :
        vault.assetDefaultStrategies[a] \in vault.approved \union {Nobody}

Surplus == TotalValue(held) - token.totalSupply

\* What rounding may take from the surplus: of every asset a fraction of a unit
\* of value, and the credits a rebase gives for less than a unit of the rate.
Dust == Cardinality(Supported)

Overshoot == token.totalSupply \div token.rebasingCreditsPerToken + 1

PaidOut(a) == SumFunction([p \in Places |-> held[p][a] - held'[p][a]])

\* No call that pays nothing out lowers the value behind the supply, whoever
\* makes it, save a rebase, which hands out what there is above the supply and
\* no more.  (Where RemoveStrategy has left a strategy the default of an asset,
\* calls send the asset to where it is not counted.)
KeepsValue ==
    (~World /\ DefaultStrategiesApproved /\ \A a \in Assets : PaidOut(a) <= 0) =>
       \/ Surplus' >= Surplus - Dust
       \/ ~vault.rebasePaused /\ Surplus' >= -(Overshoot' + Dust)

\* After a rebase no yield is left: what is not the trustee's fee is in the
\* balances of the holders, unless the supply is at its cap.
HandsOutYield ==
    Rebase /\ token.totalSupply > 0 => Surplus' <= 0 \/ token'.totalSupply >= MaxSupply

Gain(a) == Token!BalanceOf(token', a) - Token!BalanceOf(token, a)

\* What one credit of an account is worth, rounded up.
CreditsWorth(a) == DivPrecisely(1, Token!CreditsPerToken(token', a)) + 1

FeeOfYield(value, supply) == ((value - supply) * vault.trusteeFeeBps) \div 10000

\* A trustee that does not rebase is paid its part of the yield by a rebase: no
\* more, and no more than a credit's worth less.
PaysFee ==
    \A a \in Accounts :
       Rebase /\ a = vault.trustee /\ Token!IsNonRebasing(token', a)
              /\ token.totalSupply > 0 /\ TotalValue(held) > token.totalSupply =>
           /\ Gain(a) <= FeeOfYield(TotalValue(held), token.totalSupply)
           /\ Gain(a) >= FeeOfYield(TotalValue(held), token.totalSupply) - CreditsWorth(a)

\* VaultAdmin.sol:266-267: whoever the trustee is, a rebase gives it the
\* percentage of the yield that it should receive.
TrusteeReceivesItsPercentage ==
    [][\A a \in Accounts :
          Rebase /\ a = vault.trustee /\ Token!BalanceOf(token, a) = 0
                 /\ token.totalSupply > 0 /\ TotalValue(held) > token.totalSupply =>
              Gain(a) <= FeeOfYield(TotalValue(held), token.totalSupply) + 1]_vars

\* The mix of assets a redemption pays, priced as it prices it, is worth the
\* amount without the fee up to what is rounded: no more, or the holders who
\* stay would lose, and no less.
RedemptionPaysItsWorth ==
    \A x \in Redemptions :
        AfterFee(x) >= 0 /\ TotalBalance(held) > 0 /\ TotalOutputRatio(held) > 0 =>
            LET paid == SumFunction([a \in Supported |-> Worth(a, RedeemOutputs(held, x)[a])])
                units == SumFunction([a \in Supported |-> Worth(a, 1)])
            IN  /\ paid * (FullScale - Dust) <= AfterFee(x) * FullScale * FullScale
                /\ paid >= AfterFee(x) * FullScale - TotalOutputRatio(held) - units

\* redeemAll leaves its caller no balance (test/vault/redeem.js:335), as long as
\* a credit is worth at least one unit of the token: credits start one for one,
\* and rebases make them worth more.  (The trustee may be paid a fee by the rebase
\* at the end of its own redemption.)
RedeemsAll ==
    \A u \in Accounts \ {vault.trustee} :
       /\ Token!BalanceOf(token', u) > 0
       /\ Token!CreditsPerToken(token, u) <= FullScale
       /\ token.rebasingCredits <= token.totalSupply - token.nonRebasingSupply
       => ~RedeemAll(u)

\* What is allocated leaves the buffer in the vault, up to one unit of
\* precision, in whatever state of the strategies it is allocated.
KeepsBuffer ==
    /\ vault' = vault /\ ~World
    /\ TotalValueInStrategies(held') > TotalValueInStrategies(held)
    /\ token' # token \/ held'[ThisVault] # held[ThisVault]
    =>
       FullScale * (TotalValueInVault(held') + Dust) >= (vault.vaultBuffer - 1) * TotalValue(held')
=============================================================================

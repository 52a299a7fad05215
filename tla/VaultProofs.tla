----------------------------- MODULE VaultProofs -----------------------------
(***************************************************************************)
(* For any assets, strategies, prices and arguments: the list of strategies *)
(* and the mapping agree; the vault keeps its types and those of the token  *)
(* it drives, whose tally stays backed; a redemption pays what it is worth; *)
(* a rebase hands out the yield, and the trustee its part of it; and an     *)
(* allocation leaves the vault its buffer.                                  *)
(***************************************************************************)
EXTENDS Vault, ArithmeticProofs

USE FullScaleAssumption

\* A strategy that is not in the list is appended.
LEMMA Appended ==
    ASSUME NEW list \in Seq(Strategies), IsInjective(list), NEW s \in Strategies,
           s \notin ToSet(list)
    PROVE  /\ Append(list, s) \in Seq(Strategies)
           /\ IsInjective(Append(list, s))
           /\ ToSet(Append(list, s)) = ToSet(list) \union {s}
<1> DEFINE longer == Append(list, s)
<1>1. /\ longer \in Seq(Strategies) /\ Len(longer) = Len(list) + 1 /\ Len(list) \in Nat
      /\ \A i \in 1 .. Len(list) : longer[i] = list[i]
      /\ longer[Len(list) + 1] = s
      /\ DOMAIN list = 1 .. Len(list) /\ DOMAIN longer = 1 .. Len(list) + 1
  OBVIOUS
<1> HIDE DEF longer
<1>2. IsInjective(longer)
  BY <1>1 DEF IsInjective, ToSet
<1>3. ToSet(longer) = ToSet(list) \union {s}
  <2>1. \A x : x \in ToSet(longer) => x \in ToSet(list) \union {s}
    BY <1>1 DEF ToSet
  <2>2. \A x : x \in ToSet(list) => x \in ToSet(longer)
    BY <1>1 DEF ToSet
  <2>3. s \in ToSet(longer)
    BY <1>1 DEF ToSet
  <2> QED
    BY <2>1, <2>2, <2>3
<1> QED
  BY <1>1, <1>2, <1>3 DEF longer

\* A strategy of the list is found where it is.
LEMMA Found ==
    ASSUME NEW list \in Seq(Strategies), IsInjective(list), NEW s \in ToSet(list)
    PROVE  /\ SelectInSeq(list, LAMBDA t : t = s) \in 1 .. Len(list)
           /\ list[SelectInSeq(list, LAMBDA t : t = s)] = s
<1> DEFINE I == {i \in 1 .. Len(list) : list[i] = s}
<1>1. PICK i \in 1 .. Len(list) : list[i] = s
  BY DEF ToSet
<1>2. I = {i}
  BY <1>1 DEF IsInjective
<1>3. Min(I) = i
  BY <1>2, <1>1 DEF Min
<1> QED
  BY <1>1, <1>2, <1>3 DEF SelectInSeq

\* Without takes the one strategy out, and only that one, and no strategy is then
\* in the list twice.
LEMMA Removed ==
    ASSUME NEW list \in Seq(Strategies), IsInjective(list), NEW s \in ToSet(list)
    PROVE  /\ Without(list, s) \in Seq(Strategies)
           /\ IsInjective(Without(list, s))
           /\ ToSet(Without(list, s)) = ToSet(list) \ {s}
<1> DEFINE i == SelectInSeq(list, LAMBDA t : t = s)
           n == Len(list)
           swapped == [list EXCEPT ![i] = list[n]]
           shorter == SubSeq(swapped, 1, n - 1)
<1>1. i \in 1 .. n /\ list[i] = s /\ n \in Nat
  <2>1. i \in 1 .. n /\ list[i] = s
    BY Found, Zenon
  <2> QED
    BY <2>1
<1>2. Without(list, s) = shorter
  BY DEF Without
<1> HIDE DEF i
<1>3. /\ \A j \in 1 .. n : swapped[j] = (IF j = i THEN list[n] ELSE list[j])
      /\ \A j \in 1 .. n : swapped[j] \in Strategies
      /\ swapped \in Seq(Strategies) /\ Len(swapped) = n
  BY <1>1
<1> HIDE DEF swapped
<1>4. /\ shorter \in Seq(Strategies) /\ Len(shorter) = n - 1 /\ DOMAIN shorter = 1 .. (n - 1)
      /\ \A j \in 1 .. (n - 1) : shorter[j] = IF j = i THEN list[n] ELSE list[j]
  BY <1>1, <1>3
<1> HIDE DEF shorter, n
<1>5. \A j, k \in 1 .. n : list[j] = list[k] => j = k
  BY DEF IsInjective, n
<1>6. IsInjective(shorter)
  BY <1>1, <1>4, <1>5 DEF IsInjective
<1>7. ASSUME NEW x PROVE x \in ToSet(shorter) <=> x \in ToSet(list) /\ x # s
  <2>1. x \in ToSet(shorter) <=> \E j \in 1 .. (n - 1) : shorter[j] = x
    BY <1>4 DEF ToSet
  <2>2. x \in ToSet(list) <=> \E j \in 1 .. n : list[j] = x
    BY DEF ToSet, n
  <2>3. ASSUME NEW j \in 1 .. (n - 1), shorter[j] = x
        PROVE  x \in ToSet(list) /\ x # s
    BY <1>1, <1>4, <1>5, <2>2, <2>3
  <2>4. ASSUME NEW j \in 1 .. n, list[j] = x, x # s
        PROVE  \E k \in 1 .. (n - 1) : shorter[k] = x
    <3>1. CASE j = n
      BY <1>1, <1>4, <2>4, <3>1
    <3>2. CASE j # n
      BY <1>1, <1>4, <2>4, <3>2
    <3> QED
      BY <3>1, <3>2
  <2> QED
    BY <2>1, <2>2, <2>3, <2>4
<1>8. ToSet(shorter) = ToSet(list) \ {s}
  BY <1>7
<1> QED
  BY <1>2, <1>4, <1>6, <1>8
-----------------------------------------------------------------------------
(* The storage.                                                             *)

\* The storage has its types, and the list and the mapping agree.
ListInv == vault \in VaultStorage /\ StrategyListsAgree

\* Nothing is supported or approved at first.
LEMMA ListInvInit == Init => ListInv
<1> SUFFICES ASSUME Init PROVE ListInv
  OBVIOUS
<1>1. PICK allocate \in Thresholds, rebase \in Thresholds :
          vault = [allAssets |-> <<>>, allStrategies |-> <<>>, approved |-> {},
                   assetDefaultStrategies |-> [a \in Assets |-> Nobody],
                   capitalPaused |-> TRUE, rebasePaused |-> FALSE,
                   redeemFeeBps |-> 0, vaultBuffer |-> 0, maxSupplyDiff |-> 0,
                   autoAllocateThreshold |-> allocate, rebaseThreshold |-> rebase,
                   trustee |-> Nobody, trusteeFeeBps |-> 0]
  BY DEF Init
<1>2. vault \in VaultStorage
  <2>1. <<>> \in AssetLists /\ <<>> \in StrategyLists
    BY DEF AssetLists, StrategyLists
  <2> QED
    BY <1>1, <2>1, ArgumentsAssumption DEF VaultStorage
<1>3. StrategyListsAgree
  BY <1>1 DEF StrategyListsAgree, IsInjective, ToSet
<1> QED
  BY <1>2, <1>3 DEF ListInv

\* A setter that leaves list and mapping alone keeps them in agreement.
LEMMA ListsLeft ==
    ASSUME ListInv, vault' \in VaultStorage,
           vault'.allStrategies = vault.allStrategies, vault'.approved = vault.approved
    PROVE  ListInv'
BY DEF ListInv, StrategyListsAgree

\* The setters store what they are given, within its limits.
LEMMA ConfigureStep ==
    ASSUME ListInv, Configure
    PROVE  ListInv'
<1>0. vault \in VaultStorage
  BY DEF ListInv
<1>1. ASSUME NEW x \in RedeemFees, SetRedeemFeeBps(x) PROVE ListInv'
  <2>1. vault' = [vault EXCEPT !.redeemFeeBps = x]
    BY <1>1 DEF SetRedeemFeeBps, SetVault
  <2>2. x \in Nat
    BY ArgumentsAssumption
  <2> QED
    BY <1>0, <2>1, <2>2, ListsLeft DEF VaultStorage
<1>2. ASSUME NEW x \in Buffers, SetVaultBuffer(x) PROVE ListInv'
  <2>1. vault' = [vault EXCEPT !.vaultBuffer = x]
    BY <1>2 DEF SetVaultBuffer, SetVault
  <2>2. x \in 0 .. FullScale
    BY <1>2, ArgumentsAssumption DEF SetVaultBuffer
  <2> QED
    BY <1>0, <2>1, <2>2, ListsLeft DEF VaultStorage
<1>3. ASSUME NEW x \in Thresholds, SetAutoAllocateThreshold(x) PROVE ListInv'
  <2>1. vault' = [vault EXCEPT !.autoAllocateThreshold = x]
    BY <1>3 DEF SetAutoAllocateThreshold, SetVault
  <2>2. x \in Nat
    BY ArgumentsAssumption
  <2> QED
    BY <1>0, <2>1, <2>2, ListsLeft DEF VaultStorage
<1>4. ASSUME NEW x \in Thresholds, SetRebaseThreshold(x) PROVE ListInv'
  <2>1. vault' = [vault EXCEPT !.rebaseThreshold = x]
    BY <1>4 DEF SetRebaseThreshold, SetVault
  <2>2. x \in Nat
    BY ArgumentsAssumption
  <2> QED
    BY <1>0, <2>1, <2>2, ListsLeft DEF VaultStorage
<1>5. ASSUME NEW x \in SupplyDiffs, SetMaxSupplyDiff(x) PROVE ListInv'
  <2>1. vault' = [vault EXCEPT !.maxSupplyDiff = x]
    BY <1>5 DEF SetMaxSupplyDiff, SetVault
  <2>2. x \in Nat
    BY ArgumentsAssumption
  <2> QED
    BY <1>0, <2>1, <2>2, ListsLeft DEF VaultStorage
<1>6. ASSUME NEW x \in Trustees, SetTrusteeAddress(x) PROVE ListInv'
  <2>1. vault' = [vault EXCEPT !.trustee = x]
    BY <1>6 DEF SetTrusteeAddress, SetVault
  <2>2. x \in Trustees \union {Nobody}
    BY <1>6
  <2> QED
    BY <1>0, <2>1, <2>2, ListsLeft DEF VaultStorage
<1>7. ASSUME NEW x \in TrusteeFees, SetTrusteeFeeBps(x) PROVE ListInv'
  <2>1. vault' = [vault EXCEPT !.trusteeFeeBps = x]
    BY <1>7 DEF SetTrusteeFeeBps, SetVault
  <2>2. x \in 0 .. 5000
    <3>1. x <= 5000
      BY <1>7 DEF SetTrusteeFeeBps
    <3> QED
      BY <1>7, <3>1, ArgumentsAssumption
  <2> QED
    BY <1>0, <2>1, <2>2, ListsLeft DEF VaultStorage
<1>8. CASE PauseRebase \/ UnpauseRebase
  <2>1. PICK paused \in BOOLEAN : vault' = [vault EXCEPT !.rebasePaused = paused]
    BY <1>8 DEF PauseRebase, UnpauseRebase, SetVault
  <2> QED
    BY <1>0, <2>1, ListsLeft DEF VaultStorage
<1>9. CASE PauseCapital \/ UnpauseCapital
  <2>1. PICK paused \in BOOLEAN : vault' = [vault EXCEPT !.capitalPaused = paused]
    BY <1>9 DEF PauseCapital, UnpauseCapital, SetVault
  <2> QED
    BY <1>0, <2>1, ListsLeft DEF VaultStorage
<1> QED
  BY <1>1, <1>2, <1>3, <1>4, <1>5, <1>6, <1>7, <1>8, <1>9 DEF Configure

\* An asset that is supported, or given a default strategy, leaves the lists.
LEMMA AssetStep ==
    ASSUME ListInv, NEW a \in Assets,
           SupportAsset(a) \/ \E s \in Strategies : SetAssetDefaultStrategy(a, s)
    PROVE  ListInv'
<1>0. vault \in VaultStorage
  BY DEF ListInv
<1>1. CASE SupportAsset(a)
  <2>1. vault' = [vault EXCEPT !.allAssets = Append(@, a)]
    BY <1>1 DEF SupportAsset, SetVault
  <2> DEFINE assets == Append(vault.allAssets, a)
  <2>2. assets \in AssetLists
    BY <1>0 DEF VaultStorage, AssetLists
  <2>3. vault' = [vault EXCEPT !.allAssets = assets]
    BY <2>1
  <2> HIDE DEF assets
  <2> QED
    BY <1>0, <2>2, <2>3, ListsLeft DEF VaultStorage
<1>2. ASSUME NEW s \in Strategies, SetAssetDefaultStrategy(a, s) PROVE ListInv'
  <2> DEFINE defaults == [vault.assetDefaultStrategies EXCEPT ![a] = s]
  <2>1. vault' = [vault EXCEPT !.assetDefaultStrategies = defaults]
    BY <1>0, <1>2 DEF SetAssetDefaultStrategy, SetVault
  <2>2. defaults \in [Assets -> Strategies \union {Nobody}]
    BY <1>0 DEF VaultStorage
  <2> HIDE DEF defaults
  <2> QED
    BY <1>0, <2>1, <2>2, ListsLeft DEF VaultStorage
<1> QED
  BY <1>1, <1>2

\* Approval appends to the list what it adds to the mapping.
LEMMA ApproveStep ==
    ASSUME ListInv, NEW s \in Strategies, ApproveStrategy(s)
    PROVE  ListInv'
<1>0. vault \in VaultStorage /\ vault.allStrategies \in Seq(Strategies)
      /\ vault.approved \subseteq Strategies
  BY DEF ListInv, VaultStorage, StrategyLists
<1>1. /\ s \notin ToSet(vault.allStrategies)
      /\ vault' = [vault EXCEPT !.allStrategies = Append(@, s), !.approved = @ \union {s}]
  BY DEF ApproveStrategy, SetVault, ListInv, StrategyListsAgree
<1>2. vault' \in VaultStorage
  <2> DEFINE list == Append(vault.allStrategies, s)
             approved == vault.approved \union {s}
  <2>1. vault' = [vault EXCEPT !.allStrategies = list, !.approved = approved]
    BY <1>1
  <2>2. list \in StrategyLists
    BY <1>0 DEF StrategyLists
  <2>3. approved \in SUBSET Strategies
    BY <1>0
  <2> DEFINE half == [vault EXCEPT !.allStrategies = list]
  <2>4. vault' = [half EXCEPT !.approved = approved]
    BY <2>1
  <2> HIDE DEF list, approved
  <2>5. vault \in VaultStorage
    BY <1>0
  <2>6. half \in VaultStorage
    BY <2>2, <2>5 DEF VaultStorage
  <2> HIDE DEF half
  <2> QED
    BY <2>3, <2>4, <2>6 DEF VaultStorage
<1>3. vault'.allStrategies = Append(vault.allStrategies, s)
      /\ vault'.approved = vault.approved \union {s}
  BY <1>0, <1>1 DEF VaultStorage
<1>4. StrategyListsAgree'
  BY <1>0, <1>1, <1>3, Appended DEF ListInv, StrategyListsAgree
<1> QED
  BY <1>2, <1>4 DEF ListInv

\* Removal takes out of the list what it takes out of the mapping.
LEMMA RemoveStep ==
    ASSUME ListInv, NEW s \in Strategies, RemoveStrategy(s)
    PROVE  ListInv'
<1>0. vault \in VaultStorage /\ vault.allStrategies \in Seq(Strategies)
      /\ vault.approved \subseteq Strategies
  BY DEF ListInv, VaultStorage, StrategyLists
<1>1. /\ s \in ToSet(vault.allStrategies)
      /\ vault' = [vault EXCEPT !.allStrategies = Without(@, s), !.approved = @ \ {s}]
  BY DEF RemoveStrategy, ListInv, StrategyListsAgree
<1>2. /\ Without(vault.allStrategies, s) \in Seq(Strategies)
      /\ IsInjective(Without(vault.allStrategies, s))
      /\ ToSet(Without(vault.allStrategies, s)) = vault.approved \ {s}
  BY <1>0, <1>1, Removed DEF ListInv, StrategyListsAgree
<1>3. vault' \in VaultStorage
  <2> DEFINE list == Without(vault.allStrategies, s)
             approved == vault.approved \ {s}
  <2>1. vault' = [vault EXCEPT !.allStrategies = list, !.approved = approved]
    BY <1>1
  <2>2. list \in StrategyLists
    BY <1>0, <1>2 DEF StrategyLists
  <2>3. approved \in SUBSET Strategies
    BY <1>0
  <2> DEFINE half == [vault EXCEPT !.allStrategies = list]
  <2>4. vault' = [half EXCEPT !.approved = approved]
    BY <2>1
  <2> HIDE DEF list, approved
  <2>5. vault \in VaultStorage
    BY <1>0
  <2>6. half \in VaultStorage
    BY <2>2, <2>5 DEF VaultStorage
  <2> HIDE DEF half
  <2> QED
    BY <2>3, <2>4, <2>6 DEF VaultStorage
<1>4. vault'.allStrategies = Without(vault.allStrategies, s)
      /\ vault'.approved = vault.approved \ {s}
  BY <1>0, <1>1 DEF VaultStorage
<1>5. StrategyListsAgree'
  BY <1>2, <1>4 DEF StrategyListsAgree
<1> QED
  BY <1>3, <1>5 DEF ListInv

\* Every other step leaves the vault's storage.
LEMMA StorageLeft ==
    ASSUME ListInv, UNCHANGED vault
    PROVE  ListInv'
BY DEF ListInv, StrategyListsAgree

\* The calls of the governor and the strategist keep the lists in agreement.
LEMMA AdministerStep ==
    ASSUME ListInv, Administer
    PROVE  ListInv'
<1>1. ASSUME NEW a \in Assets, SupportAsset(a) PROVE ListInv'
  BY <1>1, AssetStep
<1>2. ASSUME NEW s \in Strategies, NEW a \in Assets, SetAssetDefaultStrategy(a, s)
      PROVE  ListInv'
  BY <1>2, AssetStep
<1>3. ASSUME NEW s \in Strategies, ApproveStrategy(s) PROVE ListInv'
  BY <1>3, ApproveStep
<1>4. ASSUME NEW s \in Strategies, RemoveStrategy(s) PROVE ListInv'
  BY <1>4, RemoveStep
<1>5. ASSUME \/ \E a \in Assets, x \in Gains : TransferToken(a, x)
             \/ \E s \in Strategies : WithdrawAllFromStrategy(s)
             \/ \E s, to \in Strategies, a \in Assets, x \in Gains : Reallocate(s, to, a, x)
             \/ WithdrawAllFromStrategies \/ Harvest
      PROVE  ListInv'
  BY <1>5, StorageLeft DEF TransferToken, WithdrawAllFromStrategy, Reallocate,
                           WithdrawAllFromStrategies, Harvest
<1> QED
  BY <1>1, <1>2, <1>3, <1>4, <1>5 DEF Administer

\* Every step keeps the lists in agreement.
LEMMA ListInvStep == ListInv /\ [Next]_vars => ListInv'
<1> SUFFICES ASSUME ListInv, [Next]_vars PROVE ListInv'
  OBVIOUS
<1>1. CASE Configure
  BY <1>1, ConfigureStep
<1>2. CASE Administer
  BY <1>2, AdministerStep
<1>3. CASE Users
  <2>1. UNCHANGED vault
    BY <1>3 DEF Users, Mint, Redeem, RedeemAll, RedeemFrom, Allocate, Rebase
  <2> QED
    BY <2>1, StorageLeft
<1>4. CASE Holders
  BY <1>4, StorageLeft DEF Holders
<1>5. CASE World
  BY <1>5, StorageLeft DEF World, PriceMoves, Earn, Lose
<1>6. CASE UNCHANGED vars
  BY <1>6, StorageLeft DEF vars
<1> QED
  BY <1>1, <1>2, <1>3, <1>4, <1>5, <1>6 DEF Next

\* However strategies are approved and removed (VaultAdmin.sol: approveStrategy,
\* removeStrategy), the list that is counted and the mapping that is asked have the
\* same strategies, and none is in the list twice.
THEOREM StrategyListsAlwaysAgree == Spec => []StrategyListsAgree
<1>1. ListInv => StrategyListsAgree
  BY DEF ListInv
<1> QED
  BY <1>1, ListInvInit, ListInvStep, PTL DEF Spec
-----------------------------------------------------------------------------
(* The token.  What is proved of it alone holds when the vault drives it: the *)
(* proofs' instance of OUSD is the vault's.                                   *)

TokenProofs == INSTANCE OUSDProofs

\* What OUSD assumes is assumed here.
LEMMA TokenAssumptions ==
    /\ TokenProofs!FullScaleAssumption
    /\ TokenProofs!AccountsAssumption
    /\ TokenProofs!BoundsAssumption
<1>1. TokenProofs!AccountsAssumption
  BY TokenAssumption DEF TokenProofs!AccountsAssumption, TokenProofs!IsFiniteSet, IsFiniteSet
<1>2. TokenProofs!FullScaleAssumption /\ TokenProofs!BoundsAssumption
  BY TokenAssumption DEF TokenProofs!FullScaleAssumption, TokenProofs!BoundsAssumption
<1> QED
  BY <1>1, <1>2

Sound(t) == TokenProofs!Sound(t)

\* A call of mint, by whatever name.
LEMMA SameMint ==
    ASSUME NEW t, NEW a, NEW v
    PROVE  Token!Minted(t, a, v) = TokenProofs!Minted(t, a, v)
  BY DEF Token!Minted, TokenProofs!Minted, Token!Touch, TokenProofs!Touch,
         Token!Frozen, TokenProofs!Frozen, Token!IsNonRebasing, TokenProofs!IsNonRebasing,
         Token!CreditsPerToken, TokenProofs!CreditsPerToken,
         Token!MulTruncate, TokenProofs!MulTruncate, Token!BalanceOf, TokenProofs!BalanceOf,
         Token!DivPrecisely, TokenProofs!DivPrecisely, Token!Fits, TokenProofs!Fits,
         Token!Storage, TokenProofs!Storage, Token!RebaseOptions, TokenProofs!RebaseOptions

\* A call of burn.
LEMMA SameBurn ==
    ASSUME NEW t, NEW a, NEW v
    PROVE  Token!Burned(t, a, v) = TokenProofs!Burned(t, a, v)
  BY DEF Token!Burned, TokenProofs!Burned, Token!Touch, TokenProofs!Touch,
         Token!CreditsAfterBurn, TokenProofs!CreditsAfterBurn,
         Token!Frozen, TokenProofs!Frozen, Token!IsNonRebasing, TokenProofs!IsNonRebasing,
         Token!CreditsPerToken, TokenProofs!CreditsPerToken,
         Token!MulTruncate, TokenProofs!MulTruncate, Token!BalanceOf, TokenProofs!BalanceOf,
         Token!DivPrecisely, TokenProofs!DivPrecisely, Token!Fits, TokenProofs!Fits,
         Token!Storage, TokenProofs!Storage, Token!RebaseOptions, TokenProofs!RebaseOptions

\* A call of changeSupply.
LEMMA SameChangeSupply ==
    ASSUME NEW t, NEW n
    PROVE  Token!SupplyChanged(t, n) = TokenProofs!SupplyChanged(t, n)
  BY DEF Token!SupplyChanged, TokenProofs!SupplyChanged, Token!Repriced, TokenProofs!Repriced,
         Token!CanReprice, TokenProofs!CanReprice,
         Token!DivPrecisely, TokenProofs!DivPrecisely, Token!Fits, TokenProofs!Fits,
         Token!Storage, TokenProofs!Storage, Token!RebaseOptions, TokenProofs!RebaseOptions

\* The transactions of the holders.
LEMMA SameBy ==
    ASSUME NEW a
    PROVE  Token!By(a) <=> TokenProofs!By(a)
<1>1. ASSUME NEW from, NEW to, NEW v
      PROVE  Token!ExecuteTransfer(from, to, v) <=> TokenProofs!ExecuteTransfer(from, to, v)
  BY DEF Token!ExecuteTransfer, TokenProofs!ExecuteTransfer, Token!Moved, TokenProofs!Moved,
         Token!MulTruncate, TokenProofs!MulTruncate,
         Token!Touch, TokenProofs!Touch, Token!Frozen, TokenProofs!Frozen,
         Token!BalanceOf, TokenProofs!BalanceOf, Token!DivPrecisely, TokenProofs!DivPrecisely,
         Token!CreditsPerToken, TokenProofs!CreditsPerToken,
         Token!IsNonRebasing, TokenProofs!IsNonRebasing,
         Token!Fits, TokenProofs!Fits, Token!Storage, TokenProofs!Storage,
         Token!RebaseOptions, TokenProofs!RebaseOptions
<1>2. ASSUME NEW from, NEW to, NEW v
      PROVE  /\ Token!Transfer(from, to, v) <=> TokenProofs!Transfer(from, to, v)
             /\ Token!TransferFrom(a, from, to, v) <=> TokenProofs!TransferFrom(a, from, to, v)
  BY <1>1 DEF Token!Transfer, TokenProofs!Transfer, Token!TransferFrom, TokenProofs!TransferFrom
<1>3. ASSUME NEW s, NEW v
      PROVE  /\ Token!Approve(a, s, v) <=> TokenProofs!Approve(a, s, v)
             /\ Token!IncreaseAllowance(a, s, v) <=> TokenProofs!IncreaseAllowance(a, s, v)
             /\ Token!DecreaseAllowance(a, s, v) <=> TokenProofs!DecreaseAllowance(a, s, v)
  BY DEF Token!SetAllowance, TokenProofs!SetAllowance, Token!Approve, TokenProofs!Approve,
         Token!IncreaseAllowance, TokenProofs!IncreaseAllowance,
         Token!DecreaseAllowance, TokenProofs!DecreaseAllowance
<1>4. Token!RebaseOptIn(a) <=> TokenProofs!RebaseOptIn(a)
  BY DEF Token!RebaseOptIn, TokenProofs!RebaseOptIn,
         Token!Touch, TokenProofs!Touch, Token!Frozen, TokenProofs!Frozen,
         Token!BalanceOf, TokenProofs!BalanceOf, Token!DivPrecisely, TokenProofs!DivPrecisely,
         Token!CreditsPerToken, TokenProofs!CreditsPerToken,
         Token!IsNonRebasing, TokenProofs!IsNonRebasing,
         Token!Fits, TokenProofs!Fits, Token!Storage, TokenProofs!Storage,
         Token!RebaseOptions, TokenProofs!RebaseOptions
<1>5. Token!RebaseOptOut(a) <=> TokenProofs!RebaseOptOut(a)
  BY DEF Token!RebaseOptOut, TokenProofs!RebaseOptOut,
         Token!Touch, TokenProofs!Touch, Token!Frozen, TokenProofs!Frozen,
         Token!BalanceOf, TokenProofs!BalanceOf, Token!DivPrecisely, TokenProofs!DivPrecisely,
         Token!CreditsPerToken, TokenProofs!CreditsPerToken,
         Token!IsNonRebasing, TokenProofs!IsNonRebasing,
         Token!Fits, TokenProofs!Fits, Token!Storage, TokenProofs!Storage,
         Token!RebaseOptions, TokenProofs!RebaseOptions
<1> QED
  BY <1>2, <1>3, <1>4, <1>5, Zenon DEF Token!By, TokenProofs!By

\* Types, and what soundness says, by whatever name.
LEMMA SameProperties ==
    /\ Token!TypeOK <=> TokenProofs!TypeOK
    /\ Token!Init <=> TokenProofs!Init
    /\ \A t : Token!RatesMatch(t) <=> TokenProofs!RatesMatch(t)
    /\ Token!RatesMatchOptions <=> TokenProofs!RatesMatchOptions
    /\ Token!RebasingCreditsBacked <=> TokenProofs!RebasingCreditsBacked
<1>1. Token!TypeOK <=> TokenProofs!TypeOK
  BY DEF Token!TypeOK, TokenProofs!TypeOK, Token!Storage, TokenProofs!Storage,
         Token!RebaseOptions, TokenProofs!RebaseOptions
<1>2. Token!Init <=> TokenProofs!Init
  BY DEF Token!Init, TokenProofs!Init
<1>3. /\ \A t : Token!RatesMatch(t) <=> TokenProofs!RatesMatch(t)
      /\ Token!RatesMatchOptions <=> TokenProofs!RatesMatchOptions
  BY DEF Token!RatesMatch, TokenProofs!RatesMatch, Token!IsNonRebasing, TokenProofs!IsNonRebasing,
         Token!RatesMatchOptions, TokenProofs!RatesMatchOptions
<1>4. Token!RebasingCreditsBacked <=> TokenProofs!RebasingCreditsBacked
  BY DEF Token!RebasingCreditsBacked, TokenProofs!RebasingCreditsBacked,
         Token!RebasingCreditsHeld, TokenProofs!RebasingCreditsHeld,
         Token!RebasingPart, TokenProofs!RebasingPart, Token!IsNonRebasing, TokenProofs!IsNonRebasing,
         Token!Total, TokenProofs!Total, Token!Units, TokenProofs!Units,
         Token!UnitsOf, TokenProofs!UnitsOf, Token!Cardinality, TokenProofs!Cardinality
<1> QED
  BY <1>1, <1>2, <1>3, <1>4

\* Each call the vault makes keeps the token sound.
LEMMA CallsSound ==
    ASSUME NEW t, Sound(t)
    PROVE  /\ \A a \in Accounts, v \in Nat : \A u \in Token!Minted(t, a, v) : Sound(u)
           /\ \A a \in Accounts, v \in Nat : \A u \in Token!Burned(t, a, v) : Sound(u)
           /\ \A n \in Nat : \A u \in Token!SupplyChanged(t, n) : Sound(u)
<1>0. TokenProofs!Sound(t)
  BY DEF Sound
<1>1. ASSUME NEW a \in Accounts, NEW v \in Nat, NEW u, u \in Token!Minted(t, a, v) PROVE Sound(u)
  <2>1. u \in TokenProofs!Minted(t, a, v)
    BY <1>1, SameMint
  <2> QED
    BY <1>0, <2>1, TokenProofs!MintSound, TokenAssumptions DEF Sound
<1>2. ASSUME NEW a \in Accounts, NEW v \in Nat, NEW u, u \in Token!Burned(t, a, v) PROVE Sound(u)
  <2>1. u \in TokenProofs!Burned(t, a, v)
    BY <1>2, SameBurn
  <2> QED
    BY <1>0, <2>1, TokenProofs!BurnSound, TokenAssumptions DEF Sound
<1>3. ASSUME NEW n \in Nat, NEW u, u \in Token!SupplyChanged(t, n) PROVE Sound(u)
  <2>1. u \in TokenProofs!SupplyChanged(t, n)
    BY <1>3, SameChangeSupply
  <2> QED
    BY <1>0, <2>1, TokenProofs!ChangeSupplySound, TokenAssumptions DEF Sound
<1> QED
  BY <1>1, <1>2, <1>3
-----------------------------------------------------------------------------
(* Values are natural numbers.                                              *)

Holdings == [Places -> [Assets -> Nat]]

\* What values are computed from.
Priced == vault \in VaultStorage /\ price \in [Assets -> Nat]

\* A list has finitely many members.
LEMMA MembersFinite ==
    ASSUME NEW S, NEW list \in Seq(S)
    PROVE  /\ IsFiniteSet(DOMAIN list) /\ IsFiniteSet(ToSet(list))
           /\ ToSet(list) \subseteq S
           /\ \A i \in DOMAIN list : list[i] \in S
<1>1. DOMAIN list = 1 .. Len(list) /\ Len(list) \in Nat /\ \A i \in 1 .. Len(list) : list[i] \in S
  OBVIOUS
<1>2. IsFiniteSet(1 .. Len(list))
  BY <1>1, FS_Interval
<1>3. list \in Surjection(DOMAIN list, ToSet(list))
  BY <1>1 DEF Surjection, ToSet
<1>4. IsFiniteSet(ToSet(list))
  BY <1>1, <1>2, <1>3, FS_Surjection
<1> QED
  BY <1>1, <1>2, <1>4 DEF ToSet

\* The lists of the vault have finitely many members, all of their kind.
LEMMA ListsFinite ==
    ASSUME vault \in VaultStorage
    PROVE  /\ IsFiniteSet(Supported) /\ Supported \subseteq Assets
           /\ IsFiniteSet(DOMAIN vault.allStrategies)
           /\ IsFiniteSet(ToSet(vault.allStrategies))
           /\ ToSet(vault.allStrategies) \subseteq Strategies
           /\ \A i \in DOMAIN vault.allStrategies : vault.allStrategies[i] \in Strategies
<1>1. vault.allAssets \in Seq(Assets) /\ vault.allStrategies \in Seq(Strategies)
  BY DEF VaultStorage, AssetLists, StrategyLists
<1> QED
  BY <1>1, MembersFinite DEF Supported

\* So is the value of an amount of an asset, and the amount in 18 decimals.
LEMMA AmountTypes ==
    ASSUME Priced, NEW a \in Assets, NEW x \in Nat
    PROVE  ValueOf(a, x) \in Nat /\ Scaled(a, x) \in Nat /\ Worth(a, x) \in Nat
<1>1. Unit[a] \in Nat \ {0} /\ price[a] \in Nat
  BY AssetsAssumption DEF Priced
<1>2. x * price[a] \in Nat
  BY <1>1
<1>3. ValueOf(a, x) \in Nat
  BY <1>1, <1>2 DEF ValueOf
<1>4. FullScale \div Unit[a] \in Nat
  BY <1>1
<1>5. Scaled(a, x) \in Nat
  BY <1>4 DEF Scaled
<1> DEFINE p == IF price[a] < FullScale THEN FullScale ELSE price[a]
<1>6. p \in Nat
  BY <1>1
<1>7. Worth(a, x) = Scaled(a, x) * p
  BY DEF Worth
<1> HIDE DEF p
<1>8. Worth(a, x) \in Nat
  BY <1>5, <1>6, <1>7
<1> QED
  BY <1>3, <1>5, <1>8

\* What is held has a value.
LEMMA ValueTypes ==
    ASSUME Priced, NEW h \in Holdings
    PROVE  /\ TotalValueInVault(h) \in Nat
           /\ \A s \in Strategies : TotalValueInStrategy(h, s) \in Nat
           /\ TotalValueInStrategies(h) \in Nat
           /\ TotalValue(h) \in Nat
<1>0. /\ vault \in VaultStorage
      /\ \A p \in Places, a \in Assets : h[p][a] \in Nat
      /\ ThisVault \in Places /\ Strategies \subseteq Places
  BY DEF Priced, Holdings, Places
<1>1. TotalValueInVault(h) \in Nat
  <2> DEFINE f == [a \in Supported |-> ValueOf(a, h[ThisVault][a])]
  <2>1. f \in [Supported -> Nat]
    BY <1>0, ListsFinite, AmountTypes
  <2> HIDE DEF f
  <2>2. SumFunction(f) \in Nat
    BY <1>0, <2>1, ListsFinite, SumIsTotal
  <2> QED
    BY <2>2 DEF f, TotalValueInVault
<1>2. ASSUME NEW s \in Strategies PROVE TotalValueInStrategy(h, s) \in Nat
  <2> DEFINE D == Supported \intersect Supports[s]
             f == [a \in D |-> ValueOf(a, h[s][a])]
  <2>1. IsFiniteSet(D) /\ D \subseteq Assets
    BY <1>0, ListsFinite, FS_Intersection
  <2>2. f \in [D -> Nat]
    BY <1>0, <2>1, AmountTypes
  <2>3. TotalValueInStrategy(h, s) = SumFunction(f)
    BY DEF TotalValueInStrategy
  <2> HIDE DEF f, D
  <2> QED
    BY <2>1, <2>2, <2>3, SumIsTotal
<1>3. TotalValueInStrategies(h) \in Nat
  <2> DEFINE D == DOMAIN vault.allStrategies
             f == [i \in D |-> TotalValueInStrategy(h, vault.allStrategies[i])]
  <2>1. f \in [D -> Nat]
    BY <1>0, <1>2, ListsFinite
  <2>2. TotalValueInStrategies(h) = SumFunction(f)
    BY DEF TotalValueInStrategies
  <2>3. IsFiniteSet(D)
    BY <1>0, ListsFinite
  <2> HIDE DEF f, D
  <2> QED
    BY <2>1, <2>2, <2>3, SumIsTotal
<1> QED
  BY <1>1, <1>2, <1>3 DEF TotalValue

\* There is so much of every asset, and of all of them.
LEMMA BalanceTypes ==
    ASSUME Priced, NEW h \in Holdings
    PROVE  /\ \A a \in Assets : CheckBalance(h, a) \in Nat
           /\ TotalBalance(h) \in Nat
           /\ TotalBalance(h) > 0 => TotalOutputRatio(h) \in Nat
<1>0. /\ vault \in VaultStorage
      /\ \A p \in Places, a \in Assets : h[p][a] \in Nat
      /\ ThisVault \in Places /\ Strategies \subseteq Places
  BY DEF Priced, Holdings, Places
<1>1. ASSUME NEW a \in Assets PROVE CheckBalance(h, a) \in Nat
  <2> DEFINE D == DOMAIN vault.allStrategies
             balance(s) == IF a \in Supports[s] THEN h[s][a] ELSE 0
             f == [i \in D |-> balance(vault.allStrategies[i])]
  <2>1. f \in [D -> Nat]
    BY <1>0, ListsFinite
  <2>2. CheckBalance(h, a) = h[ThisVault][a] + SumFunction(f)
    BY DEF CheckBalance
  <2>3. IsFiniteSet(D)
    BY <1>0, ListsFinite
  <2> HIDE DEF f, D
  <2>4. SumFunction(f) \in Nat
    BY <2>1, <2>3, SumIsTotal
  <2> QED
    BY <1>0, <2>2, <2>4
<1>2. TotalBalance(h) \in Nat
  <2> DEFINE f == [a \in Supported |-> Scaled(a, CheckBalance(h, a))]
  <2>1. f \in [Supported -> Nat]
    BY <1>0, <1>1, ListsFinite, AmountTypes
  <2>2. TotalBalance(h) = SumFunction(f)
    BY DEF TotalBalance
  <2> HIDE DEF f
  <2> QED
    BY <1>0, <2>1, <2>2, ListsFinite, SumIsTotal
<1>3. ASSUME TotalBalance(h) > 0 PROVE TotalOutputRatio(h) \in Nat
  <2> DEFINE f == [a \in Supported |-> Worth(a, CheckBalance(h, a)) \div TotalBalance(h)]
  <2>1. ASSUME NEW a \in Supported PROVE Worth(a, CheckBalance(h, a)) \div TotalBalance(h) \in Nat
    <3>1. Worth(a, CheckBalance(h, a)) \in Nat
      BY <1>0, <1>1, ListsFinite, AmountTypes
    <3> QED
      BY <1>2, <1>3, <3>1
  <2>2. f \in [Supported -> Nat]
    BY <2>1
  <2>3. TotalOutputRatio(h) = SumFunction(f)
    BY DEF TotalOutputRatio
  <2> HIDE DEF f
  <2> QED
    BY <1>0, <2>2, <2>3, ListsFinite, SumIsTotal
<1> QED
  BY <1>1, <1>2, <1>3
-----------------------------------------------------------------------------
(* A redemption pays assets worth its amount.                               *)

\* What is worth k times as much is not worth less than what k times as much is
\* worth: of a quotient only what is rounded away is lost.
LEMMA CancelAtMost ==
    ASSUME NEW k \in Nat \ {0}, NEW a \in Int, NEW b \in Int, k * a <= k * b
    PROVE  a <= b
<1>1. ASSUME b < a PROVE FALSE
  <2>1. k * b < k * a
    BY <1>1
  <2> QED
    BY <2>1
<1> QED
  BY <1>1

\* A share of b in proportion to factor, at q apiece, is the share of b * q up to
\* what the two quotients round away.
LEMMA ShareAtPrice ==
    ASSUME NEW b \in Nat, NEW q \in Nat, NEW factor \in Nat, NEW T \in Nat \ {0}
    PROVE  LET r == (b * q) \div T
               out == (b * factor) \div T
           IN  /\ r \in Nat /\ out \in Nat
               /\ out * q <= factor * r + factor
               /\ factor * r <= out * q + q
<1> DEFINE r == (b * q) \div T
           out == (b * factor) \div T
<1>0. b * q \in Nat /\ b * factor \in Nat
  OBVIOUS
<1>1. r \in Nat /\ T * r <= b * q /\ b * q < T * (r + 1)
  BY <1>0, DivBounds
<1>2. out \in Nat /\ T * out <= b * factor /\ b * factor < T * (out + 1)
  BY <1>0, DivBounds
<1> HIDE DEF r, out
<1>3. (b * factor) * q = (b * q) * factor
  OBVIOUS
<1>4. out * q <= factor * r + factor
  <2>1. (T * out) * q <= (b * factor) * q
    BY <1>0, <1>2
  <2>2. (b * q) * factor <= (T * (r + 1)) * factor
    BY <1>0, <1>1
  <2>3. T * (out * q) = (T * out) * q /\ T * (factor * r + factor) = (T * (r + 1)) * factor
    BY <1>1, <1>2
  <2>4. T * (out * q) <= T * (factor * r + factor)
    BY <1>1, <1>2, <1>3, <2>1, <2>2, <2>3
  <2> QED
    BY <1>1, <1>2, <2>4, CancelAtMost
<1>5. factor * r <= out * q + q
  <2>1. (T * r) * factor <= (b * q) * factor
    BY <1>0, <1>1
  <2>2. (b * factor) * q <= (T * (out + 1)) * q
    BY <1>0, <1>2
  <2>3. T * (factor * r) = (T * r) * factor /\ T * (out * q + q) = (T * (out + 1)) * q
    BY <1>1, <1>2
  <2>4. T * (factor * r) <= T * (out * q + q)
    BY <1>1, <1>2, <1>3, <2>1, <2>2, <2>3
  <2> QED
    BY <1>1, <1>2, <2>4, CancelAtMost
<1> QED
  BY <1>1, <1>2, <1>4, <1>5 DEF r, out

\* An amount of an asset is worth so many times what one is, and at least itself.
LEMMA WorthOfOne ==
    ASSUME Priced, NEW a \in Assets, NEW x \in Nat
    PROVE  /\ Worth(a, x) = x * Worth(a, 1)
           /\ FullScale * Scaled(a, x) <= Worth(a, x)
<1> DEFINE p == IF price[a] < FullScale THEN FullScale ELSE price[a]
           k == FullScale \div Unit[a]
<1>1. k \in Nat
  BY AssetsAssumption
<1>2. p \in Nat /\ FullScale <= p
  BY DEF Priced
<1>3. Scaled(a, x) = x * k /\ Worth(a, x) = (x * k) * p /\ Worth(a, 1) = (1 * k) * p
  BY DEF Scaled, Worth
<1> HIDE DEF p, k
<1>4. (x * k) * p = x * ((1 * k) * p)
  BY <1>1, <1>2
<1>5. x * k \in Nat /\ FullScale * (x * k) <= (x * k) * p
  BY <1>1, <1>2
<1> QED
  BY <1>3, <1>4, <1>5

\* The rounding of n ratios and of the factor, put together.
LEMMA PaidBounds ==
    ASSUME NEW W \in Nat, NEW U \in Nat, NEW R \in Nat \ {0}, NEW n \in Nat, NEW y \in Nat,
           W <= DivPrecisely(y, R) * R + n * DivPrecisely(y, R),
           DivPrecisely(y, R) * R <= W + U,
           FullScale <= R + n
    PROVE  W * (FullScale - n) <= y * FullScale * FullScale /\ W >= y * FullScale - R - U
<1> DEFINE F == FullScale
           factor == DivPrecisely(y, R)
<1>0. F \in Nat /\ y * F \in Nat
  OBVIOUS
<1>1. factor \in Nat /\ R * factor <= y * F /\ y * F < R * (factor + 1)
  BY <1>0, DivBounds DEF DivPrecisely
<1>2. W <= factor * R + n * factor /\ factor * R <= W + U /\ F <= R + n
  OBVIOUS
<1> HIDE DEF F, factor
<1>3. W * (F - n) <= y * F * F
  <2>1. CASE F - n <= 0
    <3>1. W * (F - n) <= 0
      BY <1>0, <2>1
    <3>2. 0 <= y * F * F
      BY <1>0
    <3> QED
      BY <1>0, <3>1, <3>2
  <2>2. CASE 0 < F - n
    <3>1. F - n \in Nat
      BY <1>0, <2>2
    <3> DEFINE m == F - n
               over == R + n - F
    <3>2. m \in Nat /\ over \in Nat /\ F = m + n
      BY <1>0, <1>2, <3>1
    <3>3. W <= factor * (R + n)
      BY <1>1, <1>2
    <3>4. W * m <= (factor * (R + n)) * m
      BY <1>1, <3>2, <3>3
    <3>5. (R + n) * m = R * F - n * over
      BY <1>0, <3>2
    <3>6. (R + n) * m <= R * F
      BY <1>0, <3>2, <3>5
    <3>7. (factor * (R + n)) * m = factor * ((R + n) * m)
      BY <1>1, <3>2
    <3>8. factor * ((R + n) * m) <= factor * (R * F)
      BY <1>0, <1>1, <3>2, <3>6, TimesMonotone
    <3>9. factor * (R * F) = (R * factor) * F
      BY <1>0, <1>1
    <3>10. (R * factor) * F <= (y * F) * F
      BY <1>0, <1>1
    <3>11. W * m \in Int /\ (factor * (R + n)) * m \in Int /\ factor * (R * F) \in Int
           /\ (y * F) * F \in Int
      BY <1>0, <1>1, <3>2
    <3> QED
      BY <3>4, <3>7, <3>8, <3>9, <3>10, <3>11
  <2> QED
    BY <1>0, <2>1, <2>2
<1>4. W >= y * F - R - U
  <2>1. R * (factor + 1) = factor * R + R
    BY <1>1
  <2>2. factor * R \in Nat
    BY <1>1
  <2> QED
    BY <1>0, <1>1, <1>2, <2>1, <2>2
<1> QED
  BY <1>3, <1>4 DEF F

\* What the outputs of a redemption are worth.
LEMMA OutputsWorth ==
    ASSUME Priced, held \in Holdings, NEW x \in Nat,
           AfterFee(x) >= 0, TotalBalance(held) > 0, TotalOutputRatio(held) > 0
    PROVE  LET paid == SumFunction([a \in Supported |-> Worth(a, RedeemOutputs(held, x)[a])])
               units == SumFunction([a \in Supported |-> Worth(a, 1)])
           IN  /\ paid * (FullScale - Dust) <= AfterFee(x) * FullScale * FullScale
               /\ paid >= AfterFee(x) * FullScale - TotalOutputRatio(held) - units
<1> DEFINE T == TotalBalance(held)
           R == TotalOutputRatio(held)
           y == AfterFee(x)
           n == Dust
           b(a) == CheckBalance(held, a)
           factor == DivPrecisely(y, R)
           ratios == [a \in Supported |-> Worth(a, b(a)) \div T]
           scaled == [a \in Supported |-> Scaled(a, b(a))]
           outputs == [a \in Supported |-> Worth(a, RedeemOutputs(held, x)[a])]
           ones == [a \in Supported |-> Worth(a, 1)]
<1>1. IsFiniteSet(Supported) /\ Supported \subseteq Assets /\ n \in Nat
  BY ListsFinite, FS_CardinalityType DEF Priced, Dust
<1>2. T \in Nat \ {0} /\ R \in Nat \ {0} /\ \A a \in Supported : b(a) \in Nat
  BY <1>1, BalanceTypes
<1>3. y \in Nat
  <2>1. vault.redeemFeeBps \in Nat
    BY DEF Priced, VaultStorage
  <2>2. (x * vault.redeemFeeBps) \div 10000 \in Int
    BY <2>1
  <2> QED
    BY <2>2 DEF AfterFee
<1>4. factor \in Nat
  <2>1. y * FullScale \in Nat
    BY <1>3
  <2> QED
    BY <1>2, <2>1 DEF DivPrecisely
<1>5. /\ R = SumFunction(ratios) /\ T = SumFunction(scaled)
      /\ \A a \in Supported : RedeemOutputs(held, x)[a] = (b(a) * factor) \div T
  BY DEF TotalOutputRatio, TotalBalance, RedeemOutputs
<1> HIDE DEF T, R, y, n, b, factor
<1>6. ASSUME NEW a \in Supported
      PROVE  /\ ratios[a] \in Nat /\ scaled[a] \in Nat /\ outputs[a] \in Nat /\ ones[a] \in Nat
             /\ outputs[a] <= factor * ratios[a] + factor
             /\ factor * ratios[a] <= outputs[a] + ones[a]
             /\ FullScale * scaled[a] <= T * ratios[a] + T
  <2> DEFINE q == Worth(a, 1)
             out == (b(a) * factor) \div T
             r == (b(a) * q) \div T
  <2>1. a \in Assets /\ q \in Nat /\ b(a) \in Nat /\ scaled[a] \in Nat /\ b(a) * q \in Nat
    BY <1>1, <1>2, AmountTypes
  <2>2. Worth(a, b(a)) = b(a) * q /\ FullScale * scaled[a] <= b(a) * q
    BY <2>1, WorthOfOne
  <2>3. /\ r \in Nat /\ out \in Nat
        /\ out * q <= factor * r + factor
        /\ factor * r <= out * q + q
    BY <1>2, <1>4, <2>1, ShareAtPrice
  <2>4. ratios[a] = r /\ ones[a] = q
    BY <2>2
  <2>5. outputs[a] = out * q
    BY <1>5, <2>1, <2>3, WorthOfOne
  <2>6. b(a) * q <= T * r + T
    <3>1. b(a) * q < T * (r + 1) /\ r \in Int
      <4>1. \A N \in Nat : N < T * ((N \div T) + 1) /\ N \div T \in Int
        BY <1>2, DivBounds
      <4> QED
        BY <2>1, <4>1
    <3>2. T * (r + 1) = T * r + T /\ T * r \in Int
      BY <1>2, <3>1
    <3> QED
      BY <1>2, <2>1, <3>1, <3>2
  <2> HIDE DEF q, out, r, ratios, scaled, outputs, ones
  <2>7. FullScale * scaled[a] \in Nat /\ T * r \in Nat /\ out * q \in Nat
    BY <1>2, <2>1, <2>3
  <2> QED
    BY <1>2, <2>1, <2>2, <2>3, <2>4, <2>5, <2>6, <2>7
<1>7. /\ ratios \in [Supported -> Nat] /\ scaled \in [Supported -> Nat]
      /\ outputs \in [Supported -> Nat] /\ ones \in [Supported -> Nat]
  BY <1>6
<1> DEFINE W == SumFunction(outputs)
           U == SumFunction(ones)
           zeros == [a \in Supported |-> 0]
           factors == [a \in Supported |-> factor]
           Ts == [a \in Supported |-> T]
<1>8. /\ W \in Nat /\ U \in Nat
      /\ SumFunction(zeros) = n * 0 /\ SumFunction(factors) = n * factor /\ SumFunction(Ts) = n * T
  BY <1>1, <1>2, <1>4, <1>7, SumIsTotal, SumConstant DEF n, Dust
<1> HIDE DEF ratios, scaled, outputs, ones
<1>9. W <= factor * R + n * factor
  <2> DEFINE g == [a \in Supported |-> factor * ratios[a] + factor]
  <2>1. g \in [Supported -> Nat] /\ factors \in [Supported -> Nat]
    BY <1>4, <1>7
  <2>2. SumFunction(g) = factor * SumFunction(ratios) + SumFunction(factors)
    <3>1. \A a \in Supported : g[a] = factor * ratios[a] + factors[a]
      OBVIOUS
    <3>2. ratios \in [Supported -> Nat]
      BY <1>7
    <3> HIDE DEF g, factors
    <3> QED
      BY <1>1, <1>4, <2>1, <3>1, <3>2, SumLinear
  <2>3. W <= SumFunction(g)
    BY <1>1, <1>6, <1>7, <2>1, SumMonotone
  <2> QED
    BY <1>5, <1>8, <2>2, <2>3
<1>10. factor * R <= W + U
  <2> DEFINE g == [a \in Supported |-> factor * ratios[a]]
             k == [a \in Supported |-> outputs[a] + ones[a]]
  <2>1. g \in [Supported -> Nat] /\ k \in [Supported -> Nat] /\ zeros \in [Supported -> Nat]
    BY <1>4, <1>7
  <2>2. SumFunction(g) = factor * SumFunction(ratios) + SumFunction(zeros)
    <3>1. \A a \in Supported : g[a] = factor * ratios[a] + zeros[a]
      BY <1>4, <1>7
    <3> HIDE DEF g, zeros
    <3> QED
      BY <1>1, <1>4, <1>7, <2>1, <3>1, SumLinear
  <2>3. SumFunction(k) = 1 * SumFunction(outputs) + SumFunction(ones)
    <3>1. \A a \in Supported : k[a] = 1 * outputs[a] + ones[a]
      BY <1>7
    <3> HIDE DEF k
    <3> QED
      BY <1>1, <1>7, <2>1, <3>1, SumLinear
  <2>4. SumFunction(g) <= SumFunction(k)
    BY <1>1, <1>6, <1>7, <2>1, SumMonotone
  <2>5. factor * R \in Nat /\ n * 0 = 0
    BY <1>1, <1>2, <1>4
  <2> QED
    BY <1>5, <1>8, <2>2, <2>3, <2>4, <2>5
<1>11. FullScale <= R + n
  <2> DEFINE g == [a \in Supported |-> FullScale * scaled[a]]
             k == [a \in Supported |-> T * ratios[a] + T]
  <2>1. g \in [Supported -> Nat] /\ k \in [Supported -> Nat]
        /\ zeros \in [Supported -> Nat] /\ Ts \in [Supported -> Nat]
    BY <1>2, <1>7
  <2>2. SumFunction(g) = FullScale * SumFunction(scaled) + SumFunction(zeros)
    <3>1. \A a \in Supported : g[a] = FullScale * scaled[a] + zeros[a]
      BY <1>7
    <3>2. /\ g \in [Supported -> Nat] /\ scaled \in [Supported -> Nat]
          /\ zeros \in [Supported -> Nat] /\ FullScale \in Nat
      BY <1>7, <2>1
    <3> HIDE DEF g, zeros
    <3> QED
      BY <1>1, <3>1, <3>2, SumLinear
  <2>3. SumFunction(k) = T * SumFunction(ratios) + SumFunction(Ts)
    <3>1. \A a \in Supported : k[a] = T * ratios[a] + Ts[a]
      OBVIOUS
    <3>2. /\ k \in [Supported -> Nat] /\ ratios \in [Supported -> Nat]
          /\ Ts \in [Supported -> Nat] /\ T \in Nat
      BY <1>2, <1>7, <2>1
    <3> HIDE DEF g, k, Ts, zeros
    <3> QED
      BY <1>1, <3>1, <3>2, SumLinear
  <2>4. SumFunction(g) <= SumFunction(k)
    BY <1>1, <1>6, <1>7, <2>1, SumMonotone
  <2>5. FullScale * T + n * 0 <= T * R + n * T
    BY <1>5, <1>8, <2>2, <2>3, <2>4
  <2>6. n * 0 = 0 /\ T * FullScale = FullScale * T /\ T * (R + n) = T * R + n * T
    BY <1>1, <1>2
  <2>7. T * FullScale <= T * (R + n)
    BY <1>1, <1>2, <2>5, <2>6
  <2> QED
    BY <1>1, <1>2, <2>7, CancelAtMost
<1>12. W * (FullScale - n) <= y * FullScale * FullScale /\ W >= y * FullScale - R - U
  BY <1>1, <1>2, <1>3, <1>8, <1>9, <1>10, <1>11, PaidBounds DEF factor
<1> QED
  BY <1>12 DEF outputs, ones, y, n, R
-----------------------------------------------------------------------------
(* What is held stays a natural number everywhere.                          *)

\* The places of the vault.
LEMMA PlacesKnown == ThisVault \in Places /\ Strategies \subseteq Places
  BY DEF Places

\* Rewards are added.
LEMMA HarvestTyped ==
    ASSUME vault \in VaultStorage, NEW h \in Holdings, NEW k \in Harvested(h)
    PROVE  k \in Holdings
<1>1. CASE k = h
  BY <1>1
<1>2. CASE k # h
  <2>1. PICK r \in Gains : vault.allAssets # <<>>
                           /\ k = [h EXCEPT ![ThisVault][Head(vault.allAssets)] = @ + r]
    BY <1>2 DEF Harvested
  <2>2. Head(vault.allAssets) \in Assets
    BY <2>1 DEF VaultStorage, AssetLists
  <2>3. r \in Nat
    BY ArgumentsAssumption
  <2> QED
    BY <2>1, <2>2, <2>3, PlacesKnown DEF Holdings
<1> QED
  BY <1>1, <1>2

\* What strategies hold is added to what the vault holds.
LEMMA WithdrawTyped ==
    ASSUME NEW h \in Holdings, NEW S \in SUBSET Strategies, IsFiniteSet(S)
    PROVE  AllWithdrawn(h, S) \in Holdings
<1> DEFINE sum(a) == SumFunction([s \in S |-> h[s][a]])
<1>1. ASSUME NEW a \in Assets PROVE sum(a) \in Nat
  <2> DEFINE f == [s \in S |-> h[s][a]]
  <2>1. f \in [S -> Nat]
    BY PlacesKnown DEF Holdings
  <2> HIDE DEF f
  <2>2. SumFunction(f) \in Nat
    BY <2>1, SumIsTotal
  <2> QED
    BY <2>2 DEF f
<1>2. AllWithdrawn(h, S) = [p \in Places |-> [a \in Assets |->
            IF p = ThisVault THEN h[p][a] + sum(a) ELSE IF p \in S THEN 0 ELSE h[p][a]]]
  BY DEF AllWithdrawn
<1> HIDE DEF sum
<1> QED
  BY <1>1, <1>2 DEF Holdings

\* No more of an asset is deposited than there is.
LEMMA DepositTyped ==
    ASSUME vault \in VaultStorage, NEW h \in Holdings, NEW modifier \in 1 .. FullScale
    PROVE  Deposited(h, modifier) \in Holdings
<1> DEFINE amount(a) == IF a \in Supported /\ vault.assetDefaultStrategies[a] # Nobody
                        THEN MulTruncate(h[ThisVault][a], modifier) ELSE 0
<1>1. ASSUME NEW a \in Assets PROVE amount(a) \in Nat /\ h[ThisVault][a] - amount(a) \in Nat
  <2> DEFINE x == h[ThisVault][a]
             part == MulTruncate(x, modifier)
  <2>1. x \in Nat /\ modifier \in Nat
    BY PlacesKnown DEF Holdings
  <2>2. part \in Nat /\ part * FullScale <= x * modifier
    <3> HIDE DEF x
    <3> QED
      BY <2>1, MulTruncateBounds
  <2> HIDE DEF x, part
  <2>3. x * modifier <= FullScale * x /\ part * FullScale = FullScale * part /\ x * modifier \in Nat
    BY <2>1, <2>2
  <2>4. FullScale * part <= FullScale * x
    BY <2>1, <2>2, <2>3
  <2>5. part <= x
    BY <2>1, <2>2, <2>4, CancelAtMost
  <2>6. amount(a) = part \/ amount(a) = 0
    BY DEF part, x
  <2> HIDE DEF amount
  <2>7. amount(a) \in Nat /\ x - amount(a) \in Nat
    BY <2>1, <2>2, <2>5, <2>6
  <2> QED
    BY <2>7 DEF x
<1>2. Deposited(h, modifier) = [p \in Places |-> [a \in Assets |->
            CASE p = ThisVault -> h[p][a] - amount(a)
              [] p # ThisVault /\ p = vault.assetDefaultStrategies[a] -> h[p][a] + amount(a)
              [] OTHER -> h[p][a]]]
  BY DEF Deposited
<1> HIDE DEF amount
<1> QED
  BY <1>1, <1>2 DEF Holdings

\* The share that is allocated is at most all there is.
LEMMA ModifierTyped ==
    ASSUME Priced, NEW h \in Holdings
    PROVE  VaultBufferModifier(h) \in Int /\ VaultBufferModifier(h) <= FullScale
<1> DEFINE inVault == TotalValueInVault(h)
           inStrategies == TotalValueInStrategies(h)
           buffer == vault.vaultBuffer
           part == (buffer * (inVault + inStrategies)) \div inVault
<1>1. inVault \in Nat /\ inStrategies \in Nat /\ buffer \in Nat
  BY ValueTypes DEF Priced, VaultStorage
<1>2. VaultBufferModifier(h) =
        CASE inVault = 0 -> 0
          [] inVault # 0 /\ inStrategies = 0 -> FullScale - buffer
          [] OTHER -> FullScale - part
  BY DEF VaultBufferModifier
<1>3. inVault # 0 => part \in Nat
  <2>1. buffer * (inVault + inStrategies) \in Nat
    BY <1>1
  <2> QED
    BY <1>1, <2>1
<1> HIDE DEF inVault, inStrategies, buffer, part
<1> QED
  BY <1>1, <1>2, <1>3

\* An allocation deposits and harvests.
LEMMA AllocateTyped ==
    ASSUME Priced, NEW h \in Holdings, NEW k \in Allocated(h)
    PROVE  k \in Holdings
<1> DEFINE modifier == VaultBufferModifier(h)
<1>0. vault \in VaultStorage /\ modifier \in Int /\ modifier <= FullScale
  BY ModifierTyped DEF Priced
<1>1. CASE modifier <= 0
  BY <1>0, <1>1 DEF Allocated
<1>2. CASE modifier > 0
  <2>1. modifier \in 1 .. FullScale
    BY <1>0, <1>2
  <2>2. Deposited(h, modifier) \in Holdings
    BY <1>0, <2>1, DepositTyped
  <2>3. k = Deposited(h, modifier) \/ k \in Harvested(Deposited(h, modifier))
    BY <1>0, <1>2 DEF Allocated
  <2> QED
    BY <1>0, <2>2, <2>3, HarvestTyped
<1> QED
  BY <1>0, <1>1, <1>2

\* Outputs are paid from where there is enough.
LEMMA PaidTyped ==
    ASSUME vault \in VaultStorage, NEW h \in Holdings, NEW outputs \in [Supported -> Nat],
           NEW k \in Paid(h, outputs)
    PROVE  k \in Holdings
<1>1. /\ \A a \in Supported : outputs[a] > 0 => h[Payer(h, a, outputs[a])][a] >= outputs[a]
      /\ k = [p \in Places |-> [a \in Assets |->
              IF a \in Supported /\ p = Payer(h, a, outputs[a]) THEN h[p][a] - outputs[a] ELSE h[p][a]]]
  BY DEF Paid
<1>2. ASSUME NEW p \in Places, NEW a \in Assets
      PROVE  (IF a \in Supported /\ p = Payer(h, a, outputs[a])
              THEN h[p][a] - outputs[a] ELSE h[p][a]) \in Nat
  BY <1>1 DEF Holdings
<1> QED
  BY <1>1, <1>2 DEF Holdings

\* The outputs of a redemption are natural numbers.
LEMMA OutputTypes ==
    ASSUME Priced, NEW h \in Holdings, NEW x \in Nat,
           AfterFee(x) >= 0, TotalBalance(h) > 0, TotalOutputRatio(h) > 0
    PROVE  RedeemOutputs(h, x) \in [Supported -> Nat]
<1> DEFINE factor == DivPrecisely(AfterFee(x), TotalOutputRatio(h))
<1>1. AfterFee(x) \in Nat
  <2>1. vault.redeemFeeBps \in Nat
    BY DEF Priced, VaultStorage
  <2>2. (x * vault.redeemFeeBps) \div 10000 \in Int
    BY <2>1
  <2> QED
    BY <2>2 DEF AfterFee
<1>2. TotalOutputRatio(h) \in Nat \ {0} /\ TotalBalance(h) \in Nat \ {0}
  BY BalanceTypes
<1>3. factor \in Nat
  <2>1. AfterFee(x) * FullScale \in Nat
    BY <1>1
  <2> QED
    BY <1>2, <2>1 DEF DivPrecisely
<1>4. RedeemOutputs(h, x) = [a \in Supported |-> (CheckBalance(h, a) * factor) \div TotalBalance(h)]
  BY DEF RedeemOutputs
<1> HIDE DEF factor
<1>5. ASSUME NEW a \in Supported PROVE (CheckBalance(h, a) * factor) \div TotalBalance(h) \in Nat
  <2>1. CheckBalance(h, a) \in Nat
    BY BalanceTypes, ListsFinite DEF Priced
  <2>2. CheckBalance(h, a) * factor \in Nat
    BY <1>3, <2>1
  <2> QED
    BY <1>2, <2>2
<1> QED
  BY <1>4, <1>5
-----------------------------------------------------------------------------
(* The invariant: a sound token, a typed vault.                             *)

VInv == TokenProofs!Inv /\ Priced /\ held \in Holdings

\* A storage is a storage, and a sound one has typed words.
LEMMA SoundTypes ==
    ASSUME NEW t, Sound(t)
    PROVE  /\ t \in Token!Storage /\ TokenProofs!Sound(t)
           /\ t.totalSupply \in Nat
  BY DEF Sound, TokenProofs!Sound, TokenProofs!Storage, Token!Storage,
         Token!RebaseOptions, TokenProofs!RebaseOptions

\* The trustee is an account if there is one, and deposits are amounts.
LEMMA ArgumentTypes == Trustees \subseteq Accounts \union {Nobody} /\ Deposits \subseteq Nat
<1>1. Trustees \subseteq Accounts \union {Nobody}
  BY AssetsAssumption, Zenon
<1>2. \A d \in Deposits : d \in Nat
  BY AssetsAssumption, Zenon
<1> QED
  BY <1>1, <1>2

\* A part of at most one half is a natural number.
LEMMA PartTypes ==
    ASSUME NEW bps, bps \in 0 .. 5000
    PROVE  bps \in Nat
  OBVIOUS

\* The trustee and its part.
LEMMA TrusteeTypes ==
    ASSUME vault \in VaultStorage
    PROVE  vault.trusteeFeeBps \in Nat /\ vault.trustee \in Accounts \union {Nobody}
<1>1. vault.trusteeFeeBps \in 0 .. 5000
  BY DEF VaultStorage
<1>2. vault.trustee \in Trustees \union {Nobody}
  BY DEF VaultStorage
<1>3. vault.trusteeFeeBps \in Nat
  BY <1>1, PartTypes
<1>4. vault.trustee \in Accounts \union {Nobody}
  BY <1>2, ArgumentTypes, Zenon
<1> QED
  BY <1>3, <1>4

\* The trustee's fee and the new supply leave the token sound.
LEMMA RebasedSound ==
    ASSUME vault \in VaultStorage, NEW t, Sound(t), NEW value \in Nat, NEW u \in Rebased(t, value)
    PROVE  Sound(u)
<1> DEFINE yield == value - t.totalSupply
           fee == (yield * vault.trusteeFeeBps) \div 10000
           feePaid ==
            CASE vault.trustee = Nobody \/ yield <= 0 -> {t}
              [] vault.trustee # Nobody /\ yield > 0 /\ fee > 0 /\ yield > fee ->
                    Token!Minted(t, vault.trustee, fee)
              [] vault.trustee # Nobody /\ yield > 0 /\ fee = 0 -> {t}
              [] OTHER -> {}
<1>1. t.totalSupply \in Nat /\ vault.trusteeFeeBps \in Nat /\ vault.trustee \in Accounts \union {Nobody}
  BY SoundTypes, TrusteeTypes
<1>2. yield > 0 => fee \in Nat
  <2>1. yield > 0 => yield * vault.trusteeFeeBps \in Nat
    BY <1>1
  <2> QED
    BY <1>1, <2>1
<1>3. CASE t.totalSupply = 0
  BY <1>3 DEF Rebased
<1>4. CASE t.totalSupply # 0
  <2>1. PICK p \in feePaid :
            u \in IF value > p.totalSupply THEN Token!SupplyChanged(p, value) ELSE {p}
    BY <1>4 DEF Rebased
  <2>2. p = t \/ (vault.trustee \in Accounts /\ fee \in Nat /\ p \in Token!Minted(t, vault.trustee, fee))
    <3> HIDE DEF yield, fee
    <3>1. yield \in Int
      BY <1>1 DEF yield
    <3> QED
      BY <1>1, <1>2, <2>1, <3>1
  <2> HIDE DEF feePaid, fee, yield
  <2>3. Sound(p)
    BY <2>2, CallsSound
  <2> QED
    BY <2>1, <2>3, CallsSound
<1> QED
  BY <1>3, <1>4

\* A call that may rebase first.
MaybeRebased(t, value) == {t} \union Rebased(t, value)

\* Whether it does or not.
LEMMA MaybeRebasedSound ==
    ASSUME vault \in VaultStorage, NEW t, Sound(t), NEW value \in Nat,
           NEW u \in MaybeRebased(t, value)
    PROVE  Sound(u)
  BY RebasedSound DEF MaybeRebased

\* Where the storage and the prices stay, they stay typed.
LEMMA SamePrices ==
    ASSUME Priced, UNCHANGED <<vault, price>>
    PROVE  Priced'
<1>1. VaultStorage' = VaultStorage
  BY DEF VaultStorage, AssetLists, StrategyLists
<1> QED
  BY <1>1 DEF Priced

\* A sound token and typed holdings make the invariant, when nothing else changes.
LEMMA InvOfParts ==
    ASSUME VInv, Sound(token)', held' \in Holdings, Priced', UNCHANGED <<allowances, contracts>>
    PROVE  VInv'
<1>1. TokenProofs!Sound(token')
  BY DEF Sound
<1>2. TokenProofs!TypeOK'
  BY <1>1 DEF VInv, TokenProofs!Inv, TokenProofs!TypeOK, TokenProofs!Sound
<1> QED
  BY <1>1, <1>2 DEF VInv, TokenProofs!Inv

\* The price adjusted amount that is minted is a natural number.
LEMMA DepositsTyped ==
    ASSUME Priced, NEW n \in Nat, NEW d \in [1 .. n -> Assets \X Deposits]
    PROVE  /\ PriceAdjusted(d) \in Nat
           /\ \A a : SumFunction([i \in DOMAIN d |-> IF d[i][1] = a THEN d[i][2] ELSE 0]) \in Nat
<1>0. /\ DOMAIN d = 1 .. n /\ IsFiniteSet(1 .. n)
      /\ \A i \in 1 .. n : d[i][1] \in Assets /\ d[i][2] \in Nat
  <2>1. IsFiniteSet(1 .. n)
    BY FS_Interval
  <2>2. \A x \in Deposits : x \in Nat
    BY ArgumentTypes
  <2> QED
    BY <2>1, <2>2
<1>1. PriceAdjusted(d) \in Nat
  <2> DEFINE f == [i \in DOMAIN d |-> ValueOf(d[i][1], d[i][2])]
  <2>1. f \in [DOMAIN d -> Nat]
    BY <1>0, AmountTypes
  <2> HIDE DEF f
  <2>2. SumFunction(f) \in Nat
    BY <1>0, <2>1, SumIsTotal
  <2> QED
    BY <2>2 DEF f, PriceAdjusted
<1>2. ASSUME NEW a
      PROVE  SumFunction([i \in DOMAIN d |-> IF d[i][1] = a THEN d[i][2] ELSE 0]) \in Nat
  <2> DEFINE f == [i \in DOMAIN d |-> IF d[i][1] = a THEN d[i][2] ELSE 0]
  <2>1. f \in [DOMAIN d -> Nat]
    BY <1>0
  <2> HIDE DEF f
  <2>2. SumFunction(f) \in Nat
    BY <1>0, <2>1, SumIsTotal
  <2> QED
    BY <2>2 DEF f
<1> QED
  BY <1>1, <1>2

\* mint, with its rebase and its allocation.
LEMMA MintKeeps ==
    ASSUME VInv, NEW user \in Accounts, NEW n \in Nat, NEW d \in [1 .. n -> Assets \X Deposits],
           Mint(user, d)
    PROVE  VInv'
<1> DEFINE brought(a) == SumFunction([i \in DOMAIN d |-> IF d[i][1] = a THEN d[i][2] ELSE 0])
           received == [held EXCEPT ![ThisVault] = [a \in Assets |-> @[a] + brought(a)]]
<1>0. Priced /\ vault \in VaultStorage /\ held \in Holdings /\ Sound(token)
  BY DEF VInv, Priced, TokenProofs!Inv, Sound
<1>1. \E t \in MaybeRebased(token, TotalValue(held)) :
            token' \in Token!Minted(t, user, PriceAdjusted(d))
  BY DEF Mint, RebasedIf, MaybeRebased
<1>2. Sound(token')
  <2>1. PICK t \in MaybeRebased(token, TotalValue(held)) :
            token' \in Token!Minted(t, user, PriceAdjusted(d))
    BY <1>1
  <2>2. Sound(t)
    BY <1>0, ValueTypes, MaybeRebasedSound
  <2> QED
    BY <1>0, <2>1, <2>2, DepositsTyped, CallsSound
<1>3. held' \in Allocated(received) \/ held' = received
  BY DEF Mint
<1>4. received \in Holdings
  <2>1. ASSUME NEW a \in Assets PROVE brought(a) \in Nat
    BY <1>0, DepositsTyped
  <2> HIDE DEF brought
  <2> QED
    BY <1>0, <2>1, PlacesKnown DEF Holdings
<1> HIDE DEF received
<1>5. held' \in Holdings
  BY <1>0, <1>3, <1>4, AllocateTyped
<1>6. Priced' /\ UNCHANGED <<allowances, contracts>>
  <2>1. UNCHANGED <<allowances, contracts, vault, price>>
    BY DEF Mint
  <2> QED
    BY <1>0, <2>1, SamePrices
<1> QED
  BY <1>2, <1>5, <1>6, InvOfParts DEF Sound

\* redeem and redeemAll, with the rebases before and after.
LEMMA RedeemKeeps ==
    ASSUME VInv, NEW t, Sound(t), NEW user \in Accounts, NEW amount \in Nat,
           RedeemFrom(t, user, amount)
    PROVE  VInv'
<1>0. Priced /\ vault \in VaultStorage /\ held \in Holdings
  BY DEF VInv, Priced
<1>1. AfterFee(amount) >= 0 /\ TotalBalance(held) > 0 /\ TotalOutputRatio(held) > 0
      /\ held' \in Paid(held, RedeemOutputs(held, amount))
  BY DEF RedeemFrom
<1>2. held' \in Holdings
  BY <1>0, <1>1, OutputTypes, PaidTyped
<1>3. Sound(token')
  <2>1. PICK u \in Token!Burned(t, user, amount) :
            token' \in MaybeRebased(u, TotalValue(held'))
    BY DEF RedeemFrom, RebasedIf, MaybeRebased
  <2>2. Sound(u)
    BY <2>1, CallsSound
  <2>3. TotalValue(held') \in Nat
    BY <1>0, <1>2, ValueTypes
  <2> QED
    BY <1>0, <2>1, <2>2, <2>3, MaybeRebasedSound
<1>4. Priced' /\ UNCHANGED <<allowances, contracts>>
  <2>1. UNCHANGED <<allowances, contracts, vault, price>>
    BY DEF RedeemFrom
  <2> QED
    BY <1>0, <2>1, SamePrices
<1> QED
  BY <1>2, <1>3, <1>4, InvOfParts DEF Sound

\* Balances and rates, by whatever name.
LEMMA SameBalances ==
    ASSUME NEW t, NEW a
    PROVE  /\ Token!CreditsPerToken(t, a) = TokenProofs!CreditsPerToken(t, a)
           /\ Token!BalanceOf(t, a) = TokenProofs!BalanceOf(t, a)
           /\ \A x, y : TokenProofs!DivPrecisely(x, y) = DivPrecisely(x, y)
  BY DEF Token!BalanceOf, TokenProofs!BalanceOf, Token!DivPrecisely, TokenProofs!DivPrecisely,
         Token!CreditsPerToken, TokenProofs!CreditsPerToken, DivPrecisely

\* The balance that redeemAll redeems is a natural number.
LEMMA BalanceTyped ==
    ASSUME NEW t, Sound(t), NEW a \in Accounts
    PROVE  Token!BalanceOf(t, a) \in Nat
  BY TokenProofs!BalanceIsWorth, TokenAssumptions, SameBalances DEF Sound

\* The calls anyone may make.
LEMMA UsersKeep ==
    ASSUME VInv, Users
    PROVE  VInv'
<1>0. Priced /\ vault \in VaultStorage /\ held \in Holdings /\ Sound(token)
      /\ TotalValue(held) \in Nat
  BY ValueTypes DEF VInv, Priced, TokenProofs!Inv, Sound
<1>1. ASSUME NEW u \in Accounts, NEW n \in 1 .. MaxDeposits,
             NEW d \in [1 .. n -> Assets \X Deposits], Mint(u, d)
      PROVE  VInv'
  BY <1>1, MintKeeps
<1>2. ASSUME NEW u \in Accounts, NEW x \in Redemptions, Redeem(u, x) PROVE VInv'
  <2>1. PICK t \in MaybeRebased(token, TotalValue(held)) : RedeemFrom(t, u, x)
    BY <1>2 DEF Redeem, RebasedIf, MaybeRebased
  <2>2. x \in Nat
    BY ArgumentsAssumption
  <2> QED
    BY <1>0, <2>1, <2>2, MaybeRebasedSound, RedeemKeeps
<1>3. ASSUME NEW u \in Accounts, RedeemAll(u) PROVE VInv'
  <2>1. PICK t \in MaybeRebased(token, TotalValue(held)) :
            RedeemFrom(t, u, Token!BalanceOf(t, u))
    BY <1>3 DEF RedeemAll, RebasedIf, MaybeRebased
  <2> QED
    BY <1>0, <2>1, MaybeRebasedSound, BalanceTyped, RedeemKeeps
<1>4. CASE Allocate
  <2>1. held' \in Holdings
    BY <1>0, <1>4, AllocateTyped DEF Allocate
  <2>2. UNCHANGED <<token, allowances, contracts, vault, price>>
    BY <1>4 DEF Allocate, tokenVars
  <2>3. Sound(token') /\ Priced'
    BY <1>0, <2>2, SamePrices
  <2> QED
    BY <2>1, <2>2, <2>3, InvOfParts DEF Sound
<1>5. CASE Rebase
  <2>1. Sound(token')
    BY <1>0, <1>5, RebasedSound DEF Rebase
  <2>2. UNCHANGED <<allowances, contracts, vault, held, price>>
    BY <1>5 DEF Rebase
  <2>3. held' \in Holdings /\ Priced'
    BY <1>0, <2>2, SamePrices
  <2> QED
    BY <2>1, <2>2, <2>3, InvOfParts DEF Sound
<1> QED
  BY <1>1, <1>2, <1>3, <1>4, <1>5 DEF Users

\* The calls the holders make of the token themselves, and code that comes and goes.
LEMMA TokenStep ==
    ASSUME VInv, UNCHANGED <<vault, held, price>>,
           \/ \E a \in Accounts : Token!By(a) \/ Token!Deploy(a) \/ Token!SelfDestruct(a)
           \/ UNCHANGED tokenVars
    PROVE  VInv'
<1>1. [TokenProofs!Next]_(TokenProofs!vars)
  <2>1. ASSUME NEW a \in Accounts, Token!By(a) PROVE TokenProofs!Next
    BY <2>1, SameBy DEF TokenProofs!Next
  <2>2. ASSUME NEW a \in Accounts, Token!Deploy(a) \/ Token!SelfDestruct(a) PROVE TokenProofs!Next
    BY <2>2 DEF TokenProofs!Next, Token!Deploy, TokenProofs!Deploy,
                Token!SelfDestruct, TokenProofs!SelfDestruct
  <2>3. ASSUME UNCHANGED tokenVars PROVE UNCHANGED TokenProofs!vars
    BY <2>3 DEF tokenVars, TokenProofs!vars
  <2> QED
    BY <2>1, <2>2, <2>3
<1>2. TokenProofs!Inv'
  BY <1>1, TokenProofs!NextInv, TokenAssumptions DEF VInv
<1>3. Priced' /\ held' \in Holdings
  BY SamePrices DEF VInv
<1> QED
  BY <1>2, <1>3 DEF VInv, Holdings

\* Where the token stays, holdings, storage and prices have to be looked at.
LEMMA TokenLeft ==
    ASSUME VInv, UNCHANGED tokenVars, Priced', held' \in Holdings
    PROVE  VInv'
<1>1. TokenProofs!Inv'
  <2>1. [TokenProofs!Next]_(TokenProofs!vars)
    BY DEF tokenVars, TokenProofs!vars
  <2> QED
    BY <2>1, TokenProofs!NextInv, TokenAssumptions DEF VInv
<1> QED
  BY <1>1 DEF VInv, Holdings

\* The setters, and the calls that only list or unlist.
LEMMA ConfigureKeeps ==
    ASSUME VInv, ListInv, Configure
    PROVE  VInv'
<1>1. UNCHANGED <<tokenVars, held, price>>
  BY DEF Configure, SetRedeemFeeBps, SetVaultBuffer, SetAutoAllocateThreshold,
         SetRebaseThreshold, SetMaxSupplyDiff, SetTrusteeAddress, SetTrusteeFeeBps,
         PauseRebase, UnpauseRebase, PauseCapital, UnpauseCapital, SetVault
<1>2. Priced'
  <2>1. vault' \in VaultStorage'
    BY ConfigureStep DEF ListInv
  <2> QED
    BY <1>1, <2>1 DEF Priced, VInv
<1> QED
  BY <1>1, <1>2, TokenLeft DEF VInv

\* What is moved from where there is enough arrives.
LEMMA MoveTyped ==
    ASSUME NEW h \in Holdings, NEW from \in Places, NEW to \in Places, NEW a \in Assets,
           NEW x \in Nat, h[from][a] >= x
    PROVE  Move(h, from, to, a, x) \in Holdings
<1> DEFINE taken == [h EXCEPT ![from][a] = @ - x]
<1>1. h[from][a] \in Nat /\ h[from][a] - x \in Nat
  BY DEF Holdings
<1>2. taken \in Holdings
  BY <1>1 DEF Holdings
<1>3. Move(h, from, to, a, x) = [taken EXCEPT ![to][a] = @ + x]
  BY DEF Move
<1> HIDE DEF taken
<1> QED
  BY <1>2, <1>3 DEF Holdings

\* The calls of the governor and the strategist.
LEMMA AdministerKeeps ==
    ASSUME VInv, ListInv, Administer
    PROVE  VInv'
<1>0. /\ Priced /\ vault \in VaultStorage /\ held \in Holdings
      /\ \A p \in Places, a \in Assets : held[p][a] \in Nat
      /\ \A x \in Gains : x \in Nat
  BY ArgumentsAssumption DEF VInv, Priced, Holdings
<1>1. UNCHANGED <<tokenVars, price>>
  BY DEF Administer, SupportAsset, TransferToken, ApproveStrategy, RemoveStrategy,
         WithdrawAllFromStrategy, SetAssetDefaultStrategy, Reallocate,
         WithdrawAllFromStrategies, Harvest, SetVault
<1>2. Priced'
  <2>1. vault' \in VaultStorage'
    BY AdministerStep DEF ListInv
  <2> QED
    BY <1>0, <1>1, <2>1 DEF Priced
<1>3. held' \in Holdings
  <2>1. ASSUME UNCHANGED held PROVE held' \in Holdings
    BY <1>0, <2>1
  <2>2. ASSUME NEW a \in Assets, NEW x \in Gains, TransferToken(a, x) PROVE held' \in Holdings
    <3>1. held[ThisVault][a] \in Nat /\ held[ThisVault][a] - x \in Nat
      BY <1>0, <2>2, PlacesKnown DEF TransferToken
    <3>2. held' = [held EXCEPT ![ThisVault][a] = @ - x]
      BY <2>2 DEF TransferToken
    <3> QED
      BY <1>0, <3>1, <3>2, PlacesKnown DEF Holdings
  <2>3. ASSUME NEW s \in Strategies, RemoveStrategy(s) PROVE held' \in Holdings
    <3>1. AllWithdrawn(held, {s}) \in Holdings
      BY <1>0, WithdrawTyped, FS_Singleton
    <3> QED
      BY <1>0, <2>3, <3>1, HarvestTyped DEF RemoveStrategy
  <2>4. ASSUME NEW s \in Strategies, WithdrawAllFromStrategy(s) PROVE held' \in Holdings
    BY <1>0, <2>4, WithdrawTyped, FS_Singleton DEF WithdrawAllFromStrategy
  <2>5. ASSUME NEW s \in Strategies, NEW to \in Strategies, NEW a \in Assets, NEW x \in Gains,
               Reallocate(s, to, a, x)
        PROVE  held' \in Holdings
    BY <1>0, <2>5, MoveTyped, PlacesKnown DEF Reallocate
  <2>6. ASSUME WithdrawAllFromStrategies PROVE held' \in Holdings
    BY <1>0, <2>6, WithdrawTyped, ListsFinite DEF WithdrawAllFromStrategies
  <2>7. ASSUME Harvest PROVE held' \in Holdings
    BY <1>0, <2>7, HarvestTyped DEF Harvest
  <2>8. ASSUME \/ \E a \in Assets : SupportAsset(a)
               \/ \E s \in Strategies : ApproveStrategy(s)
               \/ \E s \in Strategies, a \in Assets : SetAssetDefaultStrategy(a, s)
        PROVE  held' \in Holdings
    BY <2>1, <2>8 DEF SupportAsset, ApproveStrategy, SetAssetDefaultStrategy, SetVault
  <2> QED
    BY <2>2, <2>3, <2>4, <2>5, <2>6, <2>7, <2>8 DEF Administer
<1> QED
  BY <1>1, <1>2, <1>3, TokenLeft

\* The world.
LEMMA WorldKeeps ==
    ASSUME VInv, World
    PROVE  VInv'
<1>0. /\ Priced /\ vault \in VaultStorage /\ held \in Holdings
      /\ \A p \in Places, a \in Assets : held[p][a] \in Nat
      /\ \A x \in Gains : x \in Nat
  BY ArgumentsAssumption DEF VInv, Priced, Holdings
<1>1. ASSUME NEW a \in Assets, PriceMoves(a) PROVE VInv'
  <2>1. PICK p \in Prices[a] : price' = [price EXCEPT ![a] = p]
    BY <1>1 DEF PriceMoves
  <2>2. p \in Nat
    BY AssetsAssumption
  <2>3. UNCHANGED <<tokenVars, vault, held>>
    BY <1>1 DEF PriceMoves
  <2>4. price' \in [Assets -> Nat]
    BY <1>0, <2>1, <2>2 DEF Priced
  <2>5. Priced'
    <3>1. VaultStorage' = VaultStorage
      BY DEF VaultStorage, AssetLists, StrategyLists
    <3> QED
      BY <1>0, <2>3, <2>4, <3>1 DEF Priced
  <2> QED
    BY <1>0, <2>3, <2>5, TokenLeft
<1>2. ASSUME NEW p \in Places, NEW a \in Assets, NEW x \in Nat, UNCHANGED <<tokenVars, vault, price>>,
             \/ held' = [held EXCEPT ![p][a] = @ + x]
             \/ held[p][a] >= x /\ held' = [held EXCEPT ![p][a] = @ - x]
      PROVE  VInv'
  <2>1. held' \in Holdings
    BY <1>0, <1>2 DEF Holdings
  <2>2. Priced'
    BY <1>0, <1>2, SamePrices
  <2> QED
    BY <1>2, <2>1, <2>2, TokenLeft
<1>3. ASSUME NEW p \in Places, NEW a \in Assets, NEW x \in Gains, Earn(p, a, x) PROVE VInv'
  BY <1>0, <1>2, <1>3 DEF Earn
<1>4. ASSUME NEW s \in Strategies, NEW a \in Assets, NEW x \in Gains, Lose(s, a, x) PROVE VInv'
  BY <1>0, <1>2, <1>4, PlacesKnown DEF Lose
<1>5. ASSUME NEW a \in Accounts, Token!Deploy(a) \/ Token!SelfDestruct(a),
             UNCHANGED <<vault, held, price>>
      PROVE  VInv'
  BY <1>5, TokenStep
<1> QED
  BY <1>1, <1>3, <1>4, <1>5 DEF World

\* At first nothing is held, and prices are prices.
LEMMA VInvInit == Init => VInv
<1> SUFFICES ASSUME Init PROVE VInv
  OBVIOUS
<1>1. TokenProofs!Inv
  BY TokenProofs!InitInv, SameProperties, TokenAssumptions DEF Init
<1>2. vault \in VaultStorage
  BY ListInvInit DEF ListInv
<1>3. price \in [Assets -> Nat]
  <2>1. /\ price \in [Assets -> UNION {Prices[a] : a \in Assets}]
        /\ \A a \in Assets : price[a] \in Prices[a]
    BY DEF Init
  <2>2. \A a \in Assets : price[a] \in Nat
    BY <2>1, AssetsAssumption
  <2> QED
    BY <2>1, <2>2
<1>4. held \in Holdings
  BY DEF Init, Holdings
<1> QED
  BY <1>1, <1>2, <1>3, <1>4 DEF VInv, Priced

\* Every step keeps the invariant.
LEMMA VInvStep == VInv /\ ListInv /\ [Next]_vars => VInv'
<1> SUFFICES ASSUME VInv, ListInv, [Next]_vars PROVE VInv'
  OBVIOUS
<1>1. CASE Users
  BY <1>1, UsersKeep
<1>2. CASE Holders
  <2>1. PICK a \in Accounts : Token!By(a)
    BY <1>2, ArgumentsAssumption DEF Holders
  <2> QED
    BY <1>2, <2>1, TokenStep DEF Holders
<1>3. CASE Configure
  BY <1>3, ConfigureKeeps
<1>4. CASE Administer
  BY <1>4, AdministerKeeps
<1>5. CASE World
  BY <1>5, WorldKeeps
<1>6. CASE UNCHANGED vars
  BY <1>6, TokenStep DEF vars, tokenVars
<1> QED
  BY <1>1, <1>2, <1>3, <1>4, <1>5, <1>6 DEF Next

\* The invariant holds whatever happens.
LEMMA SpecVInv == Spec => [](VInv /\ ListInv)
  BY VInvInit, ListInvInit, VInvStep, ListInvStep, PTL DEF Spec

\* Whatever is called, in whatever order, storage, holdings and prices keep their
\* types, and so does the token: no word of it under- or overflows when the vault
\* mints, burns and rebases in the course of its own functions.
THEOREM VaultTypeCorrect == Spec => []TypeOK
<1>1. VInv => TypeOK
  BY SameProperties DEF VInv, TypeOK, TokenProofs!Inv, Priced, Holdings
<1> QED
  BY <1>1, SpecVInv, PTL

\* The token stays what it promises to be when it is the vault that drives it
\* (VaultCore.sol: mint, redeem, _rebase): choices and rates match, and what the
\* rebasing accounts hold never exceeds the tally of it.
THEOREM VaultKeepsTokenSound ==
    Spec => [](Token!RatesMatchOptions /\ Token!RebasingCreditsBacked)
<1>1. VInv => Token!RatesMatchOptions /\ Token!RebasingCreditsBacked
  BY SameProperties DEF VInv, TokenProofs!Inv, TokenProofs!Sound,
     TokenProofs!RatesMatchOptions, TokenProofs!RebasingCreditsBacked
<1> QED
  BY <1>1, SpecVInv, PTL

\* Whatever the vault and its strategies hold, at any prices, decimals and fee, the
\* mix _calculateRedeemOutputs pays is worth the amount without the fee, up to what
\* its quotients round away.
THEOREM RedemptionsAlwaysPayTheirWorth == Spec => []RedemptionPaysItsWorth
<1>1. ASSUME VInv PROVE RedemptionPaysItsWorth
  <2>1. Priced /\ held \in Holdings
    BY <1>1 DEF VInv
  <2>2. \A x \in Redemptions : x \in Nat
    BY ArgumentsAssumption
  <2> QED
    BY <2>1, <2>2, OutputsWorth DEF RedemptionPaysItsWorth
<1> QED
  BY <1>1, SpecVInv, PTL
-----------------------------------------------------------------------------
(* A rebase.                                                                *)

\* What a rebase goes through: perhaps a mint of the trustee's part of the yield,
\* then perhaps a change of the supply to the value.
LEMMA RebaseSteps ==
    ASSUME VInv, Rebase, token.totalSupply > 0
    PROVE  LET value == TotalValue(held)
               fee == FeeOfYield(value, token.totalSupply)
           IN  /\ value \in Nat /\ token.totalSupply \in Nat /\ fee \in Int
               /\ \E p : /\ Sound(p)
                         /\ \/ p = token
                               /\ \/ vault.trustee = Nobody \/ value <= token.totalSupply
                                  \/ fee = 0
                            \/ /\ vault.trustee \in Accounts /\ fee \in Nat
                               /\ p \in Token!Minted(token, vault.trustee, fee)
                         /\ p.totalSupply \in Nat
                         /\ \/ value <= p.totalSupply /\ token' = p
                            \/ token' \in Token!SupplyChanged(p, value)
<1> DEFINE value == TotalValue(held)
           yield == value - token.totalSupply
           fee == (yield * vault.trusteeFeeBps) \div 10000
           feePaid ==
            CASE vault.trustee = Nobody \/ yield <= 0 -> {token}
              [] vault.trustee # Nobody /\ yield > 0 /\ fee > 0 /\ yield > fee ->
                    Token!Minted(token, vault.trustee, fee)
              [] vault.trustee # Nobody /\ yield > 0 /\ fee = 0 -> {token}
              [] OTHER -> {}
<1>0. Priced /\ vault \in VaultStorage /\ held \in Holdings /\ Sound(token)
  BY DEF VInv, Priced, TokenProofs!Inv, Sound
<1>1. /\ value \in Nat /\ token.totalSupply \in Nat
      /\ vault.trusteeFeeBps \in Nat /\ vault.trustee \in Accounts \union {Nobody}
  BY <1>0, ValueTypes, SoundTypes, TrusteeTypes
<1>2. PICK p \in feePaid :
          token' \in IF value > p.totalSupply THEN Token!SupplyChanged(p, value) ELSE {p}
  BY DEF Rebase, Rebased
<1>3. FeeOfYield(value, token.totalSupply) = fee
  BY DEF FeeOfYield
<1> HIDE DEF value
<1>4. yield \in Int /\ (yield <= 0 => value <= token.totalSupply)
  BY <1>1
<1>5. fee \in Int
  <2> HIDE DEF yield
  <2>1. yield * vault.trusteeFeeBps \in Int
    BY <1>1, <1>4
  <2> QED
    BY <2>1
<1> HIDE DEF yield, fee
<1>6. \/ p = token /\ (vault.trustee = Nobody \/ value <= token.totalSupply \/ fee = 0)
      \/ /\ vault.trustee \in Accounts /\ fee \in Nat
         /\ p \in Token!Minted(token, vault.trustee, fee)
  BY <1>1, <1>2, <1>4, <1>5
<1> HIDE DEF feePaid
<1>7. Sound(p) /\ p.totalSupply \in Nat
  <2>1. Sound(p)
    BY <1>0, <1>6, CallsSound
  <2> QED
    BY <2>1, SoundTypes
<1>8. (value <= p.totalSupply /\ token' = p) \/ token' \in Token!SupplyChanged(p, value)
  BY <1>1, <1>2, <1>7
<1> QED
  BY <1>1, <1>3, <1>5, <1>6, <1>7, <1>8 DEF value

\* A rebase leaves what is held, and what it is worth.
LEMMA RebaseKeepsValue ==
    ASSUME Rebase
    PROVE  TotalValue(held)' = TotalValue(held)
  BY DEF Rebase, TotalValue, TotalValueInVault, TotalValueInStrategies, TotalValueInStrategy,
         Supported, ValueOf

\* A rebase leaves no yield undistributed: its new rate is rounded so that the
\* balances are together worth the value of the vault, or more, or the supply is at
\* its cap.
THEOREM RebasesHandOutTheYield == Spec => [][HandsOutYield]_vars
<1>1. ASSUME VInv, Rebase, token.totalSupply > 0
      PROVE  Surplus' <= 0 \/ token'.totalSupply >= MaxSupply
  <2> DEFINE value == TotalValue(held)
  <2>1. /\ value \in Nat
        /\ \E p : /\ Sound(p) /\ p.totalSupply \in Nat
                  /\ \/ value <= p.totalSupply /\ token' = p
                     \/ token' \in Token!SupplyChanged(p, value)
    BY <1>1, RebaseSteps
  <2>2. Surplus' = value - token'.totalSupply
    BY <1>1, RebaseKeepsValue DEF Surplus
  <2> HIDE DEF value
  <2>3. PICK p : /\ Sound(p) /\ p.totalSupply \in Nat
                 /\ \/ value <= p.totalSupply /\ token' = p
                    \/ token' \in Token!SupplyChanged(p, value)
    BY <2>1
  <2>4. value <= token'.totalSupply \/ MaxSupply <= token'.totalSupply
    <3>1. CASE token' = p
      BY <2>3, <3>1, <2>1, TokenProofs!SupplyReached, TokenAssumptions, SameChangeSupply DEF Sound
    <3>2. CASE token' # p
      BY <2>3, <3>2, <2>1, TokenProofs!SupplyReached, TokenAssumptions, SameChangeSupply DEF Sound
    <3> QED
      BY <3>1, <3>2
  <2>5. Sound(token') /\ token'.totalSupply \in Nat /\ MaxSupply \in Nat
    BY <2>1, <2>3, CallsSound, SoundTypes, TokenAssumption
  <2> QED
    BY <2>1, <2>2, <2>4, <2>5
<1>2. VInv /\ [Next]_vars => [HandsOutYield]_vars
  BY <1>1 DEF HandsOutYield
<1> QED
  BY <1>2, SpecVInv, PTL DEF Spec

\* A frozen balance is not changed by a change of the supply.
LEMMA FrozenBalance ==
    ASSUME NEW p, Sound(p), NEW n \in Nat, NEW a \in Accounts, NEW u,
           u = p \/ u \in Token!SupplyChanged(p, n), Token!IsNonRebasing(u, a)
    PROVE  /\ Token!BalanceOf(u, a) = Token!BalanceOf(p, a)
           /\ Token!CreditsPerToken(u, a) = Token!CreditsPerToken(p, a)
<1>1. CASE u = p
  BY <1>1
<1>2. CASE u # p
  <2>1. /\ u.creditBalances = p.creditBalances
        /\ u.nonRebasingCreditsPerToken = p.nonRebasingCreditsPerToken
    BY <1>2, TokenProofs!SupplyReached, TokenAssumptions, SameChangeSupply DEF Sound
  <2>2. u.nonRebasingCreditsPerToken[a] # 0
    BY DEF Token!IsNonRebasing
  <2> QED
    BY <2>1, <2>2 DEF Token!BalanceOf, Token!CreditsPerToken
<1> QED
  BY <1>1, <1>2

\* A rebase pays a trustee that does not rebase its part of the yield, in credits
\* that are worth no more than it and at most a credit's worth less, whatever the
\* rate its balance was frozen at.
THEOREM RebasesPayTheFee == Spec => [][PaysFee]_vars
<1>1. ASSUME VInv, Rebase, NEW a \in Accounts, a = vault.trustee, Token!IsNonRebasing(token', a),
             token.totalSupply > 0, TotalValue(held) > token.totalSupply
      PROVE  /\ Gain(a) <= FeeOfYield(TotalValue(held), token.totalSupply)
             /\ Gain(a) >= FeeOfYield(TotalValue(held), token.totalSupply) - CreditsWorth(a)
  <2> DEFINE value == TotalValue(held)
             fee == FeeOfYield(value, token.totalSupply)
             one == DivPrecisely(1, Token!CreditsPerToken(token', a))
  <2>1. /\ value \in Nat /\ fee \in Int /\ token.totalSupply \in Nat
        /\ \E p : /\ Sound(p)
                  /\ \/ p = token
                        /\ (vault.trustee = Nobody \/ value <= token.totalSupply \/ fee = 0)
                     \/ fee \in Nat /\ p \in Token!Minted(token, vault.trustee, fee)
                  /\ token' = p \/ token' \in Token!SupplyChanged(p, value)
    BY <1>1, RebaseSteps
  <2>2. vault.trustee # Nobody
    BY <1>1, AssetsAssumption
  <2> HIDE DEF value, fee
  <2>3. PICK p : /\ Sound(p)
                 /\ (p = token /\ fee = 0) \/ (fee \in Nat /\ p \in Token!Minted(token, a, fee))
                 /\ token' = p \/ token' \in Token!SupplyChanged(p, value)
    <3>1. ~(value <= token.totalSupply)
      BY <1>1, <2>1 DEF value
    <3> QED
      BY <1>1, <2>1, <2>2, <3>1
  <2>4. Sound(token) /\ Sound(token')
    <3>1. Sound(token)
      BY <1>1 DEF VInv, TokenProofs!Inv, Sound
    <3> QED
      BY <2>1, <2>3, <3>1, CallsSound
  <2>5. /\ Token!BalanceOf(token', a) = Token!BalanceOf(p, a)
        /\ Token!CreditsPerToken(token', a) = Token!CreditsPerToken(p, a)
    BY <1>1, <2>1, <2>3, FrozenBalance
  <2>6. /\ Token!BalanceOf(token, a) \in Nat /\ Token!BalanceOf(p, a) \in Nat /\ one \in Nat
    <3>1. TokenProofs!CreditsPerToken(token', a) \in Nat \ {0}
      BY <2>4, TokenProofs!BalanceIsWorth, TokenAssumptions DEF Sound
    <3>2. one \in Nat
      BY <3>1, SameBalances, WorthMonotone
    <3> QED
      BY <2>3, <2>4, <3>2, BalanceTyped
  <2>7. /\ Token!BalanceOf(p, a) <= Token!BalanceOf(token, a) + fee
        /\ Token!BalanceOf(token, a) + fee <= Token!BalanceOf(p, a) + one + 1
    <3>1. CASE p = token /\ fee = 0
      BY <2>6, <3>1
    <3>2. CASE fee \in Nat /\ p \in Token!Minted(token, a, fee)
      <4>1. p \in TokenProofs!Minted(token, a, fee)
        BY <3>2, SameMint
      <4>2. /\ TokenProofs!BalanceOf(p, a) <= TokenProofs!BalanceOf(token, a) + fee
            /\ TokenProofs!BalanceOf(token, a) + fee
                  <= TokenProofs!BalanceOf(p, a)
                        + TokenProofs!DivPrecisely(1, TokenProofs!CreditsPerToken(p, a)) + 1
        BY <2>4, <3>2, <4>1, TokenProofs!MintBalances, TokenAssumptions DEF Sound
      <4> QED
        BY <2>5, <4>2, SameBalances
    <3> QED
      BY <2>3, <3>1, <3>2
  <2>8. Gain(a) = Token!BalanceOf(p, a) - Token!BalanceOf(token, a) /\ CreditsWorth(a) = one + 1
    BY <2>5 DEF Gain, CreditsWorth
  <2> HIDE DEF one
  <2> QED
    BY <2>1, <2>6, <2>7, <2>8 DEF fee, value
<1>2. VInv /\ [Next]_vars => [PaysFee]_vars
  BY <1>1 DEF PaysFee
<1> QED
  BY <1>2, SpecVInv, PTL DEF Spec
-----------------------------------------------------------------------------
(* An allocation.                                                           *)

\* What of an asset is moved to a strategy leaves enough of its value: the part K of
\* FullScale of it, and what the two roundings take from the sum counts for the
\* vault as much as for the strategy.
LEMMA DepositAtPrice ==
    ASSUME NEW U \in Nat \ {0}, NEW p \in Nat, NEW b \in Nat, NEW c \in Nat, NEW x \in Nat,
           NEW K \in Nat, NEW B \in Nat, x <= b, B <= K, B <= FullScale,
           b * K <= (b - x) * FullScale
    PROVE  LET v == (b * p) \div U
               v2 == ((b - x) * p) \div U
               s == (c * p) \div U
               s2 == ((c + x) * p) \div U
           IN  /\ v \in Int /\ v2 \in Int /\ s \in Int /\ s2 \in Int
               /\ B * (v2 + s2) + K * v <= FullScale * (v2 + 1) + B * (v + s)
<1> DEFINE v == (b * p) \div U
           v2 == ((b - x) * p) \div U
           s == (c * p) \div U
           s2 == ((c + x) * p) \div U
           vv == b * p
           vv2 == (b - x) * p
           ss == c * p
           ss2 == (c + x) * p
<1>1. /\ vv \in Nat /\ vv2 \in Nat /\ ss \in Nat /\ ss2 \in Nat /\ b - x \in Nat
      /\ ss2 = vv + ss - vv2
  OBVIOUS
<1>2. K * vv <= FullScale * vv2
  <2>1. p * (b * K) <= p * ((b - x) * FullScale)
    BY <1>1, TimesMonotone
  <2> QED
    BY <1>1, <2>1
<1>3. /\ v \in Int /\ U * v <= vv /\ vv < U * (v + 1)
      /\ v2 \in Int /\ U * v2 <= vv2 /\ vv2 < U * (v2 + 1)
      /\ s \in Int /\ U * s <= ss /\ ss < U * (s + 1)
      /\ s2 \in Int /\ U * s2 <= ss2
  BY <1>1, DivBounds
<1> HIDE DEF v, v2, s, s2, vv, vv2, ss, ss2
<1> DEFINE V == U * v
           V2 == U * v2
           S == U * s
           S2 == U * s2
<1>4. /\ V \in Int /\ V2 \in Int /\ S \in Int /\ S2 \in Int
      /\ V <= vv /\ vv <= V + U /\ V2 <= vv2 /\ vv2 <= V2 + U /\ ss <= S + U
      /\ S2 <= vv + ss - vv2
  BY <1>1, <1>3
<1>5. /\ U * (B * (v2 + s2) + K * v) = B * (V2 + S2) + K * V
      /\ U * (FullScale * (v2 + 1) + B * (v + s)) = FullScale * (V2 + U) + B * (V + S)
  BY <1>3
<1> HIDE DEF V, V2, S, S2
<1>6. B * (V2 + S2) + K * V <= FullScale * (V2 + U) + B * (V + S)
  <2> DEFINE gone == vv - V
             kept == V2 + U - vv2
  <2>1. gone \in Nat /\ kept \in Nat
    BY <1>1, <1>4
  <2>2. V2 + S2 <= (V + S) + (gone + kept)
    BY <1>1, <1>4
  <2>3. B * (V2 + S2) <= B * ((V + S) + (gone + kept))
    BY <1>1, <1>4, <2>1, <2>2, TimesMonotone
  <2>4. B * ((V + S) + (gone + kept)) = B * (V + S) + B * gone + B * kept
    BY <1>4, <2>1
  <2>5. B * gone <= K * gone /\ B * kept <= FullScale * kept
    <3>1. gone * B <= gone * K /\ kept * B <= kept * FullScale
      BY <2>1, TimesMonotone
    <3> HIDE DEF gone, kept
    <3> QED
      BY <2>1, <3>1
  <2>6. FullScale * (V2 + U) = FullScale * vv2 + FullScale * kept /\ K * V = K * vv - K * gone
    BY <1>1, <1>4
  <2> HIDE DEF gone, kept
  <2>7. /\ B * (V2 + S2) \in Int /\ B * (V + S) \in Int /\ K * V \in Int /\ FullScale * (V2 + U) \in Int
        /\ B * gone \in Int /\ B * kept \in Int /\ K * gone \in Int /\ FullScale * kept \in Int
        /\ K * vv \in Int /\ FullScale * vv2 \in Int
    BY <1>1, <1>4, <2>1
  <2> QED
    BY <1>2, <2>3, <2>4, <2>5, <2>6, <2>7
<1>7. B * (v2 + s2) + K * v <= FullScale * (v2 + 1) + B * (v + s)
  <2>1. B * (v2 + s2) + K * v \in Int /\ FullScale * (v2 + 1) + B * (v + s) \in Int
    BY <1>3
  <2> QED
    BY <1>5, <1>6, <2>1, CancelAtMost
<1> QED
  BY <1>3, <1>7 DEF v, v2, s, s2

\* What strategy i of the list holds of an asset is worth, if it is counted there.
CountedIn(h, a, s) == IF a \in Supports[s] THEN ValueOf(a, h[s][a]) ELSE 0

\* What the strategies of the list hold of an asset is worth so much.
Counted(h, a) ==
    SumFunction([i \in DOMAIN vault.allStrategies |-> CountedIn(h, a, vault.allStrategies[i])])

\* It is counted asset by asset as it is strategy by strategy.
LEMMA CountedByAssets ==
    ASSUME Priced, NEW h \in Holdings
    PROVE  /\ \A a \in Supported : Counted(h, a) \in Nat
           /\ TotalValueInStrategies(h) = SumFunction([a \in Supported |-> Counted(h, a)])
<1> DEFINE list == vault.allStrategies
           D == DOMAIN list
           f == [i \in D |-> [a \in Supported |-> CountedIn(h, a, list[i])]]
<1>1. /\ vault \in VaultStorage
      /\ \A p \in Places, a \in Assets : h[p][a] \in Nat
      /\ ThisVault \in Places /\ Strategies \subseteq Places
      /\ IsFiniteSet(D) /\ IsFiniteSet(Supported) /\ Supported \subseteq Assets
      /\ \A i \in D : list[i] \in Strategies
  BY ListsFinite, PlacesKnown DEF Priced, Holdings
<1>2. ASSUME NEW s \in Strategies, NEW a \in Supported PROVE CountedIn(h, a, s) \in Nat
  BY <1>1, AmountTypes DEF CountedIn
<1>3. f \in [D -> [Supported -> Nat]]
  BY <1>1, <1>2
<1>4. ASSUME NEW i \in D PROVE TotalValueInStrategy(h, list[i]) = SumFunction(f[i])
  <2> DEFINE T == Supported \intersect Supports[list[i]]
             row == f[i]
  <2>1. [a \in T |-> ValueOf(a, h[list[i]][a])] = Restrict(row, T)
    BY DEF Restrict, CountedIn
  <2>2. TotalValueInStrategy(h, list[i]) = SumFunction(Restrict(row, T))
    BY <2>1 DEF TotalValueInStrategy
  <2>3. row \in [Supported -> Nat] /\ T \in SUBSET Supported /\ \A a \in Supported \ T : row[a] = 0
    BY <1>3 DEF CountedIn
  <2> HIDE DEF row, T
  <2>4. SumFunction(Restrict(row, T)) = SumFunction(row)
    BY <1>1, <2>3, SumOfPart
  <2> QED
    BY <2>2, <2>4 DEF row
<1>5. TotalValueInStrategies(h) = SumFunction([i \in D |-> SumFunction(f[i])])
  <2>1. [i \in D |-> TotalValueInStrategy(h, list[i])] = [i \in D |-> SumFunction(f[i])]
    BY <1>4
  <2> QED
    BY <2>1 DEF TotalValueInStrategies
<1>6. SumFunction([i \in D |-> SumFunction(f[i])])
        = SumFunction([a \in Supported |-> SumFunction([i \in D |-> f[i][a]])])
  <2> HIDE DEF f, D
  <2> QED
    BY <1>1, <1>3, SumOfTable
<1>7. ASSUME NEW a \in Supported
      PROVE  SumFunction([i \in D |-> f[i][a]]) = Counted(h, a) /\ Counted(h, a) \in Nat
  <2> DEFINE column == [i \in D |-> f[i][a]]
  <2>1. column = [i \in D |-> CountedIn(h, a, list[i])] /\ column \in [D -> Nat]
    BY <1>1, <1>2
  <2>2. Counted(h, a) = SumFunction(column)
    BY <2>1 DEF Counted
  <2> HIDE DEF column
  <2>3. SumFunction(column) \in Nat
    BY <1>1, <2>1, SumIsTotal
  <2> QED
    BY <2>2, <2>3 DEF column
<1>8. [a \in Supported |-> SumFunction([i \in D |-> f[i][a]])] = [a \in Supported |-> Counted(h, a)]
  BY <1>7
<1> QED
  BY <1>5, <1>6, <1>7, <1>8

\* More of an asset is not worth less.
LEMMA ValueMonotone ==
    ASSUME Priced, NEW a \in Assets, NEW x \in Nat, NEW y \in Nat, x <= y
    PROVE  ValueOf(a, x) <= ValueOf(a, y)
<1>1. Unit[a] \in Nat \ {0} /\ price[a] \in Nat
  BY AssetsAssumption DEF Priced
<1>2. price[a] * x <= price[a] * y
  BY <1>1, TimesMonotone
<1>3. x * price[a] \in Nat /\ y * price[a] \in Nat /\ x * price[a] <= y * price[a]
  BY <1>1, <1>2
<1> DEFINE n == x * price[a]
           m == y * price[a]
           unit == Unit[a]
<1>4. n \in Int /\ m \in Int /\ n <= m /\ unit \in Nat \ {0}
  BY <1>1, <1>3
<1>5. ValueOf(a, x) = n \div unit /\ ValueOf(a, y) = m \div unit
  BY DEF ValueOf
<1> HIDE DEF n, m, unit
<1> QED
  BY <1>4, <1>5, DivMonotone

\* What is given to one strategy is counted once, or not at all, as no strategy is
\* twice in the list.
LEMMA CountedAfterDeposit ==
    ASSUME Priced, StrategyListsAgree, NEW h \in Holdings, NEW k \in Holdings,
           NEW a \in Supported, NEW d \in Strategies, NEW x \in Nat,
           k[d][a] = h[d][a] + x, \A s \in Strategies \ {d} : k[s][a] = h[s][a]
    PROVE  Counted(k, a) <= Counted(h, a) - ValueOf(a, h[d][a]) + ValueOf(a, h[d][a] + x)
<1> DEFINE list == vault.allStrategies
           D == DOMAIN list
           f == [i \in D |-> CountedIn(h, a, list[i])]
           g == [i \in D |-> CountedIn(k, a, list[i])]
<1>1. /\ vault \in VaultStorage /\ a \in Assets
      /\ \A p \in Places, b \in Assets : h[p][b] \in Nat /\ k[p][b] \in Nat
      /\ Strategies \subseteq Places
      /\ IsFiniteSet(D)
      /\ \A i \in D : list[i] \in Strategies
  BY ListsFinite, PlacesKnown DEF Priced, Holdings
<1>2. ASSUME NEW s \in Strategies PROVE CountedIn(h, a, s) \in Nat /\ CountedIn(k, a, s) \in Nat
  BY <1>1, AmountTypes DEF CountedIn
<1>3. f \in [D -> Nat] /\ g \in [D -> Nat]
  BY <1>1, <1>2
<1>4. Counted(h, a) = SumFunction(f) /\ Counted(k, a) = SumFunction(g)
  BY DEF Counted
<1>5. SumFunction(f) \in Nat
  <2> HIDE DEF f, D
  <2> QED
    BY <1>1, <1>3, SumIsTotal
<1>6. /\ ValueOf(a, h[d][a]) \in Nat /\ ValueOf(a, h[d][a] + x) \in Nat
      /\ ValueOf(a, h[d][a]) <= ValueOf(a, h[d][a] + x)
  BY <1>1, AmountTypes, ValueMonotone
<1>7. ASSUME NEW i \in D, list[i] = d, a \in Supports[d]
      PROVE  SumFunction(g) = SumFunction(f) - ValueOf(a, h[d][a]) + ValueOf(a, h[d][a] + x)
  <2>1. \A j \in D \ {i} : list[j] # d
    BY <1>7 DEF StrategyListsAgree, IsInjective
  <2>2. \A j \in D \ {i} : g[j] = f[j]
    BY <1>1, <2>1 DEF CountedIn
  <2>3. f[i] = ValueOf(a, h[d][a]) /\ g[i] = ValueOf(a, h[d][a] + x)
    BY <1>7 DEF CountedIn
  <2> HIDE DEF f, g, D
  <2>4. SumFunction(g) = SumFunction(f) - f[i] + g[i]
    BY <1>1, <1>3, <1>7, <2>2, SumChange
  <2> QED
    BY <2>3, <2>4
<1>8. ASSUME ~ \E i \in D : list[i] = d /\ a \in Supports[d]
      PROVE  SumFunction(g) = SumFunction(f)
  <2>1. \A i \in D : CountedIn(k, a, list[i]) = CountedIn(h, a, list[i])
    BY <1>1, <1>8 DEF CountedIn
  <2>2. f = g
    BY <2>1
  <2> QED
    BY <2>2
<1> HIDE DEF f, g
<1> QED
  BY <1>4, <1>5, <1>6, <1>7, <1>8

\* Of the vault's part of every asset at least K of FullScale stays in it.
LEMMA ModifierKeeps ==
    ASSUME Priced, NEW h \in Holdings, VaultBufferModifier(h) > 0
    PROVE  LET K == FullScale - VaultBufferModifier(h)
               V == TotalValueInVault(h)
               buffer == vault.vaultBuffer
           IN  /\ VaultBufferModifier(h) \in 1 .. FullScale
               /\ K \in Nat /\ buffer \in Nat /\ buffer <= FullScale /\ buffer <= K
               /\ buffer * TotalValue(h) <= K * V + V
<1> DEFINE V == TotalValueInVault(h)
           S == TotalValueInStrategies(h)
           buffer == vault.vaultBuffer
           part == (buffer * (V + S)) \div V
           modifier == VaultBufferModifier(h)
           K == FullScale - modifier
<1>1. V \in Nat /\ S \in Nat /\ TotalValue(h) = V + S /\ buffer \in 0 .. FullScale
  BY ValueTypes DEF TotalValue, Priced, VaultStorage
<1>2. modifier = CASE V = 0 -> 0
                   [] V # 0 /\ S = 0 -> FullScale - buffer
                   [] OTHER -> FullScale - part
  BY DEF VaultBufferModifier
<1>3. modifier \in Int /\ modifier <= FullScale
  BY ModifierTyped
<1> HIDE DEF V, S, buffer
<1>4. ASSUME V # 0
      PROVE  part \in Int /\ buffer * (V + S) < V * (part + 1) /\ buffer <= part
  <2> DEFINE n == buffer * (V + S)
  <2>1. n \in Int /\ n = V * buffer + buffer * S /\ buffer * S \in Nat
    BY <1>1
  <2>2. V * buffer <= n /\ V \in Nat \ {0} /\ buffer \in Int
    BY <1>1, <1>4, <2>1
  <2> HIDE DEF n
  <2>3. n \div V \in Int /\ n < V * ((n \div V) + 1) /\ buffer <= n \div V
    BY <2>1, <2>2, DivBounds, DivAtLeast
  <2> QED
    BY <2>3 DEF n
<1> HIDE DEF part, modifier
<1>5. CASE S = 0
  <2>1. K = buffer
    BY <1>1, <1>2, <1>3, <1>5 DEF modifier
  <2> QED
    BY <1>1, <1>3, <1>5, <2>1 DEF modifier, V, buffer
<1>6. CASE S # 0
  <2>1. V # 0 /\ modifier = FullScale - part
    BY <1>1, <1>2, <1>6 DEF modifier
  <2>2. K = part
    BY <1>4, <2>1
  <2>3. V * (part + 1) = part * V + V /\ buffer * (V + S) \in Int /\ V * (part + 1) \in Int
    BY <1>1, <1>4, <2>1
  <2>4. buffer * (V + S) <= K * V + V /\ buffer <= K
    BY <1>1, <1>4, <2>1, <2>2, <2>3
  <2> QED
    BY <1>1, <1>3, <2>4 DEF modifier, V, buffer
<1> QED
  BY <1>5, <1>6

\* What is deposited of every asset, and what then is where.
LEMMA DepositMoves ==
    ASSUME Priced, NEW h \in Holdings, NEW modifier \in 1 .. FullScale, NEW a \in Supported
    PROVE  LET k == Deposited(h, modifier)
               d == vault.assetDefaultStrategies[a]
           IN  \E x \in Nat :
                 /\ x <= h[ThisVault][a]
                 /\ h[ThisVault][a] * (FullScale - modifier) <= (h[ThisVault][a] - x) * FullScale
                 /\ k[ThisVault][a] = h[ThisVault][a] - x
                 /\ \/ d = Nobody /\ x = 0 /\ \A s \in Strategies : k[s][a] = h[s][a]
                    \/ /\ d \in Strategies /\ k[d][a] = h[d][a] + x
                       /\ \A s \in Strategies \ {d} : k[s][a] = h[s][a]
<1> DEFINE k == Deposited(h, modifier)
           d == vault.assetDefaultStrategies[a]
           b == h[ThisVault][a]
           amount(e) == IF e \in Supported /\ vault.assetDefaultStrategies[e] # Nobody
                        THEN MulTruncate(h[ThisVault][e], modifier) ELSE 0
           x == amount(a)
<1>1. /\ vault \in VaultStorage /\ a \in Assets /\ b \in Nat /\ modifier \in Nat
      /\ modifier <= FullScale
      /\ \A s \in Strategies : h[s][a] \in Nat
      /\ ThisVault \in Places /\ Strategies \subseteq Places /\ ThisVault \notin Strategies
  BY ListsFinite, PlacesKnown, AssetsAssumption DEF Priced, Holdings
<1>2. d \in Strategies \union {Nobody} /\ Nobody \notin Places \ {ThisVault}
  BY <1>1, AssetsAssumption DEF VaultStorage, Places
<1>3. x = IF d # Nobody THEN MulTruncate(b, modifier) ELSE 0
  OBVIOUS
<1>4. /\ \A p \in Places, e \in Assets : k[p][e] =
            CASE p = ThisVault -> h[p][e] - amount(e)
              [] p # ThisVault /\ p = vault.assetDefaultStrategies[e] -> h[p][e] + amount(e)
              [] OTHER -> h[p][e]
  BY DEF Deposited
<1>5. /\ k[ThisVault][a] = b - x
      /\ \A s \in Strategies : k[s][a] = IF s = d THEN h[s][a] + x ELSE h[s][a]
  <2> HIDE DEF k, amount
  <2> QED
    BY <1>1, <1>4
<1> HIDE DEF k, x, d, b
<1>6. x \in Nat /\ x <= b /\ b * (FullScale - modifier) <= (b - x) * FullScale
  <2>1. x \in Nat /\ x * FullScale <= b * modifier
    <3>1. b * modifier \in Nat /\ 0 * FullScale = 0
      BY <1>1
    <3> QED
      BY <1>1, <1>3, <3>1, MulTruncateBounds
  <2>2. b * (FullScale - modifier) = b * FullScale - b * modifier
        /\ (b - x) * FullScale = b * FullScale - x * FullScale
    BY <1>1, <2>1
  <2>3. b * (FullScale - modifier) <= (b - x) * FullScale
    <3>1. b * FullScale \in Int /\ b * modifier \in Int /\ x * FullScale \in Int
      BY <1>1, <2>1
    <3> QED
      BY <2>1, <2>2, <3>1
  <2>4. 0 <= b - x
    <3>1. 0 <= b * (FullScale - modifier)
      BY <1>1
    <3>2. FullScale * 0 <= FullScale * (b - x)
      BY <1>1, <2>1, <2>3, <3>1
    <3> QED
      BY <1>1, <2>1, <3>2, CancelAtMost
  <2> QED
    BY <1>1, <2>1, <2>3, <2>4
<1>7. CASE d = Nobody
  <2>1. x = 0
    BY <1>3, <1>7
  <2>2. \A s \in Strategies : k[s][a] = h[s][a]
    BY <1>5, <1>7, AssetsAssumption
  <2> QED
    BY <1>5, <1>6, <1>7, <2>1, <2>2 DEF k, d, b
<1>8. CASE d \in Strategies
  BY <1>5, <1>6, <1>8 DEF k, d, b
<1> QED
  BY <1>2, <1>7, <1>8

\* For every asset: what the vault keeps of it, next to what it is worth together.
LEMMA AssetKeepsBuffer ==
    ASSUME Priced, StrategyListsAgree, NEW h \in Holdings, NEW modifier \in 1 .. FullScale,
           NEW a \in Supported, NEW B \in Nat, B <= FullScale - modifier
    PROVE  LET k == Deposited(h, modifier)
               v == ValueOf(a, h[ThisVault][a])
               v2 == ValueOf(a, k[ThisVault][a])
           IN  B * (v2 + Counted(k, a)) + (FullScale - modifier) * v
                  <= FullScale * (v2 + 1) + B * (v + Counted(h, a))
<1> DEFINE k == Deposited(h, modifier)
           d == vault.assetDefaultStrategies[a]
           b == h[ThisVault][a]
           U == Unit[a]
           p == price[a]
           K == FullScale - modifier
           t == Counted(h, a)
           t2 == Counted(k, a)
           v == ValueOf(a, b)
           v2 == ValueOf(a, k[ThisVault][a])
<1>0. /\ k \in Holdings /\ a \in Assets /\ vault \in VaultStorage
      /\ U \in Nat \ {0} /\ p \in Nat /\ b \in Nat
      /\ \A s \in Strategies : h[s][a] \in Nat
  BY DepositTyped, ListsFinite, PlacesKnown, AssetsAssumption DEF Priced, Holdings
<1>1. PICK x \in Nat :
        /\ x <= b /\ b * K <= (b - x) * FullScale
        /\ k[ThisVault][a] = b - x
        /\ \/ d = Nobody /\ x = 0 /\ \A s \in Strategies : k[s][a] = h[s][a]
           \/ /\ d \in Strategies /\ k[d][a] = h[d][a] + x
              /\ \A s \in Strategies \ {d} : k[s][a] = h[s][a]
  BY DepositMoves
<1>2. t \in Int /\ t2 \in Int
  <2> HIDE DEF k
  <2>1. Counted(h, a) \in Nat /\ Counted(k, a) \in Nat
    BY <1>0, CountedByAssets
  <2> QED
    BY <2>1
<1>3. \E c \in Nat : t2 <= t - ((c * p) \div U) + (((c + x) * p) \div U)
  <2>1. CASE d = Nobody
    <3>1. x = 0 /\ \A s \in Strategies : k[s][a] = h[s][a]
      BY <1>1, <2>1, AssetsAssumption
    <3>2. t2 = t
      <4>1. \A i \in DOMAIN vault.allStrategies :
               CountedIn(k, a, vault.allStrategies[i]) = CountedIn(h, a, vault.allStrategies[i])
        BY <1>0, <3>1, ListsFinite DEF CountedIn
      <4> QED
        BY <4>1 DEF Counted
    <3>3. t2 <= t - ((0 * p) \div U) + (((0 + x) * p) \div U)
      <4>1. (0 * p) \div U \in Int /\ (0 + x) * p = 0 * p
        BY <1>0, <3>1
      <4> HIDE DEF t, t2, U, p
      <4> QED
        BY <1>2, <3>2, <4>1
    <3> QED
      BY <3>3
  <2>2. CASE d # Nobody
    <3>1. d \in Strategies /\ k[d][a] = h[d][a] + x /\ \A s \in Strategies \ {d} : k[s][a] = h[s][a]
      BY <1>1, <2>2
    <3>2. t2 <= t - ValueOf(a, h[d][a]) + ValueOf(a, h[d][a] + x)
      <4> HIDE DEF k, d
      <4> QED
        BY <1>0, <3>1, CountedAfterDeposit
    <3>3. ValueOf(a, h[d][a]) = (h[d][a] * p) \div U
          /\ ValueOf(a, h[d][a] + x) = ((h[d][a] + x) * p) \div U
      BY DEF ValueOf
    <3> HIDE DEF t, t2, d, p, U
    <3> QED
      BY <1>0, <3>1, <3>2, <3>3
  <2> QED
    BY <2>1, <2>2
<1>4. v = (b * p) \div U /\ v2 = ((b - x) * p) \div U
  BY <1>1 DEF ValueOf
<1>5. K \in Nat /\ B <= K /\ B <= FullScale
  OBVIOUS
<1> HIDE DEF k, d, b, U, p, K, t, t2, v, v2
<1>6. PICK c \in Nat : t2 <= t - ((c * p) \div U) + (((c + x) * p) \div U)
  BY <1>3
<1> DEFINE s == (c * p) \div U
           s2 == ((c + x) * p) \div U
<1>7. /\ v \in Int /\ v2 \in Int /\ s \in Int /\ s2 \in Int
      /\ B * (v2 + s2) + K * v <= FullScale * (v2 + 1) + B * (v + s)
  BY <1>0, <1>1, <1>4, <1>5, DepositAtPrice
<1>8. t2 <= t - s + s2
  BY <1>6
<1> HIDE DEF s, s2
<1>9. B * (v2 + t2) + K * v <= FullScale * (v2 + 1) + B * (v + t)
  <2>1. v2 + t2 <= (v2 + s2) + (t - s)
    BY <1>2, <1>7, <1>8
  <2>2. B * (v2 + t2) <= B * ((v2 + s2) + (t - s))
    BY <1>2, <1>7, <2>1, TimesMonotone
  <2>3. B * ((v2 + s2) + (t - s)) = B * (v2 + s2) + B * (t - s)
        /\ B * (v + t) = B * (v + s) + B * (t - s)
    BY <1>2, <1>7
  <2>4. /\ B * (v2 + t2) \in Int /\ B * (v2 + s2) \in Int /\ B * (t - s) \in Int
        /\ B * (v + s) \in Int /\ B * (v + t) \in Int /\ K * v \in Int /\ FullScale * (v2 + 1) \in Int
    BY <1>2, <1>5, <1>7
  <2> QED
    BY <1>7, <2>2, <2>3, <2>4
<1> QED
  BY <1>9 DEF k, b, K, t, t2, v, v2

\* What the modifier leaves in the vault is the buffer, up to one unit of precision.
LEMMA DepositKeepsBuffer ==
    ASSUME Priced, StrategyListsAgree, NEW h \in Holdings, VaultBufferModifier(h) > 0
    PROVE  LET k == Deposited(h, VaultBufferModifier(h))
           IN  (vault.vaultBuffer - 1) * TotalValue(k)
                  <= FullScale * (TotalValueInVault(k) + Dust)
<1> DEFINE modifier == VaultBufferModifier(h)
           k == Deposited(h, modifier)
           D == Supported
           n == Dust
           K == FullScale - modifier
           buffer == vault.vaultBuffer
           B == buffer - 1
           v == [a \in D |-> ValueOf(a, h[ThisVault][a])]
           v2 == [a \in D |-> ValueOf(a, k[ThisVault][a])]
           t == [a \in D |-> Counted(h, a)]
           t2 == [a \in D |-> Counted(k, a)]
           V == SumFunction(v)
           V2 == SumFunction(v2)
           S == SumFunction(t)
           S2 == SumFunction(t2)
<1>1. /\ modifier \in 1 .. FullScale /\ K \in Nat /\ buffer \in Nat /\ buffer <= FullScale
      /\ buffer <= K
      /\ buffer * TotalValue(h) <= K * TotalValueInVault(h) + TotalValueInVault(h)
  BY ModifierKeeps
<1>2. k \in Holdings /\ vault \in VaultStorage
  BY <1>1, DepositTyped DEF Priced
<1>3. IsFiniteSet(D) /\ D \subseteq Assets /\ n \in Nat
  BY <1>2, ListsFinite, FS_CardinalityType DEF Dust
<1>4. /\ TotalValueInVault(h) = V /\ TotalValueInVault(k) = V2
      /\ TotalValueInStrategies(h) = S /\ TotalValueInStrategies(k) = S2
  <2>1. TotalValueInVault(h) = V /\ TotalValueInVault(k) = V2
    BY DEF TotalValueInVault
  <2> HIDE DEF k
  <2>2. TotalValueInStrategies(h) = S /\ TotalValueInStrategies(k) = S2
    BY <1>2, CountedByAssets
  <2> QED
    BY <2>1, <2>2
<1>5. TotalValue(h) = V + S /\ TotalValue(k) = V2 + S2
  BY <1>4 DEF TotalValue
<1>6. /\ v \in [D -> Nat] /\ v2 \in [D -> Nat] /\ t \in [D -> Nat] /\ t2 \in [D -> Nat]
  <2> HIDE DEF k
  <2>1. \A a \in D : h[ThisVault][a] \in Nat /\ k[ThisVault][a] \in Nat
    BY <1>2, <1>3, PlacesKnown DEF Holdings
  <2>2. \A a \in D : ValueOf(a, h[ThisVault][a]) \in Nat /\ ValueOf(a, k[ThisVault][a]) \in Nat
    BY <1>3, <2>1, AmountTypes
  <2>3. \A a \in D : Counted(h, a) \in Nat /\ Counted(k, a) \in Nat
    BY <1>2, CountedByAssets
  <2> QED
    BY <2>2, <2>3
<1>7. ASSUME B \in Nat, NEW a \in D
      PROVE  B * (v2[a] + t2[a]) + K * v[a] <= FullScale * (v2[a] + 1) + B * (v[a] + t[a])
  <2>1. B <= FullScale - modifier
    BY <1>1
  <2> HIDE DEF B, modifier
  <2> QED
    BY <1>1, <1>7, <2>1, AssetKeepsBuffer
<1> HIDE DEF modifier, k, K, buffer, v, v2, t, t2, n, D
<1>8. V \in Nat /\ V2 \in Nat /\ S \in Nat /\ S2 \in Nat
  BY <1>3, <1>6, SumIsTotal
<1>9. CASE B \notin Nat
  <2>1. B = -1
    BY <1>1, <1>9
  <2>2. FullScale * (V2 + n) \in Nat
    BY <1>3, <1>8
  <2>3. B * (V2 + S2) <= FullScale * (V2 + n)
    BY <1>8, <2>1, <2>2
  <2> QED
    BY <1>4, <1>5, <2>3 DEF modifier, k, n, buffer
<1>10. CASE B \in Nat
  <2> DEFINE fs == [a \in D |-> FullScale]
             zeros == [a \in D |-> 0]
             w == [a \in D |-> v[a] + t[a]]
             w2 == [a \in D |-> v2[a] + t2[a]]
             kept == [a \in D |-> FullScale * v2[a] + fs[a]]
             right == [a \in D |-> B * w[a] + kept[a]]
             part == [a \in D |-> K * v[a] + zeros[a]]
             left == [a \in D |-> B * w2[a] + part[a]]
  <2>1. /\ fs \in [D -> Nat] /\ zeros \in [D -> Nat] /\ w \in [D -> Nat] /\ w2 \in [D -> Nat]
        /\ kept \in [D -> Nat] /\ part \in [D -> Nat]
    BY <1>1, <1>6
  <2>2. right \in [D -> Nat] /\ left \in [D -> Nat]
    <3> HIDE DEF kept, part, w, w2, B
    <3> QED
      BY <1>10, <2>1
  <2>3. /\ \A a \in D : w[a] = v[a] + t[a] /\ w2[a] = v2[a] + t2[a]
        /\ \A a \in D : kept[a] = FullScale * v2[a] + fs[a] /\ part[a] = K * v[a] + zeros[a]
        /\ \A a \in D : right[a] = B * w[a] + kept[a] /\ left[a] = B * w2[a] + part[a]
        /\ \A a \in D : fs[a] = FullScale /\ zeros[a] = 0
    OBVIOUS
  <2>4. SumFunction(fs) = n * FullScale /\ SumFunction(zeros) = n * 0
    BY <1>3, SumConstant DEF n, Dust, D
  <2> HIDE DEF fs, zeros, w, w2, kept, right, part, left, B
  <2>5. SumFunction(w) = V + S /\ SumFunction(w2) = V2 + S2
    <3>1. \A a \in D : w[a] = v[a] + t[a]
      BY <2>3
    <3>2. \A a \in D : w2[a] = v2[a] + t2[a]
      BY <2>3
    <3>3. IsFiniteSet(D)
      BY <1>3
    <3>4. v \in [D -> Nat] /\ t \in [D -> Nat] /\ w \in [D -> Nat]
      BY <1>6, <2>1
    <3>5. v2 \in [D -> Nat] /\ t2 \in [D -> Nat] /\ w2 \in [D -> Nat]
      BY <1>6, <2>1
    <3>6. SumFunction(w) = SumFunction(v) + SumFunction(t)
      BY <3>1, <3>3, <3>4, SumPlus
    <3>7. SumFunction(w2) = SumFunction(v2) + SumFunction(t2)
      BY <3>2, <3>3, <3>5, SumPlus
    <3> QED
      BY <3>6, <3>7
  <2>6. SumFunction(kept) = FullScale * V2 + SumFunction(fs)
    <3>1. \A a \in D : kept[a] = FullScale * v2[a] + fs[a]
      BY <2>3
    <3>2. IsFiniteSet(D) /\ FullScale \in Nat
      BY <1>1, <1>3, <1>10
    <3>3. v2 \in [D -> Nat] /\ fs \in [D -> Nat] /\ kept \in [D -> Nat]
      BY <1>6, <2>1, <2>2
    <3>4. SumFunction(kept) = FullScale * SumFunction(v2) + SumFunction(fs)
      BY <3>1, <3>2, <3>3, SumLinear
    <3> QED
      BY <3>4
  <2>7. SumFunction(part) = K * V + SumFunction(zeros)
    <3>1. \A a \in D : part[a] = K * v[a] + zeros[a]
      BY <2>3
    <3>2. IsFiniteSet(D) /\ K \in Nat
      BY <1>1, <1>3, <1>10
    <3>3. v \in [D -> Nat] /\ zeros \in [D -> Nat] /\ part \in [D -> Nat]
      BY <1>6, <2>1, <2>2
    <3>4. SumFunction(part) = K * SumFunction(v) + SumFunction(zeros)
      BY <3>1, <3>2, <3>3, SumLinear
    <3> QED
      BY <3>4
  <2>8. SumFunction(right) = B * SumFunction(w) + SumFunction(kept)
    <3>1. \A a \in D : right[a] = B * w[a] + kept[a]
      BY <2>3
    <3>2. IsFiniteSet(D) /\ B \in Nat
      BY <1>1, <1>3, <1>10
    <3>3. w \in [D -> Nat] /\ kept \in [D -> Nat] /\ right \in [D -> Nat]
      BY <1>6, <2>1, <2>2
    <3>4. SumFunction(right) = B * SumFunction(w) + SumFunction(kept)
      BY <3>1, <3>2, <3>3, SumLinear
    <3> QED
      BY <3>4
  <2>9. SumFunction(left) = B * SumFunction(w2) + SumFunction(part)
    <3>1. \A a \in D : left[a] = B * w2[a] + part[a]
      BY <2>3
    <3>2. IsFiniteSet(D) /\ B \in Nat
      BY <1>1, <1>3, <1>10
    <3>3. w2 \in [D -> Nat] /\ part \in [D -> Nat] /\ left \in [D -> Nat]
      BY <1>6, <2>1, <2>2
    <3>4. SumFunction(left) = B * SumFunction(w2) + SumFunction(part)
      BY <3>1, <3>2, <3>3, SumLinear
    <3> QED
      BY <3>4
  <2>10. SumFunction(left) <= SumFunction(right)
    <3>1. ASSUME NEW a \in D PROVE left[a] <= right[a]
      <4>1. /\ v[a] \in Nat /\ t[a] \in Nat /\ v2[a] \in Nat /\ t2[a] \in Nat
        BY <1>6
      <4>2. B * (v2[a] + t2[a]) + K * v[a] <= FullScale * (v2[a] + 1) + B * (v[a] + t[a])
        BY <1>7, <1>10
      <4>3. left[a] = B * (v2[a] + t2[a]) + K * v[a]
            /\ right[a] = B * (v[a] + t[a]) + (FullScale * v2[a] + FullScale)
        BY <1>1, <2>3, <4>1
      <4>4. FullScale * (v2[a] + 1) = FullScale * v2[a] + FullScale
            /\ B * (v[a] + t[a]) \in Int /\ FullScale * v2[a] \in Int
        BY <1>10, <4>1
      <4> QED
        BY <4>2, <4>3, <4>4
    <3> QED
      BY <1>3, <2>2, <3>1, SumMonotone
  <2>11. B * (V2 + S2) + K * V <= B * (V + S) + (FullScale * V2 + n * FullScale)
    <3>1. n * 0 = 0 /\ K * V \in Int
      BY <1>1, <1>3, <1>8
    <3> QED
      BY <2>4, <2>5, <2>6, <2>7, <2>8, <2>9, <2>10, <3>1
  <2>12. B * (V2 + S2) <= FullScale * (V2 + n)
    <3>1. (B + 1) * (V + S) <= K * V + V
      <4>1. B + 1 = buffer
        BY <1>1 DEF B
      <4> QED
        BY <1>1, <1>4, <1>5, <4>1
    <3>2. (B + 1) * (V + S) = B * (V + S) + V + S /\ FullScale * (V2 + n) = FullScale * V2 + n * FullScale
      BY <1>3, <1>8, <1>10
    <3>3. /\ B * (V2 + S2) \in Int /\ K * V \in Int /\ B * (V + S) \in Int
          /\ FullScale * V2 \in Int /\ n * FullScale \in Int
      BY <1>1, <1>3, <1>8, <1>10
    <3> QED
      BY <1>8, <2>11, <3>1, <3>2, <3>3
  <2> QED
    BY <1>4, <1>5, <2>12 DEF modifier, k, n, buffer, B
<1> QED
  BY <1>9, <1>10

\* Less in each strategy is worth no more in all of them.
LEMMA StrategiesMonotone ==
    ASSUME Priced, NEW h \in Holdings, NEW k \in Holdings,
           \A s \in Strategies, a \in Assets : k[s][a] <= h[s][a]
    PROVE  TotalValueInStrategies(k) <= TotalValueInStrategies(h)
<1> DEFINE D == DOMAIN vault.allStrategies
           list == vault.allStrategies
           before == [i \in D |-> TotalValueInStrategy(h, list[i])]
           after == [i \in D |-> TotalValueInStrategy(k, list[i])]
<1>0. vault \in VaultStorage /\ IsFiniteSet(D) /\ \A i \in D : list[i] \in Strategies
  BY ListsFinite DEF Priced
<1>1. ASSUME NEW s \in Strategies
      PROVE  TotalValueInStrategy(k, s) <= TotalValueInStrategy(h, s)
  <2> DEFINE A == Supported \intersect Supports[s]
             f == [a \in A |-> ValueOf(a, h[s][a])]
             g == [a \in A |-> ValueOf(a, k[s][a])]
  <2>1. IsFiniteSet(A) /\ A \subseteq Assets
    BY <1>0, ListsFinite, FS_Intersection
  <2>2. ASSUME NEW a \in A
        PROVE  /\ ValueOf(a, h[s][a]) \in Nat /\ ValueOf(a, k[s][a]) \in Nat
               /\ ValueOf(a, k[s][a]) <= ValueOf(a, h[s][a])
    <3>1. h[s][a] \in Nat /\ k[s][a] \in Nat /\ k[s][a] <= h[s][a] /\ a \in Assets
      BY <2>1, PlacesKnown DEF Holdings
    <3> QED
      BY <3>1, AmountTypes, ValueMonotone
  <2>3. f \in [A -> Nat] /\ g \in [A -> Nat] /\ \A a \in A : g[a] <= f[a]
    BY <2>2
  <2>4. TotalValueInStrategy(h, s) = SumFunction(f) /\ TotalValueInStrategy(k, s) = SumFunction(g)
    BY DEF TotalValueInStrategy
  <2> HIDE DEF A, f, g
  <2> QED
    BY <2>1, <2>3, <2>4, SumMonotone
<1>2. before \in [D -> Nat] /\ after \in [D -> Nat] /\ \A i \in D : after[i] <= before[i]
  <2>1. \A s \in Strategies : TotalValueInStrategy(h, s) \in Nat /\ TotalValueInStrategy(k, s) \in Nat
    BY ValueTypes
  <2> QED
    BY <1>0, <1>1, <2>1
<1>3. TotalValueInStrategies(h) = SumFunction(before) /\ TotalValueInStrategies(k) = SumFunction(after)
  BY DEF TotalValueInStrategies
<1> HIDE DEF D, before, after
<1> QED
  BY <1>0, <1>2, <1>3, SumMonotone

\* More in the vault is worth no less.
LEMMA VaultMonotone ==
    ASSUME Priced, NEW h \in Holdings, NEW k \in Holdings,
           \A a \in Assets : h[ThisVault][a] <= k[ThisVault][a]
    PROVE  TotalValueInVault(h) <= TotalValueInVault(k)
<1> DEFINE D == Supported
           f == [a \in D |-> ValueOf(a, h[ThisVault][a])]
           g == [a \in D |-> ValueOf(a, k[ThisVault][a])]
<1>1. IsFiniteSet(D) /\ D \subseteq Assets
  BY ListsFinite DEF Priced
<1>2. ASSUME NEW a \in D
      PROVE  /\ ValueOf(a, h[ThisVault][a]) \in Nat /\ ValueOf(a, k[ThisVault][a]) \in Nat
             /\ ValueOf(a, h[ThisVault][a]) <= ValueOf(a, k[ThisVault][a])
  <2>1. /\ h[ThisVault][a] \in Nat /\ k[ThisVault][a] \in Nat
        /\ h[ThisVault][a] <= k[ThisVault][a] /\ a \in Assets
    BY <1>1, PlacesKnown DEF Holdings
  <2> QED
    BY <2>1, AmountTypes, ValueMonotone
<1>3. f \in [D -> Nat] /\ g \in [D -> Nat] /\ \A a \in D : f[a] <= g[a]
  BY <1>2
<1>4. TotalValueInVault(h) = SumFunction(f) /\ TotalValueInVault(k) = SumFunction(g)
  BY DEF TotalValueInVault
<1> HIDE DEF D, f, g
<1> QED
  BY <1>1, <1>3, <1>4, SumMonotone

\* The buffer is kept, but for what the rounding of each asset's value takes.
HoldsBuffer(h) ==
    (vault.vaultBuffer - 1) * TotalValue(h) <= FullScale * (TotalValueInVault(h) + Dust)

\* Rewards go to the vault, and the strategies keep what they have.
LEMMA HarvestAdds ==
    ASSUME Priced, NEW h \in Holdings, NEW k \in Harvested(h)
    PROVE  /\ k \in Holdings
           /\ \A s \in Strategies, a \in Assets : k[s][a] = h[s][a]
           /\ \A a \in Assets : h[ThisVault][a] <= k[ThisVault][a]
<1>0. vault \in VaultStorage /\ ThisVault \notin Strategies
  BY AssetsAssumption DEF Priced
<1>1. k \in Holdings
  BY <1>0, HarvestTyped
<1>2. CASE k = h
  BY <1>1, <1>2, PlacesKnown DEF Holdings
<1>3. CASE k # h
  <2>1. PICK r \in Gains : /\ vault.allAssets # <<>>
                           /\ k = [h EXCEPT ![ThisVault][Head(vault.allAssets)] = @ + r]
    BY <1>3 DEF Harvested
  <2>2. Head(vault.allAssets) \in Assets
    BY <1>0, <2>1 DEF VaultStorage, AssetLists
  <2>3. r \in Nat
    BY ArgumentsAssumption
  <2> DEFINE x == Head(vault.allAssets)
  <2> HIDE DEF x
  <2>4. k = [h EXCEPT ![ThisVault][x] = @ + r] /\ x \in Assets
    BY <2>1, <2>2 DEF x
  <2>5. \A s \in Strategies : k[s] = h[s]
    BY <1>0, <2>4, PlacesKnown DEF Holdings
  <2>6. \A a \in Assets : h[ThisVault][a] \in Nat
                          /\ k[ThisVault][a] = IF a = x THEN h[ThisVault][a] + r ELSE h[ThisVault][a]
    BY <2>4, PlacesKnown DEF Holdings
  <2>7. \A a \in Assets : h[ThisVault][a] <= k[ThisVault][a]
    BY <2>3, <2>6
  <2> QED
    BY <1>1, <2>5, <2>7
<1> QED
  BY <1>2, <1>3

\* They add more to the buffer than it has to grow by.
LEMMA HarvestKeepsBuffer ==
    ASSUME Priced, NEW h \in Holdings, HoldsBuffer(h), NEW k \in Harvested(h)
    PROVE  HoldsBuffer(k)
<1> DEFINE V == TotalValueInVault(h)
           V2 == TotalValueInVault(k)
           S == TotalValueInStrategies(h)
           B == vault.vaultBuffer
           n == Dust
<1>1. k \in Holdings
  BY HarvestAdds
<1>2. V <= V2
  BY <1>1, HarvestAdds, VaultMonotone
<1>3. TotalValueInStrategies(k) <= S /\ S <= TotalValueInStrategies(k)
  <2>1. \A s \in Strategies, a \in Assets : k[s][a] \in Nat /\ h[s][a] \in Nat /\ k[s][a] = h[s][a]
    BY <1>1, HarvestAdds, PlacesKnown DEF Holdings
  <2>2. \A s \in Strategies, a \in Assets : k[s][a] <= h[s][a] /\ h[s][a] <= k[s][a]
    BY <2>1
  <2> QED
    BY <1>1, <2>2, StrategiesMonotone
<1>4. V \in Nat /\ V2 \in Nat /\ S \in Nat /\ TotalValueInStrategies(k) \in Nat
  BY <1>1, ValueTypes
<1>5. B \in Nat /\ B <= FullScale /\ n \in Nat
  <2>1. vault \in VaultStorage
    BY DEF Priced
  <2>2. vault.vaultBuffer \in 0 .. FullScale
    BY <2>1 DEF VaultStorage
  <2> QED
    BY <2>1, <2>2, ListsFinite, FS_CardinalityType DEF Dust
<1>6. TotalValue(h) = V + S /\ TotalValue(k) = V2 + S
  BY <1>3, <1>4 DEF TotalValue
<1>7. (B - 1) * (V + S) <= FullScale * (V + n)
  BY <1>6 DEF HoldsBuffer
<1> DEFINE g == V2 - V
<1>8. g \in Nat /\ V2 = V + g
  BY <1>2, <1>4
<1> HIDE DEF V, V2, S, B, n, g
<1>9. (B - 1) * g <= FullScale * g
  <2>1. FullScale - (B - 1) \in Nat
    BY <1>5
  <2>2. (FullScale - (B - 1)) * g \in Nat
    BY <1>8, <2>1
  <2>3. (FullScale - (B - 1)) * g = FullScale * g - (B - 1) * g
    BY <1>5, <1>8
  <2>4. FullScale * g \in Int /\ (B - 1) * g \in Int
    BY <1>5, <1>8
  <2> QED
    BY <2>2, <2>3, <2>4
<1>10. (B - 1) * (V2 + S) <= FullScale * (V2 + n)
  <2>1. (B - 1) * (V2 + S) = (B - 1) * (V + S) + (B - 1) * g
    BY <1>4, <1>5, <1>8
  <2>2. FullScale * (V2 + n) = FullScale * (V + n) + FullScale * g
    BY <1>4, <1>5, <1>8
  <2>3. /\ (B - 1) * (V + S) \in Int /\ (B - 1) * g \in Int
        /\ FullScale * (V + n) \in Int /\ FullScale * g \in Int
    BY <1>4, <1>5, <1>8
  <2> QED
    BY <1>7, <1>9, <2>1, <2>2, <2>3
<1> QED
  BY <1>6, <1>10 DEF HoldsBuffer, B, n, V2

\* An allocation leaves the strategies alone or keeps the buffer.
LEMMA AllocateKeepsBuffer ==
    ASSUME Priced, StrategyListsAgree, NEW h \in Holdings, NEW k \in Allocated(h)
    PROVE  k = h \/ HoldsBuffer(k)
<1> DEFINE modifier == VaultBufferModifier(h)
<1>1. modifier \in Int /\ modifier <= FullScale
  BY ModifierTyped
<1>2. CASE modifier <= 0
  BY <1>1, <1>2 DEF Allocated
<1>3. CASE modifier > 0
  <2>1. k = Deposited(h, modifier) \/ k \in Harvested(Deposited(h, modifier))
    BY <1>1, <1>3 DEF Allocated
  <2>2. Deposited(h, modifier) \in Holdings
    BY <1>1, <1>3, DepositTyped DEF Priced
  <2>3. HoldsBuffer(Deposited(h, modifier))
    BY <1>3, DepositKeepsBuffer DEF HoldsBuffer
  <2> QED
    BY <2>1, <2>2, <2>3, HarvestKeepsBuffer
<1> QED
  BY <1>1, <1>2, <1>3

\* What is paid out is missing afterwards, wherever it is paid from.
LEMMA PaidLess ==
    ASSUME vault \in VaultStorage, NEW h \in Holdings, NEW outputs \in [Supported -> Nat],
           NEW k \in Paid(h, outputs)
    PROVE  \A p \in Places, a \in Assets : k[p][a] <= h[p][a]
<1>1. k = [p \in Places |-> [a \in Assets |->
              IF a \in Supported /\ p = Payer(h, a, outputs[a]) THEN h[p][a] - outputs[a] ELSE h[p][a]]]
  BY DEF Paid
<1> SUFFICES ASSUME NEW p \in Places, NEW a \in Assets PROVE k[p][a] <= h[p][a]
  OBVIOUS
<1>2. k[p][a] = IF a \in Supported /\ p = Payer(h, a, outputs[a]) THEN h[p][a] - outputs[a] ELSE h[p][a]
  BY <1>1
<1>3. h[p][a] \in Nat
  BY DEF Holdings
<1>4. a \in Supported => outputs[a] \in Nat
  OBVIOUS
<1> QED
  BY <1>2, <1>3, <1>4

\* A withdrawal leaves no strategy more than it had.
LEMMA WithdrawnLess ==
    ASSUME NEW h \in Holdings, NEW S \in SUBSET Strategies
    PROVE  \A s \in Strategies, a \in Assets : AllWithdrawn(h, S)[s][a] <= h[s][a]
<1> SUFFICES ASSUME NEW s \in Strategies, NEW a \in Assets
             PROVE  AllWithdrawn(h, S)[s][a] <= h[s][a]
  OBVIOUS
<1>1. s # ThisVault /\ s \in Places /\ h[s][a] \in Nat
  BY AssetsAssumption, PlacesKnown DEF Holdings
<1>2. AllWithdrawn(h, S)[s][a] = IF s \in S THEN 0 ELSE h[s][a]
  BY <1>1 DEF AllWithdrawn
<1> QED
  BY <1>1, <1>2

\* What strategies hand each other does not pass through the vault.
LEMMA MovedElsewhere ==
    ASSUME NEW h \in Holdings, NEW from \in Strategies, NEW to \in Strategies, NEW a \in Assets,
           NEW x
    PROVE  Move(h, from, to, a, x)[ThisVault] = h[ThisVault]
  BY AssetsAssumption, PlacesKnown DEF Move, Holdings

\* An administrator who raises what strategies hold changes the vault's storage, or
\* neither the token nor what the vault holds.
LEMMA AdministerKeepsBuffer ==
    ASSUME VInv, ListInv, Administer, vault' = vault
    PROVE  \/ token' = token /\ held'[ThisVault] = held[ThisVault]
           \/ \A s \in Strategies, a \in Assets : held'[s][a] <= held[s][a]
<1>0. /\ Priced /\ vault \in VaultStorage /\ held \in Holdings
      /\ \A p \in Places, a \in Assets : held[p][a] \in Nat /\ held[p][a] <= held[p][a]
      /\ ThisVault \notin Strategies
  BY AssetsAssumption DEF VInv, Priced, Holdings
<1>1. token' = token
  BY DEF Administer, SupportAsset, TransferToken, ApproveStrategy, RemoveStrategy,
         WithdrawAllFromStrategy, SetAssetDefaultStrategy, Reallocate,
         WithdrawAllFromStrategies, Harvest, SetVault, tokenVars
<1> DEFINE Less == \A s \in Strategies, a \in Assets : held'[s][a] <= held[s][a]
<1>2. ASSUME NEW a \in Assets, NEW x \in Gains, TransferToken(a, x) PROVE Less
  <2>1. held' = [held EXCEPT ![ThisVault][a] = @ - x]
    BY <1>2 DEF TransferToken
  <2>2. \A s \in Strategies : held'[s] = held[s]
    BY <1>0, <2>1, PlacesKnown DEF Holdings
  <2> QED
    BY <1>0, <2>2, PlacesKnown
<1>3. ASSUME NEW s \in Strategies, RemoveStrategy(s) PROVE FALSE
  <2> DEFINE shorter == Without(vault.allStrategies, s)
             half == [vault EXCEPT !.allStrategies = shorter]
             rest == vault.approved \ {s}
  <2>1. s \in vault.approved /\ vault' = [vault EXCEPT !.allStrategies = shorter, !.approved = rest]
    BY <1>3 DEF RemoveStrategy
  <2>2. vault' = [half EXCEPT !.approved = rest]
    BY <2>1
  <2>3. shorter \in StrategyLists /\ rest \in SUBSET Strategies
    <3>1. vault.allStrategies \in Seq(Strategies) /\ vault.approved \subseteq Strategies
      BY <1>0 DEF VaultStorage, StrategyLists
    <3>2. IsInjective(vault.allStrategies) /\ s \in ToSet(vault.allStrategies)
      BY <2>1 DEF ListInv, StrategyListsAgree
    <3> QED
      BY <3>1, <3>2, Removed DEF StrategyLists
  <2> HIDE DEF shorter, rest
  <2>4. half \in VaultStorage
    BY <1>0, <2>3 DEF VaultStorage
  <2> HIDE DEF half
  <2>5. vault'.approved = rest
    BY <2>2, <2>4 DEF VaultStorage
  <2> QED
    BY <2>1, <2>5 DEF rest
<1>4. ASSUME NEW s \in Strategies, WithdrawAllFromStrategy(s) PROVE Less
  BY <1>0, <1>4, WithdrawnLess DEF WithdrawAllFromStrategy
<1>5. ASSUME NEW s \in Strategies, NEW to \in Strategies, NEW a \in Assets, NEW x \in Gains,
             Reallocate(s, to, a, x)
      PROVE  held'[ThisVault] = held[ThisVault]
  BY <1>0, <1>5, MovedElsewhere DEF Reallocate
<1>6. ASSUME WithdrawAllFromStrategies PROVE Less
  BY <1>0, <1>6, WithdrawnLess, ListsFinite DEF WithdrawAllFromStrategies
<1>7. ASSUME Harvest PROVE Less
  <2>1. held' \in Harvested(held)
    BY <1>7 DEF Harvest
  <2>2. \A s \in Strategies, a \in Assets : held'[s][a] = held[s][a]
    BY <1>0, <2>1, HarvestAdds
  <2> QED
    BY <1>0, <2>2, PlacesKnown
<1>8. ASSUME \/ \E a \in Assets : SupportAsset(a)
             \/ \E s \in Strategies : ApproveStrategy(s)
             \/ \E s \in Strategies, a \in Assets : SetAssetDefaultStrategy(a, s)
      PROVE  held'[ThisVault] = held[ThisVault]
  BY <1>8 DEF SupportAsset, ApproveStrategy, SetAssetDefaultStrategy, SetVault
<1> HIDE DEF Less
<1>9. Less \/ held'[ThisVault] = held[ThisVault]
  BY <1>2, <1>3, <1>4, <1>5, <1>6, <1>7, <1>8 DEF Administer
<1> QED
  BY <1>1, <1>9 DEF Less

\* A mint that allocates deposits what it has just been given too.
LEMMA MintKeepsBuffer ==
    ASSUME VInv, ListInv, NEW user \in Accounts, NEW n \in Nat,
           NEW d \in [1 .. n -> Assets \X Deposits], Mint(user, d)
    PROVE  HoldsBuffer(held') \/ \A s \in Strategies, a \in Assets : held'[s][a] <= held[s][a]
<1> DEFINE brought(a) == SumFunction([i \in DOMAIN d |-> IF d[i][1] = a THEN d[i][2] ELSE 0])
           received == [held EXCEPT ![ThisVault] = [a \in Assets |-> @[a] + brought(a)]]
<1>1. Priced /\ held \in Holdings /\ StrategyListsAgree
  BY DEF VInv, ListInv
<1>2. held' \in Allocated(received) \/ held' = received
  BY DEF Mint
<1>3. received \in Holdings
  <2>1. ASSUME NEW a \in Assets PROVE brought(a) \in Nat
    BY <1>1, DepositsTyped
  <2> HIDE DEF brought
  <2> QED
    BY <1>1, <2>1, PlacesKnown DEF Holdings
<1>4. \A s \in Strategies : received[s] = held[s]
  <2> HIDE DEF brought
  <2> QED
    BY <1>1, AssetsAssumption, PlacesKnown DEF Holdings
<1>5. \A s \in Strategies, a \in Assets : held[s][a] \in Nat
  BY <1>1, PlacesKnown DEF Holdings
<1>6. \A s \in Strategies, a \in Assets : received[s][a] <= held[s][a]
  <2> HIDE DEF received
  <2> QED
    BY <1>4, <1>5
<1> HIDE DEF received
<1> QED
  BY <1>1, <1>2, <1>3, <1>6, AllocateKeepsBuffer

\* Users raise what strategies hold only by an allocation that keeps the buffer.
LEMMA UsersKeepBuffer ==
    ASSUME VInv, ListInv, Users
    PROVE  HoldsBuffer(held') \/ \A s \in Strategies, a \in Assets : held'[s][a] <= held[s][a]
<1>0. /\ Priced /\ vault \in VaultStorage /\ held \in Holdings /\ StrategyListsAgree
      /\ Sound(token)
      /\ \A s \in Strategies, a \in Assets : held[s][a] \in Nat /\ held[s][a] <= held[s][a]
      /\ TotalValue(held) \in Nat
  BY PlacesKnown, ValueTypes DEF VInv, ListInv, Priced, Holdings, TokenProofs!Inv, Sound
<1> DEFINE Less == \A s \in Strategies, a \in Assets : held'[s][a] <= held[s][a]
<1>1. ASSUME NEW t, NEW u, NEW x \in Nat, RedeemFrom(t, u, x) PROVE Less
  <2>1. AfterFee(x) >= 0 /\ TotalBalance(held) > 0 /\ TotalOutputRatio(held) > 0
        /\ held' \in Paid(held, RedeemOutputs(held, x))
    BY <1>1 DEF RedeemFrom
  <2>2. RedeemOutputs(held, x) \in [Supported -> Nat]
    BY <1>0, <2>1, OutputTypes
  <2>3. \A p \in Places, a \in Assets : held'[p][a] <= held[p][a]
    BY <1>0, <2>1, <2>2, PaidLess
  <2> QED
    BY <2>3, PlacesKnown
<1>2. ASSUME NEW u \in Accounts, NEW n \in 1 .. MaxDeposits,
             NEW d \in [1 .. n -> Assets \X Deposits], Mint(u, d)
      PROVE  HoldsBuffer(held') \/ Less
  BY <1>2, MintKeepsBuffer
<1>3. ASSUME NEW u \in Accounts, NEW x \in Redemptions, Redeem(u, x) PROVE Less
  BY <1>1, <1>3, ArgumentsAssumption DEF Redeem
<1>4. ASSUME NEW u \in Accounts, RedeemAll(u) PROVE Less
  <2>1. PICK t \in MaybeRebased(token, TotalValue(held)) :
            RedeemFrom(t, u, Token!BalanceOf(t, u))
    BY <1>4 DEF RedeemAll, RebasedIf, MaybeRebased
  <2>2. Token!BalanceOf(t, u) \in Nat
    BY <1>0, <2>1, MaybeRebasedSound, BalanceTyped
  <2> QED
    BY <1>1, <2>1, <2>2
<1>5. CASE Allocate
  BY <1>0, <1>5, AllocateKeepsBuffer DEF Allocate
<1>6. CASE Rebase
  BY <1>0, <1>6 DEF Rebase
<1> HIDE DEF Less
<1>7. HoldsBuffer(held') \/ Less
  <2>1. CASE Allocate
    BY <1>5, <2>1 DEF Less
  <2>2. CASE Rebase
    BY <1>6, <2>2 DEF Less
  <2> QED
    BY <1>2, <1>3, <1>4, <2>1, <2>2 DEF Users
<1> QED
  BY <1>7 DEF Less

\* Whoever allocates, the vault is left the part of the value it is to keep as a
\* buffer, but for one unit of the buffer and one of value for each asset.
THEOREM AllocationsKeepTheBuffer == Spec => [][KeepsBuffer]_vars
<1>1. ASSUME VInv, ListInv, Next PROVE KeepsBuffer
  <2>0. SUFFICES ASSUME vault' = vault, ~World,
                        TotalValueInStrategies(held') > TotalValueInStrategies(held),
                        token' # token \/ held'[ThisVault] # held[ThisVault]
                 PROVE  HoldsBuffer(held')
    <3>1. Priced /\ held' \in Holdings
      <4>1. VInv'
        BY <1>1, VInvStep
      <4> QED
        BY <1>1, <4>1 DEF VInv, Holdings, Places
    <3>2. /\ TotalValue(held') \in Nat /\ TotalValueInVault(held') \in Nat
          /\ Dust \in Nat /\ vault.vaultBuffer \in Nat
      <4>1. vault \in VaultStorage /\ vault.vaultBuffer \in 0 .. FullScale
        BY <3>1 DEF Priced, VaultStorage
      <4> QED
        BY <3>1, <4>1, ValueTypes, ListsFinite, FS_CardinalityType DEF Dust
    <3>3. HoldsBuffer(held') =>
            FullScale * (TotalValueInVault(held') + Dust) >= (vault.vaultBuffer - 1) * TotalValue(held')
      BY <3>2 DEF HoldsBuffer
    <3> QED
      BY <3>3 DEF KeepsBuffer
  <2>1. Priced /\ held \in Holdings /\ held' \in Holdings
    <3>1. VInv'
      BY <1>1, VInvStep
    <3> QED
      BY <1>1, <3>1 DEF VInv, Holdings, Places
  <2>2. TotalValueInStrategies(held') \in Nat /\ TotalValueInStrategies(held) \in Nat
    BY <2>1, ValueTypes
  <2>3. ~(\A s \in Strategies, a \in Assets : held'[s][a] <= held[s][a])
    BY <2>0, <2>1, <2>2, StrategiesMonotone
  <2>4. CASE Users
    BY <1>1, <2>3, <2>4, UsersKeepBuffer
  <2>5. CASE Administer
    BY <1>1, <2>0, <2>3, <2>5, AdministerKeepsBuffer
  <2>6. CASE Holders \/ Configure
    <3>1. held' = held
      BY <2>6 DEF Holders, Configure, SetVault, SetRedeemFeeBps, SetVaultBuffer,
                  SetAutoAllocateThreshold, SetRebaseThreshold, SetMaxSupplyDiff,
                  SetTrusteeAddress, SetTrusteeFeeBps, PauseRebase, UnpauseRebase,
                  PauseCapital, UnpauseCapital
    <3> QED
      BY <2>0, <2>2, <3>1
  <2> QED
    BY <1>1, <2>0, <2>4, <2>5, <2>6 DEF Next
<1>2. VInv /\ ListInv /\ [Next]_vars => [KeepsBuffer]_vars
  BY <1>1
<1> QED
  BY <1>2, SpecVInv, PTL DEF Spec
=============================================================================

-------------------------- MODULE GovernanceProofs --------------------------
(***************************************************************************)
(* The governor's queue holds what the waiting proposals need, for any      *)
(* calls, delays and numbers of proposals, and the governor implements      *)
(* DelayedExecution.  Around it: the scripts that propose, whatever they    *)
(* are asked for and whoever executes what they proposed; the check of      *)
(* storage layouts; and the verification of sources.                        *)
(***************************************************************************)
EXTENDS Governor, Operations, ArithmeticProofs, SequenceTheorems

-----------------------------------------------------------------------------
(* Scripts that propose: the calls of their options.                        *)
\* A call that sets the slot of the vault's one implementation or the other.
Writes(c, half) == c.to = "VaultProxy" /\ c.signature = half
Halves == {"upgradeTo", "setAdminImpl"}

\* A list of n calls.
List(calls, n) == n \in Nat /\ DOMAIN calls = 1 .. n /\ Len(calls) = n

\* Lists that leave the slots alone, and lists that set both to the same.
Apart(calls) == \A i \in DOMAIN calls, half \in Halves : ~Writes(calls[i], half)
Alike(calls, v) ==
    \A i \in DOMAIN calls, half \in Halves : Writes(calls[i], half) => calls[i].arg = v
Together(calls) ==
    /\ \A half \in Halves : \E i \in DOMAIN calls : Writes(calls[i], half)
    /\ \E v : Alike(calls, v)
Paired(calls) == Apart(calls) \/ Together(calls)

\* A proposal that has nothing to do with the vault's implementations.
Plain(p) == Apart(p.calls) /\ \E n : List(p.calls, n)

\* All proposals but three have nothing to do with the vault's implementations.
LEMMA Plains ==
    ASSUME NEW v
    PROVE  /\ Plain(P!proposeHarvest)
           /\ Plain(P!proposePauseCapital)
           /\ Plain(P!proposeUnpauseCapital)
           /\ Plain(P!proposeUnpauseRebase)
           /\ Plain(P!proposeClaimStrategies)
           /\ Plain(P!proposeClaimAaveStrategy)
           /\ Plain(P!proposeClaimOGNStaking)
           /\ Plain(P!proposeVaultv2Governance)
           /\ Plain(P!proposeUpgradeOusd(v))
           /\ Plain(P!proposeUpgradeCurveStrategies(v))
           /\ Plain(P!proposeAddAaveStrategyAndUpgradeCurveUsdt(v))
           /\ Plain(P!proposeProp14)
           /\ Plain(P!proposeUpgradeStaking(v))
           /\ Plain(P!proposeOusdv2Reset)
           /\ Plain(P!proposeSetUniswapAddr(v))
           /\ Plain(P!proposeSetRebaseHookAddr(v))
           /\ Plain(P!proposeUpgradeOracle(v))
           /\ Plain(P!proposeRemoveStrategy)
           /\ Plain(P!proposeAddStrategies)
           /\ Plain(P!proposeSetVaultBuffer)
           /\ Plain(P!proposeOusdNewGovernor)
           /\ Plain(P!proposeSetRewardLiquidationThreshold)
           /\ Plain(P!proposeLockAdjuster)
           /\ Plain(P!proposeUnlockAdjuster)
           /\ Plain(P!proposeStartClaims)
           /\ Plain(P!proposeSetMaxSupplyDiff)
           /\ Plain(P!proposeSetAirDropRoot)
           /\ Plain(P!proposeSettingUpdates)
           /\ Plain(P!proposeWithdrawAll)
<1>1. /\ Plain(P!proposeHarvest) /\ Plain(P!proposePauseCapital)
      /\ Plain(P!proposeUnpauseCapital) /\ Plain(P!proposeUnpauseRebase)
  BY DEF Plain, List, Apart, Writes, Halves, P!onVault, P!proposeArgs, P!call,
         P!proposeHarvest, P!proposePauseCapital, P!proposeUnpauseCapital,
         P!proposeUnpauseRebase
<1>2. /\ Plain(P!proposeClaimStrategies) /\ Plain(P!proposeClaimAaveStrategy)
      /\ Plain(P!proposeClaimOGNStaking) /\ Plain(P!proposeVaultv2Governance)
  BY DEF Plain, List, Apart, Writes, Halves, P!claim, P!proposeArgs, P!call,
         P!proposeClaimStrategies, P!proposeClaimAaveStrategy,
         P!proposeClaimOGNStaking, P!proposeVaultv2Governance
<1>3. /\ Plain(P!proposeUpgradeOusd(v))
      /\ Plain(P!proposeUpgradeCurveStrategies(v))
      /\ Plain(P!proposeAddAaveStrategyAndUpgradeCurveUsdt(v))
      /\ Plain(P!proposeProp14) /\ Plain(P!proposeUpgradeStaking(v))
      /\ Plain(P!proposeOusdv2Reset)
  BY DEF Plain, List, Apart, Writes, Halves, P!proposeUpgrade, P!call, P!set,
         P!proposeUpgradeOusd, P!proposeUpgradeCurveStrategies,
         P!proposeAddAaveStrategyAndUpgradeCurveUsdt, P!proposeProp14,
         P!proposeUpgradeStaking, P!proposeOusdv2Reset
<1>4. /\ Plain(P!proposeSetUniswapAddr(v))
      /\ Plain(P!proposeSetRebaseHookAddr(v))
      /\ Plain(P!proposeUpgradeOracle(v)) /\ Plain(P!proposeRemoveStrategy)
      /\ Plain(P!proposeAddStrategies) /\ Plain(P!proposeSetVaultBuffer)
      /\ Plain(P!proposeOusdNewGovernor)
  BY DEF Plain, List, Apart, Writes, Halves, P!proposeArgs, P!call, P!set,
         P!proposeSetUniswapAddr, P!proposeSetRebaseHookAddr,
         P!proposeUpgradeOracle, P!proposeRemoveStrategy,
         P!proposeAddStrategies, P!proposeSetVaultBuffer,
         P!proposeOusdNewGovernor
<1>5. /\ Plain(P!proposeSetRewardLiquidationThreshold)
      /\ Plain(P!proposeLockAdjuster) /\ Plain(P!proposeUnlockAdjuster)
      /\ Plain(P!proposeStartClaims) /\ Plain(P!proposeSetMaxSupplyDiff)
      /\ Plain(P!proposeSetAirDropRoot) /\ Plain(P!proposeSettingUpdates)
      /\ Plain(P!proposeWithdrawAll)
  BY DEF Plain, List, Apart, Writes, Halves, P!proposeArgs, P!call, P!set,
         P!proposeSetRewardLiquidationThreshold, P!proposeLockAdjuster,
         P!proposeUnlockAdjuster, P!proposeStartClaims,
         P!proposeSetMaxSupplyDiff, P!proposeSetAirDropRoot,
         P!proposeSettingUpdates, P!proposeWithdrawAll
<1> QED
  BY <1>1, <1>2, <1>3, <1>4, <1>5

\* Two set both slots to the same implementation.
LEMMA Both ==
    ASSUME NEW v
    PROVE  /\ Together(P!proposeUpgradeVaultCoreAndAdmin(v).calls)
           /\ Together(P!proposeProp17(v).calls)
           /\ \E n : List(P!proposeUpgradeVaultCoreAndAdmin(v).calls, n)
           /\ \E n : List(P!proposeProp17(v).calls, n)
           /\ \E n : List(P!proposeUpgradeVaultCore(v).calls, n)
<1> USE DEF List, P!proposeArgs, P!proposeUpgrade, P!set
<1>1. /\ Together(P!proposeUpgradeVaultCoreAndAdmin(v).calls)
      /\ \E n : List(P!proposeUpgradeVaultCoreAndAdmin(v).calls, n)
  BY DEF Together, Alike, Writes, Halves, P!proposeUpgradeVaultCoreAndAdmin
<1>2. /\ Together(P!proposeProp17(v).calls)
      /\ \E n : List(P!proposeProp17(v).calls, n)
  BY DEF Together, Alike, Writes, Halves, P!proposeProp17
<1>3. \E n : List(P!proposeUpgradeVaultCore(v).calls, n)
  BY DEF P!proposeUpgradeVaultCore
<1> QED
  BY <1>1, <1>2, <1>3

\* Only one option sets one slot without the other.
LEMMA Options ==
    ASSUME NEW v, NEW option \in DOMAIN P!argsMethod(v)
    PROVE  LET p == P!argsMethod(v)[option]
           IN  /\ \E n : List(p.calls, n)
               /\ option # "upgradeVaultCore" => Paired(p.calls)
<1>1. CASE option \in {"upgradeVaultCore", "upgradeVaultCoreAndAdmin", "prop17"}
  BY <1>1, Both DEF P!argsMethod, Paired
<1>2. CASE option \notin {"upgradeVaultCore", "upgradeVaultCoreAndAdmin", "prop17"}
  <2>1. Plain(P!argsMethod(v)[option])
    BY <1>2, Plains DEF P!argsMethod
  <2> QED
    BY <1>2, <2>1 DEF Plain, Paired
<1> QED
  BY <1>1, <1>2

\* The options do not depend on the version.
LEMMA SameOptions ==
    ASSUME NEW v
    PROVE  DOMAIN P!argsMethod(v) = DOMAIN P!argsMethod(0)
BY DEF P!argsMethod

-----------------------------------------------------------------------------
\* What the definition of the calls' effects asks of a function.
Effects(calls, n, g) ==
    g = [i \in 0 .. n |-> IF i = 0 THEN chain ELSE P!Called(calls[i], g[i - 1])]

\* There is such a function.
LEMMA EffectsExist ==
    ASSUME NEW calls, NEW n \in Nat
    PROVE  \E g : Effects(calls, n, g)
<1> DEFINE T == {k \in Nat : \E g : Effects(calls, k, g)}
<1>1. 0 \in T
  <2> DEFINE g == [i \in 0 .. 0 |-> chain]
  <2>1. Effects(calls, 0, g)
    BY DEF Effects
  <2> QED
    BY <2>1
<1>2. ASSUME NEW k \in Nat, k \in T PROVE k + 1 \in T
  <2>1. PICK g : Effects(calls, k, g)
    BY <1>2
  <2> DEFINE h == [i \in 0 .. k + 1 |-> IF i <= k THEN g[i] ELSE P!Called(calls[k + 1], g[k])]
             e(i) == IF i = 0 THEN chain ELSE P!Called(calls[i], h[i - 1])
  <2>2. ASSUME NEW i \in 0 .. k
        PROVE  g[i] = IF i = 0 THEN chain ELSE P!Called(calls[i], g[i - 1])
    BY <2>1 DEF Effects
  <2>3. ASSUME NEW i \in 0 .. k + 1 PROVE h[i] = e(i)
    <3>1. CASE i <= k
      <4>1. i \in 0 .. k /\ h[i] = g[i] /\ (i # 0 => h[i - 1] = g[i - 1])
        BY <3>1
      <4> QED
        BY <2>2, <4>1
    <3>2. CASE i > k
      <4>1. i = k + 1 /\ h[i] = P!Called(calls[k + 1], g[k]) /\ h[k] = g[k] /\ i - 1 = k /\ i # 0
        BY <3>2
      <4> QED
        BY <4>1
    <3> QED
      BY <3>1, <3>2
  <2>4. h = [i \in 0 .. k + 1 |-> e(i)]
    BY <2>3
  <2>5. Effects(calls, k + 1, h)
    BY <2>4 DEF Effects
  <2> QED
    BY <2>5
<1> HIDE DEF T
<1>3. Nat \subseteq T
  BY <1>1, <1>2, ByInduction
<1> QED
  BY <1>3 DEF T

\* The effects are as they are defined.
LEMMA EffectsAre ==
    ASSUME NEW calls, NEW n, List(calls, n)
    PROVE  /\ P!AfterCalls(calls)[0] = chain
           /\ \A i \in 1 .. n :
                 P!AfterCalls(calls)[i] = P!Called(calls[i], P!AfterCalls(calls)[i - 1])
           /\ P!Executed(calls) = P!AfterCalls(calls)[n]
<1> DEFINE after == P!AfterCalls(calls)
<1>1. n \in Nat /\ Len(calls) = n
  BY DEF List
<1>2. after = CHOOSE g : Effects(calls, n, g)
  BY <1>1 DEF P!AfterCalls, Effects
<1> HIDE DEF after
<1>3. after = [i \in 0 .. n |-> IF i = 0 THEN chain ELSE P!Called(calls[i], after[i - 1])]
  BY <1>1, <1>2, EffectsExist DEF Effects
<1>4. ASSUME NEW i \in 0 .. n
      PROVE  after[i] = IF i = 0 THEN chain ELSE P!Called(calls[i], after[i - 1])
  BY <1>3
<1>5. P!Executed(calls) = after[n]
  BY <1>1 DEF P!Executed, after
<1> QED
  BY <1>1, <1>4, <1>5 DEF after

\* The slot of one half.
Slot(half) == <<"VaultProxy", half>>

\* What is known of the chain at any time, between calls too.
IsChain(c) ==
    /\ c = [ok |-> c.ok, governed |-> c.governed, named |-> c.named,
            strategies |-> c.strategies, slots |-> c.slots]
    /\ c.ok \in BOOLEAN
    /\ c.strategies \subseteq {"AaveStrategyProxy"}
    /\ c.ok => c.named \cup c.governed \subseteq deployed.contracts
    /\ \A half \in Halves : Slot(half) \in DOMAIN c.slots

\* What a call does to it.
LEMMA CalledIs ==
    ASSUME NEW c, IsChain(c), NEW call, NEW half \in Halves
    PROVE  /\ IsChain(P!Called(call, c))
           /\ P!Called(call, c).slots[Slot(half)]
                = IF Writes(call, half) THEN call.arg ELSE c.slots[Slot(half)]
<1> DEFINE d == P!Called(call, c)
<1>1. CASE call.signature = "claimGovernance"
  BY <1>1 DEF P!Called, IsChain, Writes, Halves, Slot
<1>2. CASE call.signature = "transferGovernance"
  BY <1>2 DEF P!Called, IsChain, Writes, Halves, Slot
<1>3. CASE call.signature \notin {"claimGovernance", "transferGovernance"}
  <2> DEFINE slots == P!Write(c.slots, <<call.to, call.signature>>, call.arg)
  <2>1. /\ d.ok \in BOOLEAN
        /\ d.ok => c.ok
        /\ d.governed = c.governed /\ d.named = c.named
        /\ d.strategies \subseteq c.strategies
        /\ d = [ok |-> d.ok, governed |-> d.governed, named |-> d.named,
                strategies |-> d.strategies, slots |-> d.slots]
        /\ d.slots = slots
    BY <1>3 DEF P!Called, IsChain
  <2>2. /\ \A h \in Halves : Slot(h) \in DOMAIN slots
        /\ slots[Slot(half)] = IF Writes(call, half) THEN call.arg ELSE c.slots[Slot(half)]
    BY DEF IsChain, Slot, Writes, P!Write
  <2> QED
    BY <2>1, <2>2 DEF IsChain
<1> QED
  BY <1>1, <1>2, <1>3

\* Calls one after another: a slot is what the last of them that writes it sets.
LEMMA ExecutedIs ==
    ASSUME NEW calls, NEW n, List(calls, n), IsChain(chain), NEW half \in Halves
    PROVE  LET last == P!Executed(calls).slots[Slot(half)]
           IN  /\ IsChain(P!Executed(calls))
               /\ (\A i \in DOMAIN calls : ~Writes(calls[i], half))
                     => last = chain.slots[Slot(half)]
               /\ \A v : /\ Alike(calls, v)
                         /\ \E i \in DOMAIN calls : Writes(calls[i], half)
                         => last = v
<1> DEFINE after == P!AfterCalls(calls)
           slot(i) == after[i].slots[Slot(half)]
           Then(i) ==
               /\ IsChain(after[i])
               /\ (\A k \in 1 .. i : ~Writes(calls[k], half)) => slot(i) = slot(0)
               /\ \A v : Alike(calls, v) /\ (\E k \in 1 .. i : Writes(calls[k], half))
                            => slot(i) = v
           T == {i \in Nat : i <= n => Then(i)}
<1>1. n \in Nat /\ DOMAIN calls = 1 .. n
  BY DEF List
<1>2. /\ after[0] = chain
      /\ \A i \in 1 .. n : after[i] = P!Called(calls[i], after[i - 1])
      /\ P!Executed(calls) = after[n]
  BY EffectsAre
<1> HIDE DEF after
<1>3. Then(0)
  BY <1>2
<1>4. ASSUME NEW i \in Nat, i + 1 <= n, Then(i) PROVE Then(i + 1)
  <2>1. i + 1 \in 1 .. n /\ (i + 1) - 1 = i /\ i + 1 \in DOMAIN calls
    BY <1>1, <1>4
  <2>2. after[i + 1] = P!Called(calls[i + 1], after[i])
    BY <1>2, <2>1
  <2>3. /\ IsChain(after[i + 1])
        /\ slot(i + 1) = IF Writes(calls[i + 1], half) THEN calls[i + 1].arg ELSE slot(i)
    BY <1>4, <2>2, CalledIs
  <2>4. 1 .. i + 1 = (1 .. i) \cup {i + 1}
    BY <1>4
  <2>5. ASSUME \A k \in 1 .. i + 1 : ~Writes(calls[k], half) PROVE slot(i + 1) = slot(0)
    BY <1>4, <2>3, <2>4, <2>5
  <2>6. ASSUME NEW v, Alike(calls, v), \E k \in 1 .. i + 1 : Writes(calls[k], half)
        PROVE  slot(i + 1) = v
    <3>1. CASE Writes(calls[i + 1], half)
      BY <2>1, <2>3, <2>6, <3>1 DEF Alike
    <3>2. CASE ~Writes(calls[i + 1], half)
      <4>1. \E k \in 1 .. i : Writes(calls[k], half)
        BY <2>4, <2>6, <3>2
      <4> QED
        BY <1>4, <2>3, <2>6, <3>2, <4>1
    <3> QED
      BY <3>1, <3>2
  <2> QED
    BY <2>3, <2>5, <2>6
<1>5. n \in T
  <2> HIDE DEF Then
  <2>1. 0 \in T
    BY <1>3
  <2>2. ASSUME NEW i \in Nat, i \in T PROVE i + 1 \in T
    BY <1>1, <1>4, <2>2
  <2> HIDE DEF T
  <2> QED
    BY <1>1, <2>1, <2>2, ByInduction
<1>6. Then(n)
  BY <1>1, <1>5
<1> QED
  BY <1>1, <1>2, <1>6

\* The halves are of one version.
Matched(c) == c.slots[Slot("upgradeTo")] = c.slots[Slot("setAdminImpl")]

\* A proposal whose calls are paired keeps the halves of one version.
LEMMA PairedMatches ==
    ASSUME NEW calls, NEW n, List(calls, n), Paired(calls), IsChain(chain), Matched(chain)
    PROVE  Matched(P!Executed(calls))
<1>1. "upgradeTo" \in Halves /\ "setAdminImpl" \in Halves
  BY DEF Halves
<1>2. CASE Apart(calls)
  BY <1>1, <1>2, ExecutedIs DEF Apart, Matched
<1>3. CASE Together(calls)
  <2>1. PICK v : Alike(calls, v)
    BY <1>3 DEF Together
  <2>2. P!Executed(calls).slots[Slot("upgradeTo")] = v
    BY <1>1, <1>3, <2>1, ExecutedIs DEF Together
  <2>3. P!Executed(calls).slots[Slot("setAdminImpl")] = v
    BY <1>1, <1>3, <2>1, ExecutedIs DEF Together
  <2> QED
    BY <2>2, <2>3 DEF Matched
<1> QED
  BY <1>2, <1>3 DEF Paired

\* What a script may be asked for.
OptionNames == DOMAIN P!argsMethod(0)

\* What a script makes of an option, at one time or another.
CallLists == {P!argsMethod(v)[option].calls : v \in Nat, option \in OptionNames} \cup {<<>>}

\* Proposals, and runs of scripts.
Proposed == [calls : CallLists, state : {"pending", "queued", "ripe", "executed"},
             option : OptionNames]
Script == [tool : P!Tools, phase : P!Phases, option : OptionNames \cup {"none"},
           calls : CallLists, before : Nat, own : Nat, id : Nat]

\* The halves of the vault are set alike, unless one alone was asked for.
Honest(p) == p.option # "upgradeVaultCore" => Paired(p.calls)

\* The numbers a script holds.
Numbered(run) ==
    /\ run.own <= Len(proposed)
    /\ run.id <= Len(proposed)
    /\ run.before <= Len(proposed)
    /\ run.phase = "idle" => run.own = 0 /\ run.id = 0
    /\ run.phase = "sent" => run.own = 0 /\ run.id = 0
    /\ run.own > 0 => run.before < run.own
    /\ run.own > 0 /\ run.id > 0 => run.id >= run.own

\* The invariant: of what is deployed, of the chain, of the proposals, of the
\* scripts, and of the halves.
DeployedInv ==
    /\ deployed = [contracts |-> deployed.contracts, version |-> deployed.version]
    /\ deployed.contracts \in Deployments
    /\ deployed.version \in 0 .. MaxVersion

ChainInv == IsChain(chain) /\ chain.ok

ProposedInv ==
    /\ proposed \in Seq(Proposed)
    /\ \A i \in DOMAIN proposed : Honest(proposed[i])

ScriptsInv ==
    /\ scripts \in [Scripts -> Script]
    /\ \A s \in Scripts : Numbered(scripts[s])
    /\ \A s \in Scripts : scripts[s].phase = "sent" =>
          scripts[s].option \in OptionNames /\ Honest(scripts[s])

MatchInv ==
    Matched(chain) \/ \E i \in DOMAIN proposed : proposed[i].option = "upgradeVaultCore"

ProposalsInv == DeployedInv /\ ChainInv /\ ProposedInv /\ ScriptsInv /\ MatchInv

\* All of these are lists.
LEMMA CallListsAre ==
    ASSUME NEW calls \in CallLists
    PROVE  \E n : List(calls, n)
<1>1. CASE calls = <<>>
  <2>1. List(<<>>, 0)
    BY DEF List
  <2> QED
    BY <1>1, <2>1
<1>2. CASE calls # <<>>
  <2>1. PICK v \in Nat, option \in OptionNames : calls = P!argsMethod(v)[option].calls
    BY <1>2 DEF CallLists
  <2> QED
    BY <2>1, Options, SameOptions DEF OptionNames
<1> QED
  BY <1>1, <1>2

\* It says what the property says, and more.
LEMMA ProposalsInvIsEnough == ProposalsInv => ProposalsTrue
<1> SUFFICES ASSUME ProposalsInv PROVE ProposalsTrue
  OBVIOUS
<1>1. Len(proposed) \in Nat /\ DOMAIN proposed = 1 .. Len(proposed)
  BY LenProperties DEF ProposalsInv, ProposedInv
<1>2. \A s \in Scripts : /\ scripts[s] \in Script
                         /\ Numbered(scripts[s])
  BY DEF ProposalsInv, ScriptsInv
<1>3. P!TypeOK
  <2>1. /\ deployed.contracts \in Deployments
        /\ deployed.version \in 0 .. MaxVersion
        /\ chain.ok
        /\ chain.strategies \subseteq {"AaveStrategyProxy"}
        /\ chain.named \cup chain.governed \subseteq deployed.contracts
    BY DEF ProposalsInv, DeployedInv, ChainInv, IsChain
  <2>2. \A i \in DOMAIN proposed : proposed[i].state \in {"pending", "queued", "ripe", "executed"}
    <3>1. \A i \in DOMAIN proposed : proposed[i] \in Proposed
      BY <1>1, ElementOfSeq DEF ProposalsInv, ProposedInv
    <3> QED
      BY <3>1 DEF Proposed
  <2>3. ASSUME NEW s \in Scripts
        PROVE  /\ scripts[s].tool \in P!Tools
               /\ scripts[s].phase \in P!Phases
               /\ {scripts[s].own, scripts[s].id} \subseteq 0 .. Len(proposed)
    <3>1. /\ scripts[s].tool \in P!Tools
          /\ scripts[s].phase \in P!Phases
          /\ scripts[s].own \in Nat
          /\ scripts[s].id \in Nat
      BY <1>2 DEF Script
    <3> QED
      BY <1>1, <1>2, <3>1 DEF Numbered
  <2> QED
    BY <2>1, <2>2, <2>3 DEF P!TypeOK, P!proposalCount
<1>4. P!IdIsRecent
  <2> SUFFICES ASSUME NEW s \in Scripts, scripts[s].own > 0, scripts[s].id > 0
               PROVE  /\ scripts[s].id >= scripts[s].own
                      /\ Len(proposed) = scripts[s].before + 1 => scripts[s].id = scripts[s].own
    BY DEF P!IdIsRecent, P!proposalCount
  <2>1. scripts[s].own \in Nat /\ scripts[s].id \in Nat /\ scripts[s].before \in Nat
    BY <1>2 DEF Script
  <2> QED
    BY <1>1, <1>2, <2>1 DEF Numbered
<1>5. P!CoreAndAdminMatch
  BY DEF ProposalsInv, MatchInv, Matched, Slot, P!CoreAndAdminMatch
<1> QED
  BY <1>3, <1>4, <1>5 DEF ProposalsTrue

\* It holds when the first script is started.
LEMMA ProposalsInvInit == P!Init => ProposalsInv
<1> SUFFICES ASSUME P!Init PROVE ProposalsInv
  OBVIOUS
<1>1. PICK contracts \in Deployments : deployed = [contracts |-> contracts, version |-> 0]
  BY DEF P!Init
<1>2. PICK claims \in {{}, {"AaveStrategyProxy"}} :
        chain = [ok |-> TRUE, governed |-> deployed.contracts \ claims, named |-> claims,
                 strategies |-> {"AaveStrategyProxy"},
                 slots |-> [s \in {<<"VaultProxy", "upgradeTo">>,
                                   <<"VaultProxy", "setAdminImpl">>} |-> 0]]
  BY DEF P!Init
<1>3. DeployedInv
  BY <1>1, DeploymentsAssumption DEF DeployedInv
<1>4. ChainInv /\ Matched(chain)
  BY <1>1, <1>2, DeploymentsAssumption DEF ChainInv, IsChain, Halves, Slot, Matched
<1>5. proposed = <<>> /\ Len(proposed) = 0
  BY DEF P!Init
<1>6. ProposedInv
  BY <1>5 DEF ProposedInv
<1>7. ScriptsInv
  <2>1. scripts \in [Scripts -> [tool : P!Tools, phase : {"idle"}, option : {"none"},
                                 calls : {<<>>}, before : {0}, own : {0}, id : {0}]]
    BY DEF P!Init
  <2>2. ASSUME NEW s \in Scripts
        PROVE  /\ scripts[s] \in Script
               /\ scripts[s].phase = "idle"
               /\ scripts[s].own = 0 /\ scripts[s].id = 0 /\ scripts[s].before = 0
    <3>1. scripts[s] \in [tool : P!Tools, phase : {"idle"}, option : {"none"},
                          calls : {<<>>}, before : {0}, own : {0}, id : {0}]
      BY <2>1
    <3>2. "idle" \in P!Phases /\ <<>> \in CallLists
      BY DEF P!Phases, CallLists
    <3>3. PICK tool \in P!Tools :
            scripts[s] = [tool |-> tool, phase |-> "idle", option |-> "none", calls |-> <<>>,
                          before |-> 0, own |-> 0, id |-> 0]
      BY <3>1
    <3> QED
      BY <3>2, <3>3 DEF Script
  <2>3. \A s \in Scripts : Numbered(scripts[s])
    BY <1>5, <2>2 DEF Numbered
  <2>4. scripts \in [Scripts -> Script]
    BY <2>1, <2>2
  <2> QED
    BY <2>2, <2>3, <2>4 DEF ScriptsInv
<1> QED
  BY <1>3, <1>4, <1>6, <1>7 DEF ProposalsInv, MatchInv

-----------------------------------------------------------------------------
\* A script takes a step, whether or not a proposal is made in it.
LEMMA ScriptsKept ==
    ASSUME ScriptsInv, Len(proposed) \in Nat, Len(proposed)' \in Nat,
           Len(proposed) <= Len(proposed)',
           NEW s \in Scripts, NEW new \in Script, Numbered(new)',
           new.phase = "sent" => new.option \in OptionNames /\ Honest(new),
           scripts' = [scripts EXCEPT ![s] = new]
    PROVE  ScriptsInv'
<1>1. scripts' \in [Scripts -> Script]
  BY DEF ScriptsInv
<1>2. ASSUME NEW t \in Scripts PROVE Numbered(scripts[t])'
  <2>1. CASE t = s
    <3>1. scripts'[t] = new
      BY <2>1 DEF ScriptsInv
    <3> QED
      BY <3>1 DEF Numbered
  <2>2. CASE t # s
    <3>1. scripts'[t] = scripts[t] /\ Numbered(scripts[t])
      BY <2>2 DEF ScriptsInv
    <3>2. scripts[t].own \in Nat /\ scripts[t].id \in Nat /\ scripts[t].before \in Nat
      BY DEF ScriptsInv, Script
    <3> QED
      BY <3>1, <3>2 DEF Numbered
  <2> QED
    BY <2>1, <2>2
<1>3. ASSUME NEW t \in Scripts, scripts'[t].phase = "sent"
      PROVE  scripts'[t].option \in OptionNames /\ Honest(scripts'[t])
  BY <1>3 DEF ScriptsInv
<1>4. \A t \in Scripts : Honest(scripts[t])' <=> Honest(scripts'[t])
  BY DEF Honest, Paired, Apart, Together, Alike, Writes
<1>5. OptionNames' = OptionNames
  OBVIOUS
<1> QED
  BY <1>1, <1>2, <1>3, <1>4 DEF ScriptsInv, OptionNames

\* Nothing but the state of one proposal changes.
LEMMA StateChanged ==
    ASSUME ProposedInv, NEW id \in DOMAIN proposed,
           NEW state \in {"pending", "queued", "ripe", "executed"},
           proposed' = [proposed EXCEPT ![id].state = state]
    PROVE  /\ ProposedInv'
           /\ Len(proposed)' = Len(proposed) /\ Len(proposed) \in Nat
           /\ DOMAIN proposed' = DOMAIN proposed
           /\ \A i \in DOMAIN proposed : proposed'[i].option = proposed[i].option
<1>1. Len(proposed) \in Nat /\ DOMAIN proposed = 1 .. Len(proposed)
  BY LenProperties DEF ProposedInv
<1>2. \A i \in DOMAIN proposed : proposed[i] \in Proposed
  BY <1>1, ElementOfSeq DEF ProposedInv
<1> DEFINE new == [proposed[id] EXCEPT !.state = state]
<1>3. /\ new \in Proposed
      /\ new.option = proposed[id].option
      /\ new.calls = proposed[id].calls
  BY <1>2 DEF Proposed
<1>4. proposed' = [proposed EXCEPT ![id] = new]
  OBVIOUS
<1> HIDE DEF new
<1>5. /\ proposed' \in Seq(Proposed)
      /\ Len(proposed') = Len(proposed)
      /\ \A i \in 1 .. Len(proposed) : proposed'[i] = IF i = id THEN new ELSE proposed[i]
  BY <1>1, <1>3, <1>4, ExceptSeq DEF ProposedInv
<1>6. DOMAIN proposed' = DOMAIN proposed
  BY <1>1, <1>4
<1>7. ASSUME NEW i \in DOMAIN proposed'
      PROVE  /\ Honest(proposed'[i])
             /\ proposed'[i].option = proposed[i].option
  <2>1. Honest(proposed[i]) /\ Honest(proposed[id])
    BY <1>6, <1>7 DEF ProposedInv
  <2>2. proposed'[i] = proposed[i] \/ (i = id /\ proposed'[i] = new)
    BY <1>1, <1>5, <1>6, <1>7
  <2> QED
    BY <1>3, <2>1, <2>2 DEF Honest
<1> QED
  BY <1>1, <1>5, <1>6, <1>7 DEF ProposedInv

\* A proposal of a script is made.
LEMMA ProposalMade ==
    ASSUME ProposedInv, NEW p \in Proposed, Honest(p), proposed' = Append(proposed, p)
    PROVE  /\ ProposedInv'
           /\ Len(proposed) \in Nat /\ Len(proposed)' = Len(proposed) + 1
           /\ \A i \in DOMAIN proposed :
                 i \in DOMAIN proposed' /\ proposed'[i] = proposed[i]
<1>1. Len(proposed) \in Nat /\ DOMAIN proposed = 1 .. Len(proposed)
  BY LenProperties DEF ProposedInv
<1>2. /\ proposed' \in Seq(Proposed)
      /\ Len(proposed') = Len(proposed) + 1
      /\ \A i \in 1 .. Len(proposed) : proposed'[i] = proposed[i]
      /\ proposed'[Len(proposed) + 1] = p
  BY <1>1, AppendProperties DEF ProposedInv
<1>3. DOMAIN proposed' = 1 .. Len(proposed) + 1
  BY <1>1, <1>2, LenProperties
<1>4. ASSUME NEW i \in DOMAIN proposed' PROVE Honest(proposed'[i])
  <2>1. CASE i \in 1 .. Len(proposed)
    BY <1>1, <1>2, <2>1 DEF ProposedInv
  <2>2. CASE i = Len(proposed) + 1
    BY <1>2, <2>2
  <2> QED
    BY <1>1, <1>3, <2>1, <2>2
<1> QED
  BY <1>1, <1>2, <1>3, <1>4 DEF ProposedInv

\* A proposal is executed.
LEMMA ProposalExecuted ==
    ASSUME ProposalsInv, NEW id, P!execute(id), UNCHANGED deployed
    PROVE  /\ ChainInv' /\ ProposedInv' /\ MatchInv'
           /\ Len(proposed)' = Len(proposed) /\ Len(proposed) \in Nat
<1>1. /\ id \in DOMAIN proposed
      /\ P!Executed(proposed[id].calls).ok
      /\ chain' = P!Executed(proposed[id].calls)
      /\ proposed' = [proposed EXCEPT ![id].state = "executed"]
  BY DEF P!execute, P!CanExecute
<1>2. /\ ProposedInv'
      /\ Len(proposed)' = Len(proposed) /\ Len(proposed) \in Nat
      /\ DOMAIN proposed' = DOMAIN proposed
      /\ \A i \in DOMAIN proposed : proposed'[i].option = proposed[i].option
  BY <1>1, StateChanged DEF ProposalsInv
<1>3. proposed[id] \in Proposed /\ Honest(proposed[id])
  BY <1>1, LenProperties, ElementOfSeq DEF ProposalsInv, ProposedInv
<1>4. PICK calls : calls = proposed[id].calls /\ calls \in CallLists
  BY <1>3 DEF Proposed
<1>5. PICK n : List(calls, n)
  BY <1>4, CallListsAre
<1>6. IsChain(chain)
  BY DEF ProposalsInv, ChainInv
<1>7. "upgradeTo" \in Halves
  BY DEF Halves
<1>8. IsChain(P!Executed(calls))
  BY <1>5, <1>6, <1>7, ExecutedIs
<1>9. ChainInv'
  BY <1>1, <1>4, <1>8 DEF ChainInv, IsChain, Halves, Slot
<1>10. MatchInv'
  <2>1. CASE proposed[id].option = "upgradeVaultCore"
    BY <1>1, <1>2, <2>1 DEF MatchInv
  <2>2. CASE \E i \in DOMAIN proposed : proposed[i].option = "upgradeVaultCore"
    BY <1>2, <2>2 DEF MatchInv
  <2>3. CASE proposed[id].option # "upgradeVaultCore" /\ Matched(chain)
    <3>1. Paired(calls)
      BY <1>3, <1>4, <2>3 DEF Honest
    <3>2. Matched(P!Executed(calls))
      BY <1>5, <1>6, <2>3, <3>1, PairedMatches
    <3> QED
      BY <1>1, <1>4, <3>2 DEF MatchInv, Matched, Slot
  <2> QED
    BY <2>1, <2>2, <2>3 DEF ProposalsInv, MatchInv
<1> QED
  BY <1>2, <1>9, <1>10

\* A script sends the proposal of an option, or cannot.
LEMMA Sent ==
    ASSUME ProposalsInv, NEW s \in Scripts, scripts[s].phase = "idle",
           NEW option \in OptionNames, P!Send(s, option), UNCHANGED proposed
    PROVE  ScriptsInv'
<1>1. /\ Len(proposed) \in Nat /\ Len(proposed)' \in Nat
      /\ Len(proposed)' = Len(proposed)
      /\ Len(proposed) <= Len(proposed)'
  BY LenProperties DEF ProposalsInv, ProposedInv
<1>2. scripts[s] \in Script /\ Numbered(scripts[s])
  BY DEF ProposalsInv, ScriptsInv
<1>3. PICK p : p = P!argsMethod(deployed.version)[option]
  OBVIOUS
<1>4. p.calls \in CallLists /\ (option # "upgradeVaultCore" => Paired(p.calls))
  <2>1. deployed.version \in Nat
    BY DeploymentsAssumption DEF ProposalsInv, DeployedInv
  <2> QED
    BY <1>3, <2>1, Options, SameOptions DEF CallLists, OptionNames
<1>5. CASE P!Encodable(p, deployed.contracts)
  <2>0. PICK new : new = [scripts[s] EXCEPT !.phase = "sent", !.option = option,
                                            !.calls = p.calls, !.before = Len(proposed)]
    OBVIOUS
  <2>1. scripts' = [scripts EXCEPT ![s] = new]
    BY <1>3, <1>5, <2>0 DEF P!Send, P!proposalCount
  <2>2. /\ new \in Script
        /\ new.phase = "sent"
        /\ new.option = option
        /\ new.calls = p.calls
        /\ new.own = scripts[s].own
        /\ new.id = scripts[s].id
        /\ new.before = Len(proposed)
    BY <1>1, <1>2, <1>4, <2>0 DEF Script, P!Phases
  <2>3. Numbered(new)'
    BY <1>1, <1>2, <2>2 DEF Numbered
  <2>4. Honest(new)
    BY <1>4, <2>2 DEF Honest
  <2> QED
    BY <1>1, <2>1, <2>2, <2>3, <2>4, ScriptsKept DEF ProposalsInv
<1>6. CASE ~P!Encodable(p, deployed.contracts)
  <2>0. PICK new : new = [scripts[s] EXCEPT !.phase = "failed"]
    OBVIOUS
  <2>1. scripts' = [scripts EXCEPT ![s] = new]
    BY <1>3, <1>6, <2>0 DEF P!Send
  <2>2. /\ new \in Script
        /\ new.phase = "failed"
        /\ new.own = scripts[s].own
        /\ new.id = scripts[s].id
        /\ new.before = scripts[s].before
    BY <1>2, <2>0 DEF Script, P!Phases
  <2>3. Numbered(new)'
    BY <1>1, <1>2, <2>2 DEF Numbered, Script
  <2> QED
    BY <1>1, <2>1, <2>2, <2>3, ScriptsKept DEF ProposalsInv
<1> QED
  BY <1>5, <1>6

\* A script goes on, with the proposal it has made or is about.
LEMMA WentOn ==
    ASSUME ProposalsInv, Len(proposed)' \in Nat, Len(proposed) <= Len(proposed)',
           NEW s \in Scripts, NEW phase \in P!Phases \ {"idle", "sent"},
           NEW own \in Nat, NEW id \in Nat,
           own <= Len(proposed)', id <= Len(proposed)',
           own > 0 => scripts[s].before < own,
           own > 0 /\ id > 0 => id >= own,
           scripts' = [scripts EXCEPT ![s] = [@ EXCEPT !.phase = phase, !.own = own, !.id = id]]
    PROVE  ScriptsInv'
<1>1. Len(proposed) \in Nat
  BY LenProperties DEF ProposalsInv, ProposedInv
<1>2. scripts[s] \in Script /\ Numbered(scripts[s])
  BY DEF ProposalsInv, ScriptsInv
<1>3. PICK new : new = [scripts[s] EXCEPT !.phase = phase, !.own = own, !.id = id]
  OBVIOUS
<1>4. scripts' = [scripts EXCEPT ![s] = new]
  BY <1>3
<1>5. /\ new \in Script
      /\ new.phase = phase
      /\ new.own = own
      /\ new.id = id
      /\ new.before = scripts[s].before
  BY <1>2, <1>3 DEF Script
<1>6. Numbered(new)'
  <2>1. scripts[s].before \in Nat /\ scripts[s].before <= Len(proposed)
    BY <1>2 DEF Script, Numbered
  <2> QED
    BY <1>1, <1>5, <2>1 DEF Numbered
<1> QED
  BY <1>1, <1>4, <1>5, <1>6, ScriptsKept DEF ProposalsInv

\* The same when it keeps the numbers it has.
LEMMA WentOnAlike ==
    ASSUME ProposalsInv, Len(proposed)' = Len(proposed),
           NEW s \in Scripts, NEW phase \in P!Phases \ {"idle", "sent"},
           scripts' = [scripts EXCEPT ![s].phase = phase]
    PROVE  ScriptsInv'
<1>1. Len(proposed) \in Nat
  BY LenProperties DEF ProposalsInv, ProposedInv
<1>2. scripts[s] \in Script /\ Numbered(scripts[s])
  BY DEF ProposalsInv, ScriptsInv
<1>3. PICK own, id : own = scripts[s].own /\ id = scripts[s].id
  OBVIOUS
<1>4. own \in Nat /\ id \in Nat
  BY <1>2, <1>3 DEF Script
<1>5. scripts' = [scripts EXCEPT ![s] = [@ EXCEPT !.phase = phase, !.own = own, !.id = id]]
  <2>1. [scripts[s] EXCEPT !.phase = phase]
          = [scripts[s] EXCEPT !.phase = phase, !.own = own, !.id = id]
    BY <1>2, <1>3 DEF Script
  <2> QED
    BY <2>1
<1>6. /\ own <= Len(proposed)'
      /\ id <= Len(proposed)'
      /\ own > 0 => scripts[s].before < own
      /\ own > 0 /\ id > 0 => id >= own
  BY <1>1, <1>2, <1>3 DEF Numbered
<1>7. Len(proposed)' \in Nat /\ Len(proposed) <= Len(proposed)'
  BY <1>1
<1> QED
  BY <1>4, <1>5, <1>6, <1>7, WentOn

\* A script is told, or reads, the id of a proposal there is.
LEMMA IdTaken ==
    ASSUME ProposalsInv, UNCHANGED proposed,
           NEW s \in Scripts, NEW phase \in P!Phases \ {"idle", "sent"},
           NEW id \in Nat, id <= Len(proposed), scripts[s].own > 0 => id >= scripts[s].own,
           scripts' = [scripts EXCEPT ![s].id = id, ![s].phase = phase]
    PROVE  ScriptsInv'
<1>1. Len(proposed) \in Nat
  BY LenProperties DEF ProposalsInv, ProposedInv
<1>2. scripts[s] \in Script /\ Numbered(scripts[s])
  BY DEF ProposalsInv, ScriptsInv
<1>3. PICK own : own = scripts[s].own
  OBVIOUS
<1>4. own \in Nat
  BY <1>2, <1>3 DEF Script
<1>5. scripts' = [scripts EXCEPT ![s] = [@ EXCEPT !.phase = phase, !.own = own, !.id = id]]
  <2>1. scripts' = [scripts EXCEPT ![s] = [@ EXCEPT !.id = id, !.phase = phase]]
    BY DEF ProposalsInv, ScriptsInv
  <2>2. [scripts[s] EXCEPT !.id = id, !.phase = phase]
          = [scripts[s] EXCEPT !.phase = phase, !.own = own, !.id = id]
    BY <1>2, <1>3 DEF Script
  <2> QED
    BY <2>1, <2>2
<1>6. /\ own <= Len(proposed)'
      /\ id <= Len(proposed)'
      /\ own > 0 => scripts[s].before < own
      /\ own > 0 /\ id > 0 => id >= own
  BY <1>1, <1>2, <1>3 DEF Numbered
<1>7. Len(proposed)' \in Nat /\ Len(proposed) <= Len(proposed)'
  BY <1>1
<1> QED
  BY <1>4, <1>5, <1>6, <1>7, WentOn

\* Every step keeps it.
LEMMA ProposalsInvNext == ProposalsInv /\ [P!Next]_(P!proposalVars) => ProposalsInv'
<1> SUFFICES ASSUME ProposalsInv, [P!Next]_(P!proposalVars) PROVE ProposalsInv'
  OBVIOUS
<1>1. UNCHANGED deployed => DeployedInv'
  BY DEF ProposalsInv, DeployedInv
<1>2. UNCHANGED <<deployed, chain>> => ChainInv'
  BY DEF ProposalsInv, ChainInv, IsChain, Slot
<1>3. UNCHANGED proposed => ProposedInv'
  BY DEF ProposalsInv, ProposedInv, OptionNames, Honest, Proposed
<1>4. UNCHANGED <<chain, proposed>> => MatchInv'
  BY DEF ProposalsInv, MatchInv, Matched, Slot
<1>5. Len(proposed) \in Nat /\ DOMAIN proposed = 1 .. Len(proposed)
  BY LenProperties DEF ProposalsInv, ProposedInv
<1>6. \A s \in Scripts : scripts[s] \in Script /\ Numbered(scripts[s])
  BY DEF ProposalsInv, ScriptsInv
<1>7. {"mined", "queue", "asleep", "ready", "done", "failed"} = P!Phases \ {"idle", "sent"}
  BY DEF P!Phases
<1>8. UNCHANGED <<deployed, chain, proposed>> /\ ScriptsInv' => ProposalsInv'
  BY <1>1, <1>2, <1>3, <1>4 DEF ProposalsInv
<1>9. CASE P!Deploy
  <2>1. /\ deployed.version < MaxVersion
        /\ deployed' = [deployed EXCEPT !.version = @ + 1]
        /\ UNCHANGED <<chain, proposed, scripts>>
    BY <1>9 DEF P!Deploy
  <2>2. DeployedInv' /\ deployed'.contracts = deployed.contracts
    BY <2>1, DeploymentsAssumption DEF ProposalsInv, DeployedInv
  <2>3. ChainInv'
    BY <2>1, <2>2 DEF ProposalsInv, ChainInv, IsChain, Slot
  <2>4. ScriptsInv'
    BY <2>1 DEF ProposalsInv, ScriptsInv, Numbered, OptionNames, Honest, Paired, Apart,
                Together, Alike, Writes, Script, CallLists
  <2> QED
    BY <1>3, <1>4, <2>1, <2>2, <2>3, <2>4 DEF ProposalsInv
<1>10. CASE \E s \in Scripts, pause \in BOOLEAN : P!capital(s, pause)
  <2>1. PICK s \in Scripts, pause \in BOOLEAN : P!capital(s, pause)
    BY <1>10
  <2>2. UNCHANGED <<deployed, chain, proposed>> /\ scripts[s].phase = "idle"
    BY <2>1 DEF P!capital
  <2>3. CASE P!Send(s, IF pause THEN "pauseCapital" ELSE "unpauseCapital")
    <3>1. (IF pause THEN "pauseCapital" ELSE "unpauseCapital") \in OptionNames
      BY DEF OptionNames, P!argsMethod
    <3> QED
      BY <1>8, <2>2, <2>3, <3>1, Sent
  <2>4. CASE scripts' = [scripts EXCEPT ![s].phase = "done"]
    BY <1>7, <1>8, <2>2, <2>4, WentOnAlike
  <2> QED
    BY <2>1, <2>3, <2>4 DEF P!capital
<1>11. ASSUME NEW s \in Scripts, P!Start(s) PROVE ProposalsInv'
  <2>1. UNCHANGED <<deployed, chain, proposed>> /\ scripts[s].phase = "idle"
    BY <1>11 DEF P!Start
  <2>2. PICK option \in Menu[s] : P!Send(s, option)
    BY <1>11 DEF P!Start
  <2>3. option \in OptionNames
    BY MenuAssumption DEF OptionNames
  <2> QED
    BY <1>8, <2>1, <2>2, <2>3, Sent
<1>12. ASSUME NEW s \in Scripts, P!harvest(s) PROVE ProposalsInv'
  <2>1. UNCHANGED <<deployed, chain, proposed>> /\ scripts[s].phase = "idle"
    BY <1>12 DEF P!harvest
  <2>2. CASE P!Send(s, "harvest")
    <3>1. "harvest" \in OptionNames
      BY DEF OptionNames, P!argsMethod
    <3> QED
      BY <1>8, <2>1, <2>2, <3>1, Sent
  <2>3. CASE scripts' = [scripts EXCEPT ![s].phase = "failed"]
    BY <1>7, <1>8, <2>1, <2>3, WentOnAlike
  <2> QED
    BY <1>12, <2>2, <2>3 DEF P!harvest
<1>13. ASSUME NEW s \in Scripts, P!DryRun(s) PROVE ProposalsInv'
  <2>1. /\ UNCHANGED <<deployed, chain, proposed>>
        /\ scripts[s].phase = "idle"
        /\ scripts' = [scripts EXCEPT ![s].phase = "done", ![s].id = Len(proposed)]
    BY <1>13 DEF P!DryRun, P!proposalCount
  <2>2. PICK id : id = Len(proposed)
    OBVIOUS
  <2>3. scripts' = [scripts EXCEPT ![s].id = id, ![s].phase = "done"]
    <3>1. [scripts[s] EXCEPT !.phase = "done", !.id = Len(proposed)]
            = [scripts[s] EXCEPT !.id = Len(proposed), !.phase = "done"]
      BY <1>6 DEF Script
    <3> QED
      BY <2>1, <2>2, <3>1
  <2>4. /\ id \in Nat
        /\ id <= Len(proposed)
        /\ scripts[s].own > 0 => id >= scripts[s].own
    BY <1>5, <1>6, <2>1, <2>2 DEF Numbered
  <2> QED
    BY <1>7, <1>8, <2>1, <2>3, <2>4, IdTaken
<1>14. ASSUME NEW s \in Scripts, P!propose(s) PROVE ProposalsInv'
  <2>1. PICK p : p = [calls |-> scripts[s].calls, state |-> "pending",
                      option |-> scripts[s].option]
    OBVIOUS
  <2>2. /\ scripts[s].phase = "sent"
        /\ proposed' = Append(proposed, p)
        /\ scripts' = [scripts EXCEPT ![s].phase = "mined", ![s].own = Len(proposed')]
        /\ UNCHANGED <<deployed, chain>>
    BY <1>14, <2>1 DEF P!propose
  <2>3. p \in Proposed /\ Honest(p)
    <3>1. scripts[s].option \in OptionNames /\ Honest(scripts[s]) /\ scripts[s].calls \in CallLists
      BY <1>6, <2>2 DEF ProposalsInv, ScriptsInv, Script
    <3> QED
      BY <2>1, <3>1 DEF Proposed, Honest
  <2>4. /\ ProposedInv'
        /\ Len(proposed)' = Len(proposed) + 1
        /\ \A i \in DOMAIN proposed : i \in DOMAIN proposed' /\ proposed'[i] = proposed[i]
    BY <2>2, <2>3, ProposalMade DEF ProposalsInv
  <2>5. MatchInv'
    BY <2>2, <2>4 DEF ProposalsInv, MatchInv, Matched, Slot
  <2>6. ScriptsInv'
    <3>1. PICK own : own = Len(proposed')
      OBVIOUS
    <3>2. scripts' = [scripts EXCEPT ![s] = [@ EXCEPT !.phase = "mined", !.own = own, !.id = 0]]
      <4>1. scripts[s].id = 0
        BY <1>6, <2>2 DEF Numbered
      <4>2. [scripts[s] EXCEPT !.phase = "mined", !.own = own]
              = [scripts[s] EXCEPT !.phase = "mined", !.own = own, !.id = 0]
        BY <1>6, <4>1 DEF Script
      <4> QED
        BY <2>2, <3>1, <4>2
    <3>3. /\ own \in Nat
          /\ own <= Len(proposed)'
          /\ 0 <= Len(proposed)'
          /\ own > 0 => scripts[s].before < own
          /\ ~(own > 0 /\ 0 > 0)
          /\ Len(proposed)' \in Nat
          /\ Len(proposed) <= Len(proposed)'
      BY <1>5, <1>6, <2>4, <3>1 DEF Numbered, Script
    <3> QED
      BY <1>7, <3>2, <3>3, WentOn
  <2> QED
    BY <1>1, <1>2, <2>2, <2>4, <2>5, <2>6 DEF ProposalsInv
<1>15. ASSUME NEW s \in Scripts, P!newProposalId(s) PROVE ProposalsInv'
  <2>1. PICK phase : phase = IF scripts[s].tool = "propose" THEN "done" ELSE "queue"
    OBVIOUS
  <2>2. PICK id : id = Len(proposed)
    OBVIOUS
  <2>3. /\ UNCHANGED <<deployed, chain, proposed>>
        /\ scripts' = [scripts EXCEPT ![s].id = id, ![s].phase = phase]
    BY <1>15, <2>1, <2>2 DEF P!newProposalId, P!proposalCount
  <2>4. /\ id \in Nat
        /\ id <= Len(proposed)
        /\ scripts[s].own > 0 => id >= scripts[s].own
    BY <1>5, <1>6, <2>2 DEF Numbered, Script
  <2> QED
    BY <1>7, <1>8, <2>1, <2>3, <2>4, IdTaken
<1>16. ASSUME NEW s \in Scripts, NEW id \in DOMAIN proposed,
              P!executeTask(s, id) \/ P!executeProposalOnFork(s, id)
       PROVE  ProposalsInv'
  <2>1. PICK phase \in {"ready", "queue", "failed"} :
          scripts' = [scripts EXCEPT ![s].id = id, ![s].phase = phase]
    BY <1>16 DEF P!executeTask, P!executeProposalOnFork
  <2>2. /\ UNCHANGED <<deployed, chain, proposed>>
        /\ scripts[s].phase = "idle"
    BY <1>16 DEF P!executeTask, P!executeProposalOnFork
  <2>3. /\ id \in Nat
        /\ id <= Len(proposed)
        /\ scripts[s].own > 0 => id >= scripts[s].own
    BY <1>5, <1>6, <2>2 DEF Numbered
  <2> QED
    BY <1>7, <1>8, <2>1, <2>2, <2>3, IdTaken
<1>17. ASSUME NEW id, P!queue(id), UNCHANGED <<deployed, chain>>
       PROVE  /\ DeployedInv' /\ ChainInv' /\ ProposedInv' /\ MatchInv'
              /\ Len(proposed)' = Len(proposed)
  <2>1. /\ id \in DOMAIN proposed
        /\ proposed' = [proposed EXCEPT ![id].state = "queued"]
    BY <1>17 DEF P!queue, P!CanQueue
  <2>2. /\ ProposedInv'
        /\ Len(proposed)' = Len(proposed)
        /\ DOMAIN proposed' = DOMAIN proposed
        /\ \A i \in DOMAIN proposed : proposed'[i].option = proposed[i].option
    BY <2>1, StateChanged DEF ProposalsInv
  <2>3. MatchInv'
    BY <1>17, <2>2 DEF ProposalsInv, MatchInv, Matched, Slot
  <2> QED
    BY <1>1, <1>2, <1>17, <2>2, <2>3
<1>18. ASSUME UNCHANGED scripts, Len(proposed)' = Len(proposed) PROVE ScriptsInv'
  BY <1>18 DEF ProposalsInv, ScriptsInv, Numbered, OptionNames, Honest, Paired, Apart,
               Together, Alike, Writes, Script, CallLists
<1>19. ASSUME NEW s \in Scripts, P!Queue(s) PROVE ProposalsInv'
  <2>1. UNCHANGED <<deployed, chain>>
    BY <1>19 DEF P!Queue
  <2>2. CASE P!queue(scripts[s].id) /\ scripts' = [scripts EXCEPT ![s].phase = "asleep"]
    <3>1. /\ DeployedInv' /\ ChainInv' /\ ProposedInv' /\ MatchInv'
          /\ Len(proposed)' = Len(proposed)
      BY <1>17, <2>1, <2>2
    <3>2. ScriptsInv'
      BY <1>7, <2>2, <3>1, WentOnAlike
    <3> QED
      BY <3>1, <3>2 DEF ProposalsInv
  <2>3. CASE UNCHANGED proposed /\ scripts' = [scripts EXCEPT ![s].phase = "failed"]
    BY <1>7, <1>8, <2>1, <2>3, WentOnAlike
  <2> QED
    BY <1>19, <2>2, <2>3 DEF P!Queue
<1>20. ASSUME NEW s \in Scripts, P!Execute(s) PROVE ProposalsInv'
  <2>1. UNCHANGED deployed
    BY <1>20 DEF P!Execute
  <2>2. CASE P!execute(scripts[s].id) /\ scripts' = [scripts EXCEPT ![s].phase = "done"]
    <3>1. ChainInv' /\ ProposedInv' /\ MatchInv' /\ Len(proposed)' = Len(proposed)
      BY <2>1, <2>2, ProposalExecuted
    <3>2. ScriptsInv'
      BY <1>7, <2>2, <3>1, WentOnAlike
    <3> QED
      BY <1>1, <2>1, <3>1, <3>2 DEF ProposalsInv
  <2>3. CASE UNCHANGED <<chain, proposed>> /\ scripts' = [scripts EXCEPT ![s].phase = "failed"]
    BY <1>7, <1>8, <2>1, <2>3, WentOnAlike
  <2> QED
    BY <1>20, <2>2, <2>3 DEF P!Execute
<1>21. ASSUME NEW id \in DOMAIN proposed, P!Guardian(id) PROVE ProposalsInv'
  <2>1. UNCHANGED <<deployed, scripts>>
    BY <1>21 DEF P!Guardian
  <2>2. CASE P!queue(id) /\ UNCHANGED chain
    BY <1>17, <1>18, <2>1, <2>2 DEF ProposalsInv
  <2>3. CASE P!execute(id)
    <3>1. ChainInv' /\ ProposedInv' /\ MatchInv' /\ Len(proposed)' = Len(proposed)
      BY <2>1, <2>3, ProposalExecuted
    <3> QED
      BY <1>1, <1>18, <2>1, <3>1 DEF ProposalsInv
  <2> QED
    BY <1>21, <2>2, <2>3 DEF P!Guardian
<1>22. ASSUME NEW id \in DOMAIN proposed, P!Ripen(id) PROVE ProposalsInv'
  <2>1. /\ proposed' = [proposed EXCEPT ![id].state = "ripe"]
        /\ UNCHANGED <<deployed, chain, scripts>>
    BY <1>22 DEF P!Ripen
  <2>2. /\ ProposedInv'
        /\ Len(proposed)' = Len(proposed)
        /\ DOMAIN proposed' = DOMAIN proposed
        /\ \A i \in DOMAIN proposed : proposed'[i].option = proposed[i].option
    BY <2>1, StateChanged DEF ProposalsInv
  <2>3. MatchInv'
    BY <2>1, <2>2 DEF ProposalsInv, MatchInv, Matched, Slot
  <2> QED
    BY <1>1, <1>2, <1>18, <2>1, <2>2, <2>3 DEF ProposalsInv
<1>23. CASE UNCHANGED P!proposalVars
  BY <1>8, <1>18, <1>23 DEF P!proposalVars
<1> QED
  BY <1>9, <1>10, <1>11, <1>12, <1>13, <1>14, <1>15, <1>16, <1>19, <1>20, <1>21, <1>22, <1>23
  DEF P!Next

\* Whatever is proposed, in whatever order it is queued and executed, and whoever
\* does it: a script goes on with its own proposal or a later one, and the two
\* halves of the vault are of one version unless one alone was asked for.
THEOREM ProposalsAlwaysTrue == P!Spec => []ProposalsTrue
<1> QED
  BY ProposalsInvInit, ProposalsInvNext, ProposalsInvIsEnough, PTL DEF P!Spec
-----------------------------------------------------------------------------
(* The check of storage layouts.                                            *)
\* A layout that keeps the variables of another where they are.
Extends(t, s) ==
    /\ s \in Seq(Variables) /\ t \in Seq(Variables)
    /\ Len(s) <= Len(t)
    /\ \A k \in 1 .. Len(s) : s[k] = t[k]

\* That is what it is for one to be a prefix of the other.
LEMMA PrefixIs ==
    ASSUME NEW s \in Seq(Variables), NEW t \in Seq(Variables)
    PROVE  U!IsPrefix(s, t) <=> Extends(t, s)
<1>1. PICK m \in Nat, n \in Nat : m = Len(s) /\ n = Len(t)
  OBVIOUS
<1>2. CASE m <= n
  <2>1. /\ SubSeq(s, 1, m) \in Seq(Variables) /\ Len(SubSeq(s, 1, m)) = m
        /\ \A k \in 1 .. m : SubSeq(s, 1, m)[k] = s[k]
    BY <1>1, SubSeqProperties
  <2>2. /\ SubSeq(t, 1, m) \in Seq(Variables) /\ Len(SubSeq(t, 1, m)) = m
        /\ \A k \in 1 .. m : SubSeq(t, 1, m)[k] = t[k]
    BY <1>1, <1>2, SubSeqProperties
  <2>3. SubSeq(s, 1, m) = SubSeq(t, 1, m) <=> \A k \in 1 .. m : s[k] = t[k]
    BY <2>1, <2>2, SeqEqual
  <2> QED
    BY <1>1, <1>2, <2>3 DEF U!IsPrefix, Extends
<1>3. CASE ~(m <= n)
  BY <1>1, <1>3 DEF U!IsPrefix, Extends
<1> QED
  BY <1>2, <1>3

\* Unless a check met an outdated file, each layout deployed extends those before,
\* and so does the one that was checked and is about to be.
UpgradesInv ==
    /\ source \in Seq(Variables) /\ file \in U!Layouts \cup {NoFile}
    /\ implementations \in Seq(U!Layouts) /\ inUse \in 0 .. Len(implementations)
    /\ source \in U!Layouts
    /\ outdated \in BOOLEAN
    /\ ~outdated =>
          /\ \A i, j \in 1 .. Len(implementations) :
                i <= j => Extends(implementations[j], implementations[i])
          /\ script = "checked" =>
                \A i \in 1 .. Len(implementations) : Extends(source, implementations[i])

\* Layouts are sequences of variables.
LEMMA LayoutsAre == U!Layouts \subseteq Seq(Variables)
<1> SUFFICES ASSUME NEW s \in U!Layouts PROVE s \in Seq(Variables)
  OBVIOUS
<1>1. PICK m \in 0 .. MaxVariables : s \in [1 .. m -> Variables]
  BY DEF U!Layouts, U!BoundedSeq, U!SeqOf
<1>2. m \in Nat
  BY <1>1, LayoutsAssumption
<1> QED
  BY <1>1, <1>2, SeqDef

\* Nothing is deployed at first.
LEMMA UpgradesInit == U!Init => UpgradesInv
<1> SUFFICES ASSUME U!Init PROVE UpgradesInv
  OBVIOUS
<1>1. /\ source \in U!Layouts /\ file = NoFile /\ implementations = <<>> /\ inUse = 0
      /\ outdated = FALSE
  BY DEF U!Init
<1>2. source \in Seq(Variables)
  BY <1>1, LayoutsAre
<1>3. implementations \in Seq(U!Layouts) /\ Len(implementations) = 0
  BY <1>1
<1>4. inUse \in 0 .. Len(implementations) /\ 1 .. Len(implementations) = {}
  BY <1>1, <1>3
<1> QED
  BY <1>1, <1>2, <1>3, <1>4 DEF UpgradesInv

\* The check compares with the last deployment, or notes that the file is outdated.
LEMMA CheckedSound == UpgradesInv /\ U!assertUpgradeIsSafe => UpgradesInv'
<1> SUFFICES ASSUME UpgradesInv, U!assertUpgradeIsSafe PROVE UpgradesInv'
  OBVIOUS
<1>1. /\ file # NoFile => U!IsPrefix(file, source)
      /\ outdated' = (outdated \/ U!Outdated)
      /\ UNCHANGED <<mainnet, source, file, implementations, inUse>>
  BY DEF U!assertUpgradeIsSafe, U!assertStorageUpgradeSafe
<1>2. PICK n \in Nat : n = Len(implementations)
  BY DEF UpgradesInv
<1>3. ASSUME ~outdated', NEW i \in 1 .. n PROVE Extends(source, implementations[i])
  <2>1. ~outdated /\ implementations # <<>>
    BY <1>1, <1>2, <1>3 DEF UpgradesInv
  <2>2. n \in 1 .. n
    BY <1>2, <1>3
  <2>3. file = implementations[n]
    BY <1>1, <1>2, <1>3, <2>1 DEF U!Outdated, U!Last
  <2>4. file \in U!Layouts
    BY <1>2, <2>2, <2>3 DEF UpgradesInv
  <2>5. Extends(source, file)
    BY <1>1, <2>4, LayoutsAssumption, LayoutsAre, PrefixIs DEF UpgradesInv
  <2>6. Extends(file, implementations[i])
    BY <1>2, <1>3, <2>1, <2>2, <2>3 DEF UpgradesInv
  <2> QED
    BY <2>5, <2>6 DEF Extends
<1>4. outdated' \in BOOLEAN /\ (~outdated' => ~outdated)
  BY <1>1 DEF UpgradesInv, U!Outdated
<1> QED
  BY <1>1, <1>2, <1>3, <1>4 DEF UpgradesInv

\* What was checked is deployed.
LEMMA DeployedSound == UpgradesInv /\ U!Deploy => UpgradesInv'
<1> SUFFICES ASSUME UpgradesInv, U!Deploy PROVE UpgradesInv'
  OBVIOUS
<1>1. /\ script = "checked" /\ script' \in {"deployed", "idle"}
      /\ implementations' = Append(implementations, source)
      /\ UNCHANGED <<mainnet, source, file, inUse, outdated>>
  BY DEF U!Deploy
<1>2. PICK n \in Nat : n = Len(implementations)
  BY DEF UpgradesInv
<1>3. /\ implementations' \in Seq(U!Layouts) /\ Len(implementations') = n + 1
      /\ implementations'[n + 1] = source
      /\ \A i \in 1 .. n : implementations'[i] = implementations[i]
  BY <1>1, <1>2 DEF UpgradesInv
<1>4. ASSUME ~outdated, NEW i \in 1 .. n + 1, NEW j \in 1 .. n + 1, i <= j
      PROVE  Extends(implementations'[j], implementations'[i])
  <2>1. CASE j \in 1 .. n
    BY <1>2, <1>3, <1>4, <2>1 DEF UpgradesInv
  <2>2. CASE j = n + 1 /\ i \in 1 .. n
    BY <1>1, <1>2, <1>3, <1>4, <2>2 DEF UpgradesInv
  <2>3. CASE j = n + 1 /\ i = n + 1
    <3>1. Extends(source, source)
      BY DEF Extends, UpgradesInv
    <3> QED
      BY <1>3, <2>3, <3>1
  <2> QED
    BY <1>4, <2>1, <2>2, <2>3
<1>5. inUse \in 0 .. n + 1
  BY <1>2 DEF UpgradesInv
<1> QED
  BY <1>1, <1>3, <1>4, <1>5 DEF UpgradesInv

\* Every step keeps the invariant.
LEMMA UpgradesNext == UpgradesInv /\ [U!Next]_(U!upgradeVars) => UpgradesInv'
<1> SUFFICES ASSUME UpgradesInv, [U!Next]_(U!upgradeVars) PROVE UpgradesInv'
  OBVIOUS
<1>1. ASSUME NEW layout \in U!Layouts, U!Edit(layout) PROVE UpgradesInv'
  <2>1. /\ script = "idle" /\ source' = layout
        /\ UNCHANGED <<mainnet, file, script, implementations, inUse, outdated>>
    BY <1>1 DEF U!Edit
  <2>2. source' \in Seq(Variables)
    BY <2>1, LayoutsAre
  <2> QED
    BY <2>1, <2>2 DEF UpgradesInv
<1>2. CASE U!storeStorageLayoutForContract \/ U!storeStorageLayoutForAllContracts
  <2>1. /\ file' = source /\ script' = "idle"
        /\ UNCHANGED <<source, implementations, inUse, outdated>>
    BY <1>2 DEF U!storeStorageLayoutForContract, U!storeStorageLayoutForAllContracts
  <2> QED
    BY <2>1 DEF UpgradesInv
<1>3. CASE U!Crash
  <2>1. script' = "idle" /\ UNCHANGED <<source, file, implementations, inUse, outdated>>
    BY <1>3 DEF U!Crash
  <2> QED
    BY <2>1 DEF UpgradesInv
<1>4. CASE U!upgradeTo
  <2>1. inUse' = Len(implementations) /\ UNCHANGED <<source, file, script, implementations, outdated>>
    BY <1>4 DEF U!upgradeTo
  <2> QED
    BY <2>1 DEF UpgradesInv
<1>5. CASE UNCHANGED U!upgradeVars
  BY <1>5 DEF U!upgradeVars, UpgradesInv
<1> QED
  BY <1>1, <1>2, <1>3, <1>4, <1>5, CheckedSound, DeployedSound DEF U!Next

\* What comes into use keeps the variables of what was.
LEMMA StepExtends ==
    ASSUME UpgradesInv, UpgradesInv', [U!Next]_(U!upgradeVars), inUse > 0, ~outdated
    PROVE  U!IsPrefix(implementations[inUse], implementations'[inUse'])
<1>1. PICK n \in Nat : n = Len(implementations)
  BY DEF UpgradesInv
<1>2. inUse \in 1 .. n /\ implementations \in Seq(U!Layouts)
  BY <1>1 DEF UpgradesInv
<1>3. PICK j \in 1 .. n : /\ inUse <= j
                          /\ implementations'[inUse'] = implementations[j]
  <2>1. CASE U!upgradeTo
    <3>1. inUse' = n /\ n \in 1 .. n /\ implementations' = implementations
      BY <1>1, <1>2, <2>1 DEF U!upgradeTo
    <3> QED
      BY <1>2, <3>1
  <2>2. CASE U!Deploy
    <3>1. inUse' = inUse /\ implementations' = Append(implementations, source)
      BY <2>2 DEF U!Deploy
    <3>2. implementations'[inUse] = implementations[inUse]
      BY <1>1, <1>2, <3>1
    <3> QED
      BY <1>2, <3>1, <3>2
  <2>3. CASE UNCHANGED <<implementations, inUse>>
    BY <1>2, <2>3
  <2> QED
    BY <2>1, <2>2, <2>3 DEF U!Next, U!Edit, U!assertUpgradeIsSafe, U!Crash, U!upgradeVars,
        U!storeStorageLayoutForContract, U!storeStorageLayoutForAllContracts
<1>4. Extends(implementations[j], implementations[inUse])
  BY <1>1, <1>2, <1>3 DEF UpgradesInv
<1>5. implementations[j] \in Seq(Variables) /\ implementations[inUse] \in Seq(Variables)
  BY <1>4 DEF Extends
<1> QED
  BY <1>3, <1>4, <1>5, PrefixIs

\* What comes into use keeps the variables of what was in use where they were, for
\* any variables and any number of deployments, unless a check met a file that did
\* not say what was deployed.
THEOREM UpgradesAlwaysExtend == U!Spec => U!UpgradesExtend
<1>1. UpgradesInv /\ UpgradesInv' /\ [U!Next]_(U!upgradeVars)
        => [inUse > 0 /\ ~outdated =>
              U!IsPrefix(implementations[inUse], implementations'[inUse'])]_(U!upgradeVars)
  BY StepExtends
<1> QED
  BY <1>1, UpgradesInit, UpgradesNext, PTL DEF U!Spec, U!UpgradesExtend
-----------------------------------------------------------------------------
(* The verification of sources.                                             *)
\* What a contract may be reported as, and where the script may be.
Results == {"none", "unsupported", "failed", "verified"}
Stages == {"idle", "all", "one", "pollsAll", "pollsOne", "finished"}

\* The script still has to go through what it did not report on.
VerificationInv ==
    /\ deployments \in Seq(Contracts) /\ left \in Seq(Contracts)
    /\ etherscan \in [Contracts -> {"unknown", "queued", "verified", "rejected"}]
    /\ verifier \in Stages
    /\ reports \in [Contracts -> Results]
    /\ V!SaidIsVerified
    /\ verifier \in {"pollsAll", "pollsOne"} => left # <<>>
    /\ verifier = "finished" => left = <<>>
    /\ verifier \in {"all", "pollsAll", "finished"} =>
          \A c \in V!SeqRange(deployments) \ Skipped :
              reports[c] # "none" \/ c \in V!SeqRange(left)

\* What is left but the first.
LEMMA RangeOfTail ==
    ASSUME NEW S, NEW s \in Seq(S), s # <<>>
    PROVE  /\ Head(s) \in S /\ Tail(s) \in Seq(S)
           /\ \A c \in V!SeqRange(s) : c = Head(s) \/ c \in V!SeqRange(Tail(s))
<1>1. /\ Head(s) \in S /\ Head(s) = s[1] /\ Tail(s) \in Seq(S) /\ Len(s) \in Nat \ {0}
      /\ Len(Tail(s)) = Len(s) - 1
      /\ \A i \in 1 .. Len(Tail(s)) : Tail(s)[i] = s[i + 1]
  BY HeadTailProperties
<1>2. DOMAIN s = 1 .. Len(s) /\ DOMAIN Tail(s) = 1 .. Len(Tail(s))
  BY <1>1
<1>3. ASSUME NEW c \in V!SeqRange(s), c # Head(s) PROVE c \in V!SeqRange(Tail(s))
  <2>1. PICK i \in 1 .. Len(s) : c = s[i]
    BY <1>2 DEF V!SeqRange
  <2>2. i # 1
    BY <1>1, <1>3, <2>1
  <2>3. PICK j \in 1 .. Len(Tail(s)) : i = j + 1
    <3>1. i - 1 \in 1 .. Len(Tail(s)) /\ i = (i - 1) + 1
      BY <1>1, <2>2
    <3> QED
      BY <3>1
  <2>4. c = Tail(s)[j]
    BY <1>1, <2>1, <2>3
  <2> QED
    BY <1>2, <2>3, <2>4 DEF V!SeqRange
<1> QED
  BY <1>1, <1>3

\* What the range of a list of names is.
LEMMA RangeIn ==
    ASSUME NEW S, NEW s \in Seq(S)
    PROVE  V!SeqRange(s) \subseteq S
  BY DEF V!SeqRange

\* Nothing is reported when the script starts.
LEMMA VerificationInit == V!Init => VerificationInv
<1> SUFFICES ASSUME V!Init PROVE VerificationInv
  OBVIOUS
<1>1. deployments \in Seq(Contracts)
  <2>1. PICK n \in 0 .. 3 : deployments \in [1 .. n -> Contracts]
    BY DEF V!Init
  <2> QED
    BY <2>1, SeqDef
<1> QED
  BY <1>1 DEF V!Init, VerificationInv, V!SaidIsVerified, Stages, Results

\* The script starts on all contracts, one or none.
LEMMA MainSound ==
    ASSUME VerificationInv, NEW params \in Arguments, V!main(params)
    PROVE  VerificationInv'
<1>1. params \in Seq(Contracts)
  BY ArgumentsAssumption
<1>2. /\ reports' = [c \in Contracts |-> "none"]
      /\ UNCHANGED <<deployments, supported, etherscan, faults>>
      /\ verifier' = IF params = <<>> THEN "all" ELSE "one"
      /\ params = <<>> => left' = deployments
      /\ left' \in {deployments, params, <<>>}
  BY DEF V!main
<1>3. left' \in Seq(Contracts)
  <2>1. deployments \in Seq(Contracts) /\ <<>> \in Seq(Contracts)
    BY DEF VerificationInv
  <2> QED
    BY <1>1, <1>2, <2>1
<1> QED
  BY <1>2, <1>3 DEF VerificationInv, V!SaidIsVerified, Stages, Results

\* The script goes on to the next contract, having reported on this one.
LEMMA ReportSound ==
    ASSUME VerificationInv, left # <<>>, NEW what \in Results,
           V!Report(Head(left), what),
           what = "none" => Head(left) \in Skipped,
           what = "verified" => etherscan[Head(left)] = "verified",
           UNCHANGED <<deployments, etherscan>>,
           verifier' = IF verifier \in {"all", "pollsAll"} THEN "all" ELSE "one",
           verifier # "finished"
    PROVE  VerificationInv'
<1>1. /\ Head(left) \in Contracts /\ Tail(left) \in Seq(Contracts)
      /\ \A c \in V!SeqRange(left) : c = Head(left) \/ c \in V!SeqRange(Tail(left))
  BY RangeOfTail DEF VerificationInv
<1>2. /\ reports' = [reports EXCEPT ![Head(left)] = what]
      /\ left' = Tail(left)
  BY DEF V!Report
<1>3. PICK name \in Contracts : name = Head(left)
  BY <1>1
<1>4. /\ reports' \in [Contracts -> Results] /\ reports'[name] = what
      /\ \A c \in Contracts \ {name} : reports'[c] = reports[c]
  BY <1>2, <1>3 DEF VerificationInv
<1>5. V!SaidIsVerified'
  BY <1>3, <1>4 DEF VerificationInv, V!SaidIsVerified
<1>6. verifier' = "all" => \A c \in V!SeqRange(deployments) \ Skipped :
              reports'[c] # "none" \/ c \in V!SeqRange(Tail(left))
  BY <1>1, <1>3, <1>4, RangeIn DEF VerificationInv, Results
<1> QED
  BY <1>1, <1>2, <1>4, <1>5, <1>6 DEF VerificationInv, Stages

\* A contract that is a mock or deprecated is skipped without a report.
LEMMA SkipSound == VerificationInv /\ V!Skip => VerificationInv'
<1> SUFFICES ASSUME VerificationInv, V!Skip PROVE VerificationInv'
  OBVIOUS
<1>1. /\ verifier = "all" /\ left # <<>> /\ Head(left) \in Skipped
      /\ left' = Tail(left)
      /\ UNCHANGED <<deployments, etherscan, verifier, reports>>
  BY DEF V!Skip
<1>2. /\ Tail(left) \in Seq(Contracts)
      /\ \A c \in V!SeqRange(left) : c = Head(left) \/ c \in V!SeqRange(Tail(left))
  BY <1>1, RangeOfTail DEF VerificationInv
<1>3. \A c \in V!SeqRange(deployments) \ Skipped :
          reports[c] # "none" \/ c \in V!SeqRange(Tail(left))
  BY <1>1, <1>2 DEF VerificationInv
<1> QED
  BY <1>1, <1>2, <1>3 DEF VerificationInv, V!SaidIsVerified

\* Etherscan's record of one contract, not verified before, changes.
LEMMA QueueSound ==
    ASSUME VerificationInv, NEW name \in Contracts, etherscan[name] # "verified",
           NEW result \in {"queued", "verified", "rejected"},
           etherscan' = [etherscan EXCEPT ![name] = result],
           UNCHANGED <<deployments, left, reports>>,
           \/ UNCHANGED verifier
           \/ /\ left # <<>>
              /\ \/ verifier = "all" /\ verifier' = "pollsAll"
                 \/ verifier = "one" /\ verifier' = "pollsOne"
    PROVE  VerificationInv'
<1>1. /\ etherscan' \in [Contracts -> {"unknown", "queued", "verified", "rejected"}]
      /\ \A c \in Contracts : etherscan[c] = "verified" => etherscan'[c] = "verified"
  BY DEF VerificationInv
<1>2. V!SaidIsVerified'
  BY <1>1 DEF VerificationInv, V!SaidIsVerified
<1> QED
  BY <1>1, <1>2 DEF VerificationInv, Stages

\* A contract's sources are submitted, or need not or cannot be.
LEMMA VerifySound == VerificationInv /\ V!verifyContract => VerificationInv'
<1> SUFFICES ASSUME VerificationInv, V!verifyContract PROVE VerificationInv'
  OBVIOUS
<1>1. /\ left # <<>> /\ verifier \in {"all", "one"}
      /\ UNCHANGED <<deployments, supported, starts, faults>>
  BY DEF V!verifyContract, V!Due
<1>2. Head(left) \in Contracts
  BY <1>1, RangeOfTail DEF VerificationInv
<1>3. ASSUME NEW what \in {"unsupported", "failed"}, V!Report(Head(left), what),
             UNCHANGED <<etherscan, verifier>>
      PROVE  VerificationInv'
  BY <1>1, <1>3, ReportSound DEF Results
<1>4. CASE /\ etherscan[Head(left)] # "verified"
           /\ etherscan' = [etherscan EXCEPT ![Head(left)] = "queued"]
           /\ verifier' = IF verifier = "all" THEN "pollsAll" ELSE "pollsOne"
           /\ UNCHANGED <<reports, left>>
  BY <1>1, <1>2, <1>4, QueueSound
<1> QED
  BY <1>3, <1>4 DEF V!verifyContract

\* Etherscan is asked what became of a submission.
LEMMA CheckSound == VerificationInv /\ V!checkStatus => VerificationInv'
<1> SUFFICES ASSUME VerificationInv, V!checkStatus PROVE VerificationInv'
  OBVIOUS
<1>1. /\ verifier \in {"pollsAll", "pollsOne"} /\ left # <<>>
      /\ verifier' = IF verifier = "pollsAll" THEN "all" ELSE "one"
      /\ UNCHANGED <<deployments, etherscan>>
  BY DEF V!checkStatus, V!Polling, V!Resumed, VerificationInv
<1>2. PICK what \in {"verified", "failed"} :
          /\ V!Report(Head(left), what)
          /\ what = "verified" => etherscan[Head(left)] = "verified"
  BY DEF V!checkStatus
<1> QED
  BY <1>1, <1>2, ReportSound DEF Results

\* The loop is over, or the script throws.
LEMMA FinishSound ==
    ASSUME VerificationInv, V!Finish \/ V!Throw \/ V!Again
    PROVE  VerificationInv'
<1>1. CASE V!Finish
  BY <1>1 DEF V!Finish, VerificationInv, V!SaidIsVerified, Stages
<1>2. CASE V!Throw
  BY <1>2 DEF V!Throw, VerificationInv, V!SaidIsVerified, Stages
<1>3. CASE V!Again
  BY <1>3 DEF V!Again, VerificationInv, V!SaidIsVerified, Stages
<1> QED
  BY <1>1, <1>2, <1>3

\* So is every step.
LEMMA VerificationNext == VerificationInv /\ [V!Next]_(V!verificationVars) => VerificationInv'
<1> SUFFICES ASSUME VerificationInv, [V!Next]_(V!verificationVars) PROVE VerificationInv'
  OBVIOUS
<1>1. ASSUME NEW params \in Arguments, V!main(params) PROVE VerificationInv'
  BY <1>1, MainSound
<1>2. CASE V!Step
  BY <1>2, SkipSound, VerifySound, CheckSound, FinishSound DEF V!Step
<1>3. CASE V!Throw \/ V!Again
  BY <1>3, FinishSound
<1>4. ASSUME NEW name \in Contracts, V!Processed(name) PROVE VerificationInv'
  <2>1. PICK result \in {"verified", "rejected"} :
            etherscan' = [etherscan EXCEPT ![name] = result]
    BY <1>4 DEF V!Processed
  <2>2. etherscan[name] # "verified" /\ UNCHANGED <<deployments, left, reports, verifier>>
    BY <1>4 DEF V!Processed
  <2> QED
    BY <2>1, <2>2, QueueSound
<1>5. CASE UNCHANGED V!verificationVars
  BY <1>5 DEF V!verificationVars, VerificationInv, V!SaidIsVerified
<1> QED
  BY <1>1, <1>2, <1>3, <1>4, <1>5 DEF V!Next

\* The invariant says what the run checks.
LEMMA VerificationFollows == VerificationInv => VerificationTrue
<1> SUFFICES ASSUME VerificationInv PROVE VerificationTrue
  OBVIOUS
<1>1. V!SeqRange(deployments) \subseteq Contracts /\ V!SeqRange(left) \subseteq Contracts
  BY RangeIn DEF VerificationInv
<1>2. V!AllReported
  <2>1. left = <<>> => V!SeqRange(left) = {}
    BY DEF V!SeqRange
  <2> QED
    BY <2>1 DEF VerificationInv, V!AllReported
<1> QED
  BY <1>1, <1>2 DEF VerificationInv, VerificationTrue, V!TypeOK, Stages, Results

\* What the script says is verified is, and it leaves nothing out in silence: for
\* any contracts, constructors' arguments, faults and runs.
THEOREM VerificationAlwaysTrue == V!Spec => []VerificationTrue
<1> QED
  BY VerificationInit, VerificationNext, VerificationFollows, PTL DEF V!Spec
-----------------------------------------------------------------------------
(* The governor.                                                            *)
USE AddressAssumption, TimeAssumption

Inv == TypeOK /\ WaitingActionsQueued

\* The invariant holds when the governor is deployed.
LEMMA InitInv == Init => Inv
  BY DEF Init, Inv, TypeOK, WaitingActionsQueued

\* A proposal of the list is a proposal.
LEMMA ProposalsTyped ==
    ASSUME TypeOK, NEW i \in DOMAIN proposals
    PROVE  proposals[i] \in Proposal
  BY DEF TypeOK

\* Changing one field of one proposal leaves a sequence of proposals.
LEMMA ProposalSet ==
    ASSUME TypeOK, NEW i \in DOMAIN proposals, NEW q \in Proposal,
           proposals' = [proposals EXCEPT ![i] = q]
    PROVE  /\ proposals' \in Seq(Proposal)
           /\ DOMAIN proposals' = DOMAIN proposals
           /\ proposals'[i] = q
           /\ \A j \in DOMAIN proposals \ {i} : proposals'[j] = proposals[j]
  BY DEF TypeOK

\* The hashes of a proposal's actions are pairs of an action and a time.
LEMMA HashesType ==
    ASSUME NEW p \in Proposal, NEW e \in Nat
    PROVE  Hashes(p, e) \subseteq Actions \X Nat
  BY DEF Hashes, Proposal, ToSet

\* What the state of a proposal, computed when it is asked for, says of it.
LEMMA StateMeans ==
    ASSUME TypeOK, NEW p \in Proposal
    PROVE  /\ State(p) = "Pending" => ~p.executed /\ p.eta = 0
           /\ State(p) = "Queued" => ~p.executed /\ p.eta # 0 /\ now < p.eta + GracePeriod
<1>1. p.executed \in BOOLEAN
  BY DEF Proposal
<1>2. p.eta \in Nat /\ now \in Nat
  BY DEF Proposal, TypeOK
<1>3. CASE p.executed
  BY <1>3 DEF State
<1>4. CASE ~p.executed /\ p.eta = 0
  BY <1>4 DEF State
<1>5. CASE ~p.executed /\ p.eta # 0 /\ now >= p.eta + GracePeriod
  BY <1>5 DEF State
<1>6. CASE ~p.executed /\ p.eta # 0 /\ ~(now >= p.eta + GracePeriod)
  <2>1. now < p.eta + GracePeriod
    BY <1>2, <1>6
  <2>2. State(p) = "Queued"
    BY <1>6 DEF State
  <2> QED
    BY <1>6, <2>1, <2>2
<1> QED
  BY <1>1, <1>3, <1>4, <1>5, <1>6

\* Queueing adds entries that no waiting proposal has.
LEMMA QueueInv ==
    ASSUME Inv, NEW caller, NEW i \in DOMAIN proposals, Queue(caller, i)
    PROVE  Inv'
<1> DEFINE p == proposals[i]
           eta == now + delay
           q == [p EXCEPT !.eta = eta]
<1>0. p \in Proposal
  BY ProposalsTyped DEF Inv
<1>1. /\ p \in Proposal /\ eta \in Nat /\ eta > 1 /\ q \in Proposal
      /\ q.actions = p.actions /\ q.eta = eta /\ q.executed = p.executed
  <2>1. eta \in Nat /\ eta > 1
    BY DEF Inv, TypeOK
  <2> HIDE DEF eta
  <2> QED
    BY <1>0, <2>1 DEF Proposal
<1>2. proposals' = [proposals EXCEPT ![i] = q]
  BY DEF Queue, Inv, TypeOK, Proposal
<1> HIDE DEF q, eta
<1>3. /\ proposals' \in Seq(Proposal) /\ DOMAIN proposals' = DOMAIN proposals
      /\ proposals'[i] = q
      /\ \A j \in DOMAIN proposals \ {i} : proposals'[j] = proposals[j]
  BY <1>1, <1>2, ProposalSet DEF Inv
<1>4. /\ Hashes(p, eta) \cap queuedTransactions = {}
      /\ queuedTransactions' = queuedTransactions \union Hashes(p, eta)
  BY DEF Queue, eta
<1>5. Hashes(q, q.eta) = Hashes(p, eta)
  BY <1>1 DEF Hashes
<1>6. TypeOK'
  BY <1>1, <1>3, <1>4, HashesType DEF Queue, Inv, TypeOK
<1>7. WaitingActionsQueued'
  <2> SUFFICES ASSUME NEW j \in DOMAIN proposals', Waiting(proposals'[j])
               PROVE  /\ Hashes(proposals'[j], proposals'[j].eta) \subseteq queuedTransactions'
                      /\ \A k \in DOMAIN proposals' \ {j} : Waiting(proposals'[k]) =>
                            Hashes(proposals'[j], proposals'[j].eta)
                              \cap Hashes(proposals'[k], proposals'[k].eta) = {}
    BY DEF WaitingActionsQueued
  <2>1. \A k \in DOMAIN proposals \ {i} : Waiting(proposals[k]) =>
           Hashes(proposals[k], proposals[k].eta) \subseteq queuedTransactions
    BY DEF Inv, WaitingActionsQueued
  <2>2. CASE j = i
    BY <1>3, <1>4, <1>5, <2>1, <2>2
  <2>3. CASE j # i
    BY <1>3, <1>4, <1>5, <2>1, <2>3 DEF Inv, WaitingActionsQueued
  <2> QED
    BY <2>2, <2>3
<1> QED
  BY <1>6, <1>7 DEF Inv

\* Executing takes away the entries of the one proposal and keeps the delay in its
\* limits.
LEMMA ExecuteInv ==
    ASSUME Inv, NEW caller, NEW i \in DOMAIN proposals, Execute(caller, i)
    PROVE  Inv'
<1> DEFINE p == proposals[i]
           q == [p EXCEPT !.executed = TRUE]
<1>0. p \in Proposal
  BY ProposalsTyped DEF Inv
<1>1. /\ p \in Proposal /\ q \in Proposal /\ p.eta \in Nat
      /\ q.actions = p.actions /\ q.eta = p.eta /\ q.executed = TRUE
      /\ ~p.executed /\ p.eta # 0
  <2>1. State(p) = "Queued" /\ p.executed \in BOOLEAN
    BY <1>0 DEF Execute, Proposal
  <2>2. ~p.executed /\ p.eta # 0
    BY <2>1 DEF State
  <2> QED
    BY <1>0, <2>2 DEF Proposal
<1>2. proposals' = [proposals EXCEPT ![i] = q]
  BY DEF Execute, Inv, TypeOK, Proposal
<1> HIDE DEF q
<1>3. /\ proposals' \in Seq(Proposal) /\ DOMAIN proposals' = DOMAIN proposals
      /\ proposals'[i] = q
      /\ \A j \in DOMAIN proposals \ {i} : proposals'[j] = proposals[j]
  BY <1>1, <1>2, ProposalSet DEF Inv
<1>4. queuedTransactions' = queuedTransactions \ Hashes(p, p.eta)
  BY DEF Execute
<1>5. Waiting(p)
  <2>1. p.eta # 1
    BY <1>1 DEF Execute, State, Inv, TypeOK
  <2> QED
    BY <1>1, <2>1 DEF Waiting
<1>6. delay' \in MinDelay .. MaxDelay
  BY DEF Execute, RunSetDelays, SetDelaysAllowed, Inv, TypeOK
<1>7. TypeOK'
  BY <1>3, <1>4, <1>6 DEF Execute, Inv, TypeOK
<1>8. ~Waiting(proposals'[i])
  BY <1>1, <1>3 DEF Waiting
<1>9. WaitingActionsQueued'
  BY <1>3, <1>4, <1>5, <1>8 DEF Inv, WaitingActionsQueued
<1> QED
  BY <1>7, <1>9 DEF Inv

\* Cancelling leaves every other proposal its entries.
LEMMA CancelInv ==
    ASSUME Inv, NEW caller, NEW i \in DOMAIN proposals, Cancel(caller, i)
    PROVE  Inv'
<1> DEFINE p == proposals[i]
           q == [p EXCEPT !.eta = 1]
<1>0. p \in Proposal
  BY ProposalsTyped DEF Inv
<1>1. /\ p \in Proposal /\ q \in Proposal /\ q.eta = 1
  BY <1>0 DEF Proposal
<1>2. proposals' = [proposals EXCEPT ![i] = q]
  BY DEF Cancel, Inv, TypeOK, Proposal
<1> HIDE DEF q
<1>3. /\ proposals' \in Seq(Proposal) /\ DOMAIN proposals' = DOMAIN proposals
      /\ proposals'[i] = q
      /\ \A j \in DOMAIN proposals \ {i} : proposals'[j] = proposals[j]
  BY <1>1, <1>2, ProposalSet DEF Inv
<1>4. queuedTransactions' = queuedTransactions \ Hashes(p, 1)
  BY DEF Cancel
<1>5. TypeOK'
  BY <1>3, <1>4 DEF Cancel, Inv, TypeOK
<1>6. ~Waiting(proposals'[i])
  BY <1>1, <1>3 DEF Waiting
<1>7. \A j \in DOMAIN proposals : Waiting(proposals[j]) =>
         Hashes(proposals[j], proposals[j].eta) \cap Hashes(p, 1) = {}
  BY DEF Waiting, Hashes
<1>8. WaitingActionsQueued'
  BY <1>3, <1>4, <1>6, <1>7 DEF Inv, WaitingActionsQueued
<1> QED
  BY <1>5, <1>8 DEF Inv

\* A new proposal has nothing in the queue.
LEMMA ProposeInv ==
    ASSUME Inv, NEW n \in 1 .. MaxOperations, NEW actions \in [1 .. n -> Actions], Propose(actions)
    PROVE  Inv'
<1> DEFINE q == [eta |-> 0, actions |-> actions, executed |-> FALSE]
<1>1. q \in Proposal
  BY DEF Proposal
<1>2. proposals' = Append(proposals, q) /\ proposals \in Seq(Proposal)
  BY DEF Propose, Inv, TypeOK
<1>3. q.eta = 0
  OBVIOUS
<1> HIDE DEF q
<1>4. /\ proposals' \in Seq(Proposal)
      /\ DOMAIN proposals' = DOMAIN proposals \union {Len(proposals) + 1}
      /\ proposals'[Len(proposals) + 1] = q
      /\ \A j \in DOMAIN proposals : proposals'[j] = proposals[j]
  BY <1>1, <1>2
<1>5. ~Waiting(q)
  BY <1>3 DEF Waiting
<1>6. TypeOK'
  BY <1>4 DEF Propose, Inv, TypeOK
<1>7. \A j \in DOMAIN proposals' : Waiting(proposals'[j]) =>
         j \in DOMAIN proposals /\ proposals'[j] = proposals[j]
  BY <1>4, <1>5
<1>8. WaitingActionsQueued'
  BY <1>7 DEF Propose, Inv, WaitingActionsQueued
<1> QED
  BY <1>6, <1>8 DEF Inv

\* Every step keeps the invariant.
LEMMA NextInv == Inv /\ [Next]_vars => Inv'
<1> SUFFICES ASSUME Inv, [Next]_vars PROVE Inv'
  OBVIOUS
<1>1. ASSUME NEW caller \in Addresses, NEW i \in DOMAIN proposals,
             Queue(caller, i) \/ Execute(caller, i) \/ Cancel(caller, i)
      PROVE  Inv'
  BY <1>1, QueueInv, ExecuteInv, CancelInv
<1>2. ASSUME NEW n \in 1 .. MaxOperations, NEW actions \in [1 .. n -> Actions], Propose(actions)
      PROVE  Inv'
  BY <1>2, ProposeInv
<1>3. ASSUME UNCHANGED <<delay, queuedTransactions, proposals>>,
             now' \in Nat, now' >= Genesis, admin' \in Addresses,
             pendingAdmin' \in Addresses \union {NoAddress}
      PROVE  Inv'
  BY <1>3 DEF Inv, TypeOK, WaitingActionsQueued
<1>4. ASSUME NEW caller \in Addresses, NEW a \in Addresses \union {NoAddress},
             SetPendingAdmin(caller, a)
      PROVE  Inv'
  BY <1>3, <1>4 DEF SetPendingAdmin, Inv, TypeOK
<1>5. ASSUME NEW caller \in Addresses, AcceptAdmin(caller)
      PROVE  Inv'
  BY <1>3, <1>5 DEF AcceptAdmin, Inv, TypeOK
<1>6. CASE Tick
  BY <1>3, <1>6 DEF Tick, Inv, TypeOK
<1>7. CASE UNCHANGED vars
  BY <1>3, <1>7 DEF vars, Inv, TypeOK
<1> QED
  BY <1>1, <1>2, <1>4, <1>5, <1>6, <1>7 DEF Next

\* The governor's types hold, and the delay stays within its limits, whatever
\* setDelay actions are proposed.
THEOREM TypeCorrect == Spec => []TypeOK
<1>1. Inv => TypeOK
  BY DEF Inv
<1> QED
  BY <1>1, InitInv, NextInv, PTL DEF Spec

\* Everything a waiting proposal needs stays in the queue, and is its own.
THEOREM WaitingActionsAlwaysQueued == Spec => []WaitingActionsQueued
<1>1. Inv => WaitingActionsQueued
  BY DEF Inv
<1> QED
  BY <1>1, InitInv, NextInv, PTL DEF Spec
-----------------------------------------------------------------------------
(* The governor implements DelayedExecution.  A handler changes one           *)
(* proposal; the others keep their phase and their time.                      *)

Ids == 1 .. MaxProposals

\* A proposal that a step leaves alone is in the state it was in.
LEMMA OthersKept ==
    ASSUME NEW i, DOMAIN proposals' \ {i} = DOMAIN proposals \ {i},
           \A j \in DOMAIN proposals \ {i} : proposals'[j] = proposals[j]
    PROVE  \A j \in Ids \ {i} : PhaseOf(j)' = PhaseOf(j) /\ EtaOf(j)' = EtaOf(j)
<1> SUFFICES ASSUME NEW j \in Ids \ {i}
             PROVE  PhaseOf(j)' = PhaseOf(j) /\ EtaOf(j)' = EtaOf(j)
  OBVIOUS
<1>1. CASE j \in DOMAIN proposals
  <2>1. j \in DOMAIN proposals' /\ proposals'[j] = proposals[j]
    BY <1>1
  <2>2. PhaseOf(j)' = PhaseOf(j)
    BY <1>1, <2>1 DEF PhaseOf
  <2>3. EtaOf(j)' = EtaOf(j)
    BY <2>1, <2>2 DEF EtaOf
  <2> QED
    BY <2>2, <2>3
<1>2. CASE j \notin DOMAIN proposals
  <2>1. PhaseOf(j)' = "None" /\ PhaseOf(j) = "None"
    BY <1>2 DEF PhaseOf
  <2> QED
    BY <2>1 DEF EtaOf
<1> QED
  BY <1>1, <1>2

\* A step that changes one proposal changes its abstract state only.
LEMMA OneChanged ==
    ASSUME NEW i \in Ids,
           \A j \in Ids \ {i} : PhaseOf(j)' = PhaseOf(j) /\ EtaOf(j)' = EtaOf(j)
    PROVE  /\ Phases' = [Phases EXCEPT ![i] = PhaseOf(i)']
           /\ Etas' = [Etas EXCEPT ![i] = EtaOf(i)']
           /\ Phases[i] = PhaseOf(i) /\ Etas[i] = EtaOf(i)
  BY DEF Phases, Etas, Ids

\* A step that changes no proposal stutters in the abstract.
LEMMA NoneChanged ==
    ASSUME \A j \in Ids : PhaseOf(j)' = PhaseOf(j) /\ EtaOf(j)' = EtaOf(j)
    PROVE  UNCHANGED <<Phases, Etas>>
  BY DEF Phases, Etas, Ids

\* The same proposals, the same phases and times.
LEMMA ProposalsKept ==
    ASSUME UNCHANGED proposals
    PROVE  UNCHANGED <<Phases, Etas>>
<1>1. \A j \in Ids : PhaseOf(j)' = PhaseOf(j) /\ EtaOf(j)' = EtaOf(j)
  BY DEF PhaseOf, EtaOf
<1> QED
  BY <1>1, NoneChanged

\* A step that changes proposal i alone either concerns none of Ids or changes
\* the phase and the time of i alone.
LEMMA Mapped ==
    ASSUME NEW i \in Nat \ {0}, DOMAIN proposals' \ {i} = DOMAIN proposals \ {i},
           \A j \in DOMAIN proposals \ {i} : proposals'[j] = proposals[j]
    PROVE  \/ UNCHANGED <<Phases, Etas>>
           \/ /\ i \in Ids
              /\ Phases' = [Phases EXCEPT ![i] = PhaseOf(i)']
              /\ Etas' = [Etas EXCEPT ![i] = EtaOf(i)']
              /\ Phases[i] = PhaseOf(i) /\ Etas[i] = EtaOf(i)
<1>1. CASE i \in Ids
  BY <1>1, OthersKept, OneChanged
<1>2. CASE i \notin Ids
  BY <1>2, OthersKept, NoneChanged
<1> QED
  BY <1>1, <1>2

\* propose is a new abstract proposal.
LEMMA ProposeMaps ==
    ASSUME Inv, NEW n \in 1 .. MaxOperations, NEW actions \in [1 .. n -> Actions], Propose(actions)
    PROVE  [Delayed!Next]_(Delayed!vars)
<1> PICK i \in Nat : i = Len(proposals) + 1
  BY DEF Inv, TypeOK
<1> DEFINE q == [eta |-> 0, actions |-> actions, executed |-> FALSE]
<1>0. proposals' = Append(proposals, q) /\ proposals \in Seq(Proposal)
  BY DEF Propose, Inv, TypeOK
<1>1. /\ i \in Nat \ {0} /\ i \notin DOMAIN proposals
      /\ DOMAIN proposals' = DOMAIN proposals \union {i} /\ proposals'[i] = q
      /\ \A j \in DOMAIN proposals : proposals'[j] = proposals[j]
  BY DEF Propose, Inv, TypeOK
<1>2. PhaseOf(i) = "None" /\ PhaseOf(i)' = "Pending"
  <2>1. Phase(q) = "Pending"
    BY DEF Phase, Waiting
  <2>2. i \in DOMAIN proposals' /\ i \notin DOMAIN proposals /\ proposals'[i] = q
    BY <1>1
  <2> HIDE DEF q
  <2>3. PhaseOf(i) = "None"
    BY <2>2 DEF PhaseOf
  <2>4. PhaseOf(i)' = Phase(q)
    BY <2>2 DEF PhaseOf
  <2> QED
    BY <2>1, <2>3, <2>4
<1>3. EtaOf(i) = 0 /\ EtaOf(i)' = 0
  BY <1>2 DEF EtaOf
<1>4. now' = now
  BY DEF Propose
<1>5. CASE UNCHANGED <<Phases, Etas>>
  BY <1>4, <1>5 DEF Delayed!vars
<1>6. CASE /\ i \in Ids
           /\ Phases' = [Phases EXCEPT ![i] = PhaseOf(i)']
           /\ Etas' = [Etas EXCEPT ![i] = EtaOf(i)']
           /\ Phases[i] = PhaseOf(i) /\ Etas[i] = EtaOf(i)
  <2>1. Etas' = Etas
    BY <1>3, <1>6 DEF Etas
  <2>2. Delayed!Propose(i)
    BY <1>2, <1>4, <1>6, <2>1 DEF Delayed!Propose
  <2> QED
    BY <1>6, <2>2 DEF Delayed!Next, Ids
<1> QED
  <2>1. DOMAIN proposals' \ {i} = DOMAIN proposals \ {i}
    BY <1>1
  <2>2. \A j \in DOMAIN proposals \ {i} : proposals'[j] = proposals[j]
    BY <1>1
  <2> QED
    BY <1>1, <1>5, <1>6, <2>1, <2>2, Mapped

\* queue schedules the abstract proposal.
LEMMA QueueMaps ==
    ASSUME Inv, NEW caller, NEW i \in DOMAIN proposals, Queue(caller, i)
    PROVE  [Delayed!Next]_(Delayed!vars)
<1> DEFINE p == proposals[i]
           eta == now + delay
           q == [p EXCEPT !.eta = eta]
<1>1. p \in Proposal
  BY ProposalsTyped DEF Inv
<1>2. eta \in Nat /\ eta > 1 /\ delay \in MinDelay .. MaxDelay
  BY DEF Inv, TypeOK
<1>3. State(p) = "Pending"
  BY DEF Queue
<1>4. ~p.executed /\ p.eta = 0
  BY <1>1, <1>3, StateMeans DEF Inv
<1>5. proposals' = [proposals EXCEPT ![i] = q]
  BY <1>1 DEF Queue, Inv, TypeOK, Proposal
<1>6. now' = now
  BY DEF Queue
<1> HIDE DEF eta
<1>7. q \in Proposal /\ q.eta = eta /\ ~q.executed
  BY <1>1, <1>2, <1>4 DEF Proposal
<1> HIDE DEF q
<1>8. /\ DOMAIN proposals' = DOMAIN proposals /\ proposals'[i] = q
      /\ \A j \in DOMAIN proposals \ {i} : proposals'[j] = proposals[j]
  BY <1>5, <1>7, ProposalSet DEF Inv
<1>9. Phase(p) = "Pending" /\ Phase(q) = "Queued"
  BY <1>2, <1>4, <1>7 DEF Phase, Waiting
<1>10. PhaseOf(i) = "Pending" /\ PhaseOf(i)' = "Queued" /\ EtaOf(i)' = eta
  BY <1>7, <1>8, <1>9 DEF PhaseOf, EtaOf
<1>11. i \in Nat \ {0}
  BY DEF Inv, TypeOK
<1>12. CASE /\ i \in Ids
            /\ Phases' = [Phases EXCEPT ![i] = PhaseOf(i)']
            /\ Etas' = [Etas EXCEPT ![i] = EtaOf(i)']
            /\ Phases[i] = PhaseOf(i) /\ Etas[i] = EtaOf(i)
  <2>1. Delayed!Queue(i)
    BY <1>2, <1>6, <1>10, <1>12 DEF Delayed!Queue, eta
  <2> QED
    BY <1>12, <2>1 DEF Delayed!Next, Ids
<1>13. CASE UNCHANGED <<Phases, Etas>>
  BY <1>6, <1>13 DEF Delayed!vars
<1> QED
  BY <1>8, <1>11, <1>12, <1>13, Mapped

\* execute runs the abstract proposal in its window.
LEMMA ExecuteMaps ==
    ASSUME Inv, NEW caller, NEW i \in DOMAIN proposals, Execute(caller, i)
    PROVE  [Delayed!Next]_(Delayed!vars)
<1> DEFINE p == proposals[i]
           q == [p EXCEPT !.executed = TRUE]
<1>1. p \in Proposal
  BY ProposalsTyped DEF Inv
<1>2. State(p) = "Queued" /\ p.eta <= now
  BY DEF Execute
<1>3. ~p.executed /\ p.eta # 0 /\ now < p.eta + GracePeriod
  BY <1>1, <1>2, StateMeans DEF Inv
<1>4. p.eta \in Nat /\ p.eta > 1
  BY <1>1, <1>3 DEF Proposal, Inv, TypeOK
<1>5. proposals' = [proposals EXCEPT ![i] = q]
  BY <1>1 DEF Execute, Inv, TypeOK, Proposal
<1>6. now' = now
  BY DEF Execute
<1>7. q \in Proposal /\ q.eta = p.eta /\ q.executed
  BY <1>1 DEF Proposal
<1> HIDE DEF q
<1>8. /\ DOMAIN proposals' = DOMAIN proposals /\ proposals'[i] = q
      /\ \A j \in DOMAIN proposals \ {i} : proposals'[j] = proposals[j]
  BY <1>5, <1>7, ProposalSet DEF Inv
<1>9. Phase(p) = "Queued" /\ Phase(q) = "Executed"
  BY <1>3, <1>4, <1>7 DEF Phase, Waiting
<1>10. /\ PhaseOf(i) = "Queued" /\ PhaseOf(i)' = "Executed"
       /\ EtaOf(i) = p.eta /\ EtaOf(i)' = p.eta
  BY <1>7, <1>8, <1>9 DEF PhaseOf, EtaOf
<1>11. i \in Nat \ {0}
  BY DEF Inv, TypeOK
<1>12. CASE /\ i \in Ids
            /\ Phases' = [Phases EXCEPT ![i] = PhaseOf(i)']
            /\ Etas' = [Etas EXCEPT ![i] = EtaOf(i)']
            /\ Phases[i] = PhaseOf(i) /\ Etas[i] = EtaOf(i)
  <2>1. Etas' = Etas
    BY <1>10, <1>12 DEF Etas
  <2>2. Delayed!Execute(i)
    BY <1>2, <1>3, <1>6, <1>10, <1>12, <2>1 DEF Delayed!Execute
  <2> QED
    BY <1>12, <2>2 DEF Delayed!Next, Ids
<1>13. CASE UNCHANGED <<Phases, Etas>>
  BY <1>6, <1>13 DEF Delayed!vars
<1> QED
  BY <1>8, <1>11, <1>12, <1>13, Mapped

\* cancel ends the abstract proposal.
LEMMA CancelMaps ==
    ASSUME Inv, NEW caller, NEW i \in DOMAIN proposals, Cancel(caller, i)
    PROVE  [Delayed!Next]_(Delayed!vars)
<1> DEFINE p == proposals[i]
           q == [p EXCEPT !.eta = 1]
<1>1. p \in Proposal
  BY ProposalsTyped DEF Inv
<1>2. State(p) \in {"Queued", "Pending"}
  BY DEF Cancel
<1>3. /\ ~p.executed /\ p.eta \in Nat
      /\ p.eta = 0 \/ (p.eta # 0 /\ now < p.eta + GracePeriod)
  <2>1. p.eta \in Nat
    BY <1>1 DEF Proposal
  <2> QED
    BY <1>1, <1>2, <2>1, StateMeans DEF Inv
\* A cancelled proposal has long expired: it is not cancelled again.
<1>4. p.eta # 1
  BY <1>3 DEF Inv, TypeOK
<1>5. proposals' = [proposals EXCEPT ![i] = q]
  BY <1>1 DEF Cancel, Inv, TypeOK, Proposal
<1>6. now' = now
  BY DEF Cancel
<1>7. q \in Proposal /\ q.eta = 1 /\ ~q.executed
  BY <1>1, <1>3 DEF Proposal
<1> HIDE DEF q
<1>8. /\ DOMAIN proposals' = DOMAIN proposals /\ proposals'[i] = q
      /\ \A j \in DOMAIN proposals \ {i} : proposals'[j] = proposals[j]
  BY <1>5, <1>7, ProposalSet DEF Inv
<1>9. Phase(q) = "Cancelled"
  BY <1>7 DEF Phase, Waiting
<1>10. PhaseOf(i)' = "Cancelled" /\ EtaOf(i)' = 0
  BY <1>8, <1>9 DEF PhaseOf, EtaOf
<1>11. \/ PhaseOf(i) = "Pending"
       \/ PhaseOf(i) = "Queued" /\ EtaOf(i) = p.eta /\ now < p.eta + GracePeriod
  <2>1. CASE p.eta = 0
    BY <1>3, <2>1 DEF PhaseOf, Phase, Waiting
  <2>2. CASE p.eta # 0
    <3>1. Waiting(p)
      BY <1>3, <1>4, <2>2 DEF Waiting
    <3>2. Phase(p) = "Queued"
      BY <1>3, <3>1 DEF Phase, Waiting
    <3>3. PhaseOf(i) = "Queued"
      BY <3>2 DEF PhaseOf
    <3> QED
      BY <1>3, <2>2, <3>3 DEF EtaOf
  <2> QED
    BY <2>1, <2>2
<1>12. i \in Nat \ {0}
  BY DEF Inv, TypeOK
<1>13. CASE /\ i \in Ids
            /\ Phases' = [Phases EXCEPT ![i] = PhaseOf(i)']
            /\ Etas' = [Etas EXCEPT ![i] = EtaOf(i)']
            /\ Phases[i] = PhaseOf(i) /\ Etas[i] = EtaOf(i)
  <2>1. Delayed!Cancel(i)
    BY <1>6, <1>10, <1>11, <1>13 DEF Delayed!Cancel
  <2> QED
    BY <1>13, <2>1 DEF Delayed!Next, Ids
<1>14. CASE UNCHANGED <<Phases, Etas>>
  BY <1>6, <1>14 DEF Delayed!vars
<1> QED
  BY <1>8, <1>12, <1>13, <1>14, Mapped

\* The initial states correspond.
LEMMA InitMaps == Init => Delayed!Init
<1> SUFFICES ASSUME Init PROVE Delayed!Init
  OBVIOUS
<1>1. \A i \in Ids : PhaseOf(i) = "None" /\ EtaOf(i) = 0
  BY DEF Init, PhaseOf, EtaOf
<1>2. Phases = [i \in 1 .. MaxProposals |-> "None"] /\ Etas = [i \in 1 .. MaxProposals |-> 0]
  BY <1>1 DEF Phases, Etas, Ids
<1>3. now \in Nat
  BY DEF Init
<1> QED
  BY <1>2, <1>3 DEF Delayed!Init

\* Every step is a step of DelayedExecution or a stutter.
LEMMA NextMaps == Inv /\ [Next]_vars => [Delayed!Next]_(Delayed!vars)
<1> SUFFICES ASSUME Inv, [Next]_vars PROVE [Delayed!Next]_(Delayed!vars)
  OBVIOUS
<1>1. ASSUME NEW caller \in Addresses, NEW i \in DOMAIN proposals,
             Queue(caller, i) \/ Execute(caller, i) \/ Cancel(caller, i)
      PROVE  [Delayed!Next]_(Delayed!vars)
  BY <1>1, QueueMaps, ExecuteMaps, CancelMaps
<1>2. ASSUME NEW n \in 1 .. MaxOperations, NEW actions \in [1 .. n -> Actions], Propose(actions)
      PROVE  [Delayed!Next]_(Delayed!vars)
  BY <1>2, ProposeMaps
<1>3. ASSUME UNCHANGED <<now, proposals>>
      PROVE  [Delayed!Next]_(Delayed!vars)
  BY <1>3, ProposalsKept DEF Delayed!vars
<1>4. ASSUME NEW caller, NEW a, SetPendingAdmin(caller, a) \/ AcceptAdmin(caller)
      PROVE  [Delayed!Next]_(Delayed!vars)
  BY <1>3, <1>4 DEF SetPendingAdmin, AcceptAdmin
<1>5. CASE Tick
  <2>1. UNCHANGED <<Phases, Etas>>
    BY <1>5, ProposalsKept DEF Tick
  <2>2. now' \in Nat /\ now' > now
    BY <1>5 DEF Tick, Inv, TypeOK
  <2> QED
    BY <2>1, <2>2 DEF Delayed!Next, Delayed!Tick
<1>6. CASE UNCHANGED vars
  BY <1>3, <1>6 DEF vars
<1> QED
  BY <1>1, <1>2, <1>4, <1>5, <1>6 DEF Next

\* Whatever is proposed, queued, cancelled or executed in whatever order, the
\* governor is an implementation of DelayedExecution: no proposal is executed
\* twice, early, after its grace period or after its cancellation.
THEOREM GovernorImplementsDelayedExecution == Spec => ImplementsDelayedExecution
  BY InitInv, NextInv, InitMaps, NextMaps, PTL
     DEF Spec, ImplementsDelayedExecution, Delayed!Spec
=============================================================================

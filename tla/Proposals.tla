------------------------------ MODULE Proposals ------------------------------
(***************************************************************************)
(* The scripts that make governance proposals and, on a fork or a local     *)
(* node, queue and execute them: scripts/governor/propose.js with           *)
(* utils/governor.js, executeProposal and executeProposalOnFork of          *)
(* utils/deploy.js, the tasks of tasks/governance.js, and of tasks/vault.js *)
(* those that make proposals.                                               *)
(*                                                                         *)
(* A proposal is the list of its calls.  A call writes one slot of the      *)
(* contract it is made to, named by its signature, and succeeds if the      *)
(* Governor governs the contract; Governor models the timelock itself.      *)
(* There is one governor (no --governorV1), and contracts are not deployed  *)
(* halfway when a script looks them up.                                     *)
(***************************************************************************)
EXTENDS Naturals, SequencesExt

CONSTANTS Scripts,      \* runs of a script
          Menu,         \* script -> the proposals it may be asked for
          Deployments,  \* sets of contracts: the networks there are
          NoArgument,
          MaxVersion    \* bound: upgrades of the contracts that are deployed

VARIABLES deployed,     \* the contracts deployed here, and their version
          chain,        \* whom the Governor governs, and what was written
          proposals,    \* in the order of their ids
          scripts

proposalVars == <<deployed, chain, proposals, scripts>>
-----------------------------------------------------------------------------
(* The proposals: what the script looks up, besides what it calls, and the  *)
(* calls.                                                                   *)

call(to, signature) == [to |-> to, signature |-> signature, arg |-> NoArgument]
set(to, signature, arg) == [to |-> to, signature |-> signature, arg |-> arg]
proposeArgs(calls) == [lookup |-> {}, calls |-> calls]
proposeUpgrade(lookup, calls) == [lookup |-> lookup, calls |-> calls]

onVault(signature) == proposeArgs(<<call("VaultProxy", signature)>>)
claim(contracts) ==
    proposeArgs([i \in DOMAIN contracts |-> call(contracts[i], "claimGovernance")])

proposeVaultv2Governance ==
    claim(<<"MixOracle", "ChainlinkOracle", "AaveStrategyProxy",
            "CompoundStrategyProxy", "VaultProxy">>)
proposeOusdNewGovernor == proposeArgs(<<call("OUSDProxy", "transferGovernance")>>)
proposeOusdv2Reset ==
    proposeUpgrade({"OUSD", "OUSDReset", "VaultProxy"},
        <<call("OUSDProxy", "claimGovernance"),
          set("OUSDProxy", "upgradeTo", "OUSDReset"),
          call("OUSDProxy", "reset"),
          set("OUSDProxy", "setVaultAddress", "VaultProxy"),
          set("OUSDProxy", "upgradeTo", "OUSD")>>)
proposeUpgradeStaking(v) ==
    proposeUpgrade({"SingleAssetStaking"}, <<set("OGNStakingProxy", "upgradeTo", v)>>)
proposeClaimOGNStaking == claim(<<"OGNStakingProxy">>)
proposeSetMaxSupplyDiff == proposeArgs(<<set("VaultProxy", "setMaxSupplyDiff", "5%")>>)
proposeUnpauseRebase == onVault("unpauseRebase")
proposeUnpauseCapital == onVault("unpauseCapital")
proposePauseCapital == onVault("pauseCapital")
proposeHarvest == onVault("harvest")
proposeSetRebaseHookAddr(v) ==
    proposeArgs(<<set("VaultProxy", "setRebaseHooksAddr", v)>>)
proposeSetUniswapAddr(v) == proposeArgs(<<set("VaultProxy", "setUniswapAddr", v)>>)
proposeUpgradeOusd(v) ==
    proposeUpgrade({"OUSD"}, <<set("OUSDProxy", "upgradeTo", v)>>)
proposeUpgradeVaultCore(v) == proposeArgs(<<set("VaultProxy", "upgradeTo", v)>>)

proposeUpgradeVaultCoreAndAdmin(v) ==
    proposeUpgrade({"VaultCore", "VaultAdmin"},
        <<set("VaultProxy", "upgradeTo", v), set("VaultProxy", "setAdminImpl", v)>>)
proposeUpgradeOracle(v) ==
    proposeArgs(<<call("MixOracle", "claimGovernance"),
                  call("OpenUniswapOracle", "claimGovernance"),
                  set("VaultProxy", "setPriceProvider", v)>>)
proposeClaimStrategies ==
    claim(<<"CurveUSDCStrategyProxy", "CurveUSDTStrategyProxy",
            "CompoundStrategyProxy">>)
proposeRemoveStrategy ==
    proposeArgs(<<call("VaultProxy", "harvest"),
                  set("VaultProxy", "removeStrategy", "AaveStrategyProxy")>>)
proposeAddStrategies ==
    proposeArgs([i \in 1 .. 3 |-> set("VaultProxy", "addStrategy",
        <<"CurveUSDTStrategyProxy", "CurveUSDCStrategyProxy",
          "CompoundStrategyProxy">>[i])])
proposeUpgradeCurveStrategies(v) ==
    proposeUpgrade({"CurveUSDCStrategy", "CurveUSDTStrategy"},
        <<set("VaultProxy", "setVaultBuffer", "99.9%"),
          set("CurveUSDCStrategyProxy", "upgradeTo", v),
          set("CurveUSDTStrategyProxy", "upgradeTo", v)>>)
proposeAddAaveStrategyAndUpgradeCurveUsdt(v) ==
    proposeUpgrade({"AaveStrategyProxy", "CurveUSDTStrategy"},
        <<set("VaultProxy", "addStrategy", "AaveStrategyProxy"),
          set("CurveUSDTStrategyProxy", "upgradeTo", v)>>)
proposeSetVaultBuffer == proposeArgs(<<set("VaultProxy", "setVaultBuffer", "100%")>>)
proposeClaimAaveStrategy == claim(<<"AaveStrategyProxy">>)
proposeProp14 ==
    proposeUpgrade({"ChainlinkOracle"},
        [i \in 1 .. 3 |-> set("MixOracle", "registerTokenOracles",
                              <<"USDC", "USDT", "DAI">>[i])])
proposeProp17(v) ==
    proposeUpgrade({"VaultCore", "VaultAdmin"},
        <<set("VaultProxy", "upgradeTo", v), set("VaultProxy", "setAdminImpl", v),
          set("AaveStrategyProxy", "setRewardTokenAddress", "zero"),
          set("CompoundStrategyProxy", "setPTokenAddress", "USDC"),
          set("CompoundStrategyProxy", "setPTokenAddress", "USDT"),
          set("CompoundStrategyProxy", "setRewardLiquidationThreshold", "1"),
          set("CurveUSDCStrategyProxy", "setRewardLiquidationThreshold", "200"),
          set("CurveUSDTStrategyProxy", "setRewardLiquidationThreshold", "200")>>)
proposeSetRewardLiquidationThreshold ==
    proposeArgs(<<set("CompoundStrategyProxy", "setRewardLiquidationThreshold", "1")>>)
proposeLockAdjuster == proposeArgs(<<call("CompensationClaims", "lockAdjuster")>>)
proposeUnlockAdjuster == proposeArgs(<<call("CompensationClaims", "unlockAdjuster")>>)
proposeStartClaims == proposeArgs(<<set("CompensationClaims", "start", "duration")>>)
proposeSetAirDropRoot ==
    proposeArgs(<<set("OGNStakingProxy", "setAirDropRoot", "DROP_ROOT_HASH")>>)
proposeSettingUpdates ==
    proposeArgs(<<set("VaultProxy", "setVaultBuffer", "0.5%"),
                  set("CompoundStrategyProxy", "setRewardLiquidationThreshold", "0")>>)
proposeWithdrawAll ==
    proposeArgs(<<call("AaveStrategyProxy", "withdrawAll"),
                  call("CompoundStrategyProxy", "withdrawAll")>>)

\* The function the script chooses for its option.
argsMethod(v) ==
    [harvest |-> proposeHarvest, setUniswapAddr |-> proposeSetUniswapAddr(v),
     setRebaseHookAddr |-> proposeSetRebaseHookAddr(v),
     upgradeOusd |-> proposeUpgradeOusd(v),
     upgradeVaultCore |-> proposeUpgradeVaultCore(v),
     upgradeVaultCoreAndAdmin |-> proposeUpgradeVaultCoreAndAdmin(v),
     upgradeOracle |-> proposeUpgradeOracle(v),
     claimStrategies |-> proposeClaimStrategies,
     removeStrategy |-> proposeRemoveStrategy,
     addStrategies |-> proposeAddStrategies,
     upgradeCurveStrategies |-> proposeUpgradeCurveStrategies(v),
     setVaultBuffer |-> proposeSetVaultBuffer,
     addAaveStrategyAndUpgradeCurveUsdt |->
         proposeAddAaveStrategyAndUpgradeCurveUsdt(v),
     claimAaveStrategy |-> proposeClaimAaveStrategy,
     prop14 |-> proposeProp14, prop17 |-> proposeProp17(v),
     pauseCapital |-> proposePauseCapital, unpauseCapital |-> proposeUnpauseCapital,
     unpauseRebase |-> proposeUnpauseRebase,
     claimOGNStakingGovernance |-> proposeClaimOGNStaking,
     upgradeStaking |-> proposeUpgradeStaking(v),
     vaultv2Governance |-> proposeVaultv2Governance,
     ousdNewGovernor |-> proposeOusdNewGovernor, ousdv2Reset |-> proposeOusdv2Reset,
     setRewardLiquidationThreshold |-> proposeSetRewardLiquidationThreshold,
     lockAdjuster |-> proposeLockAdjuster, unlockAdjuster |-> proposeUnlockAdjuster,
     startClaims |-> proposeStartClaims, setMaxSupplyDiff |-> proposeSetMaxSupplyDiff,
     setAirDropRoot |-> proposeSetAirDropRoot,
     proposeSettingUpdates |-> proposeSettingUpdates,
     withdrawAll |-> proposeWithdrawAll]

\* The functions the contracts' interfaces do not have (any more).
Removed == {"setRebaseHooksAddr", "addStrategy", "reset", "setVaultAddress"}

\* Whether the contracts can be looked up and the calls encoded.
Encodable(p, contracts) ==
    /\ p.lookup \cup {p.calls[i].to : i \in DOMAIN p.calls} \subseteq contracts
    /\ \A i \in DOMAIN p.calls : p.calls[i].signature \notin Removed
-----------------------------------------------------------------------------
(* The Governor.                                                            *)

Write(slots, slot, value) ==
    [at \in DOMAIN slots \cup {slot} |-> IF at = slot THEN value ELSE slots[at]]

\* A call of an execution: the first that fails makes it revert.
Called(c, state) ==
    IF c.signature = "claimGovernance"
    THEN [state EXCEPT !.ok = @ /\ c.to \in state.named,
                       !.governed = @ \cup {c.to}]
    ELSE IF c.signature = "transferGovernance"
    THEN [state EXCEPT !.ok = @ /\ c.to \in state.governed, !.named = @ \cup {c.to}]
    ELSE [state EXCEPT
            !.ok = /\ @ /\ c.to \in state.governed
                   /\ c.signature = "removeStrategy" => c.arg \in state.strategies,
            !.strategies = IF c.signature = "removeStrategy" THEN @ \ {c.arg} ELSE @,
            !.slots = Write(@, <<c.to, c.signature>>, c.arg)]

\* What the calls of a proposal make of the chain, one after another.
AfterCalls(calls) ==
    LET after[i \in 0 .. Len(calls)] ==
            IF i = 0 THEN chain ELSE Called(calls[i], after[i - 1])
    IN  after

Executed(calls) == AfterCalls(calls)[Len(calls)]

CanQueue(id) == id \in DOMAIN proposals /\ proposals[id].state = "pending"
CanExecute(id) ==
    /\ id \in DOMAIN proposals /\ proposals[id].state = "ripe"
    /\ Executed(proposals[id].calls).ok

queue(id) ==
    /\ CanQueue(id)
    /\ proposals' = [proposals EXCEPT ![id].state = "queued"]

execute(id) ==
    /\ CanExecute(id)
    /\ chain' = Executed(proposals[id].calls)
    /\ proposals' = [proposals EXCEPT ![id].state = "executed"]

proposalCount == Len(proposals)
-----------------------------------------------------------------------------
Tools == {"propose", "dryRun", "executeProposal", "executeOnFork", "execute", "task"}
Phases == {"idle", "sent", "mined", "queue", "asleep", "ready", "done", "failed"}

Init ==
    /\ \E contracts \in Deployments : deployed = [contracts |-> contracts, version |-> 0]
    /\ \E claims \in {{}, {"AaveStrategyProxy"}} :
          chain = [ok |-> TRUE, governed |-> deployed.contracts \ claims, named |-> claims,
                   strategies |-> {"AaveStrategyProxy"},
                   slots |-> [s \in {<<"VaultProxy", "upgradeTo">>,
                                     <<"VaultProxy", "setAdminImpl">>} |-> 0]]
    /\ proposals = <<>>
    /\ scripts \in [Scripts -> [tool : Tools, phase : {"idle"}, option : {"none"},
                                calls : {<<>>}, before : {0}, own : {0}, id : {0}]]

\* New implementations are deployed.
Deploy ==
    /\ deployed.version < MaxVersion
    /\ deployed' = [deployed EXCEPT !.version = @ + 1]
    /\ UNCHANGED <<chain, proposals, scripts>>

\* A script makes the proposal of an option and sends it, or fails to encode it.
Send(s, option) ==
    LET p == argsMethod(deployed.version)[option]
    IN  scripts' = [scripts EXCEPT ![s] =
            IF Encodable(p, deployed.contracts)
            THEN [@ EXCEPT !.phase = "sent", !.option = option, !.calls = p.calls,
                           !.before = proposalCount]
            ELSE [@ EXCEPT !.phase = "failed"]]

\* propose.js or executeProposal up to the transaction it sends.
Start(s) ==
    /\ scripts[s].phase = "idle" /\ scripts[s].tool \in {"propose", "executeProposal"}
    /\ \E option \in Menu[s] : Send(s, option)
    /\ UNCHANGED <<deployed, chain, proposals>>

\* The tasks harvest and capital, of tasks/vault.js: on a fork they go on as
\* executeProposal; on mainnet the first refuses, and the second prints the calls
\* for the multi-sig.
harvest(s) ==
    /\ scripts[s].phase = "idle" /\ scripts[s].tool = "task"
    /\ \/ Send(s, "harvest")
       \/ scripts' = [scripts EXCEPT ![s].phase = "failed"]
    /\ UNCHANGED <<deployed, chain, proposals>>

capital(s, pause) ==
    /\ scripts[s].phase = "idle" /\ scripts[s].tool = "task"
    /\ \/ Send(s, IF pause THEN "pauseCapital" ELSE "unpauseCapital")
       \/ scripts' = [scripts EXCEPT ![s].phase = "done"]
    /\ UNCHANGED <<deployed, chain, proposals>>

\* Without --doIt nothing is sent, but an id is printed all the same.
DryRun(s) ==
    /\ scripts[s].phase = "idle" /\ scripts[s].tool = "dryRun"
    /\ scripts' = [scripts EXCEPT ![s].phase = "done", ![s].id = proposalCount]
    /\ UNCHANGED <<deployed, chain, proposals>>

propose(s) ==
    /\ scripts[s].phase = "sent"
    /\ proposals' = Append(proposals, [calls |-> scripts[s].calls, state |-> "pending",
                                       option |-> scripts[s].option])
    /\ scripts' = [scripts EXCEPT ![s].phase = "mined", ![s].own = Len(proposals')]
    /\ UNCHANGED <<deployed, chain>>

\* Faulty: the id is the count read before the proposal was made.
CountedBefore(s) ==
    /\ scripts[s].phase = "mined"
    /\ scripts' = [scripts EXCEPT ![s].id = scripts[s].before,
            ![s].phase = IF scripts[s].tool = "propose" THEN "done" ELSE "queue"]
    /\ UNCHANGED <<deployed, chain, proposals>>

\* The transaction is confirmed, and the script takes the count for the id.
newProposalId(s) ==
    /\ scripts[s].phase = "mined"
    /\ scripts' = [scripts EXCEPT ![s].id = proposalCount,
            ![s].phase = IF scripts[s].tool = "propose" THEN "done" ELSE "queue"]
    /\ UNCHANGED <<deployed, chain, proposals>>

\* The task execute looks at the state first; it queues only on a fork.
executeTask(s, id) ==
    /\ scripts[s].phase = "idle" /\ scripts[s].tool = "execute"
    /\ \E phase \in IF proposals[id].state \in {"queued", "ripe"} THEN {"ready"}
                    ELSE {"queue", "failed"} :
          scripts' = [scripts EXCEPT ![s].id = id, ![s].phase = phase]
    /\ UNCHANGED <<deployed, chain, proposals>>

executeProposalOnFork(s, id) ==
    /\ scripts[s].phase = "idle" /\ scripts[s].tool = "executeOnFork"
    /\ scripts' = [scripts EXCEPT ![s].id = id, ![s].phase = "queue"]
    /\ UNCHANGED <<deployed, chain, proposals>>

\* A script queues its proposal; a reverted call ends the script.
Queue(s) ==
    /\ scripts[s].phase = "queue"
    /\ \/ /\ queue(scripts[s].id)
          /\ scripts' = [scripts EXCEPT ![s].phase = "asleep"]
       \/ /\ ~CanQueue(scripts[s].id)
          /\ scripts' = [scripts EXCEPT ![s].phase = "failed"]
          /\ UNCHANGED proposals
    /\ UNCHANGED <<deployed, chain>>

\* It executes it a little more than the timelock's delay later, unless it was
\* queued when the task looked: then at once.
Execute(s) ==
    /\ \/ scripts[s].phase = "asleep" /\ proposals[scripts[s].id].state # "queued"
       \/ scripts[s].phase = "ready"
    /\ \/ /\ execute(scripts[s].id)
          /\ scripts' = [scripts EXCEPT ![s].phase = "done"]
       \/ /\ ~CanExecute(scripts[s].id)
          /\ scripts' = [scripts EXCEPT ![s].phase = "failed"]
          /\ UNCHANGED <<chain, proposals>>
    /\ UNCHANGED deployed

\* The guardian's multi-sig, and the timelock's delay.
Guardian(id) ==
    /\ \/ queue(id) /\ UNCHANGED chain
       \/ execute(id)
    /\ UNCHANGED <<deployed, scripts>>

Ripen(id) ==
    /\ proposals[id].state = "queued"
    /\ proposals' = [proposals EXCEPT ![id].state = "ripe"]
    /\ UNCHANGED <<deployed, chain, scripts>>

Next ==
    \/ Deploy
    \/ \E s \in Scripts, pause \in BOOLEAN : capital(s, pause)
    \/ \E s \in Scripts : \/ Start(s) \/ harvest(s) \/ DryRun(s)
                          \/ propose(s) \/ newProposalId(s)
                          \/ Queue(s) \/ Execute(s)
    \/ \E s \in Scripts, id \in DOMAIN proposals :
          executeTask(s, id) \/ executeProposalOnFork(s, id)
    \/ \E id \in DOMAIN proposals : Guardian(id) \/ Ripen(id)

\* Nodes mine what scripts send, and time passes.
Steps(s) == propose(s) \/ newProposalId(s) \/ Queue(s) \/ Execute(s)
Fairness ==
    /\ \A s \in Scripts : WF_proposalVars(Steps(s))
    /\ WF_proposalVars(\E id \in DOMAIN proposals : Ripen(id))

Spec == Init /\ [][Next]_proposalVars /\ Fairness
-----------------------------------------------------------------------------
\* The variables have their types.
TypeOK ==
    /\ deployed.contracts \in Deployments /\ deployed.version \in 0 .. MaxVersion
    /\ chain.ok /\ chain.strategies \subseteq {"AaveStrategyProxy"}
    /\ chain.named \cup chain.governed \subseteq deployed.contracts
    /\ \A i \in DOMAIN proposals :
          proposals[i].state \in {"pending", "queued", "ripe", "executed"}
    /\ \A s \in Scripts : /\ scripts[s].tool \in Tools /\ scripts[s].phase \in Phases
                          /\ {scripts[s].own, scripts[s].id} \subseteq 0 .. proposalCount

\* The id a script prints or goes on with is never that of a proposal made
\* before its own, and it is its own if none was made since it started.
IdIsRecent ==
    \A s \in Scripts : scripts[s].own > 0 /\ scripts[s].id > 0 =>
        /\ scripts[s].id >= scripts[s].own
        /\ proposalCount = scripts[s].before + 1 => scripts[s].id = scripts[s].own

\* Whatever is proposed, queued and executed in whatever order, the two halves
\* of the vault are of one version, unless only one was asked to be upgraded.
CoreAndAdminMatch ==
    \/ chain.slots[<<"VaultProxy", "upgradeTo">>] =
          chain.slots[<<"VaultProxy", "setAdminImpl">>]
    \/ \E i \in DOMAIN proposals : proposals[i].option = "upgradeVaultCore"

\* A script that has sent its proposal, or was told which one, comes to an end.
ScriptsEnded == \A s \in Scripts : scripts[s].phase \in {"idle", "done", "failed"}
=============================================================================

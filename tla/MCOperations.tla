----------------------------- MODULE MCOperations -----------------------------
(* The scripts that deploy, upgrade, verify, govern and translate, and the     *)
(* contracts of MCRewards, one at a time: they do not share state, so the run  *)
(* chooses a part and the others stand still.                                  *)
EXTENDS MCRewards, Operations

\* Proposals made by scripts, on two networks.
Alfajores == {"VaultProxy", "Vault", "VaultCore", "VaultAdmin", "OUSDProxy", "OUSD",
              "OracleRouter", "Governor", "AaveStrategyProxy", "AaveStrategy",
              "FlipperDev"}
WithOthers == Alfajores \cup {"MixOracle", "ChainlinkOracle", "CompoundStrategyProxy",
                              "CompoundStrategy", "SingleAssetStaking",
                              "CompensationClaims"}
TwoNetworks == {Alfajores, WithOthers}
Asked == <<{"harvest", "setUniswapAddr", "setRebaseHookAddr", "upgradeOusd",
            "upgradeVaultCore", "upgradeVaultCoreAndAdmin", "upgradeOracle",
            "claimStrategies", "removeStrategy", "addStrategies",
            "upgradeCurveStrategies", "setVaultBuffer", "claimAaveStrategy", "prop14",
            "prop17", "ousdNewGovernor", "vaultv2Governance", "ousdv2Reset",
            "startClaims", "withdrawAll"},
           {"upgradeVaultCoreAndAdmin"}>>

\* Deployment.
VARIABLES network, facts, unmined, finished, running, crashes, late
D == INSTANCE Deployment WITH Networks <- {"localhost", "alfajores"}, MaxCrashes <- 1

\* Verification: all contracts or some by name.
ByName == {<<>>, <<"Vault">>, <<"MockDAI">>, <<"Vault", "OUSD">>}

\* Translations, from the source to the files of three locales.  Braces stand
\* around variables.
VARIABLES phrase, messages, crowdin, fbt, public, converting, deliveries, runs, stored,
          dropdown, shown, loaded, calls, made, failures, overlapped
Texts == {<<"{", "x", "}", "{", "=", "x", "}">>, <<"{", "=", "x", "_", "}", "x">>}
T == INSTANCE Translations WITH
        Phrases <- Texts, Locales <- <<"ko_KR", "tr_TR", "zh_CN">>,
        Languages <- {"en_US", "ko_KR", "zh_CN"}, MaxDeliveries <- 2, MaxRuns <- 2,
        MaxCalls <- 0, MaxFailures <- 1

deploymentVars == <<network, facts, unmined, finished, running, crashes, late>>
translationVars == <<phrase, messages, crowdin, fbt, public, converting, deliveries,
                     runs, stored, dropdown, shown, loaded, calls, made, failures,
                     overlapped>>
toolVars == <<proposalVars, deploymentVars, upgradeVars, verificationVars,
              translationVars>>

\* One script is of any kind, the other makes proposals; one network lacks the
\* contracts of the earlier deployments.
OneToolEach ==
    /\ scripts[1].tool \in {"propose", "executeProposal", "dryRun", "task"}
    /\ scripts[2].tool \notin {"dryRun", "task"}
    /\ scripts[1].tool # "propose" => scripts[2].tool = "propose"
    /\ deployed.contracts = Alfajores <=> chain.named # {}

ToolsInit ==
    /\ P!Init /\ OneToolEach
    /\ part # "proposals" =>
          deployed.contracts = Alfajores /\ \A s \in {1, 2} : scripts[s].tool = "propose"
    /\ D!Init
    /\ part # "deployment" => network = "localhost"
    /\ U!Init
    /\ part # "upgrades" => source = <<>> /\ ~mainnet
    /\ V!Init
    /\ part # "verification" => deployments = <<>> /\ ~supported
    /\ T!Init /\ stored = ""
    /\ part # "translations" => Len(phrase) = 7

ToolsNext ==
    \/ /\ part = "proposals" /\ P!Next
       /\ UNCHANGED <<deploymentVars, upgradeVars, verificationVars, translationVars>>
    \/ /\ part = "deployment" /\ D!Next
       /\ UNCHANGED <<proposalVars, upgradeVars, verificationVars, translationVars>>
    \/ /\ part = "upgrades" /\ U!Next
       /\ UNCHANGED <<proposalVars, deploymentVars, verificationVars, translationVars>>
    \/ /\ part = "verification" /\ V!Next
       /\ UNCHANGED <<proposalVars, deploymentVars, upgradeVars, translationVars>>
    \/ /\ part = "translations" /\ T!Next
       /\ UNCHANGED <<proposalVars, deploymentVars, upgradeVars, verificationVars>>

OperationsInit ==
    /\ part \in {"compensation", "staking", "liquidity", "proposals", "deployment",
                 "upgrades", "verification", "translations"}
    /\ RewardsInit /\ ToolsInit

OperationsNext ==
    /\ UNCHANGED part
    /\ \/ RewardsNext /\ UNCHANGED toolVars
       \/ ToolsNext /\ UNCHANGED rewardVars

\* The fairness of Proposals, Deployment and Verification, once that part is chosen.
OperationsSpec ==
    /\ OperationsInit /\ [][OperationsNext]_<<part, toolVars, rewardVars>>
    /\ WF_proposalVars(part = "proposals" /\ P!Steps(1))
    /\ WF_proposalVars(part = "proposals" /\ P!Steps(2))
    /\ WF_proposalVars(part = "proposals" /\ \E id \in DOMAIN proposed : P!Ripen(id))
    /\ WF_deploymentVars(part = "deployment" /\ D!Step)
    /\ WF_deploymentVars(part = "deployment" /\ D!Return)
    /\ WF_deploymentVars(part = "deployment" /\ D!Rerun)
    /\ WF_deploymentVars(part = "deployment" /\ \E fact \in unmined : D!Mine(fact))
    /\ WF_verificationVars(part = "verification" /\ V!Step)
    /\ \A name \in {"Vault", "OUSD", "MockDAI"} :
          WF_verificationVars(part = "verification" /\ V!Processed(name))
-----------------------------------------------------------------------------
\* Deposits are open only in a vault that is configured.
OpenIsConfigured == part = "deployment" => D!TypeOK /\ D!OpenIsConfigured

\* No text that reaches fbt or the page has lost or changed a variable.
TranslationsTrue == part = "translations" => T!TypeOK /\ T!VariablesKept

\* No contract is initialized again, no implementation comes into use whose layout
\* does not extend the one before, and an exit forgets no stake.
NothingUndone == D!NeverInitializedAgain /\ U!UpgradesExtend /\ Stk!ExitForgetsNothing

\* In the end every script has ended and what it sent without waiting is mined,
\* and a deployment that does not die half way has finished, handed to the governor.
ToolsEnd ==
    <>[](/\ P!ScriptsEnded
         /\ part = "deployment" => D!MocksComplete /\ D!DeploymentFinished
         /\ V!VerificationEnded)
=============================================================================

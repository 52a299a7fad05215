------------------------------ MODULE Deployment ------------------------------
(***************************************************************************)
(* The deployment of the contracts: deploy/000_mock.js and                  *)
(* deploy/001_core.js, run in this order by hardhat-deploy, which records   *)
(* what was deployed and which script has finished.                         *)
(*                                                                         *)
(* A step sends a transaction: it needs some facts to hold on the chain and *)
(* others not to, or it reverts and ends the script.  A script may die at   *)
(* any step and be run again from its first.                                *)
(***************************************************************************)
EXTENDS Naturals, SequencesExt

CONSTANTS Networks,     \* "localhost", "alfajores"
          MaxCrashes    \* bound: how often a script dies

VARIABLES network,
          facts,        \* what holds on the chain
          unmined,      \* what the transactions nobody waits for will make hold
          finished,     \* the scripts in .migrations.json
          running,      \* the script that runs, its step and how it is
          crashes,
          late          \* history: one died after the first proxy was initialized

deploymentVars == <<network, facts, unmined, finished, running, crashes, late>>
-----------------------------------------------------------------------------
(* Steps.                                                                   *)

tx(needs, lacks, makes, drops) ==
    [needs |-> needs, lacks |-> lacks, makes |-> makes, drops |-> drops,
     await |-> TRUE, reuse |-> FALSE]

\* hardhat-deploy takes a contract that is deployed already as it is.
deployWithConfirmation(contract) ==
    [tx({}, {}, {contract}, {}) EXCEPT !.reuse = TRUE]

Deployed(contracts) ==
    [i \in DOMAIN contracts |-> deployWithConfirmation(contracts[i])]

\* A call on the vault that may be repeated, once its admin half is there.
onVault(makes) == tx({"VaultAdmin set"}, {}, {makes}, {})

\* The deployer hands a contract to the governor, who claims it.
handOver(contract) ==
    <<tx({contract, contract \o " of the deployer"}, {}, {contract \o " offered"}, {}),
      tx({contract \o " offered"}, {}, {contract \o " of the governor"},
         {contract \o " of the deployer"})>>

\* The deployer initializes a proxy, which has no implementation yet.
initializeProxy(proxy, logic, to) ==
    tx({proxy, logic, proxy \o " of the deployer"}, {proxy \o " initialized"},
       {proxy \o " initialized", proxy \o " has " \o logic, proxy \o " of the " \o to},
       {proxy \o " of the deployer"})

initialize(contract, needs) ==
    tx(needs, {contract \o " set up"}, {contract \o " set up"}, {})
-----------------------------------------------------------------------------
(* 000_mock.js.  Nobody waits for the two calls of addAToken.               *)

addAToken(token) ==
    [tx({token, "MockAave"}, {}, {"MockAave knows " \o token}, {})
        EXCEPT !.await = FALSE]

deployMocks ==
    Deployed(<<"MockMOO", "MockUBE", "MockCELO", "MockCUSD", "MockCEUR",
               "MockNonStandardToken", "MockAave", "MockVault", "MockMCUSD">>)
    \o <<addAToken("MockMCUSD"), deployWithConfirmation("MockMCEUR"),
         addAToken("MockMCEUR")>>
    \o Deployed(<<"MockUniswapRouter", "MockMCUSDMEURLPToken", "MockUbeStaking",
                  "MockNonRebasing", "MockNonRebasingTwo">>)
-----------------------------------------------------------------------------
(* 001_core.js.                                                             *)

deployOracles(net) ==
    Deployed(<<"OracleRouter">>)
    \o IF net = "alfajores" THEN <<>>
       ELSE <<tx({"OracleRouter"}, {}, {"cUSD priced"}, {}),
              tx({"OracleRouter"}, {}, {"cEUR priced"}, {})>>

deployCore ==
    Deployed(<<"OUSDProxy", "VaultProxy", "OUSD", "Vault", "VaultCore", "VaultAdmin",
               "Governor">>)
    \o <<initializeProxy("OUSDProxy", "OUSD", "governor"),
         initializeProxy("VaultProxy", "Vault", "governor"),
         tx({"VaultProxy has Vault", "OracleRouter"}, {"Vault set up"},
            {"Vault set up", "capital paused"}, {}),
         tx({"VaultProxy initialized", "VaultCore"}, {}, {"VaultProxy has VaultCore"},
            {"VaultProxy has Vault"}),
         tx({"VaultProxy has VaultCore", "VaultAdmin"}, {}, {"VaultAdmin set"}, {}),
         initialize("OUSD", {"OUSDProxy has OUSD", "VaultProxy"})>>

configureUniswapRouterBeforeStrategy ==
    <<onVault("Uniswap set"),
      tx({"MockUniswapRouter", "MockMCUSDMEURLPToken"}, {}, {"the router knows the pair"},
         {})>>

deployAaveStrategy ==
    Deployed(<<"AaveStrategyProxy", "AaveStrategy">>)
    \o <<initializeProxy("AaveStrategyProxy", "AaveStrategy", "deployer"),
         initialize("AaveStrategy",
                    {"AaveStrategyProxy has AaveStrategy",
                     "AaveStrategyProxy of the deployer", "Uniswap set",
                     "the router knows the pair"})>>
    \o handOver("AaveStrategyProxy")

supportAsset(asset) ==
    tx({"VaultAdmin set", "OracleRouter"}, {asset \o " supported"},
       {asset \o " supported"}, {})

setAssetDefaultStrategy(asset) ==
    tx({"AaveStrategy approved", asset \o " supported", "AaveStrategy set up"}, {},
       {asset \o " has a strategy"}, {})

unpauseCapital ==
    tx({"VaultAdmin set"}, {}, {"capital unpaused"}, {"capital paused"})

\* Faulty: deposits are possible before they are configured.
UnpausedFirst(net) ==
    <<onVault("Uniswap set"), onVault("CELO set"), onVault("strategist set"),
      supportAsset("cUSD"), supportAsset("cEUR")>>
    \o IF net = "localhost" THEN <<>>
       ELSE <<unpauseCapital,
              tx({"VaultAdmin set"}, {"AaveStrategy approved"},
                 {"AaveStrategy approved"}, {}),
              setAssetDefaultStrategy("cUSD"), setAssetDefaultStrategy("cEUR")>>

\* Strategies, fees and thresholds are left to the tests on a local node.
configureVault(net) ==
    <<onVault("Uniswap set"), onVault("CELO set"), onVault("strategist set"),
      supportAsset("cUSD"), supportAsset("cEUR")>>
    \o IF net = "localhost" THEN <<>>
       ELSE <<onVault("buffer set"), onVault("redeem fee set"),
              tx({"VaultAdmin set"}, {"AaveStrategy approved"},
                 {"AaveStrategy approved"}, {}),
              setAssetDefaultStrategy("cUSD"), setAssetDefaultStrategy("cEUR"),
              unpauseCapital, onVault("trustee set"), onVault("trustee fee set"),
              onVault("allocation threshold set"), onVault("rebase threshold set")>>

deployFlipper == Deployed(<<"FlipperDev">>) \o handOver("FlipperDev")

core(net) ==
    deployOracles(net) \o deployCore \o configureUniswapRouterBeforeStrategy
    \o deployAaveStrategy \o configureVault(net) \o deployFlipper

BothScripts == {"000_mock", "001_core"}
Steps(script) == IF script = "000_mock" THEN deployMocks ELSE core(network)
-----------------------------------------------------------------------------
Init ==
    /\ network \in Networks
    /\ facts = {} /\ unmined = {} /\ finished = {}
    /\ running = [script |-> "000_mock", step |-> 1, status |-> "running"]
    /\ crashes = 0 /\ late = FALSE

Owned(contracts) == {c \o " of the deployer" : c \in contracts}

\* What a step's transaction leaves on the chain; the deployer is the first
\* governor of a contract.
Made(s) == (facts \ s.drops) \cup s.makes \cup IF s.reuse THEN Owned(s.makes) ELSE {}

\* The script's next step, unless it reverts.
Step ==
    /\ running.status = "running" /\ running.step \in DOMAIN Steps(running.script)
    /\ LET s == Steps(running.script)[running.step]
           works == s.needs \subseteq facts /\ s.lacks \cap facts = {}
       IN  \/ /\ works
              /\ running' = [running EXCEPT !.step = @ + 1]
              /\ IF s.reuse /\ s.makes \subseteq facts THEN UNCHANGED <<facts, unmined>>
                 ELSE IF s.await THEN facts' = Made(s) /\ UNCHANGED unmined
                 ELSE unmined' = unmined \cup s.makes /\ UNCHANGED facts
           \/ /\ ~works
              /\ running' = [running EXCEPT !.status = "failed"]
              /\ UNCHANGED <<facts, unmined>>
    /\ UNCHANGED <<network, finished, crashes, late>>

\* A script that returns is not run again; the next one starts.
Return ==
    /\ running.status = "running" /\ running.step = Len(Steps(running.script)) + 1
    /\ finished' = finished \cup {running.script}
    /\ running' = IF running.script = "000_mock"
                  THEN [script |-> "001_core", step |-> 1, status |-> "running"]
                  ELSE [running EXCEPT !.status = "done"]
    /\ UNCHANGED <<network, facts, unmined, crashes, late>>

Mine(fact) ==
    /\ fact \in unmined
    /\ unmined' = unmined \ {fact}
    /\ facts' = facts \cup {fact}
    /\ UNCHANGED <<network, finished, running, crashes, late>>

\* The script dies between two steps: the node or the connection fails.
Crash ==
    /\ running.status = "running" /\ crashes < MaxCrashes
    /\ crashes' = crashes + 1
    /\ late' = (late \/ "OUSDProxy initialized" \in facts)
    /\ running' = [running EXCEPT !.status = "died"]
    /\ UNCHANGED <<network, facts, unmined, finished>>

\* The deployment is run again: what has not finished starts from the first step.
Rerun ==
    /\ running.status \in {"failed", "died"}
    /\ running' = [running EXCEPT !.step = 1, !.status = "running"]
    /\ UNCHANGED <<network, facts, unmined, finished, crashes, late>>

Next == Step \/ Return \/ Crash \/ Rerun \/ \E fact \in unmined : Mine(fact)

\* Scripts go on, those that failed are run again, and nodes mine.
Fairness ==
    /\ WF_deploymentVars(Step) /\ WF_deploymentVars(Return)
    /\ WF_deploymentVars(Rerun)
    /\ WF_deploymentVars(\E fact \in unmined : Mine(fact))

Spec == Init /\ [][Next]_deploymentVars /\ Fairness
-----------------------------------------------------------------------------
\* The variables have their types.
TypeOK ==
    /\ network \in Networks /\ finished \subseteq BothScripts
    /\ facts \subseteq STRING /\ unmined \subseteq STRING
    /\ running.script \in BothScripts /\ running.status \in {"running", "failed", "died", "done"}
    /\ running.step \in 1 .. Len(Steps(running.script)) + 1
    /\ crashes \in 0 .. MaxCrashes

\* Wherever the deployment dies, deposits are possible only once the token takes
\* them from this vault, assets have their strategies, and these are governed.
OpenIsConfigured ==
    "capital unpaused" \in facts =>
        {"OUSD set up", "cUSD supported", "cEUR supported", "cUSD has a strategy",
         "cEUR has a strategy", "AaveStrategyProxy of the governor"} \subseteq facts

\* A deployment that is run again does not set the vault back to its initializer.
NeverInitializedAgain ==
    [][{"VaultProxy has VaultCore"} \cap facts \subseteq facts']_deploymentVars

\* A deployment that does not die, or only before the first proxy is
\* initialized, has finished in the end, and everything is handed to the governor.
DeploymentFinished ==
    late \/ /\ finished = BothScripts
            /\ {"OUSDProxy of the governor", "VaultProxy of the governor",
                "AaveStrategyProxy of the governor",
                "FlipperDev of the governor"} \subseteq facts

\* Once the mocks are deployed, the lending pool comes to know both aTokens.
MocksComplete ==
    "000_mock" \in finished =>
        {"MockAave knows MockMCUSD", "MockAave knows MockMCEUR"} \subseteq facts
=============================================================================

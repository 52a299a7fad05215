----------------------------- MODULE Operations -----------------------------
(***************************************************************************)
(* Scripts that are run by hand, beside each other: those that propose to   *)
(* the governor, the check of storage layouts before an upgrade, and the    *)
(* verification of sources.  They share nothing.                            *)
(***************************************************************************)
EXTENDS SequencesExt

\* Proposals made by scripts.
CONSTANTS Scripts, Menu, Deployments, NoArgument, MaxVersion

VARIABLES deployed, chain, proposed, scripts

P == INSTANCE Proposals WITH proposals <- proposed

ASSUME DeploymentsAssumption ==
    /\ MaxVersion \in Nat
    /\ \A contracts \in Deployments : "AaveStrategyProxy" \in contracts
ASSUME MenuAssumption == \A s \in Scripts : Menu[s] \subseteq DOMAIN P!argsMethod(0)

\* Storage layouts.
CONSTANTS Variables, MaxVariables, NoFile, MaxDeployments

VARIABLES mainnet, source, file, script, implementations, inUse, outdated

U == INSTANCE Upgrades

ASSUME LayoutsAssumption ==
    /\ MaxVariables \in Nat /\ MaxDeployments \in Nat
    /\ NoFile \notin U!Layouts

\* Verification.
CONSTANTS Contracts, Skipped, Arguments, MaxStarts, MaxFaults

VARIABLES deployments, supported, etherscan, left, verifier, reports, starts, faults

V == INSTANCE Verification WITH script <- verifier

ASSUME ArgumentsAssumption == Arguments \subseteq Seq(Contracts)

proposalVars == <<deployed, chain, proposed, scripts>>
upgradeVars == <<mainnet, source, file, script, implementations, inUse, outdated>>
verificationVars == <<deployments, supported, etherscan, left, verifier, reports,
                      starts, faults>>
-----------------------------------------------------------------------------
\* A script goes on with its own proposal or a later one, and the halves of the
\* vault are of one version.
ProposalsTrue == P!TypeOK /\ P!IdIsRecent /\ P!CoreAndAdminMatch

\* What is said to be verified is, and nothing is left out in silence.
VerificationTrue == V!TypeOK /\ V!SaidIsVerified /\ V!AllReported
=============================================================================

------------------------------- MODULE Upgrades -------------------------------
(***************************************************************************)
(* The check of storage layouts before an upgrade, tasks/storageSlots.js,   *)
(* as deployWithConfirmation of utils/deploy.js uses it, for one contract   *)
(* behind a proxy.                                                          *)
(*                                                                         *)
(* A layout is the sequence of the contract's variables.  Each deployment   *)
(* is compared with the layout in the repository's file, which on mainnet   *)
(* becomes that of the deployment afterwards; which implementation the      *)
(* proxy uses is decided later, by a proposal.                              *)
(***************************************************************************)
EXTENDS Naturals, SequencesExt

CONSTANTS Variables,    \* a contract may declare
          MaxVariables, \* bound: the variables of one version
          NoFile,       \* the contract is new
          MaxDeployments

VARIABLES mainnet,      \* whether the network is mainnet
          source,       \* the layout of the source
          file,         \* the layout in the file
          script,       \* deployWithConfirmation
          implementations, \* the layouts deployed, in their order
          inUse,        \* the number of the one the proxy uses
          outdated      \* history: the file was not the last deployment's when
                        \* it was used

upgradeVars == <<mainnet, source, file, script, implementations, inUse, outdated>>

Layouts == BoundedSeq(Variables, MaxVariables)

Init ==
    /\ mainnet \in BOOLEAN
    /\ source \in Layouts
    /\ file = NoFile
    /\ script = "idle"
    /\ implementations = <<>> /\ inUse = 0
    /\ outdated = FALSE

\* The developers change the source.
Edit(layout) ==
    /\ script = "idle" /\ layout # source /\ Len(implementations) < MaxDeployments
    /\ source' = layout
    /\ UNCHANGED <<mainnet, file, script, implementations, inUse, outdated>>

\* What assertStorageUpgradeSafe accepts: variables are only added, at the end.
assertStorageUpgradeSafe(old, new) == IsPrefix(old, new)

Outdated == implementations # <<>> /\ file # Last(implementations)

\* A contract without a file counts as new.
assertUpgradeIsSafe ==
    /\ script = "idle" /\ Len(implementations) < MaxDeployments
    /\ file # NoFile => assertStorageUpgradeSafe(file, source)
    /\ script' = "checked"
    /\ outdated' = (outdated \/ Outdated)
    /\ UNCHANGED <<mainnet, source, file, implementations, inUse>>

Deploy ==
    /\ script = "checked"
    /\ implementations' = Append(implementations, source)
    /\ script' = IF mainnet THEN "deployed" ELSE "idle"
    /\ UNCHANGED <<mainnet, source, file, inUse, outdated>>

storeStorageLayoutForContract ==
    /\ script = "deployed"
    /\ file' = source
    /\ script' = "idle"
    /\ UNCHANGED <<mainnet, source, implementations, inUse, outdated>>

\* The task stores the layout of the source, whether it was deployed or not.
storeStorageLayoutForAllContracts ==
    /\ script = "idle" /\ implementations # <<>> /\ file # source
    /\ file' = source
    /\ UNCHANGED <<mainnet, source, script, implementations, inUse, outdated>>

Crash ==
    /\ script # "idle"
    /\ script' = "idle"
    /\ UNCHANGED <<mainnet, source, file, implementations, inUse, outdated>>

\* The proxy is upgraded to what was deployed last.
upgradeTo ==
    /\ inUse < Len(implementations)
    /\ inUse' = Len(implementations)
    /\ UNCHANGED <<mainnet, source, file, script, implementations, outdated>>

Next ==
    \/ \E layout \in Layouts : Edit(layout)
    \/ assertUpgradeIsSafe \/ Deploy \/ storeStorageLayoutForContract
    \/ storeStorageLayoutForAllContracts \/ Crash \/ upgradeTo

Spec == Init /\ [][Next]_upgradeVars
-----------------------------------------------------------------------------
\* The variables have their types.
TypeOK ==
    /\ mainnet \in BOOLEAN /\ outdated \in BOOLEAN
    /\ source \in Layouts /\ file \in Layouts \cup {NoFile}
    /\ script \in {"idle", "checked", "deployed"}
    /\ implementations \in BoundedSeq(Layouts, MaxDeployments)
    /\ inUse \in 0 .. Len(implementations)

\* An upgrade keeps every variable where it is, although what it is checked
\* against may never have been in use, unless a check met an outdated file: one
\* the last deployment did not get to store, or one a task stored for it.
UpgradesExtend ==
    [][inUse > 0 /\ ~outdated =>
          IsPrefix(implementations[inUse], implementations'[inUse'])]_upgradeVars
=============================================================================

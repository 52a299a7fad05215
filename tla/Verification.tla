---------------------------- MODULE Verification ----------------------------
(***************************************************************************)
(* scripts/etherscan/etherscanVerify.js: the sources of the deployed        *)
(* contracts are sent to Etherscan one after another, and the script polls  *)
(* until Etherscan says what became of each.                                *)
(*                                                                         *)
(* Etherscan is outside the repository: it takes a source or not, works it  *)
(* off in the end, and its answers can be lost, which ends the script, or   *)
(* be a refusal to answer so many requests.  What is sent is left out.      *)
(***************************************************************************)
EXTENDS Naturals, Sequences

CONSTANTS Contracts,   \* names of contracts
          Skipped,     \* those that are mocks or deprecated
          Arguments,   \* the lists of names the script may be given
          MaxStarts,   \* bound: runs of the script
          MaxFaults    \* bound: answers that are lost or refused

VARIABLES deployments, \* the contracts deployed on the network, in their order
          supported,   \* whether the network has an Etherscan
          etherscan,   \* what Etherscan knows of each contract
          left,        \* the names the script has still to go through
          script, reports, starts, faults

verificationVars == <<deployments, supported, etherscan, left, script, reports, starts,
                      faults>>
SeqRange(s) == {s[i] : i \in DOMAIN s}

Init ==
    /\ deployments \in {s \in UNION {[1 .. n -> Contracts] : n \in 0 .. 3} :
                           \A i, j \in DOMAIN s : s[i] = s[j] => i = j}
    /\ supported \in BOOLEAN
    /\ etherscan = [c \in Contracts |-> "unknown"]
    /\ left = <<>>
    /\ script = "idle"
    /\ reports = [c \in Contracts |-> "none"]
    /\ starts = 0 /\ faults = 0

\* main: all that are deployed, or the one that was asked for.
main(params) ==
    /\ script = "idle" /\ starts < MaxStarts
    /\ starts' = starts + 1
    /\ left' = CASE params = <<>> -> deployments
                 [] Len(params) = 1 /\ params[1] \in SeqRange(deployments) -> params
                 [] OTHER -> <<>>
    /\ script' = IF params = <<>> THEN "all" ELSE "one"
    /\ reports' = [c \in Contracts |-> "none"]
    /\ UNCHANGED <<deployments, supported, etherscan, faults>>

\* Only the loop over all contracts skips any.
Skip ==
    /\ script = "all" /\ left # <<>> /\ Head(left) \in Skipped
    /\ left' = Tail(left)
    /\ UNCHANGED <<deployments, supported, etherscan, script, reports, starts, faults>>

Report(name, what) ==
    /\ reports' = [reports EXCEPT ![name] = what]
    /\ left' = Tail(left)

\* verifyContract up to the answer to its submission: the network is not
\* supported, the source is taken, or it is refused, as it is for a contract that
\* has been verified before.
Due == left # <<>> /\ (script = "one" \/ (script = "all" /\ Head(left) \notin Skipped))
verifyContract ==
    /\ Due
    /\ LET name == Head(left) IN
       \/ /\ ~supported
          /\ Report(name, "unsupported")
          /\ UNCHANGED <<etherscan, script>>
       \/ /\ supported /\ etherscan[name] # "verified"
          /\ etherscan' = [etherscan EXCEPT ![name] = "queued"]
          /\ script' = IF script = "all" THEN "pollsAll" ELSE "pollsOne"
          /\ UNCHANGED <<reports, left>>
       \/ /\ supported
          /\ Report(name, "failed")
          /\ UNCHANGED <<etherscan, script>>
    /\ UNCHANGED <<deployments, supported, starts, faults>>

Polling == script \in {"pollsAll", "pollsOne"}
Resumed == script' = IF script = "pollsAll" THEN "all" ELSE "one"

\* Faulty: what is not a failure is a success.
AnythingElse ==
    /\ Polling
    /\ LET name == Head(left)
           result == IF etherscan[name] = "rejected" THEN "failed" ELSE "verified"
       IN  Report(name, result) /\ Resumed
    /\ UNCHANGED <<deployments, supported, etherscan, starts, faults>>

\* Faulty: only success ends the polling.
SuccessOnly ==
    /\ Polling
    /\ LET name == Head(left) IN
       /\ etherscan[name] = "verified"
       /\ Report(name, "verified") /\ Resumed
    /\ UNCHANGED <<deployments, supported, etherscan, starts, faults>>

\* An answer to checkStatus that is not "Pending in queue" ends the polling; any
\* other than success is reported as failure, a refusal to answer too.
checkStatus ==
    /\ Polling
    /\ LET name == Head(left) IN
       \/ /\ etherscan[name] \in {"verified", "rejected"}
          /\ Report(name, IF etherscan[name] = "verified" THEN "verified" ELSE "failed")
          /\ UNCHANGED faults
       \/ /\ faults < MaxFaults
          /\ faults' = faults + 1
          /\ Report(name, "failed")
    /\ Resumed
    /\ UNCHANGED <<deployments, supported, etherscan, starts>>

\* The loop is over: exit code 0.
Finish ==
    /\ script \in {"all", "one"} /\ left = <<>>
    /\ script' = IF script = "all" THEN "finished" ELSE "idle"
    /\ UNCHANGED <<deployments, supported, etherscan, left, reports, starts, faults>>

\* A source that cannot be flattened or a request without an answer: exit code 1,
\* whatever is left.
Throw ==
    /\ Due \/ Polling
    /\ faults < MaxFaults
    /\ faults' = faults + 1
    /\ script' = "idle" /\ left' = <<>>
    /\ UNCHANGED <<deployments, supported, etherscan, reports, starts>>

\* Etherscan works a source off.
Processed(name) ==
    /\ etherscan[name] = "queued"
    /\ \E result \in {"verified", "rejected"} :
          etherscan' = [etherscan EXCEPT ![name] = result]
    /\ UNCHANGED <<deployments, supported, left, script, reports, starts, faults>>

Again ==
    /\ script = "finished" /\ script' = "idle"
    /\ UNCHANGED <<deployments, supported, etherscan, left, reports, starts, faults>>

Step == Skip \/ verifyContract \/ checkStatus \/ Finish

Next ==
    \/ \E params \in Arguments : main(params)
    \/ Step \/ Throw \/ Again
    \/ \E name \in Contracts : Processed(name)

Fairness ==
    /\ WF_verificationVars(Step)
    /\ \A name \in Contracts : WF_verificationVars(Processed(name))

Spec == Init /\ [][Next]_verificationVars /\ Fairness
-----------------------------------------------------------------------------
\* The variables have their types.
TypeOK ==
    /\ SeqRange(deployments) \subseteq Contracts /\ SeqRange(left) \subseteq Contracts
    /\ etherscan \in [Contracts -> {"unknown", "queued", "verified", "rejected"}]
    /\ script \in {"idle", "all", "one", "pollsAll", "pollsOne", "finished"}
    /\ reports \in [Contracts -> {"none", "unsupported", "failed", "verified"}]

\* "contract is now verified" is only said of contracts Etherscan has verified,
\* however the polling and Etherscan's queue interleave and the script is rerun.
SaidIsVerified ==
    \A c \in Contracts : reports[c] = "verified" => etherscan[c] = "verified"

\* A run over all contracts that exits with success has said of each, but the
\* mocks and the deprecated, what became of it.
AllReported ==
    script = "finished" =>
        \A c \in SeqRange(deployments) \ Skipped : reports[c] # "none"

\* The script comes to an end, if Etherscan works off what it has taken.
VerificationEnded == script \in {"idle", "finished"}
=============================================================================

----------------------------- MODULE Compensation -----------------------------
(***************************************************************************)
(* Compensation claims: the contract CompensationClaims.sol, and the script *)
(* compensationSync.js by which the adjuster uploads the claims of a csv    *)
(* file, in batches, and verifies them.                                     *)
(*                                                                         *)
(* The adjuster's transactions are mined in the order they are sent; a      *)
(* script that dies leaves the last one behind.  The script sees the chain  *)
(* one call at a time.                                                      *)
(***************************************************************************)
EXTENDS Tally, Sequences

CONSTANTS Accounts,
          MaxClaim,     \* the largest claim
          Csvs,         \* files: accounts -> amounts, for the accounts they list
          BatchSize,
          MaxRuns,      \* bound: runs of the script
          MaxFunds,     \* bound: what the contract is given
          MaxPeriods    \* bound: claim periods

ASSUME AccountsAssumption == IsFiniteSet(Accounts)
ASSUME ClaimAssumption == MaxClaim \in Nat
ASSUME CsvAssumption ==
    \A csv \in Csvs : DOMAIN csv \subseteq Accounts /\ csv \in [DOMAIN csv -> 0 .. MaxClaim]
ASSUME BatchAssumption == BatchSize \in Nat \ {0}

VARIABLES claims, totalClaims, isAdjusterLocked,
          inPeriod,     \* block.timestamp <= end
          periods,      \* how many there were
          funds,        \* the contract's balance of the token
          pending,      \* the adjuster's transactions, not mined
          sync,         \* the script that compares and uploads
          disturbed     \* history: something happened to the contract that this
                        \* run of the script did not do

contractVars == <<claims, totalClaims, isAdjusterLocked, inPeriod, periods, funds>>
scriptVars == <<pending, sync, disturbed>>
compensationVars == <<contractVars, scriptVars>>

Nobody == [a \in {} |-> 0]

Init ==
    /\ claims = [a \in Accounts |-> 0]
    /\ totalClaims = 0
    /\ isAdjusterLocked = TRUE
    /\ inPeriod = FALSE /\ periods = 0
    /\ funds = 0
    /\ pending = <<>>
    /\ sync = [runs |-> 0, phase |-> "idle", said |-> "nothing", csv |-> Nobody,
                 doIt |-> FALSE, after |-> FALSE, unread |-> {}, incorrect |-> {}]
    /\ disturbed = FALSE
-----------------------------------------------------------------------------
(* The contract.                                                            *)

\* Faulty: the total is not reduced.
ClaimedTwice(a) ==
    /\ inPeriod /\ claims[a] > 0
    /\ claims' = [claims EXCEPT ![a] = 0]
    /\ funds' = funds - claims[a]
    /\ disturbed' = TRUE
    /\ UNCHANGED <<totalClaims, isAdjusterLocked, inPeriod, periods, pending, sync>>

claim(a) ==
    /\ inPeriod /\ claims[a] > 0 /\ claims[a] <= funds
    /\ claims' = [claims EXCEPT ![a] = 0]
    /\ totalClaims' = totalClaims - claims[a]
    /\ funds' = funds - claims[a]
    /\ disturbed' = TRUE
    /\ UNCHANGED <<isAdjusterLocked, inPeriod, periods, pending, sync>>

CanSetClaims == ~inPeriod /\ ~isAdjusterLocked

\* The claims with those of a batch replaced.
With(batch) == [a \in Accounts |-> IF a \in DOMAIN batch THEN batch[a] ELSE claims[a]]

\* A transaction of the adjuster is mined; outside its time it reverts.
setClaims ==
    /\ pending # <<>>
    /\ LET batch == Head(pending)
       IN  \/ /\ CanSetClaims
              /\ claims' = With(batch)
              /\ totalClaims' = totalClaims + Total(batch)
                                 - Total([a \in DOMAIN batch |-> claims[a]])
           \/ ~CanSetClaims /\ UNCHANGED <<claims, totalClaims>>
    /\ pending' = Tail(pending)
    /\ UNCHANGED <<isAdjusterLocked, inPeriod, periods, funds, sync, disturbed>>

setAdjusterLock(locked) ==
    /\ ~inPeriod /\ locked # isAdjusterLocked
    /\ isAdjusterLocked' = locked
    /\ disturbed' = TRUE
    /\ UNCHANGED <<claims, totalClaims, inPeriod, periods, funds, pending, sync>>

\* The governor starts a period, which locks the adjuster.
start ==
    /\ ~inPeriod /\ totalClaims > 0 /\ funds >= totalClaims /\ periods < MaxPeriods
    /\ inPeriod' = TRUE /\ periods' = periods + 1
    /\ isAdjusterLocked' = TRUE
    /\ disturbed' = TRUE
    /\ UNCHANGED <<claims, totalClaims, funds, pending, sync>>

PeriodEnds ==
    /\ inPeriod
    /\ inPeriod' = FALSE
    /\ UNCHANGED <<claims, totalClaims, isAdjusterLocked, periods, funds, scriptVars>>

collect ==
    /\ ~inPeriod /\ funds > 0
    /\ funds' = 0
    /\ UNCHANGED <<claims, totalClaims, isAdjusterLocked, inPeriod, periods, scriptVars>>

\* Somebody gives the contract tokens.
Fund ==
    /\ funds < MaxFunds
    /\ funds' = funds + 1
    /\ UNCHANGED <<claims, totalClaims, isAdjusterLocked, inPeriod, periods, scriptVars>>
-----------------------------------------------------------------------------
(* The script.                                                              *)

Verify(s, after) ==
    [s EXCEPT !.phase = "verify", !.after = after, !.unread = DOMAIN s.csv,
              !.incorrect = {}]

Says(s, said) == [s EXCEPT !.phase = "idle", !.said = said]

compensationSync(csv, doIt) ==
    /\ sync.phase = "idle" /\ sync.runs < MaxRuns
    /\ sync' = Verify([sync EXCEPT !.runs = @ + 1, !.said = "nothing", !.csv = csv,
                                       !.doIt = doIt], FALSE)
    /\ disturbed' = (pending # <<>>)
    /\ UNCHANGED <<contractVars, pending>>

\* verify asks for the claim of one account after the other.
verify(a) ==
    /\ sync.phase = "verify" /\ a \in sync.unread
    /\ sync' = [sync EXCEPT !.unread = @ \ {a},
                    !.incorrect = IF claims[a] = sync.csv[a] THEN @ ELSE @ \cup {a}]
    /\ UNCHANGED <<contractVars, pending, disturbed>>

\* Faulty: the total is not compared.
AccountsCorrect == sync.incorrect = {}

isCorrect == sync.incorrect = {} /\ totalClaims = Total(sync.csv)

\* It ends with the total; what is next depends on whether all is correct.
verified ==
    /\ sync.phase = "verify" /\ sync.unread = {}
    /\ sync' = IF isCorrect
                 THEN Says(sync, IF sync.after THEN "Upload successful"
                                   ELSE "Verification successful")
                 ELSE IF sync.after THEN Says(sync, "Totals do not match")
                 ELSE IF ~sync.doIt THEN Says(sync, "Use the --do-it flag")
                 ELSE IF sync.incorrect = {} THEN Says(sync, "the total is off")
                 ELSE [sync EXCEPT !.phase = "upload"]
    /\ UNCHANGED <<contractVars, pending, disturbed>>

\* Faulty: the last batch is only taken when it is full.
FullBatches(accounts) == {b \in SUBSET accounts : Cardinality(b) = BatchSize}

\* The batches that may come next: all are full but the last.
splitIntoBatches(accounts) ==
    {b \in SUBSET accounts :
        /\ b # {}
        /\ \/ Cardinality(b) = BatchSize
           \/ Cardinality(b) < BatchSize /\ b = accounts}

\* A batch is sent, unless its gas cannot be estimated because it would revert.
uploadAccounts ==
    /\ sync.phase = "upload"
    /\ \/ /\ splitIntoBatches(sync.incorrect) = {}
          /\ sync' = Verify(sync, TRUE)
          /\ UNCHANGED pending
       \/ /\ ~CanSetClaims /\ splitIntoBatches(sync.incorrect) # {}
          /\ sync' = Says(sync, "error")
          /\ UNCHANGED pending
       \/ /\ CanSetClaims
          /\ \E b \in splitIntoBatches(sync.incorrect) :
                /\ pending' = Append(pending, [a \in b |-> sync.csv[a]])
                /\ sync' = [sync EXCEPT !.phase = "wait", !.incorrect = @ \ b]
    /\ UNCHANGED <<contractVars, disturbed>>

\* withConfirmation returns; whether the transaction was reverted is not looked at.
withConfirmation ==
    /\ sync.phase = "wait" /\ pending = <<>>
    /\ sync' = [sync EXCEPT !.phase = "upload"]
    /\ UNCHANGED <<contractVars, pending, disturbed>>

Die ==
    /\ sync.phase # "idle"
    /\ sync' = Says(sync, "died")
    /\ UNCHANGED <<contractVars, pending, disturbed>>

Next ==
    \/ \E a \in Accounts : claim(a) \/ verify(a)
    \/ \E locked \in BOOLEAN : setAdjusterLock(locked)
    \/ setClaims \/ start \/ PeriodEnds \/ collect \/ Fund
    \/ \E csv \in Csvs, doIt \in BOOLEAN : compensationSync(csv, doIt)
    \/ verified \/ uploadAccounts \/ withConfirmation \/ Die

Spec == Init /\ [][Next]_compensationVars
-----------------------------------------------------------------------------
\* What the script says at its end.
Sayings == {"nothing", "died", "error", "Upload successful",
            "Verification successful", "Totals do not match", "Use the --do-it flag",
            "the total is off"}

Batch == UNION {[S -> 0 .. MaxClaim] : S \in SUBSET Accounts}

\* The variables have their types.
TypeOK ==
    /\ claims \in [Accounts -> 0 .. MaxClaim] /\ totalClaims \in Nat
    /\ isAdjusterLocked \in BOOLEAN /\ inPeriod \in BOOLEAN
    /\ periods \in Nat /\ funds \in Nat
    /\ pending \in Seq(Batch)
    /\ sync \in [runs : Nat, phase : {"idle", "verify", "upload", "wait"},
                   said : Sayings, csv : Batch, doIt : BOOLEAN, after : BOOLEAN,
                   unread : SUBSET Accounts, incorrect : SUBSET Accounts]
    /\ disturbed \in BOOLEAN

\* However batches overlap with claims, locks and other batches, the total is
\* that of the claims.
TotalIsSum == totalClaims = Total(claims)

\* In a claim period the contract can pay every claim that is left, and nobody
\* can raise one.
Solvent == inPeriod => funds >= totalClaims /\ isAdjusterLocked

\* The contract's books: the types, the total and the cover of the claims.
ClaimsCovered == TypeOK /\ TotalIsSum /\ Solvent

\* When the script says that the upload was successful, nothing is on its way,
\* the total is the file's and no listed account has more than the file says; and
\* if nothing disturbed the run the contract has the claims of the file and no
\* others.  More cannot be said of a disturbed run: the script reads the total
\* last, and claims that are paid meanwhile may make up for those of accounts that
\* the file does not list.
UploadIsTrue ==
    [][sync.phase # "idle" /\ sync'.said = "Upload successful" =>
          /\ pending = <<>> /\ totalClaims = Total(sync.csv)
          /\ \A a \in DOMAIN sync.csv : claims[a] <= sync.csv[a]
          /\ ~disturbed => \A a \in Accounts :
                claims[a] = IF a \in DOMAIN sync.csv THEN sync.csv[a] ELSE 0
      ]_compensationVars

\* A run that nothing disturbs does not fail, unless accounts that the file does
\* not list have claims, which the script never removes.
UndisturbedSucceeds ==
    /\ ~disturbed
    /\ sync.said \in {"Totals do not match", "the total is off"}
    => \E a \in Accounts \ DOMAIN sync.csv : claims[a] > 0
=============================================================================

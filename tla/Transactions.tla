---------------------------- MODULE Transactions ----------------------------
(***************************************************************************)
(* The transaction history of the web application: TransactionStore, the    *)
(* TransactionListener that watches transactions until they are mined and   *)
(* keeps each account's history in localStorage, the two functions of       *)
(* withRpcProvider that report new transactions to it, and what the side    *)
(* panel says of them.                                                      *)
(*                                                                         *)
(* The page is single-threaded: a step is one event of the browser, the     *)
(* wallet or the node, with every store update and componentDidUpdate it    *)
(* causes (React renders synchronously outside its own handlers).  What     *)
(* interleaves are the timer of load, the promises of waitForTransaction    *)
(* and the events of the contracts.  One tab is modelled.                   *)
(***************************************************************************)
EXTENDS Naturals

CONSTANTS Accounts,     \* the accounts of the wallet
          NoAccount,    \* no wallet connected (account is undefined)
          Hashes,       \* the transactions that may be sent
          Errors,       \* the random hashes of requests that failed
          Sender,       \* hash -> the account that signs it
          Nonce,        \* hash -> its nonce
          Type,         \* hash -> what it does
          MaxSwitches   \* bound: changes of account and reloads of the page

ASSUME NoAccountAssumption == NoAccount \notin Accounts
ASSUME HashesAssumption ==
    /\ Hashes \cap Errors = {}
    /\ Sender \in [Hashes -> Accounts]
    /\ Nonce \in [Hashes -> Nat]
    /\ Type \in [Hashes \cup Errors -> {"approve", "mint", "redeem", "rebase"}]

ASSUME SwitchesAssumption == MaxSwitches \in Nat

VARIABLES account,      \* the account of the wallet, as web3-react has it
          dapp,         \* the page and the history it stored
          requests,     \* what the wallet was asked to sign and did not answer
          chain,        \* hash -> its state on the chain
          switches      \* changes of account and reloads so far

vars == <<account, dapp, requests, chain, switches>>

Record == [hash : Hashes \cup Errors, mined : BOOLEAN, isError : BOOLEAN,
           observed : BOOLEAN]
Batch == [waiting : SUBSET Record, errors : SUBSET Record]
Dapp == [transactions : SUBSET Record,      \* TransactionStore
         dirty : SUBSET Record,
         loads : SUBSET SUBSET Record,      \* timers of load, with what each loaded
         batches : SUBSET Batch,            \* calls of observeTransactions that wait
         listening : BOOLEAN,               \* events of the contracts arrive
         stored : [Accounts \cup {NoAccount} -> SUBSET Record]]  \* localStorage

Init ==
    /\ account = NoAccount
    /\ dapp = [transactions |-> {}, dirty |-> {}, loads |-> {}, batches |-> {},
               listening |-> FALSE,
               stored |-> [a \in Accounts \cup {NoAccount} |-> {}]]
    /\ requests = {}
    /\ chain = [h \in Hashes |-> "unsent"]
    /\ switches = 0
-----------------------------------------------------------------------------
(* The listener's methods, on the page and its storage.                     *)

HashesOf(records) == {r.hash : r \in records}
Without(records, hashes) == {r \in records : r.hash \notin hashes}

\* The new records replace those of the same hashes, in the store and in the
\* history of the account that is selected now.
updateTransactions(d, a, records) ==
    LET merged == Without(d.transactions, HashesOf(records)) \cup records
    IN  [d EXCEPT !.transactions = merged, !.stored[a] = merged]

\* Pending records are marked and waited for together; the records of failed
\* requests are stored once all of those are mined.
observeTransactions(d, a, records) ==
    LET pending == {[r EXCEPT !.observed = TRUE] :
                        r \in {q \in records : ~q.mined /\ ~q.observed}}
        errors == {r \in records : r.isError}
    IN  IF pending # {}
        THEN [updateTransactions(d, a, pending) EXCEPT
                 !.batches = @ \cup {[waiting |-> pending, errors |-> errors]}]
        ELSE IF errors # {} THEN updateTransactions(d, a, errors) ELSE d

clearStore(d) == [d EXCEPT !.transactions = {}, !.dirty = {}]

\* Faulty: a transaction observed when the page was closed stays so.
LoadObserved(d, a) ==
    [d EXCEPT !.transactions = d.stored[a], !.loads = @ \cup {d.stored[a]}]

load(d, a) ==
    LET history == {[r EXCEPT !.observed = FALSE] : r \in d.stored[a]}
    IN  [d EXCEPT !.transactions = history, !.loads = @ \cup {history}]

\* A socket is opened while a transaction is pending.  Closing it leaves the
\* listener of TotalSupplyUpdated in place, so events go on arriving.
startWebsocketListener(d) ==
    [d EXCEPT !.listening = @ \/ \E r \in d.transactions : ~r.mined]

\* What the listener does after a render: `before` is the account of the
\* previous one.  The new transactions are merged into the transactions that
\* were rendered, not into those load has just put in the store.
componentDidUpdate(d, before, a) ==
    IF a = NoAccount THEN [d EXCEPT !.transactions = {}]
    ELSE LET loaded == IF a # before THEN load(clearStore(d), a) ELSE d
             rendered == [loaded EXCEPT !.transactions = d.transactions,
                                        !.dirty = {}]
         IN  startWebsocketListener(
                 IF d.dirty # {} THEN observeTransactions(rendered, a, d.dirty)
                 ELSE loaded)

\* The record of a new transaction and of a request that failed.
storeTransaction(d, h) ==
    [d EXCEPT !.dirty = {[hash |-> h, mined |-> FALSE, isError |-> FALSE,
                          observed |-> FALSE]}]

storeTransactionError(d, e) ==
    [d EXCEPT !.dirty = {[hash |-> e, mined |-> TRUE, isError |-> TRUE,
                          observed |-> FALSE]}]

\* A transaction h of the selected account was mined: pending records with its
\* nonce were dropped and replaced by it; a nonce of zero passes for none.
handlePossibleReplacedTransaction(d, a, h) ==
    LET dropped == {r \in d.transactions :
                       /\ ~r.mined /\ r.hash \in Hashes
                       /\ Nonce[r.hash] # 0 /\ Nonce[r.hash] = Nonce[h]}
        merged == Without(d.transactions, HashesOf(dropped)) \cup
                      {[hash |-> h, mined |-> TRUE, isError |-> FALSE,
                        observed |-> FALSE]}
    IN  IF dropped = {} THEN d
        ELSE [d EXCEPT !.transactions = merged, !.stored[a] = merged]

\* Faulty: the receipt's sender is not compared with the selected account.
ObservedForAnyone(d, a, batch, r, mined) ==
    LET rest == batch.waiting \ {r}
        waited == [d EXCEPT !.batches = (@ \ {batch}) \cup
                      IF rest = {} THEN {} ELSE {[batch EXCEPT !.waiting = rest]}]
    IN  updateTransactions(waited, a, {mined})

\* A promise of a batch resolves: the record is confirmed only while its sender
\* is the selected account, and the last one stores the failed requests.
observed(d, a, batch, r, mined) ==
    LET rest == batch.waiting \ {r}
        waited == [d EXCEPT !.batches = (@ \ {batch}) \cup
                      IF rest = {} THEN {} ELSE {[batch EXCEPT !.waiting = rest]}]
        confirmed == IF Sender[r.hash] = a THEN updateTransactions(waited, a, {mined})
                     ELSE waited
    IN  IF rest = {} /\ batch.errors # {}
        THEN updateTransactions(componentDidUpdate(confirmed, a, a), a, batch.errors)
        ELSE confirmed
-----------------------------------------------------------------------------
(* The user, the wallet and the chain.                                      *)

\* The user starts a request; the wallet shows its prompt.
Ask(x) ==
    /\ account # NoAccount
    /\ x \notin requests
    /\ \/ x \in Hashes /\ chain[x] = "unsent" /\ Sender[x] = account
       \/ x \in Errors /\ \A a \in Accounts : x \notin HashesOf(dapp.stored[a])
    /\ requests' = requests \cup {x}
    /\ UNCHANGED <<account, dapp, chain, switches>>

\* The wallet sends the transaction, with a nonce it did not use, and the page
\* learns its hash.
TransactionSent(h) ==
    /\ h \in requests
    /\ \A g \in Hashes :
          Sender[g] = Sender[h] /\ Nonce[g] = Nonce[h] => chain[g] = "unsent"
    /\ requests' = requests \ {h}
    /\ chain' = [chain EXCEPT ![h] = "pending"]
    /\ dapp' = componentDidUpdate(storeTransaction(dapp, h), account, account)
    /\ UNCHANGED <<account, switches>>

\* The request fails before anything is sent, or the wait for a receipt does, which
\* leaves a record beside the transaction's own.
RequestFails(e) ==
    /\ e \in requests
    /\ requests' = requests \ {e}
    /\ dapp' = componentDidUpdate(storeTransactionError(dapp, e), account, account)
    /\ UNCHANGED <<account, chain, switches>>

\* The user speeds a pending transaction up in the wallet, which sends h with
\* the nonce of the other and does not tell the page.
SpeedUp(h) ==
    /\ chain[h] = "unsent" /\ h \notin requests
    /\ \E g \in Hashes \ {h} : /\ chain[g] = "pending"
                               /\ Sender[g] = Sender[h] /\ Nonce[g] = Nonce[h]
                               /\ Type[g] = Type[h]
    /\ chain' = [chain EXCEPT ![h] = "pending"]
    /\ UNCHANGED <<account, dapp, requests, switches>>

\* h is mined, and the others with its nonce never will be.
Mine(h, status) ==
    /\ chain[h] = "pending"
    /\ chain' = [g \in Hashes |->
                    IF g = h THEN status
                    ELSE IF Sender[g] = Sender[h] /\ Nonce[g] = Nonce[h]
                         THEN "dropped" ELSE chain[g]]
    /\ UNCHANGED <<account, dapp, requests, switches>>

\* The wallet moves to another account, or is connected or disconnected.
ChangeAccount(a) ==
    /\ a # account /\ switches < MaxSwitches
    /\ account' = a
    /\ dapp' = componentDidUpdate(dapp, account, a)
    /\ switches' = switches + 1
    /\ UNCHANGED <<requests, chain>>

\* The page is closed and opened again; only localStorage survives.
Reload ==
    /\ switches < MaxSwitches
    /\ account' = NoAccount
    /\ dapp' = [dapp EXCEPT !.transactions = {}, !.dirty = {}, !.loads = {},
                            !.batches = {}, !.listening = FALSE]
    /\ requests' = {}
    /\ switches' = switches + 1
    /\ UNCHANGED chain

\* The user dismisses a message of the side panel.
Dismiss(h) ==
    /\ account # NoAccount /\ h \in HashesOf(dapp.transactions)
    /\ LET kept == Without(dapp.transactions, {h})
       IN  dapp' = [dapp EXCEPT !.transactions = kept, !.stored[account] = kept]
    /\ UNCHANGED <<account, requests, chain, switches>>
-----------------------------------------------------------------------------
(* The callbacks of the page.                                               *)

\* The timer load set, with the history of the account selected then.
LoadTimer(history) ==
    /\ history \in dapp.loads
    /\ LET fired == [dapp EXCEPT !.loads = @ \ {history}]
       IN  dapp' = componentDidUpdate(observeTransactions(fired, account, history),
                                      account, account)
    /\ UNCHANGED <<account, requests, chain, switches>>

\* waitForTransaction resolves for a record of some batch.
observeTransaction(h) ==
    /\ chain[h] \in {"success", "failure"}
    /\ \E b \in dapp.batches : \E r \in b.waiting :
          /\ r.hash = h
          /\ dapp' = componentDidUpdate(
                        observed(dapp, account, b, r,
                            [r EXCEPT !.mined = TRUE, !.observed = FALSE,
                                      !.isError = (chain[h] = "failure")]),
                        account, account)
    /\ UNCHANGED <<account, requests, chain, switches>>

\* An event of the vault or of the token arrives and its transaction is fetched.
ContractEvent(h) ==
    /\ dapp.listening /\ chain[h] = "success" /\ Type[h] # "approve"
    /\ account = Sender[h]
    /\ dapp' = componentDidUpdate(
                  handlePossibleReplacedTransaction(dapp, account, h), account, account)
    /\ UNCHANGED <<account, requests, chain, switches>>

Next ==
    \/ \E x \in Hashes \cup Errors : Ask(x) \/ Dismiss(x)
    \/ \E h \in Hashes : TransactionSent(h) \/ SpeedUp(h)
    \/ \E h \in Hashes, status \in {"success", "failure"} : Mine(h, status)
    \/ \E e \in Errors : RequestFails(e)
    \/ \E a \in Accounts \cup {NoAccount} : ChangeAccount(a)
    \/ Reload
    \/ \E history \in dapp.loads : LoadTimer(history)
    \/ \E h \in Hashes : observeTransaction(h) \/ ContractEvent(h)

Spec == Init /\ [][Next]_vars

\* Timers fire and a node answers for what is mined; users, wallets, miners
\* and the events of the socket owe nothing.
FairSpec ==
    /\ Spec
    /\ WF_vars(\E history \in dapp.loads : LoadTimer(history))
    /\ \A h \in Hashes : WF_vars(observeTransaction(h))
-----------------------------------------------------------------------------
(* What the side panel says of a transaction.                               *)

Status(r) ==
    CASE ~r.mined -> "waiting"
      [] r.mined /\ ~r.isError -> "done"
      [] r.mined /\ r.isError -> "failed"

\* One coin's permission, or the supply's increase.
SingleCoinMessage(r) == <<Type[r.hash], Status(r)>>

\* Coins turned into OUSD, or OUSD into coins.
ConversionMessage(r) == <<Type[r.hash], Status(r)>>

Message(r) == IF Type[r.hash] \in {"approve", "rebase"}
              THEN SingleCoinMessage(r) ELSE ConversionMessage(r)
-----------------------------------------------------------------------------
(* Properties.                                                              *)

\* The variables have their types.
TypeOK ==
    /\ account \in Accounts \cup {NoAccount}
    /\ dapp \in Dapp
    /\ requests \subseteq Hashes \cup Errors
    /\ chain \in [Hashes -> {"unsent", "pending", "success", "failure", "dropped"}]
    /\ switches \in 0 .. MaxSwitches

\* Whatever the order in which timers, promises and changes of account come,
\* an account's history holds as done only transactions of that account.
DoneAreOwn ==
    \A a \in Accounts : \A r \in dapp.stored[a] :
        Status(r) = "done" => r.hash \in Hashes /\ Sender[r.hash] = a

\* The panel never says of a transaction what the chain does not: one said to
\* be done was mined with success, one said to have failed was mined with a
\* failure, or is the record of a request that failed.
MessagesTrue ==
    \A r \in dapp.transactions :
        /\ Message(r) = <<Type[r.hash], "done">> => chain[r.hash] = "success"
        /\ Message(r) = <<Type[r.hash], "failed">> =>
              r.hash \in Errors \/ chain[r.hash] = "failure"

\* What is shown to a connected user is what a reload of the page would show.
ShownIsStored ==
    account # NoAccount =>
        {[r EXCEPT !.observed = FALSE] : r \in dapp.transactions} =
        {[r EXCEPT !.observed = FALSE] : r \in dapp.stored[account]}

\* Whoever stays on an account eventually sees no spinner for a transaction of
\* it that was mined, across earlier changes of account and reloads.
SpinnersStop ==
    \A h \in Hashes :
        <>[](account = Sender[h] /\ chain[h] \in {"success", "failure"}) =>
            <>[](\A r \in dapp.transactions : r.hash = h => Status(r) # "waiting")

\* A record leaves an account's history only when the user dismisses it or when
\* a transaction with its nonce replaces it.
HistoryKept ==
    [][\A a \in Accounts : \A r \in dapp.stored[a] :
          \/ r.hash \in HashesOf(dapp'.stored[a])
          \/ Dismiss(r.hash)
          \/ \E h \in Hashes : ContractEvent(h)]_vars

\* An account's history is its own, the panel says what the chain says, and shows
\* what is stored.
HistoryTrue == TypeOK /\ DoneAreOwn /\ MessagesTrue /\ ShownIsStored
=============================================================================

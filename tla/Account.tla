------------------------------- MODULE Account -------------------------------
(***************************************************************************)
(* What the web application knows of the connected account: AccountListener *)
(* sets the contracts up for it and polls its balances and allowances,      *)
(* setupContracts (utils/contracts.js) fetches its credits on a timer of    *)
(* its own, and UserActivityListener pauses the polling of an idle user.    *)
(*                                                                         *)
(* A request carries the account of the render it was started in, and its   *)
(* answer is written whoever is connected by then.  The wallet is on the    *)
(* right network.                                                           *)
(***************************************************************************)
EXTENDS Naturals, FiniteSets

CONSTANTS Accounts,     \* the accounts of the wallet
          None,         \* no account, no answer yet, no timer
          MaxChanges,   \* bound: changes of account and of what accounts hold
          MaxVersion,   \* bound: the latter alone
          MaxFaults,    \* bound: failures of the node
          MaxLoads      \* bound: requests of a kind in flight when a timer fires

VARIABLES account,      \* the connected account, as web3-react has it
          ledger,       \* account -> version of what it holds on the chain
          listener,     \* AccountListener's state, and, as history, whether a
                        \* setup has returned since the account last changed
          store,        \* what AccountStore holds, and of which account
          signer,       \* the account ContractStore's contracts sign for
          fetcher,      \* the account of window.fetchInterval
          loads,        \* requests to the node in flight
          user,         \* what UserActivityListener says of the user
          changes, faults

accountVars == <<account, ledger, listener, store, signer, fetcher, loads, user,
                 changes, faults>>

\* Balances and allowances are asked for together and answered alike: holdings.
Kinds == {"holdings", "credits"}
Connectable == Accounts \cup {None}
Load == [kind : Kinds, of : Accounts, version : 0 .. MaxVersion]
Nothing == [of |-> None, version |-> 0]

Init ==
    /\ account = None
    /\ ledger = [a \in Accounts |-> 0]
    /\ listener = [setups |-> {None}, contracts |-> "unset", poller |-> None,
                   served |-> FALSE]
    /\ store = [k \in Kinds |-> Nothing]
    /\ signer = None
    /\ fetcher = None
    /\ loads = {}
    /\ user = "active"
    /\ changes = 0 /\ faults = 0
-----------------------------------------------------------------------------
(* Requests of a closure of the account `a`.                                *)

Request(kinds, a) ==
    IF a = None THEN {}
    ELSE {[kind |-> k, of |-> a, version |-> ledger[a]] : k \in kinds}

loadData(a) == Request({"holdings"}, a)
fetchCreditsBalance(a) == Request({"credits"}, a)

Few(kind) == Cardinality({l \in loads : l.kind = kind}) < MaxLoads

\* The effect on [userActive, contracts]: an active user's data are loaded and a
\* timer set to poll them, for the account of this render.
Polling(l, state, a) ==
    [l EXCEPT !.poller = IF l.contracts # "unset" /\ state = "active" THEN a ELSE None]
Polled(l, state, a) ==
    IF l.contracts # "unset" /\ state = "active" THEN loadData(a) ELSE {}

\* The first part of setupContracts, up to its first await: the contracts of
\* the store sign for the account, and the timer of its credits is set.
setupContracts(a) ==
    /\ signer' = a
    /\ fetcher' = a
    /\ listener' = [listener EXCEPT !.setups = @ \cup {a}, !.served = FALSE]
    /\ loads' = loads \cup fetchCreditsBalance(a)
-----------------------------------------------------------------------------
\* The wallet connects, moves to another account or disconnects: what is known
\* is dropped and the contracts are set up again.
ChangeAccount(a) ==
    /\ a # account /\ changes < MaxChanges
    /\ account' = a
    /\ changes' = changes + 1
    /\ store' = [store EXCEPT !["holdings"] = Nothing]
    /\ setupContracts(a)
    /\ UNCHANGED <<ledger, user, faults>>

\* Faulty: the contracts are stored once more when setupContracts returns.
ContractsStoredLate(a) ==
    /\ a \in listener.setups
    /\ LET set == [listener EXCEPT !.setups = @ \ {a}, !.contracts = a, !.served = TRUE]
       IN  /\ listener' = Polling(set, user, account)
           /\ loads' = loads \cup Polled(set, user, account) \cup loadData(a)
    /\ signer' = a
    /\ UNCHANGED <<account, ledger, store, fetcher, user, changes, faults>>

\* Faulty: the timer stays the one of the account it was set for.
SetupKeepsTimer(a) ==
    /\ a \in listener.setups
    /\ listener' = [listener EXCEPT !.setups = @ \ {a}, !.contracts = a, !.served = TRUE,
                        !.poller = IF @ = None THEN account ELSE @]
    /\ loads' = loads \cup loadData(account)
    /\ UNCHANGED <<account, ledger, store, signer, fetcher, user, changes, faults>>

\* setupContracts returns: the effect runs for the account connected now, and a
\* timer loads the data of the account the setup was for.
SetupReturns(a) ==
    /\ a \in listener.setups
    /\ LET set == [listener EXCEPT !.setups = @ \ {a}, !.contracts = a, !.served = TRUE]
       IN  /\ listener' = Polling(set, user, account)
           /\ loads' = loads \cup Polled(set, user, account) \cup loadData(a)
    /\ UNCHANGED <<account, ledger, store, signer, fetcher, user, changes, faults>>

\* afterSetup fails, and with it the setup: contracts and timer stay as they are.
SetupFails(a) ==
    /\ a \in listener.setups /\ faults < MaxFaults
    /\ listener' = [listener EXCEPT !.setups = @ \ {a}]
    /\ faults' = faults + 1
    /\ UNCHANGED <<account, ledger, store, signer, fetcher, loads, user, changes>>

\* The timer of AccountListener.
Poll ==
    /\ listener.poller # None /\ Few("holdings")
    /\ loads' = loads \cup loadData(listener.poller)
    /\ UNCHANGED <<account, ledger, listener, store, signer, fetcher, user,
                   changes, faults>>

\* The timer of setupContracts; it runs for idle users, too.
Fetch ==
    /\ fetcher # None /\ Few("credits")
    /\ loads' = loads \cup fetchCreditsBalance(fetcher)
    /\ UNCHANGED <<account, ledger, listener, store, signer, fetcher, user,
                   changes, faults>>

\* The node answers; the answer is written whoever is connected.
Answer(l) ==
    /\ l \in loads
    /\ store' = [store EXCEPT ![l.kind] = [of |-> l.of, version |-> l.version]]
    /\ loads' = loads \ {l}
    /\ UNCHANGED <<account, ledger, listener, signer, fetcher, user, changes, faults>>

\* The node fails, which is logged.
AnswerFails(l) ==
    /\ l \in loads /\ faults < MaxFaults
    /\ loads' = loads \ {l}
    /\ faults' = faults + 1
    /\ UNCHANGED <<account, ledger, listener, store, signer, fetcher, user, changes>>

\* The account's holdings change on the chain.
Transact(a) ==
    /\ \A b \in Accounts : ledger[b] < MaxVersion
    /\ ledger' = [ledger EXCEPT ![a] = @ + 1]
    /\ changes < MaxChanges /\ changes' = changes + 1
    /\ UNCHANGED <<account, listener, store, signer, fetcher, loads, user, faults>>

\* The check every half second finds that the mouse moved again, or did not for
\* ten seconds; the effect starts or stops polling.
onStateCheck(state) ==
    /\ state # user
    /\ user' = state
    /\ listener' = Polling(listener, state, account)
    /\ loads' = loads \cup Polled(listener, state, account)
    /\ UNCHANGED <<account, ledger, store, signer, fetcher, changes, faults>>

Next ==
    \/ \E a \in Connectable : ChangeAccount(a) \/ SetupReturns(a) \/ SetupFails(a)
    \/ \E a \in Accounts : Transact(a)
    \/ \E l \in loads : Answer(l) \/ AnswerFails(l)
    \/ \E state \in {"active", "idle"} : onStateCheck(state)
    \/ Poll \/ Fetch

\* Timers fire and the node answers; users and the chain owe nothing.
Fairness ==
    /\ WF_accountVars(Poll)
    /\ WF_accountVars(Fetch)
    /\ WF_accountVars(\E a \in Connectable : SetupReturns(a))
    /\ \A k \in Kinds : WF_accountVars(\E l \in loads : l.kind = k /\ Answer(l))

Spec == Init /\ [][Next]_accountVars /\ Fairness
-----------------------------------------------------------------------------
\* The variables have their types.
TypeOK ==
    /\ account \in Connectable
    /\ ledger \in [Accounts -> 0 .. MaxVersion]
    /\ listener \in [setups : SUBSET Connectable, poller : Connectable,
                     contracts : Connectable \cup {"unset"}, served : BOOLEAN]
    /\ store \in [Kinds -> [of : Connectable, version : 0 .. MaxVersion]]
    /\ signer \in Connectable /\ fetcher \in Connectable
    /\ loads \subseteq Load
    /\ user \in {"active", "idle"}
    /\ changes \in 0 .. MaxChanges /\ faults \in 0 .. MaxFaults

\* In whatever order overlapping setups return or fail, the application's
\* contracts ask the connected account, and no other, to sign.
SignerIsConnected == signer = account

\* Whoever stays connected and active ends up with their own latest balances,
\* allowances and credits, although answers for an earlier account may still arrive
\* and overwrite them, once a setup has returned since they were connected: their
\* own, or an earlier one that was overtaken.
StoreFollowsAccount ==
    \A a \in Accounts :
        <>[](account = a /\ user = "active" /\ listener.served) =>
            <>[](\A k \in Kinds : store[k] = [of |-> a, version |-> ledger[a]])
=============================================================================

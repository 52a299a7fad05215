----------------------------- MODULE Connection -----------------------------
(***************************************************************************)
(* How a wallet is connected to the web application: the attempt when the   *)
(* page loads (useEagerConnect), the login modal with a button per vendor,  *)
(* the connect button of a wallet's own browser, the effects that put the   *)
(* account into AccountStore, and the connector of the Ledger.              *)
(*                                                                         *)
(* The connection itself is web3-react's, outside the repository: calls of  *)
(* activate settle in any order, and one that settles after the connection  *)
(* has changed is dropped without an error.  React's effects run before the *)
(* next event.  The hint of the Ledger's button and analytics are left out. *)
(***************************************************************************)
EXTENDS Naturals, FiniteSets

CONSTANTS Vendors,      \* the names of connectorsByName
          Accounts,     \* accounts of the wallet in the browser
          None,
          MaxClicks,    \* bound: clicks that start an activation
          MaxFaults,    \* bound: refusals and failures of wallets
          MaxSwitches,  \* bound: changes of account in the wallet
          MaxReloads    \* bound: loads of the page after the first

Paths == {"live", "legacy"}

VARIABLES web3,         \* web3-react's connection
          activations,  \* calls of activate that have not settled
          eager,        \* useEagerConnect: how far it is, and `tried`
          eagerConnect, \* the browser's storage, over reloads
          address, connectorIcon,    \* AccountStore
          widget,       \* the login modal, and LoginWidget in it
          ledgerPath,   \* the derivation path of the Ledger's provider, once made
          wallet,       \* the account selected in the browser's wallet
          funded,       \* the Ledger's paths whose first account has a balance
          ownBrowser,   \* whether the page runs in the browser of a wallet
          wanted,       \* history: whether the user wants to be connected
          clicks, faults, switches, reloads

outside == <<wallet, funded, ownBrowser, clicks, faults, switches, reloads>>
connVars == <<web3, activations, eager, eagerConnect, address, connectorIcon, widget,
              ledgerPath, wanted, outside>>

Disconnected == [connector |-> None, account |-> None, failed |-> FALSE]
Closed == [open |-> FALSE, activating |-> None, error |-> FALSE]
Active(w) == w.connector # None /\ ~w.failed

Load(storage) ==
    [stage |-> IF storage = "false" THEN "skipped" ELSE "asked", tried |-> FALSE]

Init ==
    /\ web3 = Disconnected
    /\ activations = {}
    /\ eagerConnect \in {"unset", "true", "false"}
    /\ eager = Load(eagerConnect)
    /\ address = None /\ connectorIcon = None
    /\ widget = Closed
    /\ ledgerPath = None
    /\ wallet \in Accounts \cup {None}
    /\ funded \in SUBSET Paths
    /\ ownBrowser \in BOOLEAN
    /\ wanted = (eagerConnect # "false")
    /\ clicks = 0 /\ faults = 0 /\ switches = 0 /\ reloads = 0
-----------------------------------------------------------------------------
(* web3-react and the effects of a render.                                  *)

\* A call of activate by one of the three callers; `by` is "closed" once the
\* widget that made it is gone, `step` is how far the connector is.
Activation ==
    [by : {"eager", "widget", "closed", "button"}, vendor : Vendors,
     step : Paths \cup {"ready"}, stale : BOOLEAN]

Called(who, v) ==
    [by |-> who, vendor |-> v, stale |-> FALSE,
     step |-> IF v = "Ledger" /\ ledgerPath = None THEN "live" ELSE "ready"]

\* What the closing of the modal leaves of the calls made from it.
Orphaned(calls) ==
    {[c EXCEPT !.by = IF @ = "widget" THEN "closed" ELSE @] : c \in calls}

\* login, utils/account.js.
login(account) == address' = account /\ eagerConnect' = "true"

\* Faulty: the attempt at load is the only one that counts as tried.
BecomeUntried(w, calls) ==
    LET late == {[c EXCEPT !.stale = TRUE] : c \in calls} IN
    /\ web3' = w
    /\ eager' = [eager EXCEPT !.stage = IF @ = "activating" THEN "done" ELSE @]
    /\ activations' = Orphaned(late)
    /\ widget' = IF Active(w) THEN Closed ELSE widget
    /\ IF Active(w) /\ eager.stage # "skipped" THEN login(w.account)
       ELSE UNCHANGED <<address, eagerConnect>>
    /\ UNCHANGED connectorIcon
\* The connection becomes `w`: calls in flight are superseded; useEagerConnect
\* notes success, the modal closes, the account is put into the store, and the
\* effect on [active] sets the vendor's image.
Become(w, calls) ==
    LET late == {[c EXCEPT !.stale = TRUE] : c \in calls} IN
    /\ web3' = w
    /\ eager' = [eager EXCEPT !.tried = @ \/ Active(w),
                    !.stage = IF \E c \in calls : c.by = "eager" THEN @
                              ELSE IF @ = "activating" THEN "done" ELSE @]
    /\ \/ /\ Active(w)
          /\ login(w.account)
          /\ widget' = Closed
          /\ activations' = Orphaned(late)
       \/ /\ ~Active(w)
          /\ activations' = late
          /\ UNCHANGED <<address, eagerConnect, widget>>
    /\ connectorIcon' =
          IF w.connector = None \/ Active(w) = Active(web3) THEN connectorIcon
          ELSE IF Active(w) THEN w.connector ELSE None

-----------------------------------------------------------------------------
(* The page loads.                                                          *)

\* isAuthorized answers: the page connects to a wallet that has let it before.
isAuthorized ==
    /\ eager.stage = "asked"
    /\ \/ /\ wallet # None
          /\ activations' = activations \cup {Called("eager", "MetaMask")}
          /\ eager' = [eager EXCEPT !.stage = "activating"]
       \/ /\ eager' = [stage |-> "done", tried |-> TRUE]
          /\ UNCHANGED activations
    /\ UNCHANGED <<web3, eagerConnect, address, connectorIcon, widget, ledgerPath,
                   wanted, outside>>

Reload ==
    /\ reloads < MaxReloads
    /\ reloads' = reloads + 1
    /\ web3' = Disconnected /\ activations' = {}
    /\ eager' = Load(eagerConnect)
    /\ address' = None /\ connectorIcon' = None
    /\ widget' = Closed
    /\ ledgerPath' = None
    /\ UNCHANGED <<eagerConnect, wanted, wallet, funded, ownBrowser, clicks, faults,
                   switches>>
-----------------------------------------------------------------------------
(* The user.                                                                *)

\* showLogin, from the status icon or a connect button.
showLogin ==
    /\ ~Active(web3) /\ ~widget.open
    /\ widget' = [Closed EXCEPT !.open = TRUE]
    /\ UNCHANGED <<web3, activations, eager, eagerConnect, address, connectorIcon,
                   ledgerPath, wanted, outside>>

\* A click beside the widget.
CloseModal ==
    /\ widget.open
    /\ widget' = Closed
    /\ activations' = Orphaned(activations)
    /\ UNCHANGED <<web3, eager, eagerConnect, address, connectorIcon, ledgerPath,
                   wanted, outside>>

\* A vendor's button, enabled unless it is the one that was clicked last.
Click(v) ==
    /\ widget.open /\ widget.activating # v
    /\ clicks < MaxClicks
    /\ clicks' = clicks + 1
    /\ widget' = [widget EXCEPT !.activating = v, !.error = FALSE]
    /\ activations' = activations \cup {Called("widget", v)}
    /\ wanted' = TRUE
    /\ UNCHANGED <<web3, eager, eagerConnect, address, connectorIcon, ledgerPath,
                   wallet, funded, ownBrowser, faults, switches, reloads>>

\* The connect button in a wallet's own browser: no modal, and no handler.
walletLogin ==
    /\ ownBrowser /\ ~Active(web3) /\ clicks < MaxClicks
    /\ clicks' = clicks + 1
    /\ activations' = activations \cup {Called("button", "MetaMask")}
    /\ wanted' = TRUE
    /\ UNCHANGED <<web3, eager, eagerConnect, address, connectorIcon, widget,
                   ledgerPath, wallet, funded, ownBrowser, faults, switches, reloads>>

\* Disconnect: remembered over reloads.  Only an attempt at load that is still
\* waiting for isAuthorized may connect again.
Disconnect ==
    /\ Active(web3)
    /\ web3' = Disconnected
    /\ activations' = {[c EXCEPT !.stale = TRUE] : c \in activations}
    /\ eagerConnect' = "false"
    /\ wanted' = (eager.stage = "asked")
    /\ UNCHANGED <<eager, address, connectorIcon, widget, ledgerPath, outside>>

\* Another account is selected in the wallet, or none: the page follows while it
\* is connected to that wallet.
Select(account) ==
    /\ account # wallet /\ switches < MaxSwitches
    /\ switches' = switches + 1
    /\ wallet' = account
    /\ IF Active(web3) /\ web3.connector # "Ledger"
       THEN Become(IF account = None THEN Disconnected
                   ELSE [web3 EXCEPT !.account = account], activations)
       ELSE UNCHANGED <<web3, activations, eager, eagerConnect, address,
                        connectorIcon, widget>>
    /\ UNCHANGED <<ledgerPath, wanted, funded, ownBrowser, clicks, faults, reloads>>
-----------------------------------------------------------------------------
(* The Ledger's connector: one provider per page, on the first path whose   *)
(* account has a balance; whatever fails, on the path of Ledger Live.       *)

Derived(c, path) ==
    /\ ledgerPath' = path
    /\ activations' = (activations \ {c}) \cup {[c EXCEPT !.step = "ready"]}

deriveProvider(c) ==
    /\ c \in activations /\ c.step \in Paths
    /\ \/ /\ c.step \in funded
          /\ Derived(c, c.step) /\ UNCHANGED faults
       \/ /\ c.step \notin funded /\ c.step = "live"
          /\ activations' = (activations \ {c}) \cup {[c EXCEPT !.step = "legacy"]}
          /\ UNCHANGED <<ledgerPath, faults>>
       \/ /\ c.step \notin funded /\ c.step = "legacy"
          /\ Derived(c, "live") /\ UNCHANGED faults
       \/ /\ faults < MaxFaults
          /\ faults' = faults + 1
          /\ Derived(c, "live")
    /\ UNCHANGED <<web3, eager, eagerConnect, address, connectorIcon, widget, wanted,
                   wallet, funded, ownBrowser, clicks, switches, reloads>>

-----------------------------------------------------------------------------
(* Calls of activate settle.                                                *)

\* The account a vendor gives: the wallet's, or the one of the Ledger's path.
AccountOf(v) == IF v = "Ledger" THEN ledgerPath ELSE wallet

Connects(c) ==
    /\ c \in activations /\ c.step = "ready" /\ ~c.stale
    /\ AccountOf(c.vendor) # None
    /\ Become([connector |-> c.vendor, account |-> AccountOf(c.vendor),
               failed |-> FALSE], activations \ {c})
    /\ UNCHANGED <<ledgerPath, wanted, outside>>

\* A superseded call returns as one that succeeded does: the attempt at load
\* then sets its image, whatever is connected.
Superseded(c) ==
    /\ c \in activations /\ c.step = "ready" /\ c.stale
    /\ activations' = activations \ {c}
    /\ connectorIcon' = IF c.by = "eager" THEN c.vendor ELSE connectorIcon
    /\ eager' = IF c.by = "eager" THEN [eager EXCEPT !.stage = "done"] ELSE eager
    /\ UNCHANGED <<web3, eagerConnect, address, widget, ledgerPath, wanted, outside>>

\* Without an account a wallet refuses; any may refuse or fail now and then.
Refused(c) ==
    \/ AccountOf(c.vendor) = None /\ UNCHANGED faults
    \/ faults < MaxFaults /\ faults' = faults + 1

\* Faulty: the handler of the widget only keeps the error.
RefusesDisabled(c) ==
    /\ c \in activations /\ c.step = "ready"
    /\ Refused(c)
    /\ activations' = activations \ {c}
    /\ widget' = IF c.by = "widget" THEN [widget EXCEPT !.error = TRUE] ELSE widget
    /\ UNCHANGED <<web3, eager, eagerConnect, address, connectorIcon, ledgerPath, wanted,
                   wallet, funded, ownBrowser, clicks, switches, reloads>>

\* The wallet refuses, or the device fails: at load it counts as tried, in the
\* widget the handler shows the error, for the connect button it is web3-react's.
Refuses(c) ==
    /\ c \in activations /\ c.step = "ready"
    /\ Refused(c)
    /\ LET calls == activations \ {c} IN
       \/ /\ c.by = "button"
          /\ Become([connector |-> c.vendor, account |-> None, failed |-> TRUE], calls)
       \/ /\ c.by # "button"
          /\ activations' = calls
          /\ eager' = IF c.by = "eager" THEN [stage |-> "done", tried |-> TRUE]
                      ELSE eager
          /\ widget' = IF c.by = "widget"
                       THEN [widget EXCEPT !.error = TRUE, !.activating = None]
                       ELSE widget
          /\ UNCHANGED <<web3, eagerConnect, address, connectorIcon>>
    /\ UNCHANGED <<ledgerPath, wanted, wallet, funded, ownBrowser, clicks, switches,
                   reloads>>

\* The Ledger fails, but no error reaches the handler: the button stays as it is.
Suppressed(c) ==
    /\ c \in activations /\ c.step = "ready" /\ c.vendor = "Ledger"
    /\ faults < MaxFaults /\ faults' = faults + 1
    /\ activations' = activations \ {c}
    /\ UNCHANGED <<web3, eager, eagerConnect, address, connectorIcon, widget, ledgerPath,
                   wanted, wallet, funded, ownBrowser, clicks, switches, reloads>>

Settles == \E c \in activations :
              Connects(c) \/ Superseded(c) \/ Refuses(c) \/ Suppressed(c)
Derives == \E c \in activations : deriveProvider(c)

Next ==
    \/ isAuthorized \/ Reload
    \/ showLogin \/ CloseModal \/ walletLogin \/ Disconnect
    \/ \E v \in Vendors : Click(v)
    \/ \E account \in Accounts \cup {None} : Select(account)
    \/ Derives \/ Settles

\* The Ledger answers the connector in the end; what asks a person may wait for ever.
Spec == Init /\ [][Next]_connVars /\ WF_connVars(Derives)
-----------------------------------------------------------------------------
\* The variables have their types.
TypeOK ==
    /\ web3 \in [connector : Vendors \cup {None}, failed : BOOLEAN,
                 account : Accounts \cup Paths \cup {None}]
    /\ activations \subseteq Activation
    /\ eager \in [stage : {"skipped", "asked", "activating", "done"}, tried : BOOLEAN]
    /\ eagerConnect \in {"unset", "true", "false"}
    /\ address \in Accounts \cup Paths \cup {None}
    /\ connectorIcon \in Vendors \cup {None}
    /\ widget \in [open : BOOLEAN, error : BOOLEAN, activating : Vendors \cup {None}]
    /\ ledgerPath \in Paths \cup {None}

\* Whoever is connected, by whichever of the racing calls, is the account the
\* rest of the application works for, and the next visit connects by itself.
SignedIn == Active(web3) => address = web3.account /\ eagerConnect = "true"

\* A user who has disconnected stays disconnected, on later visits too, until a
\* click; calls started before the disconnection do not connect after it.
StaysDisconnected == Active(web3) => wanted

\* Where connections are made in the modal, no vendor's button stays disabled once
\* the clicks are over, unless its wallet is waiting for an answer; of the Ledger
\* this is said only where nothing failed, for its errors may be suppressed.
ButtonsComeBack ==
    <>[](\A v \in Vendors :
            /\ widget.activating = v /\ ~ownBrowser
            /\ v = "Ledger" => faults = 0
            => \E c \in activations : c.by = "widget" /\ c.vendor = v /\ c.step = "ready")

\* Unless something failed, the Ledger's account is the first that has a
\* balance, also when activations overlap.
LedgerIsFunded ==
    ledgerPath # None /\ faults = 0 =>
        ledgerPath = IF funded = {"legacy"} THEN "legacy" ELSE "live"
=============================================================================

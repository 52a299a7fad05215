------------------------------ MODULE WebProofs ------------------------------
(***************************************************************************)
(* Whatever the order of timers, promises, events and changes of account,   *)
(* the account is the connected one, who disconnected stays so, and the     *)
(* histories the page stores and shows are true: for any accounts, wallets  *)
(* and transactions.                                                       *)
(***************************************************************************)
EXTENDS Web, TLAPS

-----------------------------------------------------------------------------
(* The connection.                                                          *)
\* Somebody who is connected, or may come to be without a click, wants to be.
Wished ==
    \/ C!Active(web3)
    \/ eager.stage = "asked"
    \/ eagerConnect # "false"
    \/ \E c \in activations : ~c.stale
    => wanted

\* Which derivation has come how far: the second path is tried only where the first
\* has no balance.
Derivations ==
    /\ \A c \in activations : c.step = "legacy" => "live" \notin funded
    /\ C!LedgerIsFunded

\* The wallet, and what the browser keeps, are what they may be.
Outside ==
    /\ wallet \in Accounts \cup {None} /\ funded \subseteq C!Paths
    /\ ownBrowser \in BOOLEAN /\ wanted \in BOOLEAN /\ faults \in Nat

\* The invariant.
ConnInv == C!TypeOK /\ Outside /\ C!SignedIn /\ Wished /\ Derivations

\* Calls change in who waits for them and whether they are superseded only.
Alike(after, calls) ==
    /\ after \subseteq C!Activation
    /\ \A c \in after : \E d \in calls : c.step = d.step /\ (d.stale => c.stale)

\* Closing the modal changes only who waits for a call.
LEMMA OrphanedAlike ==
    ASSUME NEW calls \in SUBSET C!Activation
    PROVE  Alike(C!Orphaned(calls), calls)
<1> SUFFICES ASSUME NEW c \in C!Orphaned(calls)
             PROVE  c \in C!Activation /\ \E d \in calls : c.step = d.step /\ c.stale = d.stale
  BY DEF Alike
<1>1. PICK d \in calls : c = [d EXCEPT !.by = IF @ = "widget" THEN "closed" ELSE @]
  BY DEF C!Orphaned
<1>2. d \in C!Activation
  OBVIOUS
<1> QED
  BY <1>1, <1>2 DEF C!Activation

\* A new connection supersedes the calls there are, and no more.
LEMMA LateAlike ==
    ASSUME NEW calls \in SUBSET C!Activation
    PROVE  LET late == {[c EXCEPT !.stale = TRUE] : c \in calls}
           IN  /\ Alike(late, calls) /\ Alike(C!Orphaned(late), calls)
               /\ \A c \in late : c.stale
               /\ \A c \in C!Orphaned(late) : c.stale
<1> DEFINE late == {[c EXCEPT !.stale = TRUE] : c \in calls}
<1>1. ASSUME NEW c \in late
      PROVE  c \in C!Activation /\ c.stale /\ \E d \in calls : c.step = d.step
  <2>1. PICK d \in calls : c = [d EXCEPT !.stale = TRUE]
    OBVIOUS
  <2>2. d \in C!Activation
    OBVIOUS
  <2> QED
    BY <2>1, <2>2 DEF C!Activation
<1> HIDE DEF late
<1>2. late \in SUBSET C!Activation /\ Alike(late, calls)
  BY <1>1 DEF Alike
<1>3. ASSUME NEW c \in C!Orphaned(late)
      PROVE  c \in C!Activation /\ c.stale /\ \E d \in calls : c.step = d.step
  <2>1. PICK d \in late : c = [d EXCEPT !.by = IF @ = "widget" THEN "closed" ELSE @]
    BY DEF C!Orphaned
  <2>2. d \in C!Activation
    BY <1>1
  <2>3. c \in C!Activation /\ c.stale = d.stale /\ c.step = d.step
    BY <2>1, <2>2 DEF C!Activation
  <2> QED
    BY <1>1, <2>3
<1> QED
  BY <1>1, <1>2, <1>3 DEF Alike, late

\* The connection becomes w, for which the user wishes.
LEMMA BecomeSound ==
    ASSUME ConnInv, NEW w, NEW calls \in SUBSET activations, C!Become(w, calls),
           w \in [connector : Vendors \cup {None}, failed : BOOLEAN,
                  account : Accounts \cup C!Paths \cup {None}],
           C!Active(w) => wanted, UNCHANGED <<wanted, ledgerPath>>,
           wallet' \in Accounts \cup {None}, faults' \in Nat, faults' = 0 => faults = 0,
           UNCHANGED <<funded, ownBrowser>>
    PROVE  ConnInv'
<1> DEFINE late == {[c EXCEPT !.stale = TRUE] : c \in calls}
<1>1. C!TypeOK /\ Outside /\ C!SignedIn /\ Wished /\ Derivations
  BY DEF ConnInv
<1>2. calls \in SUBSET C!Activation
  BY <1>1 DEF C!TypeOK
<1>3. /\ Alike(late, calls) /\ Alike(C!Orphaned(late), calls)
      /\ \A c \in late : c.stale
      /\ \A c \in C!Orphaned(late) : c.stale
  BY <1>2, LateAlike
<1>4. web3' = w /\ activations' \in {late, C!Orphaned(late)}
  BY DEF C!Become
<1>5. \/ C!Active(w) /\ address' = w.account /\ eagerConnect' = "true" /\ widget' = C!Closed
      \/ ~C!Active(w) /\ UNCHANGED <<address, eagerConnect, widget>>
  BY DEF C!Become, C!login
<1>6. /\ eager' \in [stage : {"skipped", "asked", "activating", "done"}, tried : BOOLEAN]
      /\ eager'.stage = "asked" => eager.stage = "asked"
  <2>1. eager \in [stage : {"skipped", "asked", "activating", "done"}, tried : BOOLEAN]
    BY <1>1 DEF C!TypeOK
  <2>2. C!Active(w) \in BOOLEAN
    BY DEF C!Active
  <2> QED
    BY <2>1, <2>2 DEF C!Become
<1>7. connectorIcon' \in Vendors \cup {None}
  BY <1>1 DEF C!Become, C!TypeOK
<1> HIDE DEF late
<1>8. Alike(activations', calls) /\ \A c \in activations' : c.stale
  BY <1>3, <1>4
<1>9. C!TypeOK'
  <2>1. widget' \in [open : BOOLEAN, error : BOOLEAN, activating : Vendors \cup {None}]
    <3>1. C!Closed \in [open : BOOLEAN, error : BOOLEAN, activating : Vendors \cup {None}]
      BY DEF C!Closed
    <3>2. widget \in [open : BOOLEAN, error : BOOLEAN, activating : Vendors \cup {None}]
      BY <1>1 DEF C!TypeOK
    <3> QED
      BY <1>5, <3>1, <3>2
  <2>2. /\ address' \in Accounts \cup C!Paths \cup {None}
        /\ eagerConnect' \in {"unset", "true", "false"}
    BY <1>1, <1>5 DEF C!TypeOK
  <2>3. ledgerPath' \in C!Paths \cup {None} /\ activations' \subseteq C!Activation
    BY <1>1, <1>8 DEF C!TypeOK, Alike
  <2> QED
    BY <1>4, <1>6, <1>7, <2>1, <2>2, <2>3 DEF C!TypeOK
<1>10. Outside'
  BY <1>1 DEF Outside
<1>11. C!SignedIn'
  BY <1>4, <1>5 DEF C!SignedIn, C!Active
<1>12. Wished'
  BY <1>1, <1>4, <1>5, <1>6, <1>8 DEF Wished, C!Active
<1>13. Derivations'
  BY <1>1, <1>8 DEF Derivations, Alike, C!LedgerIsFunded
<1> QED
  BY <1>9, <1>10, <1>11, <1>12, <1>13 DEF ConnInv

\* A new call starts on the first path, or is ready.
LEMMA CalledType ==
    ASSUME NEW who \in {"eager", "widget", "button"}, NEW v \in Vendors
    PROVE  /\ C!Called(who, v) \in C!Activation
           /\ C!Called(who, v).step # "legacy"
  BY DEF C!Called, C!Activation, C!Paths

\* It holds when the page is first opened.
LEMMA ConnInit == C!Init => ConnInv
<1> SUFFICES ASSUME C!Init PROVE ConnInv
  OBVIOUS
<1> USE DEF C!Init
<1>1. C!TypeOK
  <2>1. eager \in [stage : {"skipped", "asked", "activating", "done"}, tried : BOOLEAN]
    BY DEF C!Load
  <2>2. web3 \in [connector : Vendors \cup {None}, failed : BOOLEAN,
                  account : Accounts \cup C!Paths \cup {None}]
    BY DEF C!Disconnected
  <2>3. widget \in [open : BOOLEAN, error : BOOLEAN, activating : Vendors \cup {None}]
    BY DEF C!Closed
  <2> QED
    BY <2>1, <2>2, <2>3 DEF C!TypeOK
<1>2. Outside
  BY DEF Outside
<1>3. C!SignedIn /\ ~C!Active(web3)
  BY DEF C!SignedIn, C!Active, C!Disconnected
<1>4. Wished
  BY <1>3 DEF Wished, C!Load
<1>5. Derivations
  BY DEF Derivations, C!LedgerIsFunded
<1> QED
  BY <1>1, <1>2, <1>3, <1>4, <1>5 DEF ConnInv

\* Another call is made, for which the user wishes.
LEMMA CallSound ==
    ASSUME ConnInv, NEW who \in {"eager", "widget", "button"}, NEW v \in Vendors,
           activations' = activations \cup {C!Called(who, v)},
           wanted', UNCHANGED <<web3, eagerConnect, address, connectorIcon, ledgerPath>>,
           UNCHANGED <<wallet, funded, ownBrowser, faults>>,
           eager' \in [stage : {"skipped", "asked", "activating", "done"}, tried : BOOLEAN],
           widget' \in [open : BOOLEAN, error : BOOLEAN, activating : Vendors \cup {None}],
           wanted' \in BOOLEAN
    PROVE  ConnInv'
<1>1. C!TypeOK /\ Outside /\ C!SignedIn /\ Wished /\ Derivations
  BY DEF ConnInv
<1>2. activations' \subseteq C!Activation
  BY <1>1, CalledType DEF C!TypeOK
<1>3. C!TypeOK'
  BY <1>1, <1>2 DEF C!TypeOK
<1>4. Outside'
  BY <1>1 DEF Outside
<1>5. C!SignedIn'
  BY <1>1 DEF C!SignedIn, C!Active
<1>6. Wished'
  BY DEF Wished
<1>7. Derivations'
  BY <1>1, CalledType DEF Derivations, C!LedgerIsFunded
<1> QED
  BY <1>3, <1>4, <1>5, <1>6, <1>7 DEF ConnInv

\* Only calls go, or come to be of nobody; the page changes otherwise as it may.
LEMMA QuietSound ==
    ASSUME ConnInv, Alike(activations', activations),
           UNCHANGED <<web3, eagerConnect, address, ledgerPath, wanted>>,
           UNCHANGED <<wallet, funded, ownBrowser>>,
           faults' \in Nat, faults' = 0 => faults = 0,
           connectorIcon' \in Vendors \cup {None},
           eager' \in [stage : {"skipped", "asked", "activating", "done"}, tried : BOOLEAN],
           eager'.stage = "asked" => eager.stage = "asked",
           widget' \in [open : BOOLEAN, error : BOOLEAN, activating : Vendors \cup {None}]
    PROVE  ConnInv'
<1>1. C!TypeOK /\ Outside /\ C!SignedIn /\ Wished /\ Derivations
  BY DEF ConnInv
<1>2. C!TypeOK'
  BY <1>1 DEF C!TypeOK, Alike
<1>3. Outside'
  BY <1>1 DEF Outside
<1>4. C!SignedIn'
  BY <1>1 DEF C!SignedIn, C!Active
<1>5. Wished'
  BY <1>1 DEF Wished, Alike, C!Active
<1>6. Derivations'
  BY <1>1 DEF Derivations, C!LedgerIsFunded, Alike
<1> QED
  BY <1>2, <1>3, <1>4, <1>5, <1>6 DEF ConnInv

\* The Ledger's connector comes a step further.
LEMMA DeriveSound ==
    ASSUME ConnInv, NEW c \in activations, C!deriveProvider(c)
    PROVE  ConnInv'
<1> DEFINE ready == [c EXCEPT !.step = "ready"]
           next == [c EXCEPT !.step = "legacy"]
<1>1. C!TypeOK /\ Outside /\ C!SignedIn /\ Wished /\ Derivations
  BY DEF ConnInv
<1>2. /\ c \in C!Activation /\ c.step \in C!Paths
      /\ ready \in C!Activation /\ ready.step = "ready" /\ ready.stale = c.stale
      /\ next \in C!Activation /\ next.step = "legacy" /\ next.stale = c.stale
  BY <1>1 DEF C!TypeOK, C!Activation, C!deriveProvider, C!Paths
<1>3. /\ UNCHANGED <<web3, eager, eagerConnect, address, connectorIcon, widget, wanted>>
      /\ UNCHANGED <<wallet, funded, ownBrowser>>
      /\ \/ UNCHANGED faults
         \/ faults' = faults + 1
  BY DEF C!deriveProvider
<1>4. \/ /\ activations' = (activations \ {c}) \cup {ready}
         /\ ledgerPath' \in C!Paths
         /\ faults' = 0 => ledgerPath' = IF funded = {"legacy"} THEN "legacy" ELSE "live"
      \/ /\ activations' = (activations \ {c}) \cup {next}
         /\ UNCHANGED <<ledgerPath, faults>> /\ "live" \notin funded
  <2>1. /\ c.step \in {"live", "legacy"} /\ funded \subseteq {"live", "legacy"}
        /\ faults \in Nat
        /\ c.step = "legacy" => "live" \notin funded
    BY <1>1, <1>2 DEF Outside, Derivations, C!Paths
  <2>2. CASE c.step \in funded /\ C!Derived(c, c.step)
    <3>1. CASE c.step = "live"
      <4>1. funded # {"legacy"}
        BY <2>2, <3>1
      <4> QED
        BY <1>2, <2>2, <3>1, <4>1 DEF C!Derived
    <3>2. CASE c.step = "legacy"
      <4>1. \A x \in funded : x = "legacy"
        BY <2>1, <3>2
      <4>2. "legacy" \in funded
        BY <2>2, <3>2
      <4>3. funded = {"legacy"}
        BY <4>1, <4>2
      <4> QED
        BY <1>2, <2>2, <3>2, <4>3 DEF C!Derived
    <3> QED
      BY <2>1, <3>1, <3>2
  <2>3. CASE c.step \notin funded /\ c.step = "legacy" /\ C!Derived(c, "live")
    <3>1. funded # {"legacy"}
      BY <2>3
    <3> QED
      BY <2>3, <3>1 DEF C!Derived, C!Paths
  <2>4. CASE /\ c.step \notin funded /\ c.step = "live" /\ UNCHANGED <<ledgerPath, faults>>
             /\ activations' = (activations \ {c}) \cup {next}
    BY <2>4
  <2>5. CASE faults' = faults + 1 /\ C!Derived(c, "live")
    <3>1. faults' # 0
      BY <2>1, <2>5
    <3>2. ledgerPath' = "live" /\ activations' = (activations \ {c}) \cup {ready}
      BY <2>5 DEF C!Derived
    <3> QED
      BY <3>1, <3>2 DEF C!Paths
  <2> QED
    BY <2>2, <2>3, <2>4, <2>5 DEF C!deriveProvider
<1> HIDE DEF ready, next
<1>5. /\ activations' \subseteq C!Activation /\ ledgerPath' \in C!Paths \cup {None}
      /\ \A d \in activations' : \E b \in activations : b.stale = d.stale
      /\ \A d \in activations' : d.step = "legacy" => "live" \notin funded
  BY <1>1, <1>2, <1>4 DEF C!TypeOK, Derivations
<1>6. C!TypeOK'
  BY <1>1, <1>3, <1>5 DEF C!TypeOK
<1>7. Outside'
  BY <1>1, <1>3 DEF Outside
<1>8. C!SignedIn'
  BY <1>1, <1>3 DEF C!SignedIn, C!Active
<1>9. Wished'
  BY <1>1, <1>3, <1>5 DEF Wished, C!Active
<1>10. C!LedgerIsFunded'
  BY <1>1, <1>3, <1>4 DEF Derivations, C!LedgerIsFunded
<1>11. Derivations'
  BY <1>3, <1>5, <1>10 DEF Derivations
<1> QED
  BY <1>6, <1>7, <1>8, <1>9, <1>11 DEF ConnInv

\* A call settles in one of three ways.
LEMMA ConnectsSound ==
    ASSUME ConnInv, NEW c \in activations, C!Connects(c)
    PROVE  ConnInv'
<1> DEFINE w == [connector |-> c.vendor, account |-> C!AccountOf(c.vendor), failed |-> FALSE]
<1>1. C!TypeOK /\ Outside /\ Wished
  BY DEF ConnInv
<1>2. c.vendor \in Vendors /\ C!AccountOf(c.vendor) \in Accounts \cup C!Paths \cup {None}
  BY <1>1 DEF C!TypeOK, C!Activation, Outside, C!AccountOf
<1>3. wanted
  BY <1>1 DEF Wished, C!Connects
<1>4. C!Become(w, activations \ {c}) /\ UNCHANGED <<ledgerPath, wanted>>
  BY DEF C!Connects
<1>5. UNCHANGED <<wallet, funded, ownBrowser, faults>>
  BY DEF C!Connects, C!outside
<1>6. w \in [connector : Vendors \cup {None}, failed : BOOLEAN,
             account : Accounts \cup C!Paths \cup {None}]
  BY <1>2
<1> HIDE DEF w
<1>7. /\ wallet' \in Accounts \cup {None} /\ faults' \in Nat
      /\ faults' = 0 => faults = 0
  BY <1>1, <1>5 DEF Outside
<1> QED
  BY <1>3, <1>4, <1>5, <1>6, <1>7, BecomeSound

\* A call that was superseded settles in vain.
LEMMA SupersededSound ==
    ASSUME ConnInv, NEW c \in activations, C!Superseded(c)
    PROVE  ConnInv'
<1>1. C!TypeOK /\ Outside
  BY DEF ConnInv
<1>2. c.vendor \in Vendors
  BY <1>1 DEF C!TypeOK, C!Activation
<1>3. Alike(activations', activations)
  BY <1>1 DEF Alike, C!Superseded, C!TypeOK
<1>4. /\ UNCHANGED <<web3, eagerConnect, address, ledgerPath, wanted, widget>>
      /\ UNCHANGED <<wallet, funded, ownBrowser, faults>>
  BY DEF C!Superseded, C!outside
<1>5. connectorIcon' \in Vendors \cup {None}
  BY <1>1, <1>2 DEF C!Superseded, C!TypeOK
<1>6. /\ eager' \in [stage : {"skipped", "asked", "activating", "done"}, tried : BOOLEAN]
      /\ eager'.stage = "asked" => eager.stage = "asked"
  BY <1>1 DEF C!Superseded, C!TypeOK
<1>7. /\ faults' \in Nat
      /\ faults' = 0 => faults = 0
      /\ widget' \in [open : BOOLEAN, error : BOOLEAN, activating : Vendors \cup {None}]
  BY <1>1, <1>4 DEF Outside, C!TypeOK
<1> QED
  BY <1>3, <1>4, <1>5, <1>6, <1>7, QuietSound

\* The wallet refuses, or has no account.
LEMMA RefusesSound ==
    ASSUME ConnInv, NEW c \in activations, C!Refuses(c)
    PROVE  ConnInv'
<1> DEFINE w == [connector |-> c.vendor, account |-> None, failed |-> TRUE]
<1>1. C!TypeOK /\ Outside
  BY DEF ConnInv
<1>2. /\ UNCHANGED <<ledgerPath, wanted>>
      /\ UNCHANGED <<wallet, funded, ownBrowser>>
      /\ faults' = faults \/ faults' = faults + 1
  BY DEF C!Refuses, C!Refused
<1>3. /\ wallet' \in Accounts \cup {None} /\ faults' \in Nat
      /\ faults' = 0 => faults = 0
  BY <1>1, <1>2 DEF Outside
<1>4. CASE C!Become(w, activations \ {c})
  <2>1. w \in [connector : Vendors \cup {None}, failed : BOOLEAN,
               account : Accounts \cup C!Paths \cup {None}]
    BY <1>1 DEF C!TypeOK, C!Activation
  <2>2. ~C!Active(w)
    BY DEF C!Active
  <2> HIDE DEF w
  <2> QED
    BY <1>2, <1>3, <1>4, <2>1, <2>2, BecomeSound
<1>5. CASE ~C!Become(w, activations \ {c})
  <2>1. /\ activations' = activations \ {c}
        /\ eager' = IF c.by = "eager" THEN [stage |-> "done", tried |-> TRUE] ELSE eager
        /\ widget' = IF c.by = "widget"
                     THEN [widget EXCEPT !.error = TRUE, !.activating = None] ELSE widget
        /\ UNCHANGED <<web3, eagerConnect, address, connectorIcon>>
    BY <1>5 DEF C!Refuses
  <2>2. Alike(activations', activations)
    BY <1>1, <2>1 DEF Alike, C!TypeOK
  <2>3. /\ eager' \in [stage : {"skipped", "asked", "activating", "done"}, tried : BOOLEAN]
        /\ eager'.stage = "asked" => eager.stage = "asked"
    BY <1>1, <2>1 DEF C!TypeOK
  <2>4. widget' \in [open : BOOLEAN, error : BOOLEAN, activating : Vendors \cup {None}]
    BY <1>1, <2>1 DEF C!TypeOK
  <2>5. connectorIcon' \in Vendors \cup {None}
    BY <1>1, <2>1 DEF C!TypeOK
  <2> QED
    BY <1>2, <1>3, <2>1, <2>2, <2>3, <2>4, <2>5, QuietSound
<1> QED
  BY <1>4, <1>5

\* An error of the Ledger of which the page hears nothing.
LEMMA SuppressedSound ==
    ASSUME ConnInv, NEW c \in activations, C!Suppressed(c)
    PROVE  ConnInv'
<1>1. C!TypeOK /\ Outside
  BY DEF ConnInv
<1>2. Alike(activations', activations)
  BY <1>1 DEF Alike, C!Suppressed, C!TypeOK
<1>3. /\ UNCHANGED <<web3, eager, eagerConnect, address, connectorIcon, ledgerPath, wanted>>
      /\ UNCHANGED <<widget, wallet, funded, ownBrowser>>
      /\ faults' = faults + 1
  BY DEF C!Suppressed
<1>4. faults' \in Nat /\ (faults' = 0 => faults = 0)
  BY <1>1, <1>3 DEF Outside
<1>5. /\ connectorIcon' \in Vendors \cup {None}
      /\ eager' \in [stage : {"skipped", "asked", "activating", "done"}, tried : BOOLEAN]
      /\ eager'.stage = "asked" => eager.stage = "asked"
      /\ widget' \in [open : BOOLEAN, error : BOOLEAN, activating : Vendors \cup {None}]
  BY <1>1, <1>3 DEF C!TypeOK
<1> QED
  BY <1>2, <1>3, <1>4, <1>5, QuietSound

\* The user disconnects: what is under way will not connect again.
LEMMA DisconnectSound == ConnInv /\ C!Disconnect => ConnInv'
<1> SUFFICES ASSUME ConnInv, C!Disconnect PROVE ConnInv'
  OBVIOUS
<1>1. C!TypeOK /\ Outside /\ C!SignedIn /\ Wished /\ Derivations
  BY DEF ConnInv
<1>2. /\ web3' = C!Disconnected /\ eagerConnect' = "false"
      /\ wanted' = (eager.stage = "asked")
      /\ activations' = {[c EXCEPT !.stale = TRUE] : c \in activations}
      /\ UNCHANGED <<eager, address, connectorIcon, widget, ledgerPath>>
      /\ UNCHANGED <<wallet, funded, ownBrowser, faults>>
  BY DEF C!Disconnect, C!outside
<1>3. Alike(activations', activations) /\ \A c \in activations' : c.stale
  <2>1. activations \in SUBSET C!Activation
    BY <1>1 DEF C!TypeOK
  <2> QED
    BY <1>2, <2>1, LateAlike
<1>4. ~C!Active(web3')
  BY <1>2 DEF C!Active, C!Disconnected
<1>5. C!TypeOK'
  <2>1. web3' \in [connector : Vendors \cup {None}, failed : BOOLEAN,
                   account : Accounts \cup C!Paths \cup {None}]
    BY <1>2 DEF C!Disconnected
  <2> QED
    BY <1>1, <1>2, <1>3, <2>1 DEF C!TypeOK, Alike
<1>6. Outside'
  BY <1>1, <1>2 DEF Outside
<1>7. C!SignedIn'
  BY <1>4 DEF C!SignedIn, C!Active
<1>8. Wished'
  BY <1>2, <1>3, <1>4 DEF Wished, C!Active
<1>9. Derivations'
  BY <1>1, <1>2, <1>3 DEF Derivations, C!LedgerIsFunded, Alike
<1> QED
  BY <1>5, <1>6, <1>7, <1>8, <1>9 DEF ConnInv

\* The user takes an account of the Ledger.
LEMMA SelectSound ==
    ASSUME ConnInv, NEW a \in Accounts \cup {None}, C!Select(a)
    PROVE  ConnInv'
<1> DEFINE w == IF a = None THEN C!Disconnected ELSE [web3 EXCEPT !.account = a]
<1>1. C!TypeOK /\ Outside /\ Wished
  BY DEF ConnInv
<1>2. /\ UNCHANGED <<ledgerPath, wanted, funded, ownBrowser, faults>>
      /\ wallet' \in Accounts \cup {None}
  BY DEF C!Select
<1>3. faults' \in Nat /\ (faults' = 0 => faults = 0)
  BY <1>1, <1>2 DEF Outside
<1>4. CASE C!Active(web3) /\ web3.connector # "Ledger"
  <2>1. C!Become(w, activations)
    BY <1>4 DEF C!Select
  <2>2. w \in [connector : Vendors \cup {None}, failed : BOOLEAN,
               account : Accounts \cup C!Paths \cup {None}]
    BY <1>1 DEF C!TypeOK, C!Disconnected
  <2>3. wanted
    BY <1>1, <1>4 DEF Wished
  <2> HIDE DEF w
  <2> QED
    BY <1>2, <1>3, <2>1, <2>2, <2>3, BecomeSound
<1>5. CASE ~(C!Active(web3) /\ web3.connector # "Ledger")
  <2>1. UNCHANGED <<web3, activations, eager, eagerConnect, address, connectorIcon, widget>>
    BY <1>5 DEF C!Select
  <2>2. C!TypeOK' /\ Outside' /\ C!SignedIn' /\ Wished' /\ Derivations'
    BY <1>1, <1>2, <2>1 DEF ConnInv, C!TypeOK, Outside, C!SignedIn, Wished, Derivations,
                            C!LedgerIsFunded, C!Active
  <2> QED
    BY <2>2 DEF ConnInv
<1> QED
  BY <1>4, <1>5

\* The page is loaded again, and asks only if the user did not disconnect.
LEMMA LoadedAgainSound == ConnInv /\ C!Reload => ConnInv'
<1> SUFFICES ASSUME ConnInv, C!Reload PROVE ConnInv'
  OBVIOUS
<1>1. C!TypeOK /\ Outside /\ Wished
  BY DEF ConnInv
<1>2. /\ web3' = C!Disconnected /\ activations' = {} /\ eager' = C!Load(eagerConnect)
      /\ address' = None /\ connectorIcon' = None /\ widget' = C!Closed
      /\ ledgerPath' = None
      /\ UNCHANGED <<eagerConnect, wanted, wallet, funded, ownBrowser, faults>>
  BY DEF C!Reload
<1>3. C!TypeOK'
  <2>1. eager' \in [stage : {"skipped", "asked", "activating", "done"}, tried : BOOLEAN]
    BY <1>2 DEF C!Load
  <2>2. web3' \in [connector : Vendors \cup {None}, failed : BOOLEAN,
                   account : Accounts \cup C!Paths \cup {None}]
    BY <1>2 DEF C!Disconnected
  <2>3. widget' \in [open : BOOLEAN, error : BOOLEAN, activating : Vendors \cup {None}]
    BY <1>2 DEF C!Closed
  <2> QED
    BY <1>1, <1>2, <2>1, <2>2, <2>3 DEF C!TypeOK
<1>4. ~C!Active(web3')
  BY <1>2 DEF C!Active, C!Disconnected
<1>5. Outside' /\ C!SignedIn'
  BY <1>1, <1>2, <1>4 DEF Outside, C!SignedIn, C!Active
<1>6. Wished'
  BY <1>1, <1>2, <1>4 DEF Wished, C!Load, C!Active
<1>7. Derivations'
  BY <1>2 DEF Derivations, C!LedgerIsFunded
<1> QED
  BY <1>3, <1>5, <1>6, <1>7 DEF ConnInv

\* isAuthorized answers.
LEMMA AuthorizedSound == ConnInv /\ C!isAuthorized => ConnInv'
<1> SUFFICES ASSUME ConnInv, C!isAuthorized PROVE ConnInv'
  OBVIOUS
<1>1. C!TypeOK /\ Outside /\ Wished
  BY DEF ConnInv
<1>2. /\ eager.stage = "asked"
      /\ UNCHANGED <<web3, eagerConnect, address, connectorIcon, widget, ledgerPath, wanted>>
      /\ UNCHANGED <<wallet, funded, ownBrowser, faults>>
  BY DEF C!isAuthorized, C!outside
<1>3. /\ wanted /\ wanted' \in BOOLEAN /\ faults' \in Nat
      /\ widget' \in [open : BOOLEAN, error : BOOLEAN, activating : Vendors \cup {None}]
      /\ connectorIcon' \in Vendors \cup {None}
      /\ faults' = 0 => faults = 0
  BY <1>1, <1>2 DEF Wished, Outside, C!TypeOK
<1>4. CASE /\ activations' = activations \cup {C!Called("eager", "MetaMask")}
           /\ eager' = [eager EXCEPT !.stage = "activating"]
  <2>1. eager' \in [stage : {"skipped", "asked", "activating", "done"}, tried : BOOLEAN]
    BY <1>1, <1>4 DEF C!TypeOK
  <2> QED
    BY <1>2, <1>3, <1>4, <2>1, VendorsAssumption, CallSound
<1>5. CASE activations' = activations /\ eager' = [stage |-> "done", tried |-> TRUE]
  <2>1. Alike(activations', activations)
    BY <1>1, <1>5 DEF Alike, C!TypeOK
  <2>2. /\ eager' \in [stage : {"skipped", "asked", "activating", "done"}, tried : BOOLEAN]
        /\ eager'.stage = "asked" => eager.stage = "asked"
    BY <1>5
  <2> QED
    BY <1>2, <1>3, <2>1, <2>2, QuietSound
<1> QED
  BY <1>4, <1>5 DEF C!isAuthorized

\* The modal opens and closes, and buttons are clicked.
LEMMA ModalSound ==
    ASSUME ConnInv, C!showLogin \/ C!CloseModal \/ C!walletLogin \/ \E v \in Vendors : C!Click(v)
    PROVE  ConnInv'
<1>1. C!TypeOK /\ Outside
  BY DEF ConnInv
<1>2. /\ eager \in [stage : {"skipped", "asked", "activating", "done"}, tried : BOOLEAN]
      /\ widget \in [open : BOOLEAN, error : BOOLEAN, activating : Vendors \cup {None}]
      /\ connectorIcon \in Vendors \cup {None}
      /\ activations \in SUBSET C!Activation
      /\ faults \in Nat
  BY <1>1 DEF C!TypeOK, Outside
<1>3. CASE C!showLogin
  <2>1. widget' \in [open : BOOLEAN, error : BOOLEAN, activating : Vendors \cup {None}]
    BY <1>3 DEF C!showLogin, C!Closed
  <2>2. Alike(activations', activations)
    BY <1>2, <1>3 DEF C!showLogin, Alike
  <2>3. /\ UNCHANGED <<web3, eager, eagerConnect, address, connectorIcon, ledgerPath, wanted>>
        /\ UNCHANGED <<wallet, funded, ownBrowser, faults>>
    BY <1>3 DEF C!showLogin, C!outside
  <2> QED
    BY <1>2, <2>1, <2>2, <2>3, QuietSound
<1>4. CASE C!CloseModal
  <2>1. widget' \in [open : BOOLEAN, error : BOOLEAN, activating : Vendors \cup {None}]
    BY <1>4 DEF C!CloseModal, C!Closed
  <2>2. Alike(activations', activations)
    BY <1>2, <1>4, OrphanedAlike DEF C!CloseModal
  <2>3. /\ UNCHANGED <<web3, eager, eagerConnect, address, connectorIcon, ledgerPath, wanted>>
        /\ UNCHANGED <<wallet, funded, ownBrowser, faults>>
    BY <1>4 DEF C!CloseModal, C!outside
  <2> QED
    BY <1>2, <2>1, <2>2, <2>3, QuietSound
<1>5. CASE C!walletLogin
  BY <1>2, <1>5, VendorsAssumption, CallSound DEF C!walletLogin
<1>6. ASSUME NEW v \in Vendors, C!Click(v) PROVE ConnInv'
  <2>1. widget' \in [open : BOOLEAN, error : BOOLEAN, activating : Vendors \cup {None}]
    BY <1>2, <1>6 DEF C!Click
  <2> QED
    BY <1>2, <1>6, <2>1, CallSound DEF C!Click
<1> QED
  BY <1>3, <1>4, <1>5, <1>6

\* Every step keeps the invariant.
LEMMA ConnNext == ConnInv /\ [C!Next]_(C!connVars) => ConnInv'
<1> SUFFICES ASSUME ConnInv, [C!Next]_(C!connVars) PROVE ConnInv'
  OBVIOUS
<1>1. CASE C!isAuthorized \/ C!Reload \/ C!Disconnect
  BY <1>1, AuthorizedSound, LoadedAgainSound, DisconnectSound
<1>2. CASE C!showLogin \/ C!CloseModal \/ C!walletLogin \/ \E v \in Vendors : C!Click(v)
  BY <1>2, ModalSound
<1>3. ASSUME NEW a \in Accounts \cup {None}, C!Select(a) PROVE ConnInv'
  BY <1>3, SelectSound
<1>4. CASE C!Settles
  BY <1>4, ConnectsSound, SupersededSound, RefusesSound, SuppressedSound DEF C!Settles
<1>5. CASE C!Derives
  BY <1>5, DeriveSound DEF C!Derives
<1>6. CASE UNCHANGED C!connVars
  <2>1. /\ UNCHANGED <<web3, activations, eager, eagerConnect, address, connectorIcon, widget>>
        /\ UNCHANGED <<ledgerPath, wanted, wallet, funded, ownBrowser, faults>>
    BY <1>6 DEF C!connVars, C!outside
  <2> QED
    BY <2>1 DEF ConnInv, C!TypeOK, Outside, C!SignedIn, Wished, Derivations,
                C!LedgerIsFunded, C!Active
<1> QED
  BY <1>1, <1>2, <1>3, <1>4, <1>5, <1>6 DEF C!Next

\* The invariant says what the run checks.
LEMMA ConnFollows == ConnInv => ConnectionTrue
  BY DEF ConnInv, ConnectionTrue, Wished, Derivations, C!StaysDisconnected

\* The account of the application is the connected one; who disconnected stays so;
\* the Ledger's account is the first with a balance: for any wallets and accounts,
\* whichever calls overlap.
THEOREM ConnectionAlwaysTrue == C!Spec => []ConnectionTrue
<1> QED
  BY ConnInit, ConnNext, ConnFollows, PTL DEF C!Spec
-----------------------------------------------------------------------------
(* The histories.                                                           *)
USE NoAccountAssumption, HashesAssumption, SwitchesAssumption

\* What a record says is so on the chain c.
Fact(r, c) ==
    /\ r \in Record
    /\ r.hash \in Errors => r.mined /\ r.isError
    /\ r.mined /\ ~r.isError => c[r.hash] = "success"
    /\ r.mined /\ r.isError /\ r.hash \in Hashes => c[r.hash] = "failure"

Facts(records, c) == \A r \in records : Fact(r, c)

\* What is done among the records was done by the account.
Own(a, records) ==
    a # NoAccount => \A r \in records : r.mined /\ ~r.isError => Sender[r.hash] = a

Unmarked(records) == {[r EXCEPT !.observed = FALSE] : r \in records}

Shown(d, a) == a # NoAccount => Unmarked(d.transactions) = Unmarked(d.stored[a])

\* Everything the page keeps is true: what it shows, has loaded and waits for.
TrueBatch(b, c) ==
    /\ Facts(b.waiting, c) /\ \A r \in b.waiting : ~r.mined
    /\ Facts(b.errors, c) /\ \A r \in b.errors : r.isError

New(records) == \A r \in records : r.isError \/ (~r.mined /\ ~r.observed)

Sound(d, c) ==
    /\ d \in Dapp
    /\ Facts(d.transactions, c)
    /\ Facts(d.dirty, c) /\ New(d.dirty)
    /\ \A history \in d.loads : Facts(history, c)
    /\ \A b \in d.batches : TrueBatch(b, c)
    /\ \A a \in Accounts \cup {NoAccount} : Facts(d.stored[a], c) /\ Own(a, d.stored[a])

\* Between two events a page without an account shows nothing, and one with an
\* account has stored what it shows and has nothing new.
AtRest(d, a, c) ==
    /\ Sound(d, c)
    /\ Own(a, d.transactions) /\ Shown(d, a)
    /\ a = NoAccount => d.transactions = {}
    /\ a # NoAccount => d.dirty = {}

\* Of the transactions with one nonce, one at most is ever mined.
NoncesOnce ==
    \A g, h \in Hashes :
        Sender[g] = Sender[h] /\ Nonce[g] = Nonce[h] /\ chain[h] = "pending" =>
            chain[g] \in {"unsent", "pending"}

Inv == TypeOK /\ NoncesOnce /\ AtRest(dapp, account, chain)
-----------------------------------------------------------------------------
(* The operators of the listener.                                           *)

Wallets == Accounts \cup {NoAccount}

\* A page whose parts are sets of records is a page.
LEMMA DappType ==
    ASSUME NEW d \in Dapp
    PROVE  /\ d.transactions \subseteq Record /\ d.dirty \subseteq Record
           /\ d.loads \subseteq SUBSET Record
           /\ d.batches \subseteq Batch /\ d.listening \in BOOLEAN
           /\ d.stored \in [Wallets -> SUBSET Record]
  BY DEF Dapp, Wallets

\* Records that replace others of the same hashes are shown and stored alike.
LEMMA UpdateSound ==
    ASSUME NEW c, NEW d, Sound(d, c), NEW a \in Wallets,
           NEW records \in SUBSET Record, Facts(records, c),
           Own(a, d.transactions), Own(a, records)
    PROVE  LET u == updateTransactions(d, a, records)
           IN  /\ Sound(u, c)
               /\ Own(a, u.transactions) /\ Shown(u, a)
               /\ u.dirty = d.dirty /\ u.batches = d.batches
<1> DEFINE merged == Without(d.transactions, HashesOf(records)) \cup records
           u == updateTransactions(d, a, records)
<1>1. d \in Dapp
  BY DEF Sound
<1>2. merged \subseteq Record /\ Facts(merged, c) /\ Own(a, merged)
  BY <1>1, DappType DEF Without, Sound, Facts, Own
<1>3. u = [d EXCEPT !.transactions = merged, !.stored[a] = merged]
  BY DEF updateTransactions
<1> HIDE DEF merged, u
<1>4. u \in Dapp
  BY <1>1, <1>2, <1>3 DEF Dapp, Wallets
<1>5. /\ u.transactions = merged /\ u.dirty = d.dirty /\ u.loads = d.loads
      /\ u.batches = d.batches
      /\ u.stored = [d.stored EXCEPT ![a] = merged]
  BY <1>1, <1>3 DEF Dapp
<1>6. /\ u.stored[a] = merged
      /\ \A b \in Wallets \ {a} : u.stored[b] = d.stored[b]
  BY <1>1, <1>5, DappType
<1>7. Sound(u, c)
  BY <1>2, <1>4, <1>5, <1>6 DEF Sound, Wallets
<1> QED
  BY <1>2, <1>5, <1>6, <1>7 DEF Shown, u

\* Observing marks what is pending, or stores the failed requests, or does
\* nothing.
LEMMA ObserveSound ==
    ASSUME NEW c, NEW d, Sound(d, c), NEW a \in Wallets,
           NEW records \in SUBSET Record, Facts(records, c), Own(a, d.transactions),
           Shown(d, a) \/ (New(records) /\ records # {})
    PROVE  LET u == observeTransactions(d, a, records)
           IN  /\ Sound(u, c)
               /\ Own(a, u.transactions) /\ Shown(u, a)
               /\ u.dirty = d.dirty
<1> DEFINE pending == {[r EXCEPT !.observed = TRUE] :
                           r \in {q \in records : ~q.mined /\ ~q.observed}}
           errors == {r \in records : r.isError}
           batch == [waiting |-> pending, errors |-> errors]
           u == observeTransactions(d, a, records)
<1>1. /\ pending \subseteq Record /\ Facts(pending, c) /\ \A r \in pending : ~r.mined
      /\ Own(a, pending)
  BY DEF Record, Facts, Fact, Own
<1>2. /\ errors \subseteq Record /\ Facts(errors, c) /\ \A r \in errors : r.isError
      /\ Own(a, errors)
  BY DEF Facts, Own
<1>3. batch \in Batch /\ TrueBatch(batch, c)
  BY <1>1, <1>2 DEF Batch, TrueBatch
<1>4. pending = {} /\ errors = {} /\ New(records) => records = {}
  <2>1. ASSUME NEW r \in records, ~r.isError, New(records)
        PROVE  [r EXCEPT !.observed = TRUE] \in pending
    BY <2>1 DEF New
  <2>2. ASSUME NEW r \in records, r.isError PROVE r \in errors
    BY <2>2
  <2> HIDE DEF pending, errors
  <2> QED
    BY <2>1, <2>2
<1>5. u = IF pending # {}
          THEN [updateTransactions(d, a, pending) EXCEPT !.batches = @ \cup {batch}]
          ELSE IF errors # {} THEN updateTransactions(d, a, errors) ELSE d
  BY DEF observeTransactions
<1> HIDE DEF pending, errors, batch, u
<1>6. CASE pending # {}
  <2> DEFINE v == updateTransactions(d, a, pending)
  <2>1. Sound(v, c) /\ Own(a, v.transactions) /\ Shown(v, a) /\ v.dirty = d.dirty
    BY <1>1, UpdateSound
  <2>2. u = [v EXCEPT !.batches = @ \cup {batch}]
    BY <1>5, <1>6
  <2> HIDE DEF v
  <2>3. v \in Dapp
    BY <2>1 DEF Sound
  <2>4. u \in Dapp
    BY <1>3, <2>2, <2>3 DEF Dapp
  <2>5. /\ u.transactions = v.transactions /\ u.dirty = v.dirty /\ u.loads = v.loads
        /\ u.batches = v.batches \cup {batch} /\ u.stored = v.stored
    BY <2>2, <2>3 DEF Dapp
  <2>6. Sound(u, c)
    BY <1>3, <2>1, <2>4, <2>5 DEF Sound
  <2> QED
    BY <2>1, <2>5, <2>6 DEF Shown, u
<1>7. CASE pending = {} /\ errors # {}
  BY <1>2, <1>5, <1>7, UpdateSound DEF u
<1>8. CASE pending = {} /\ errors = {}
  BY <1>4, <1>5, <1>8 DEF u
<1> QED
  BY <1>6, <1>7, <1>8

\* Loading shows the history of the account as it is stored.
LEMMA LoadSound ==
    ASSUME NEW c, NEW d, Sound(d, c), NEW a \in Accounts
    PROVE  LET u == load(clearStore(d), a)
           IN  /\ Sound(u, c)
               /\ Own(a, u.transactions) /\ Shown(u, a)
               /\ u.dirty = {}
<1> DEFINE history == Unmarked(d.stored[a])
           u == load(clearStore(d), a)
<1>1. d \in Dapp /\ Facts(d.stored[a], c) /\ Own(a, d.stored[a])
      /\ d.stored[a] \subseteq Record
  BY DappType DEF Sound, Wallets
<1>2. history \subseteq Record /\ Facts(history, c) /\ Own(a, history)
  <2>1. ASSUME NEW q \in history
        PROVE  /\ Fact(q, c)
               /\ a # NoAccount /\ q.mined /\ ~q.isError => Sender[q.hash] = a
    <3>1. PICK r \in d.stored[a] : q = [r EXCEPT !.observed = FALSE]
      BY DEF Unmarked
    <3>2. r \in Record /\ Fact(r, c)
      BY <1>1 DEF Facts
    <3>3. q \in Record /\ q.hash = r.hash /\ q.mined = r.mined /\ q.isError = r.isError
      BY <3>1, <3>2 DEF Record
    <3> QED
      BY <1>1, <3>2, <3>3 DEF Fact, Own
  <2> QED
    BY <2>1 DEF Facts, Own, Fact
<1>3. Unmarked(history) = history
  BY <1>1 DEF Unmarked, Record
<1>4. u = [d EXCEPT !.transactions = history, !.dirty = {}, !.loads = @ \cup {history}]
  BY <1>1 DEF load, clearStore, Unmarked, Dapp
<1>5. history = Unmarked(d.stored[a])
  OBVIOUS
<1> HIDE DEF history, u
<1>6. u \in Dapp
  <2>1. history \in SUBSET Record /\ d.loads \cup {history} \in SUBSET SUBSET Record
    BY <1>1, <1>2, DappType
  <2> QED
    BY <1>1, <1>4, <2>1 DEF Dapp
<1>7. /\ u.transactions = history /\ u.dirty = {} /\ u.loads = d.loads \cup {history}
      /\ u.batches = d.batches /\ u.stored = d.stored
  BY <1>1, <1>4 DEF Dapp
<1>8. Sound(u, c)
  BY <1>2, <1>6, <1>7 DEF Sound, Facts, New
<1> QED
  BY <1>2, <1>3, <1>5, <1>7, <1>8 DEF Shown, u

\* Opening a socket changes nothing of the history.
LEMMA SocketSound ==
    ASSUME NEW c, NEW d, Sound(d, c), NEW a
    PROVE  LET u == startWebsocketListener(d)
           IN  /\ Sound(u, c)
               /\ u.transactions = d.transactions /\ u.dirty = d.dirty
               /\ Shown(d, a) => Shown(u, a)
<1> DEFINE listens == d.listening \/ \E r \in d.transactions : ~r.mined
           u == startWebsocketListener(d)
<1>1. d \in Dapp
  BY DEF Sound
<1>2. u = [d EXCEPT !.listening = listens]
  BY DEF startWebsocketListener
<1>3. listens \in BOOLEAN
  BY <1>1, DappType
<1> HIDE DEF listens, u
<1>4. u \in Dapp
  BY <1>1, <1>2, <1>3 DEF Dapp
<1>5. /\ u.transactions = d.transactions /\ u.dirty = d.dirty /\ u.loads = d.loads
      /\ u.batches = d.batches /\ u.stored = d.stored
  BY <1>1, <1>2 DEF Dapp
<1>6. Sound(u, c)
  BY <1>4, <1>5 DEF Sound
<1> QED
  BY <1>5, <1>6 DEF Shown, u

\* After a render the page is at rest: what is new is merged into what was
\* rendered, which is nothing, or of the account that is still selected.
LEMMA DidUpdateSound ==
    ASSUME NEW c, NEW d, Sound(d, c), NEW before \in Wallets, NEW a \in Wallets,
           a = before => Own(a, d.transactions) /\ Shown(d, a),
           a # before => d.dirty = {} \/ d.transactions = {}
    PROVE  AtRest(componentDidUpdate(d, before, a), a, c)
<1> DEFINE u == componentDidUpdate(d, before, a)
<1>1. d \in Dapp /\ Facts(d.dirty, c) /\ New(d.dirty) /\ d.dirty \in SUBSET Record
  BY DappType DEF Sound
<1>2. CASE a = NoAccount
  <2>1. u = [d EXCEPT !.transactions = {}]
    BY <1>2 DEF componentDidUpdate
  <2> HIDE DEF u
  <2>2. u \in Dapp
    BY <1>1, <2>1 DEF Dapp
  <2>3. /\ u.transactions = {} /\ u.dirty = d.dirty /\ u.loads = d.loads
        /\ u.batches = d.batches /\ u.stored = d.stored
    BY <1>1, <2>1 DEF Dapp
  <2>4. Sound(u, c)
    BY <2>2, <2>3 DEF Sound, Facts
  <2> QED
    BY <1>2, <2>3, <2>4 DEF AtRest, Own, Shown, u
<1>3. CASE a # NoAccount
  <2> DEFINE loaded == IF a # before THEN load(clearStore(d), a) ELSE d
             rendered == [loaded EXCEPT !.transactions = d.transactions, !.dirty = {}]
             v == IF d.dirty # {} THEN observeTransactions(rendered, a, d.dirty)
                  ELSE loaded
  <2>1. u = startWebsocketListener(v)
    BY <1>3 DEF componentDidUpdate
  <2>2. a \in Accounts
    BY <1>3 DEF Wallets
  <2>3. CASE d.dirty # {}
    <3>1. Sound(loaded, c)
      BY <2>2, LoadSound
    <3>2. loaded \in Dapp
      BY <3>1 DEF Sound
    <3>3. Own(a, d.transactions)
      BY <2>3 DEF Own
    <3>4. v = observeTransactions(rendered, a, d.dirty)
      BY <2>3
    <3> HIDE DEF loaded, u, v
    <3>5. rendered \in Dapp
      BY <1>1, <3>2 DEF Dapp
    <3>6. /\ rendered.transactions = d.transactions /\ rendered.dirty = {}
          /\ rendered.loads = loaded.loads /\ rendered.batches = loaded.batches
          /\ rendered.stored = loaded.stored
      BY <3>2 DEF Dapp
    <3> HIDE DEF rendered
    <3>7. Facts(d.transactions, c)
      BY DEF Sound
    <3>8. Sound(rendered, c)
      BY <3>1, <3>5, <3>6, <3>7 DEF Sound, Facts, New
    <3>9. Own(a, rendered.transactions)
      BY <3>3, <3>6
    <3>10. Sound(v, c) /\ Own(a, v.transactions) /\ Shown(v, a) /\ v.dirty = {}
      BY <1>1, <2>3, <3>4, <3>6, <3>8, <3>9, ObserveSound
    <3>11. /\ Sound(u, c) /\ u.transactions = v.transactions /\ u.dirty = {} /\ Shown(u, a)
      BY <2>1, <3>10, SocketSound
    <3> QED
      BY <1>3, <3>10, <3>11 DEF AtRest, u
  <2>4. CASE d.dirty = {}
    <3>1. v = loaded
      BY <2>4
    <3>2. Sound(loaded, c) /\ Own(a, loaded.transactions) /\ Shown(loaded, a)
          /\ loaded.dirty = {}
      BY <2>2, <2>4, LoadSound
    <3> HIDE DEF loaded, u, v
    <3>3. /\ Sound(u, c) /\ u.transactions = loaded.transactions /\ u.dirty = {}
          /\ Shown(u, a)
      BY <2>1, <3>1, <3>2, SocketSound
    <3> QED
      BY <1>3, <3>2, <3>3 DEF AtRest, u
  <2> QED
    BY <2>3, <2>4
<1> QED
  BY <1>2, <1>3

\* A transaction that was mined takes the place of those it replaced.
LEMMA ReplaceSound ==
    ASSUME NEW c, NEW d, Sound(d, c), NEW a \in Accounts, NEW h \in Hashes,
           Own(a, d.transactions), Shown(d, a), c[h] = "success", Sender[h] = a
    PROVE  LET u == handlePossibleReplacedTransaction(d, a, h)
           IN  Sound(u, c) /\ Own(a, u.transactions) /\ Shown(u, a) /\ u.dirty = d.dirty
<1> DEFINE r == [hash |-> h, mined |-> TRUE, isError |-> FALSE, observed |-> FALSE]
           dropped == {q \in d.transactions :
                          /\ ~q.mined /\ q.hash \in Hashes
                          /\ Nonce[q.hash] # 0 /\ Nonce[q.hash] = Nonce[h]}
           merged == Without(d.transactions, HashesOf(dropped)) \cup {r}
           u == handlePossibleReplacedTransaction(d, a, h)
<1>1. d \in Dapp
  BY DEF Sound
<1>2. r \in Record /\ Fact(r, c) /\ r.hash = h
  BY DEF Record, Fact
<1> HIDE DEF r
<1>3. merged \subseteq Record /\ Facts(merged, c) /\ Own(a, merged)
  <2>1. d.transactions \subseteq Record /\ Facts(d.transactions, c)
    BY <1>1, DappType DEF Sound
  <2>2. \A q \in merged : q \in d.transactions \/ q = r
    BY DEF Without
  <2> HIDE DEF merged
  <2> QED
    BY <1>2, <2>1, <2>2 DEF Facts, Own
<1>4. u = IF dropped = {} THEN d
          ELSE [d EXCEPT !.transactions = merged, !.stored[a] = merged]
  BY DEF r, handlePossibleReplacedTransaction
<1> HIDE DEF merged, dropped, u
<1>5. CASE u = d
  BY <1>5 DEF u
<1>6. CASE u = [d EXCEPT !.transactions = merged, !.stored[a] = merged]
  <2>1. u \in Dapp
    BY <1>1, <1>3, <1>6 DEF Dapp
  <2>2. /\ u.transactions = merged /\ u.dirty = d.dirty /\ u.loads = d.loads
        /\ u.batches = d.batches
        /\ u.stored = [d.stored EXCEPT ![a] = merged]
    BY <1>1, <1>6 DEF Dapp
  <2>3. /\ u.stored[a] = merged
        /\ \A b \in Wallets \ {a} : u.stored[b] = d.stored[b]
    BY <1>1, <2>2, DappType DEF Wallets
  <2>4. Sound(u, c)
    BY <1>3, <2>1, <2>2, <2>3 DEF Sound, Wallets
  <2> QED
    BY <1>3, <2>2, <2>3, <2>4 DEF Shown, u
<1> QED
  BY <1>4, <1>5, <1>6

\* The record of a transaction that was waited for is confirmed for its sender
\* only, and the last of a batch stores the failed requests.
LEMMA ObservedSound ==
    ASSUME NEW c, NEW d, Sound(d, c), NEW a \in Wallets,
           Own(a, d.transactions), Shown(d, a), NEW batch \in d.batches,
           NEW r \in batch.waiting, NEW mined \in Record, Fact(mined, c),
           mined.hash = r.hash
    PROVE  LET u == observed(d, a, batch, r, mined)
           IN  Sound(u, c) /\ Own(a, u.transactions) /\ Shown(u, a)
<1> DEFINE rest == batch.waiting \ {r}
           left == [batch EXCEPT !.waiting = rest]
           batches == (d.batches \ {batch}) \cup IF rest = {} THEN {} ELSE {left}
           waited == [d EXCEPT !.batches = batches]
           confirmed == IF Sender[r.hash] = a THEN updateTransactions(waited, a, {mined})
                        ELSE waited
           u == observed(d, a, batch, r, mined)
<1>1. d \in Dapp /\ batch \in Batch /\ TrueBatch(batch, c)
  BY DappType DEF Sound
<1>2. left \in Batch /\ TrueBatch(left, c)
  BY <1>1 DEF Batch, TrueBatch, Facts
<1>3. u = IF rest = {} /\ batch.errors # {}
          THEN updateTransactions(componentDidUpdate(confirmed, a, a), a, batch.errors)
          ELSE confirmed
  BY DEF observed
<1> HIDE DEF rest, left, u
<1>4. batches \subseteq Batch /\ \A b \in batches : TrueBatch(b, c)
  BY <1>1, <1>2, DappType DEF Sound
<1> HIDE DEF batches
<1>5. waited \in Dapp
  BY <1>1, <1>4 DEF Dapp
<1>6. /\ waited.transactions = d.transactions /\ waited.dirty = d.dirty
      /\ waited.loads = d.loads /\ waited.batches = batches
      /\ waited.stored = d.stored
  BY <1>1 DEF Dapp
<1> HIDE DEF waited
<1>7. Sound(waited, c) /\ Own(a, waited.transactions) /\ Shown(waited, a)
  BY <1>4, <1>5, <1>6 DEF Sound, Shown
<1>8. Sound(confirmed, c) /\ Own(a, confirmed.transactions) /\ Shown(confirmed, a)
  <2>1. CASE Sender[r.hash] = a
    <3>1. {mined} \in SUBSET Record /\ Facts({mined}, c) /\ Own(a, {mined})
      BY <2>1 DEF Facts, Own
    <3>2. confirmed = updateTransactions(waited, a, {mined})
      BY <2>1
    <3> HIDE DEF confirmed
    <3> QED
      BY <1>7, <3>1, <3>2, UpdateSound
  <2>2. CASE Sender[r.hash] # a
    BY <1>7, <2>2
  <2> QED
    BY <2>1, <2>2
<1> HIDE DEF confirmed
<1>9. CASE rest = {} /\ batch.errors # {}
  <2> DEFINE v == componentDidUpdate(confirmed, a, a)
  <2>1. Sound(v, c) /\ Own(a, v.transactions)
    BY <1>8, DidUpdateSound DEF AtRest
  <2>2. /\ batch.errors \in SUBSET Record /\ Facts(batch.errors, c)
        /\ Own(a, batch.errors)
    BY <1>1 DEF Batch, TrueBatch, Own
  <2>3. u = updateTransactions(v, a, batch.errors)
    BY <1>3, <1>9
  <2> HIDE DEF v
  <2> QED
    BY <2>1, <2>2, <2>3, UpdateSound DEF u
<1>10. CASE ~(rest = {} /\ batch.errors # {})
  BY <1>3, <1>8, <1>10 DEF u
<1> QED
  BY <1>9, <1>10
-----------------------------------------------------------------------------
(* The steps.                                                               *)

\* What was mined stays as it is, and so what was true of it.
LEMMA ChainKeeps ==
    ASSUME NEW c, NEW e, NEW d, NEW a \in Wallets, AtRest(d, a, c),
           \A h \in Hashes : c[h] \in {"success", "failure"} => e[h] = c[h]
    PROVE  AtRest(d, a, e)
<1>1. ASSUME NEW r, Fact(r, c) PROVE Fact(r, e)
  BY <1>1 DEF Fact, Record
<1>2. ASSUME NEW records, Facts(records, c) PROVE Facts(records, e)
  BY <1>1, <1>2 DEF Facts
<1>3. ASSUME NEW b, TrueBatch(b, c) PROVE TrueBatch(b, e)
  BY <1>2, <1>3 DEF TrueBatch
<1>4. Sound(d, e)
  BY <1>2, <1>3 DEF AtRest, Sound
<1> QED
  BY <1>4 DEF AtRest

\* A new record is stored beside what is shown.
LEMMA NewSound ==
    ASSUME NEW c, NEW a \in Wallets, NEW d, AtRest(d, a, c),
           NEW r \in Record, Fact(r, c), New({r})
    PROVE  AtRest(componentDidUpdate([d EXCEPT !.dirty = {r}], a, a), a, c)
<1> DEFINE u == [d EXCEPT !.dirty = {r}]
<1>1. d \in Dapp
  BY DEF AtRest, Sound
<1>2. u \in Dapp
  BY <1>1 DEF Dapp
<1>3. /\ u.transactions = d.transactions /\ u.dirty = {r} /\ u.loads = d.loads
      /\ u.batches = d.batches /\ u.stored = d.stored
  BY <1>1 DEF Dapp
<1>4. Facts({r}, c)
  BY DEF Facts
<1> HIDE DEF u
<1>5. Sound(u, c)
  BY <1>2, <1>3, <1>4 DEF AtRest, Sound
<1>6. Own(a, u.transactions) /\ Shown(u, a)
  BY <1>3 DEF AtRest, Shown
<1> QED
  BY <1>5, <1>6, DidUpdateSound DEF u

\* The page learns the hash of a transaction.
LEMMA StoreTransactionSound ==
    ASSUME NEW c, NEW a \in Wallets, NEW d, AtRest(d, a, c), NEW h \in Hashes
    PROVE  AtRest(componentDidUpdate(storeTransaction(d, h), a, a), a, c)
<1> DEFINE r == [hash |-> h, mined |-> FALSE, isError |-> FALSE, observed |-> FALSE]
<1>1. r \in Record
  BY DEF Record
<1>2. Fact(r, c) /\ New({r})
  BY <1>1 DEF Fact, New
<1>3. storeTransaction(d, h) = [d EXCEPT !.dirty = {r}]
  BY DEF storeTransaction
<1> HIDE DEF r
<1> QED
  BY <1>1, <1>2, <1>3, NewSound

\* The page learns that a request failed.
LEMMA StoreErrorSound ==
    ASSUME NEW c, NEW a \in Wallets, NEW d, AtRest(d, a, c), NEW e \in Errors
    PROVE  AtRest(componentDidUpdate(storeTransactionError(d, e), a, a), a, c)
<1> DEFINE r == [hash |-> e, mined |-> TRUE, isError |-> TRUE, observed |-> FALSE]
<1>1. r \in Record
  BY DEF Record
<1>2. Fact(r, c) /\ New({r})
  BY <1>1 DEF Fact, New
<1>3. storeTransactionError(d, e) = [d EXCEPT !.dirty = {r}]
  BY DEF storeTransactionError
<1> HIDE DEF r
<1> QED
  BY <1>1, <1>2, <1>3, NewSound

\* A timer of load finds its history.
LEMMA LoadTimerSound ==
    ASSUME NEW c, NEW a \in Wallets, NEW d, AtRest(d, a, c), NEW history \in d.loads
    PROVE  LET fired == [d EXCEPT !.loads = @ \ {history}]
           IN  AtRest(componentDidUpdate(observeTransactions(fired, a, history), a, a),
                      a, c)
<1> DEFINE loads == d.loads \ {history}
           u == [d EXCEPT !.loads = loads]
<1>1. d \in Dapp
  BY DEF AtRest, Sound
<1>2. u \in Dapp
  BY <1>1 DEF Dapp
<1>3. /\ u.transactions = d.transactions /\ u.dirty = d.dirty
      /\ u.loads \subseteq d.loads /\ u.batches = d.batches /\ u.stored = d.stored
  BY <1>1 DEF Dapp
<1>4. history \in SUBSET Record /\ Facts(history, c)
  BY <1>1, DappType DEF AtRest, Sound
<1>5. u = [d EXCEPT !.loads = @ \ {history}]
  OBVIOUS
<1> HIDE DEF u
<1>6. Sound(u, c)
  BY <1>2, <1>3 DEF AtRest, Sound
<1>7. Own(a, u.transactions) /\ Shown(u, a)
  BY <1>3 DEF AtRest, Shown
<1> DEFINE v == observeTransactions(u, a, history)
<1>8. Sound(v, c) /\ Own(a, v.transactions) /\ Shown(v, a)
  BY <1>4, <1>6, <1>7, ObserveSound
<1> HIDE DEF v
<1>9. AtRest(componentDidUpdate(v, a, a), a, c)
  BY <1>8, DidUpdateSound
<1> QED
  BY <1>5, <1>9 DEF v

\* Dismissing a message takes its record out of the store and of the history.
LEMMA DismissSound ==
    ASSUME NEW c, NEW a \in Accounts, NEW d, AtRest(d, a, c), NEW h
    PROVE  LET kept == Without(d.transactions, {h})
           IN  AtRest([d EXCEPT !.transactions = kept, !.stored[a] = kept], a, c)
<1> DEFINE kept == Without(d.transactions, {h})
           u == [d EXCEPT !.transactions = kept, !.stored[a] = kept]
<1>1. d \in Dapp
  BY DEF AtRest, Sound
<1>2. kept \subseteq Record /\ Facts(kept, c) /\ Own(a, kept)
  BY <1>1, DappType DEF AtRest, Sound, Without, Facts, Own
<1> HIDE DEF kept
<1>3. u \in Dapp
  BY <1>1, <1>2 DEF Dapp
<1>4. /\ u.transactions = kept /\ u.dirty = d.dirty /\ u.loads = d.loads
      /\ u.batches = d.batches
      /\ u.stored = [d.stored EXCEPT ![a] = kept]
  BY <1>1 DEF Dapp
<1> HIDE DEF u
<1>5. /\ u.stored[a] = kept
      /\ \A b \in Wallets \ {a} : u.stored[b] = d.stored[b]
  BY <1>1, <1>4, DappType DEF Wallets
<1>6. Sound(u, c)
  BY <1>2, <1>3, <1>4, <1>5 DEF AtRest, Sound, Wallets
<1>7. AtRest(u, a, c)
  BY <1>2, <1>4, <1>5, <1>6, NoAccountAssumption DEF AtRest, Shown
<1> QED
  BY <1>7 DEF u, kept

\* Closing the page leaves the histories.
LEMMA ReloadSound ==
    ASSUME NEW c, NEW a \in Wallets, NEW d, AtRest(d, a, c)
    PROVE  AtRest([d EXCEPT !.transactions = {}, !.dirty = {}, !.loads = {},
                            !.batches = {}, !.listening = FALSE], NoAccount, c)
<1> DEFINE u == [d EXCEPT !.transactions = {}, !.dirty = {}, !.loads = {},
                          !.batches = {}, !.listening = FALSE]
<1>1. d \in Dapp
  BY DEF AtRest, Sound
<1>2. u \in Dapp
  BY <1>1 DEF Dapp
<1>3. /\ u.transactions = {} /\ u.dirty = {} /\ u.loads = {}
      /\ u.batches = {} /\ u.stored = d.stored
  BY <1>1 DEF Dapp
<1> HIDE DEF u
<1>4. Sound(u, c)
  BY <1>2, <1>3 DEF AtRest, Sound, Facts, New
<1>5. AtRest(u, NoAccount, c)
  BY <1>3, <1>4 DEF AtRest, Own, Shown
<1> QED
  BY <1>5 DEF u

\* A promise of waitForTransaction resolves with what the chain says.
LEMMA PromiseSound ==
    ASSUME NEW c, NEW a \in Wallets, NEW d, AtRest(d, a, c), NEW h \in Hashes,
           c[h] \in {"success", "failure"},
           NEW b \in d.batches, NEW r \in b.waiting, r.hash = h
    PROVE  LET mined == [r EXCEPT !.mined = TRUE, !.observed = FALSE,
                                  !.isError = (c[h] = "failure")]
           IN  AtRest(componentDidUpdate(observed(d, a, b, r, mined), a, a), a, c)
<1> DEFINE failed == c[h] = "failure"
           mined == [r EXCEPT !.mined = TRUE, !.observed = FALSE, !.isError = failed]
<1>1. Sound(d, c) /\ Own(a, d.transactions) /\ Shown(d, a)
  BY DEF AtRest
<1>2. r \in Record
  BY <1>1, DappType DEF Sound, Batch
<1>3. failed \in BOOLEAN
  OBVIOUS
<1>4. failed <=> c[h] = "failure"
  OBVIOUS
<1> HIDE DEF failed
<1>5. mined \in Record
  BY <1>2, <1>3 DEF Record
<1>6. mined.hash = r.hash /\ mined.mined = TRUE /\ mined.isError = failed
  BY <1>2 DEF Record
<1> HIDE DEF mined
<1>7. Fact(mined, c)
  <2>1. mined.isError => c[h] = "failure"
    BY <1>4, <1>6
  <2>2. ~mined.isError => c[h] = "success"
    BY <1>4, <1>6
  <2>3. mined.mined /\ mined.hash = h
    BY <1>6
  <2>4. h \notin Errors
    BY HashesAssumption
  <2> QED
    BY <1>5, <2>1, <2>2, <2>3, <2>4 DEF Fact
<1> DEFINE v == observed(d, a, b, r, mined)
<1>8. Sound(v, c) /\ Own(a, v.transactions) /\ Shown(v, a)
  BY <1>1, <1>5, <1>6, <1>7, ObservedSound
<1> HIDE DEF v
<1>9. AtRest(componentDidUpdate(v, a, a), a, c)
  BY <1>8, DidUpdateSound
<1> QED
  BY <1>9 DEF v, mined, failed

\* An event of a contract replaces a transaction that was sped up.
LEMMA EventSound ==
    ASSUME NEW c, NEW a \in Accounts, NEW d, AtRest(d, a, c), NEW h \in Hashes,
           c[h] = "success", Sender[h] = a
    PROVE  AtRest(componentDidUpdate(
                      handlePossibleReplacedTransaction(d, a, h), a, a), a, c)
<1> DEFINE v == handlePossibleReplacedTransaction(d, a, h)
<1>1. Sound(v, c) /\ Own(a, v.transactions) /\ Shown(v, a)
  BY ReplaceSound DEF AtRest
<1> HIDE DEF v
<1>2. AtRest(componentDidUpdate(v, a, a), a, c)
  BY <1>1, DidUpdateSound DEF Wallets
<1> QED
  BY <1>2 DEF v

-----------------------------------------------------------------------------
(* The chain.                                                               *)

ChainStates == {"unsent", "pending", "success", "failure", "dropped"}

\* Sending a transaction whose nonce is unused, or used only by transactions
\* that wait, leaves the rest of the chain as it is.
LEMMA SentKeeps ==
    ASSUME TypeOK, NoncesOnce, NEW h \in Hashes, chain[h] = "unsent",
           chain' = [chain EXCEPT ![h] = "pending"],
           \A g \in Hashes : Sender[g] = Sender[h] /\ Nonce[g] = Nonce[h] =>
               chain[g] \in {"unsent", "pending"}
    PROVE  /\ chain' \in [Hashes -> ChainStates]
           /\ NoncesOnce'
           /\ \A g \in Hashes : chain[g] \in {"success", "failure"} => chain'[g] = chain[g]
<1>1. chain \in [Hashes -> ChainStates]
  BY DEF TypeOK, ChainStates
<1>2. \A g \in Hashes : chain'[g] = IF g = h THEN "pending" ELSE chain[g]
  BY <1>1
<1>3. NoncesOnce'
  BY <1>2 DEF NoncesOnce
<1> QED
  BY <1>1, <1>2, <1>3 DEF ChainStates

\* Mining a transaction settles its nonce.
LEMMA MinedKeeps ==
    ASSUME TypeOK, NoncesOnce, NEW h \in Hashes, NEW status \in {"success", "failure"},
           Mine(h, status)
    PROVE  /\ chain' \in [Hashes -> ChainStates]
           /\ NoncesOnce'
           /\ \A g \in Hashes : chain[g] \in {"success", "failure"} => chain'[g] = chain[g]
<1>1. chain \in [Hashes -> ChainStates] /\ chain[h] = "pending"
  BY DEF TypeOK, ChainStates, Mine
<1>2. \A g \in Hashes :
         chain'[g] = IF g = h THEN status
                     ELSE IF Sender[g] = Sender[h] /\ Nonce[g] = Nonce[h]
                          THEN "dropped" ELSE chain[g]
  BY DEF Mine
<1>3. chain' \in [Hashes -> ChainStates]
  BY <1>1 DEF Mine, ChainStates
<1>4. NoncesOnce'
  <2> SUFFICES ASSUME NEW g \in Hashes, NEW k \in Hashes, Sender[g] = Sender[k],
                      Nonce[g] = Nonce[k], chain'[k] = "pending"
               PROVE  chain'[g] \in {"unsent", "pending"}
    BY DEF NoncesOnce
  <2>1. k # h /\ ~(Sender[k] = Sender[h] /\ Nonce[k] = Nonce[h]) /\ chain[k] = "pending"
    BY <1>2
  <2>2. g # h /\ chain'[g] = chain[g]
    BY <1>2, <2>1
  <2> QED
    BY <2>1, <2>2 DEF NoncesOnce
<1>5. ASSUME NEW g \in Hashes, chain[g] \in {"success", "failure"}
      PROVE  chain'[g] = chain[g]
  <2>1. g # h /\ ~(Sender[g] = Sender[h] /\ Nonce[g] = Nonce[h])
    BY <1>1, <1>5 DEF NoncesOnce
  <2> QED
    BY <1>2, <2>1
<1> QED
  BY <1>3, <1>4, <1>5

-----------------------------------------------------------------------------
(* The invariant.                                                           *)

\* The page starts at rest.
LEMMA InvInit == Init => Inv
<1> SUFFICES ASSUME Init PROVE Inv
  OBVIOUS
<1>1. dapp \in Dapp
  BY DEF Init, Dapp
<1>2. /\ dapp.transactions = {} /\ dapp.dirty = {} /\ dapp.loads = {}
      /\ dapp.batches = {} /\ \A a \in Accounts \cup {NoAccount} : dapp.stored[a] = {}
  BY DEF Init
<1>3. Sound(dapp, chain)
  BY <1>1, <1>2 DEF Sound, Facts, Own, New
<1>4. AtRest(dapp, account, chain)
  BY <1>2, <1>3 DEF AtRest, Own, Shown, Init
<1>5. NoncesOnce
  BY DEF NoncesOnce, Init
<1>6. TypeOK
  <2>1. account \in Accounts \cup {NoAccount} /\ requests \subseteq Hashes \cup Errors
    BY DEF Init
  <2>2. chain \in [Hashes -> {"unsent", "pending", "success", "failure", "dropped"}]
    BY DEF Init
  <2>3. switches \in 0 .. MaxSwitches
    BY DEF Init
  <2> QED
    BY <1>1, <2>1, <2>2, <2>3 DEF TypeOK
<1> QED
  BY <1>4, <1>5, <1>6 DEF Inv

\* What a step of the page alone has to show.
LEMMA PageStep ==
    ASSUME Inv, AtRest(dapp', account', chain), UNCHANGED chain,
           account' \in Wallets, requests' \subseteq Hashes \cup Errors,
           switches' \in 0 .. MaxSwitches
    PROVE  Inv'
<1>1. NoncesOnce'
  BY DEF Inv, NoncesOnce
<1>2. dapp' \in Dapp
  BY DEF AtRest, Sound
<1>3. TypeOK'
  BY <1>2 DEF Inv, TypeOK, Wallets
<1> QED
  BY <1>1, <1>3 DEF Inv

\* What a step of the chain has to show, the page having read what is mined.
LEMMA ChainStep ==
    ASSUME Inv, chain' \in [Hashes -> ChainStates], NoncesOnce',
           \A g \in Hashes : chain[g] \in {"success", "failure"} => chain'[g] = chain[g],
           AtRest(dapp, account, chain') => AtRest(dapp', account, chain'),
           UNCHANGED <<account, switches>>, requests' \subseteq Hashes \cup Errors
    PROVE  Inv'
<1>1. account \in Wallets
  BY DEF Inv, TypeOK, Wallets
<1>2. AtRest(dapp, account, chain')
  BY <1>1, ChainKeeps DEF Inv
<1>3. AtRest(dapp', account', chain')
  BY <1>2
<1>4. dapp' \in Dapp
  BY <1>3 DEF AtRest, Sound
<1>5. TypeOK'
  BY <1>4 DEF Inv, TypeOK, ChainStates
<1> QED
  BY <1>3, <1>5 DEF Inv

\* Every step leaves the page at rest and the chain consistent.
LEMMA InvNext == Inv /\ [Next]_vars => Inv'
<1> SUFFICES ASSUME Inv, [Next]_vars PROVE Inv'
  OBVIOUS
<1>0. /\ TypeOK /\ NoncesOnce /\ AtRest(dapp, account, chain)
      /\ account \in Wallets /\ requests \subseteq Hashes \cup Errors
      /\ switches \in 0 .. MaxSwitches
  BY DEF Inv, TypeOK, Wallets
<1>1. ASSUME NEW x \in Hashes \cup Errors, Ask(x) PROVE Inv'
  BY <1>0, <1>1, PageStep DEF Ask
<1>2. ASSUME NEW x \in Hashes \cup Errors, Dismiss(x) PROVE Inv'
  <2>1. account \in Accounts
    BY <1>0, <1>2 DEF Dismiss, Wallets
  <2>2. AtRest(dapp', account, chain)
    BY <1>0, <1>2, <2>1, DismissSound DEF Dismiss
  <2> QED
    BY <1>0, <1>2, <2>2, PageStep DEF Dismiss
<1>3. ASSUME NEW h \in Hashes, TransactionSent(h) PROVE Inv'
  <2>1. chain[h] = "unsent"
    BY <1>3 DEF TransactionSent
  <2>2. /\ chain' \in [Hashes -> ChainStates] /\ NoncesOnce'
        /\ \A g \in Hashes : chain[g] \in {"success", "failure"} => chain'[g] = chain[g]
    BY <1>0, <1>3, <2>1, SentKeeps DEF TransactionSent
  <2>3. dapp' = componentDidUpdate(storeTransaction(dapp, h), account, account)
    BY <1>3 DEF TransactionSent
  <2>4. AtRest(dapp, account, chain') => AtRest(dapp', account, chain')
    BY <1>0, <2>3, StoreTransactionSound
  <2>5. UNCHANGED <<account, switches>> /\ requests' \subseteq Hashes \cup Errors
    BY <1>0, <1>3 DEF TransactionSent
  <2> QED
    BY <2>2, <2>4, <2>5, ChainStep
<1>4. ASSUME NEW h \in Hashes, SpeedUp(h) PROVE Inv'
  <2>1. \A g \in Hashes : Sender[g] = Sender[h] /\ Nonce[g] = Nonce[h] =>
            chain[g] \in {"unsent", "pending"}
    BY <1>0, <1>4 DEF SpeedUp, NoncesOnce
  <2>2. /\ chain' \in [Hashes -> ChainStates] /\ NoncesOnce'
        /\ \A g \in Hashes : chain[g] \in {"success", "failure"} => chain'[g] = chain[g]
    BY <1>0, <1>4, <2>1, SentKeeps DEF SpeedUp
  <2>3. UNCHANGED <<account, dapp, switches>> /\ requests' \subseteq Hashes \cup Errors
    BY <1>0, <1>4 DEF SpeedUp
  <2> QED
    BY <2>2, <2>3, ChainStep
<1>5. ASSUME NEW h \in Hashes, NEW status \in {"success", "failure"}, Mine(h, status)
      PROVE  Inv'
  <2>1. /\ chain' \in [Hashes -> ChainStates] /\ NoncesOnce'
        /\ \A g \in Hashes : chain[g] \in {"success", "failure"} => chain'[g] = chain[g]
    BY <1>0, <1>5, MinedKeeps
  <2>2. UNCHANGED <<account, dapp, switches>> /\ requests' \subseteq Hashes \cup Errors
    BY <1>0, <1>5 DEF Mine
  <2> QED
    BY <2>1, <2>2, ChainStep
<1>6. ASSUME NEW e \in Errors, RequestFails(e) PROVE Inv'
  <2>1. AtRest(dapp', account, chain)
    BY <1>0, <1>6, StoreErrorSound DEF RequestFails
  <2> QED
    BY <1>0, <1>6, <2>1, PageStep DEF RequestFails
<1>7. ASSUME NEW a \in Wallets, ChangeAccount(a) PROVE Inv'
  <2>1. AtRest(dapp', a, chain)
    BY <1>0, <1>7, DidUpdateSound DEF ChangeAccount, AtRest
  <2>2. switches' \in 0 .. MaxSwitches
    BY <1>0, <1>7 DEF ChangeAccount
  <2> QED
    BY <1>0, <1>7, <2>1, <2>2, PageStep DEF ChangeAccount
<1>8. CASE Reload
  <2>1. AtRest(dapp', NoAccount, chain)
    BY <1>0, <1>8, ReloadSound DEF Reload
  <2>2. switches' \in 0 .. MaxSwitches
    BY <1>0, <1>8 DEF Reload
  <2> QED
    BY <1>0, <1>8, <2>1, <2>2, PageStep DEF Reload, Wallets
<1>9. ASSUME NEW history \in dapp.loads, LoadTimer(history) PROVE Inv'
  <2>1. AtRest(dapp', account, chain)
    BY <1>0, <1>9, LoadTimerSound DEF LoadTimer
  <2> QED
    BY <1>0, <1>9, <2>1, PageStep DEF LoadTimer
<1>10. ASSUME NEW h \in Hashes, observeTransaction(h) PROVE Inv'
  <2>1. PICK b \in dapp.batches : \E r \in b.waiting :
           /\ r.hash = h
           /\ dapp' = componentDidUpdate(
                         observed(dapp, account, b, r,
                             [r EXCEPT !.mined = TRUE, !.observed = FALSE,
                                       !.isError = (chain[h] = "failure")]),
                         account, account)
    BY <1>10 DEF observeTransaction
  <2>2. PICK r \in b.waiting :
           /\ r.hash = h
           /\ dapp' = componentDidUpdate(
                         observed(dapp, account, b, r,
                             [r EXCEPT !.mined = TRUE, !.observed = FALSE,
                                       !.isError = (chain[h] = "failure")]),
                         account, account)
    BY <2>1
  <2>3. chain[h] \in {"success", "failure"}
    BY <1>10 DEF observeTransaction
  <2>4. AtRest(dapp', account, chain)
    BY <1>0, <2>2, <2>3, PromiseSound
  <2> QED
    BY <1>0, <1>10, <2>4, PageStep DEF observeTransaction
<1>11. ASSUME NEW h \in Hashes, ContractEvent(h) PROVE Inv'
  <2>1. account \in Accounts
    BY <1>11 DEF ContractEvent
  <2>2. AtRest(dapp', account, chain)
    BY <1>0, <1>11, <2>1, EventSound DEF ContractEvent
  <2> QED
    BY <1>0, <1>11, <2>2, PageStep DEF ContractEvent
<1>12. CASE UNCHANGED vars
  BY <1>0, <1>12, PageStep DEF vars
<1> QED
  BY <1>1, <1>2, <1>3, <1>4, <1>5, <1>6, <1>7, <1>8, <1>9, <1>10, <1>11, <1>12
     DEF Next, Wallets

\* What is at rest is true of every account, shown and said.
LEMMA InvTrue == Inv => HistoryTrue
<1> SUFFICES ASSUME Inv PROVE HistoryTrue
  OBVIOUS
<1>1. /\ TypeOK /\ dapp \in Dapp /\ Facts(dapp.transactions, chain)
      /\ Own(account, dapp.transactions) /\ Shown(dapp, account)
      /\ \A a \in Accounts : Facts(dapp.stored[a], chain) /\ Own(a, dapp.stored[a])
  BY DEF Inv, AtRest, Sound
<1>2. DoneAreOwn
  <2> SUFFICES ASSUME NEW a \in Accounts, NEW r \in dapp.stored[a], Status(r) = "done"
               PROVE  r.hash \in Hashes /\ Sender[r.hash] = a
    BY DEF DoneAreOwn
  <2>1. Fact(r, chain) /\ r \in Record
    BY <1>1 DEF Facts, Fact
  <2>2. r.mined /\ ~r.isError
    BY <2>1 DEF Status, Record
  <2> QED
    BY <1>1, <2>1, <2>2, NoAccountAssumption DEF Own, Fact, Record
<1>3. MessagesTrue
  <2> SUFFICES ASSUME NEW r \in dapp.transactions
               PROVE  /\ Message(r) = <<Type[r.hash], "done">> => chain[r.hash] = "success"
                      /\ Message(r) = <<Type[r.hash], "failed">> =>
                            r.hash \in Errors \/ chain[r.hash] = "failure"
    BY DEF MessagesTrue
  <2>1. Fact(r, chain) /\ r \in Record
    BY <1>1 DEF Facts, Fact
  <2>2. Message(r) = <<Type[r.hash], Status(r)>>
    BY DEF Message, SingleCoinMessage, ConversionMessage
  <2>3. Status(r) = "done" => r.mined /\ ~r.isError
    BY <2>1 DEF Status, Record
  <2>4. Status(r) = "failed" => r.mined /\ r.isError
    BY <2>1 DEF Status, Record
  <2> QED
    BY <2>1, <2>2, <2>3, <2>4 DEF Fact, Record
<1>4. ShownIsStored
  BY <1>1 DEF ShownIsStored, Shown, Unmarked
<1> QED
  BY <1>1, <1>2, <1>3, <1>4 DEF HistoryTrue

\* Whatever the order in which timers, promises, events of the contracts and
\* changes of account come, an account's history holds as done only what the
\* account did, the panel says of a transaction what the chain says, and what is
\* shown is what a reload would show.
THEOREM HistoriesAreTrue == Spec => []HistoryTrue
<1> QED
  BY InvInit, InvNext, InvTrue, PTL DEF Spec
=============================================================================

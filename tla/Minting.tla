------------------------------- MODULE Minting -------------------------------
(***************************************************************************)
(* The mint form of the web application: BuySellWidget's own state, its     *)
(* rows of coins, and the ApproveModal with its ApproveCurrencyRows.        *)
(*                                                                         *)
(* A step is one event of the page with the renders and effects it causes.  *)
(* What overlaps are mints that wait for the wallet or the chain, approvals *)
(* (also those whose modal was closed meanwhile), the polls that bring      *)
(* balances and allowances, and the timers of the mobile wallet.  Exchange  *)
(* rates are 1; one account is connected; approve does not revert.          *)
(***************************************************************************)
EXTENDS Naturals, Sequences, FiniteSetsExt

CONSTANTS Coins,        \* the stablecoins
          MaxAmount,    \* bound: the most a coin's balance and input can be
          Unset,        \* no amount of the coin in localStorage
          MaxMints,     \* bound: mints started since the page was opened
          MaxEdits      \* bound: what the user does to form, modal and wallet, on a
                        \* mobile wallet and on another

ASSUME AmountsAssumption == MaxAmount \in Nat /\ Unset \notin 0 .. MaxAmount
ASSUME MintBoundsAssumption == MaxMints \in Nat /\ MaxEdits \in [BOOLEAN -> Nat]

VARIABLES wallet,       \* what the account holds, and which coins it approved
          known,        \* what AccountStore knows of that
          form,         \* the rows of coins, and whether Mint Now is disabled
          widget,       \* buyWidgetState, the tab, the modal of failed loads, and
                        \* whether the wallet is MetaMask's mobile app
          modal,        \* the ApproveModal
          approvals,    \* approvals under way
          mints,        \* mints under way
          hackTimers,   \* timers of mobileMetaMaskHack, with their prefix
          entered,      \* history: coins entered since the last mint was sent
          edits         \* changes of the form so far

mintVars == <<wallet, known, form, widget, modal, approvals, mints, hackTimers,
              entered, edits>>

Amounts == [Coins -> 0 .. MaxAmount]
Zero == [c \in Coins |-> 0]
Prefixes == {"", "modal-"}
Stages == {"approve", "waiting-user", "waiting-network", "done"}

\* A state of the widget is the prefix it is written with, and the state proper.
WidgetStates == Prefixes \X {"buy", "waiting-user", "waiting-network"}
Ready == <<"", "buy">>

Approval == [coin : Coins, phase : {"asked", "sent", "mined"}, live : BOOLEAN]
Mint == [phase : {"new", "asked", "sent", "mined", "over"}, amounts : Amounts,
         prefix : Prefixes]

\* No modal.
Closed == [open |-> FALSE, needing |-> {}, approved |-> {},
           stage |-> [c \in Coins |-> "done"]]

Init ==
    /\ wallet = [balance |-> [c \in Coins |-> MaxAmount], approved |-> {}]
    /\ known = [balance |-> Zero, approved |-> {}, allowances |-> FALSE]
    /\ form = [value |-> Zero, off |-> {}, manual |-> [c \in Coins |-> Unset],
               disabled |-> FALSE]
    /\ widget \in [state : {Ready}, tab : {"buy"}, refused : {FALSE}, mobile : BOOLEAN]
    /\ modal = Closed
    /\ approvals = {}
    /\ mints = [i \in 1 .. MaxMints |->
                   [phase |-> "new", amounts |-> Zero, prefix |-> ""]]
    /\ hackTimers = {}
    /\ entered = {} /\ edits = 0
-----------------------------------------------------------------------------
(* The form.                                                                *)

\* A row that is switched off counts as nothing.
Amount(f, c) == IF c \in f.off THEN 0 ELSE f.value[c]

\* The rows are there only on their tab and when some coin is owned.
RowsShown(tab, k) == tab = "buy" /\ \E c \in Coins : k.balance[c] > 0

pendingMintTransactions(ms) == {i \in DOMAIN ms : ms[i].phase \in {"sent", "mined"}}

\* The effects that look for errors and warnings.
formErrors(f, k) == {c \in Coins : Amount(f, c) > k.balance[c]}
formWarnings(f, k, ms) ==
    LET pending(c) == MapThenSumSet(LAMBDA i : ms[i].amounts[c],
                                    pendingMintTransactions(ms))
    IN  {c \in Coins : pending(c) > 0 /\ Amount(f, c) + pending(c) > k.balance[c]}

Checked(f, k, ms) ==
    [f EXCEPT !.disabled = formErrors(f, k) \cup formWarnings(f, k, ms) # {}]

\* They run when an amount or a pending mint changes, not when a balance does.
Edited(f, k) ==
    IF \A c \in Coins : Amount(f, c) = Amount(form, c) THEN f ELSE Checked(f, k, mints)

\* A row whose coin was not owned, or that was not shown, takes what the user
\* last entered, or all there is if that is less.
Refill(f, k, fresh) ==
    [f EXCEPT !.value = [c \in Coins |->
        IF c \notin fresh THEN @[c]
        ELSE IF f.manual[c] # Unset /\ f.manual[c] < k.balance[c] THEN f.manual[c]
        ELSE k.balance[c]]]

\* The form once the tab is `tab` and the store knows `k`.
Rendered(tab, k) ==
    IF ~RowsShown(tab, k) THEN form
    ELSE IF ~RowsShown(widget.tab, known) THEN Edited(Refill(form, k, Coins), k)
    ELSE Edited(Refill(form, k, {c \in Coins : known.balance[c] = 0}), k)

\* Something covers the form.
Covered == widget.state = <<"", "waiting-user">> \/ modal.open \/ widget.refused

Usable == RowsShown(widget.tab, known) /\ ~Covered

\* The user does something, as long as the bound allows.
Edit == edits < MaxEdits[widget.mobile] /\ edits' = edits + 1

SetTab(tab) ==
    /\ ~Covered /\ tab # widget.tab
    /\ widget' = [widget EXCEPT !.tab = tab]
    /\ form' = Rendered(tab, known)
    /\ Edit
    /\ UNCHANGED <<wallet, known, modal, approvals, mints, hackTimers, entered>>

\* The user types an amount, or takes the maximum.
Enter(c, v) ==
    /\ Usable /\ c \notin form.off
    /\ form' = Edited([form EXCEPT !.value[c] = v, !.manual[c] = v], known)
    /\ entered' = entered \cup {c}
    /\ Edit
    /\ UNCHANGED <<wallet, known, widget, modal, approvals, mints, hackTimers>>

\* The user switches a coin off or on.
Toggle(c) ==
    /\ Usable
    /\ form' = Edited([form EXCEPT !.off = IF c \in @ THEN @ \ {c} ELSE @ \cup {c}],
                      known)
    /\ Edit
    /\ UNCHANGED <<wallet, known, widget, modal, approvals, mints, hackTimers,
                   entered>>
-----------------------------------------------------------------------------
(* What happens outside the page, and the polls of AccountListener.         *)

Receive(c) ==
    /\ wallet.balance[c] < MaxAmount
    /\ wallet' = [wallet EXCEPT !.balance[c] = @ + 1]
    /\ Edit
    /\ UNCHANGED <<known, form, widget, modal, approvals, mints, hackTimers, entered>>

PollBalances ==
    /\ known' = [known EXCEPT !.balance = wallet.balance]
    /\ form' = Rendered(widget.tab, known')
    /\ UNCHANGED <<wallet, widget, modal, approvals, mints,
                   hackTimers, entered, edits>>

PollAllowances ==
    /\ known' = [known EXCEPT !.approved = wallet.approved, !.allowances = TRUE]
    /\ UNCHANGED <<wallet, form, widget, modal, approvals, mints,
                   hackTimers, entered, edits>>

MineApproval(a) ==
    /\ a \in approvals /\ a.phase = "sent"
    /\ wallet' = [wallet EXCEPT !.approved = @ \cup {a.coin}]
    /\ approvals' = (approvals \ {a}) \cup {[a EXCEPT !.phase = "mined"]}
    /\ UNCHANGED <<known, form, widget, modal, mints, hackTimers, entered, edits>>

\* A mint is mined; it fails if the account no longer has the coins, or did not
\* approve them.
MineMint(i) ==
    /\ mints[i].phase = "sent"
    /\ LET paid == mints[i].amounts
           valid == \A c \in Coins : /\ paid[c] <= wallet.balance[c]
                                     /\ paid[c] > 0 => c \in wallet.approved
       IN  wallet' = IF ~valid THEN wallet
                     ELSE [wallet EXCEPT !.balance = [c \in Coins |-> @[c] - paid[c]]]
    /\ mints' = [mints EXCEPT ![i].phase = "mined"]
    /\ UNCHANGED <<known, form, widget, modal, approvals,
                   hackTimers, entered, edits>>
-----------------------------------------------------------------------------
(* Minting.                                                                 *)

\* The first part of onMintOusd, for the amounts in the form now.
onMintOusd(prefix) ==
    /\ \E i \in DOMAIN mints :
          /\ mints[i].phase = "new" /\ \A j \in 1 .. i - 1 : mints[j].phase # "new"
          /\ mints' = [mints EXCEPT ![i] =
                [phase |-> "asked", prefix |-> prefix,
                 amounts |-> [c \in Coins |-> Amount(form, c)]]]
    /\ widget' = [widget EXCEPT !.state = <<prefix, "waiting-user">>]
    /\ hackTimers' = IF widget.mobile THEN hackTimers \cup {prefix} ELSE hackTimers

\* Mint Now is clicked: the coins that need an approval first get the modal.
onBuyNow ==
    /\ Usable /\ ~form.disabled /\ \E c \in Coins : Amount(form, c) > 0
    /\ LET needing == {c \in Coins : Amount(form, c) > 0 /\ c \notin known.approved}
       IN  \/ /\ ~known.allowances
              /\ widget' = [widget EXCEPT !.refused = TRUE]
              /\ UNCHANGED <<modal, mints, hackTimers>>
           \/ /\ known.allowances /\ needing # {}
              /\ modal' = [open |-> TRUE, needing |-> needing, approved |-> {},
                           stage |-> [c \in Coins |-> IF c \in needing THEN "approve"
                                                      ELSE "done"]]
              /\ UNCHANGED <<widget, mints, hackTimers>>
           \/ /\ known.allowances /\ needing = {}
              /\ onMintOusd("")
              /\ UNCHANGED modal
    /\ UNCHANGED <<wallet, known, form, approvals, entered, edits>>

\* The modal is gone; its approvals go on without it.
Orphaned == {[a EXCEPT !.live = FALSE] : a \in approvals}

\* The end of a mint, and of the modal it was started from.
Ended(i) ==
    /\ mints' = [mints EXCEPT ![i].phase = "over"]
    /\ widget' = [widget EXCEPT !.state = Ready]
    /\ IF mints[i].prefix = "modal-"
       THEN modal' = Closed /\ approvals' = Orphaned
       ELSE UNCHANGED <<modal, approvals>>

\* What the rows and localStorage become once a mint is sent.
onResetStableCoins(f) ==
    IF RowsShown(widget.tab, known) THEN [f EXCEPT !.value = Zero] ELSE f

\* Faulty: the amounts in localStorage stay.
ValuesKept(f) == f

setStoredCoinValuesToZero(f) == [f EXCEPT !.manual = Zero]

\* The wallet sends the mint.
MintSent(i) ==
    /\ mints[i].phase = "asked"
    /\ mints' = [mints EXCEPT ![i].phase = "sent"]
    /\ widget' = [widget EXCEPT !.state = <<mints[i].prefix, "waiting-network">>]
    /\ form' = Checked(setStoredCoinValuesToZero(onResetStableCoins(form)), known,
                       mints')
    /\ entered' = {}
    /\ UNCHANGED <<wallet, known, modal, approvals, hackTimers, edits>>

\* The gas cannot be estimated, or the user rejects it.
MintFails(i) ==
    /\ mints[i].phase = "asked"
    /\ Ended(i)
    /\ UNCHANGED <<wallet, known, form, hackTimers, entered, edits>>

\* The receipt arrives, or the wait for it fails; whether the mint succeeded is
\* not looked at.
MintConfirmed(i) ==
    /\ mints[i].phase = "mined"
    /\ Ended(i)
    /\ form' = Checked(form, known, mints')
    /\ UNCHANGED <<wallet, known, hackTimers, entered, edits>>

HackTimer(prefix) ==
    /\ prefix \in hackTimers
    /\ widget' = [widget EXCEPT !.state = <<prefix, "buy">>]
    /\ hackTimers' = hackTimers \ {prefix}
    /\ UNCHANGED <<wallet, known, form, modal, approvals, mints, entered, edits>>
-----------------------------------------------------------------------------
(* The modal and its rows.                                                  *)

Approve(c) ==
    /\ modal.open /\ c \in modal.needing /\ Amount(form, c) > 0
    /\ modal.stage[c] = "approve"
    /\ modal' = [modal EXCEPT !.stage[c] = "waiting-user"]
    /\ approvals' = approvals \cup {[coin |-> c, phase |-> "asked", live |-> TRUE]}
    /\ UNCHANGED <<wallet, known, form, widget, mints,
                   hackTimers, entered, edits>>

\* Only the row an approval was started in shows how it goes.
Staged(a, stage) == IF a.live THEN [modal EXCEPT !.stage[a.coin] = stage] ELSE modal

ApprovalSent(a) ==
    /\ a \in approvals /\ a.phase = "asked"
    /\ approvals' = (approvals \ {a}) \cup {[a EXCEPT !.phase = "sent"]}
    /\ modal' = Staged(a, "waiting-network")
    /\ UNCHANGED <<wallet, known, form, widget, mints,
                   hackTimers, entered, edits>>

ApprovalFails(a) ==
    /\ a \in approvals /\ a.phase = "asked"
    /\ approvals' = approvals \ {a}
    /\ modal' = Staged(a, "approve")
    /\ UNCHANGED <<wallet, known, form, widget, mints,
                   hackTimers, entered, edits>>

\* Faulty: the coins approved are those of the render the row was clicked in.
Overriding(a) ==
    /\ a \in approvals /\ a.phase = "mined"
    /\ approvals' = approvals \ {a}
    /\ modal' = [Staged(a, "done") EXCEPT
                    !.approved = IF a.live THEN {a.coin} ELSE @]
    /\ UNCHANGED <<wallet, known, form, widget, mints,
                   hackTimers, entered, edits>>

\* An approval is confirmed: the effect on currencyToApprove has added it to the
\* approved ones by the time the row shows it as done.
ApprovalConfirmed(a) ==
    /\ a \in approvals /\ a.phase = "mined"
    /\ approvals' = approvals \ {a}
    /\ modal' = [Staged(a, "done") EXCEPT
                    !.approved = IF a.live THEN @ \cup {a.coin} ELSE @]
    /\ UNCHANGED <<wallet, known, form, widget, mints,
                   hackTimers, entered, edits>>

Close ==
    /\ modal.open /\ widget.state = Ready
    /\ modal' = Closed
    /\ approvals' = Orphaned
    /\ Edit
    /\ UNCHANGED <<wallet, known, form, widget, mints, hackTimers, entered>>

\* Mint is clicked in the modal.
onFinalize ==
    /\ modal.open /\ widget.state = Ready /\ modal.approved = modal.needing
    /\ onMintOusd("modal-")
    /\ UNCHANGED <<wallet, known, form, modal, approvals, entered, edits>>

\* Once a click was refused the page can only be loaded again, which is another
\* behaviour.
Next ==
  /\ ~widget.refused
  /\ \/ \E tab \in {"buy", "sell"} : SetTab(tab)
     \/ \E c \in Coins : Toggle(c) \/ Receive(c) \/ Approve(c)
     \/ \E c \in Coins, v \in 0 .. MaxAmount : Enter(c, v)
     \/ \E i \in DOMAIN mints : \/ MintSent(i) \/ MintFails(i)
                                \/ MineMint(i) \/ MintConfirmed(i)
     \/ \E a \in approvals : \/ ApprovalSent(a) \/ ApprovalFails(a)
                             \/ MineApproval(a) \/ ApprovalConfirmed(a)
     \/ \E prefix \in Prefixes : HackTimer(prefix)
     \/ PollBalances \/ PollAllowances \/ onBuyNow \/ Close \/ onFinalize

\* What is sent is mined and its receipt arrives.
Fairness ==
    WF_mintVars(\E i \in DOMAIN mints : MineMint(i) \/ MintConfirmed(i))

Spec == Init /\ [][Next]_mintVars /\ Fairness
-----------------------------------------------------------------------------
(* Properties.                                                              *)

\* The variables have their types.
TypeOK ==
    /\ wallet \in [balance : Amounts, approved : SUBSET Coins]
    /\ known \in [balance : Amounts, approved : SUBSET Coins, allowances : BOOLEAN]
    /\ form \in [value : Amounts, off : SUBSET Coins, disabled : BOOLEAN,
                 manual : [Coins -> 0 .. MaxAmount \cup {Unset}]]
    /\ widget \in [state : WidgetStates, tab : {"buy", "sell"}, refused : BOOLEAN,
                   mobile : BOOLEAN]
    /\ modal \in [open : BOOLEAN, needing : SUBSET Coins, approved : SUBSET Coins,
                  stage : [Coins -> Stages]]
    /\ approvals \subseteq Approval
    /\ mints \in [1 .. MaxMints -> Mint]
    /\ hackTimers \subseteq Prefixes
    /\ entered \subseteq Coins /\ edits \in 0 .. MaxEdits[widget.mobile]

\* Whatever the order of clicks and confirmations, when every row of the modal
\* says that its coin is approved, the button to mint is enabled.
ApprovalsCounted ==
    modal.open /\ (\A c \in modal.needing : modal.stage[c] = "done") =>
        modal.approved = modal.needing

\* The button of the modal is enabled only by what the chain has approved.
ApprovedIsAllowed == modal.open => modal.approved \subseteq wallet.approved

Waiting(i) == mints[i].phase \in {"asked", "sent", "mined"}

\* With no mint under way the form is ready for the next one, however mints of
\* the form and of the modal overlapped.
IdleIsReady ==
    ~widget.mobile /\ (\A i \in DOMAIN mints : ~Waiting(i)) => widget.state = Ready

\* No amount of a mint that is pending comes back into the form by itself: it
\* takes the user to enter an amount of the coin again.
NothingOfferedTwice ==
    [][\A i \in pendingMintTransactions(mints), c \in Coins :
          /\ mints[i].amounts[c] > 0 /\ c \notin entered
          /\ Amount(form', c) > Amount(form, c)
          => Enter(c, Amount(form', c)) \/ Toggle(c)]_mintVars

\* The modal a sent mint was started from closes.
ModalCloses ==
    \A i \in 1 .. MaxMints :
        (mints[i].phase = "sent" /\ mints[i].prefix = "modal-") ~> ~modal.open

\* The form and the modal agree with each other, and with what is approved.
MintFormTrue == TypeOK /\ ApprovalsCounted /\ ApprovedIsAllowed /\ IdleIsReady
=============================================================================

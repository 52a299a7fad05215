----------------------------- MODULE DappProofs -----------------------------
(***************************************************************************)
(* The forms, the header and the account of the web application are true    *)
(* whatever the order of clicks, answers, polls, timers and changes of      *)
(* account, for any accounts, coins and bounds.                             *)
(***************************************************************************)
EXTENDS Dapp, TLAPS

USE AmountsAssumption, MintBoundsAssumption, AccountAssumption,
    RedeemingAssumption, HeaderAssumption
-----------------------------------------------------------------------------
(* The account.                                                             *)

\* What the page asks the chain for are loads of the connected account.
LEMMA RequestType ==
    ASSUME A!TypeOK, NEW kinds \in SUBSET A!Kinds, NEW a \in A!Connectable
    PROVE  A!Request(kinds, a) \subseteq A!Load
  BY DEF A!Request, A!TypeOK, A!Load, A!Connectable

\* What an active user's effect makes of the listener, and asks for.
LEMMA PollingType ==
    ASSUME A!TypeOK, NEW l, NEW state, NEW a \in A!Connectable,
           l \in [setups : SUBSET A!Connectable, poller : A!Connectable,
                  contracts : A!Connectable \cup {"unset"}, served : BOOLEAN]
    PROVE  /\ A!Polling(l, state, a) \in
                 [setups : SUBSET A!Connectable, poller : A!Connectable,
                  contracts : A!Connectable \cup {"unset"}, served : BOOLEAN]
           /\ A!Polled(l, state, a) \subseteq A!Load
  BY RequestType DEF A!Polling, A!Polled, A!loadData, A!Kinds, A!Connectable

\* The contracts are stored before the first await of setupContracts, with the
\* change of account itself, and no return or failure of a setup stores others.
LEMMA AccountStep ==
    ASSUME SignerIsConnected, A!Next
    PROVE  SignerIsConnected'
<1> USE DEF SignerIsConnected, A!SignerIsConnected
<1>1. ASSUME NEW a \in A!Connectable, A!ChangeAccount(a)
      PROVE  SignerIsConnected'
  <2>1. A!fetchCreditsBalance(a) \subseteq A!Load
    BY RequestType DEF A!fetchCreditsBalance, A!Kinds
  <2>2. /\ account' = a /\ changes' = changes + 1 /\ changes < MaxChanges
        /\ store' = [store EXCEPT !["holdings"] = A!Nothing]
        /\ signer' = a /\ fetcher' = a
        /\ listener' = [listener EXCEPT !.setups = listener.setups \cup {a},
                                        !.served = FALSE]
        /\ loads' = loads \cup A!fetchCreditsBalance(a)
        /\ UNCHANGED <<ledger, user, faults>>
    BY <1>1 DEF A!ChangeAccount, A!setupContracts
  <2>3. listener' \in [setups : SUBSET A!Connectable, poller : A!Connectable,
                       contracts : A!Connectable \cup {"unset"}, served : BOOLEAN]
    BY <2>2 DEF A!TypeOK
  <2>4. store' \in [A!Kinds -> [of : A!Connectable, version : 0 .. MaxVersion]]
    BY <2>2 DEF A!TypeOK, A!Nothing, A!Kinds, A!Connectable
  <2> QED BY <2>1, <2>2, <2>3, <2>4 DEF A!TypeOK
<1>2. ASSUME NEW a \in A!Connectable, A!SetupReturns(a)
      PROVE  SignerIsConnected'
  <2> DEFINE set == [listener EXCEPT !.setups = @ \ {a}, !.contracts = a, !.served = TRUE]
  <2>1. A!loadData(a) \subseteq A!Load
    BY RequestType DEF A!loadData, A!Kinds
  <2>2. set \in [setups : SUBSET A!Connectable, poller : A!Connectable,
                 contracts : A!Connectable \cup {"unset"}, served : BOOLEAN]
    BY DEF A!TypeOK
  <2>3. account \in A!Connectable
    BY DEF A!TypeOK
  <2>4. /\ listener' = A!Polling(set, user, account)
        /\ loads' = loads \cup A!Polled(set, user, account) \cup A!loadData(a)
        /\ UNCHANGED <<account, ledger, store, signer, fetcher, user, changes, faults>>
    BY <1>2 DEF A!SetupReturns
  <2> HIDE DEF set
  <2> QED BY <2>1, <2>2, <2>3, <2>4, PollingType DEF A!TypeOK
<1>3. ASSUME NEW a \in A!Connectable, A!SetupFails(a)
      PROVE  SignerIsConnected'
  BY <1>3 DEF A!SetupFails, A!TypeOK
<1>4. ASSUME NEW a \in Accounts, A!Transact(a)
      PROVE  SignerIsConnected'
  BY <1>4 DEF A!Transact, A!TypeOK
<1>5. ASSUME NEW l \in loads, A!Answer(l) \/ A!AnswerFails(l)
      PROVE  SignerIsConnected'
  BY <1>5 DEF A!Answer, A!AnswerFails, A!TypeOK, A!Load, A!Connectable, A!Kinds
<1>6. ASSUME NEW state \in {"active", "idle"}, A!onStateCheck(state)
      PROVE  SignerIsConnected'
  BY <1>6, PollingType DEF A!onStateCheck, A!TypeOK
<1>7. CASE A!Poll
  <2>1. A!loadData(listener.poller) \subseteq A!Load
    BY RequestType DEF A!loadData, A!Kinds, A!TypeOK
  <2> QED BY <1>7, <2>1 DEF A!Poll, A!TypeOK
<1>8. CASE A!Fetch
  <2>1. A!fetchCreditsBalance(fetcher) \subseteq A!Load
    BY RequestType DEF A!fetchCreditsBalance, A!Kinds, A!TypeOK
  <2> QED BY <1>8, <2>1 DEF A!Fetch, A!TypeOK
<1> QED BY <1>1, <1>2, <1>3, <1>4, <1>5, <1>6, <1>7, <1>8 DEF A!Next

\* Where the account stands still its invariant stays.
LEMMA AccountStutters ==
    ASSUME SignerIsConnected, UNCHANGED accountVars
    PROVE  SignerIsConnected'
  BY DEF SignerIsConnected, A!SignerIsConnected, A!TypeOK, accountVars

\* It holds at first.
LEMMA AccountInit ==
    ASSUME A!Init
    PROVE  SignerIsConnected
  BY DEF A!Init, SignerIsConnected, A!SignerIsConnected, A!TypeOK, A!Connectable,
         A!Kinds, A!Nothing, A!Load

\* In whatever order the setups of contracts that overlap return or fail, the
\* contracts of the application ask the connected account, and no other, to sign
\* (AccountListener, setupContracts).
THEOREM SignerAlwaysConnected == A!Spec => []SignerIsConnected
<1>1. SignerIsConnected /\ [A!Next]_A!accountVars => SignerIsConnected'
  BY AccountStep, AccountStutters DEF A!accountVars, accountVars
<1> QED BY <1>1, AccountInit, PTL DEF A!Spec
-----------------------------------------------------------------------------
(* The header.                                                              *)

\* One animation runs at most, one that will open the modal runs only while the
\* modal waits for it, and a modal closed once is neither open nor waiting.
HeaderInv ==
    /\ B!TypeOK
    /\ \A a, b \in animations : a = b
    /\ addOusdModalState # "waiting" => \A a \in animations : ~a.waiting
    /\ addOUSDModalShown => addOusdModalState = "none"

\* The header's invariant holds at first.
LEMMA HeaderInit ==
    ASSUME B!Init
    PROVE  HeaderInv
  BY DEF B!Init, HeaderInv, B!TypeOK, B!Ousd, B!ModalStates, B!Animation

\* Every event of the header keeps it; and a modal shown once does not come back.
LEMMA HeaderStep ==
    ASSUME HeaderInv, B!Next
    PROVE  /\ HeaderInv'
           /\ addOUSDModalShown => addOusdModalState' = addOusdModalState
<1> USE DEF HeaderInv, B!TypeOK, B!Ousd, B!ModalStates, B!Animation
<1>1. ASSUME NEW amount \in B!Ousd, B!handleRebase(amount) \/ B!MintMined(amount)
      PROVE  /\ HeaderInv'
             /\ addOUSDModalShown => addOusdModalState' = addOusdModalState
  BY <1>1 DEF B!handleRebase, B!MintMined
<1>2. ASSUME NEW a \in animations, B!onCompleteCallback(a)
      PROVE  /\ HeaderInv'
             /\ addOUSDModalShown => addOusdModalState' = addOusdModalState
  BY <1>2 DEF B!onCompleteCallback
<1>3. CASE B!BalanceLoaded
  <2>1. B!normalOusdAnimation(ousdBalance, ousd) \in 0 .. MaxOusd
    BY DEF B!normalOusdAnimation
  <2>2. animations' = {[to |-> B!normalOusdAnimation(ousdBalance, ousd),
                        waiting |-> addOusdModalState = "waiting"]}
    BY <1>3 DEF B!BalanceLoaded, B!animateValue
  <2>3. animations' \subseteq [to : 0 .. MaxOusd, waiting : BOOLEAN]
    BY <2>1, <2>2
  <2>4. addOusdModalState # "waiting" => \A a \in animations' : ~a.waiting
    <3>1. SUFFICES ASSUME addOusdModalState # "waiting"
                   PROVE  \A a \in animations' : ~a.waiting
      OBVIOUS
    <3>2. (addOusdModalState = "waiting") = FALSE
      BY <3>1
    <3>3. animations' = {[to |-> B!normalOusdAnimation(ousdBalance, ousd),
                          waiting |-> FALSE]}
      BY <2>2, <3>2
    <3> QED BY <3>3
  <2> QED BY <1>3, <2>2, <2>3, <2>4 DEF B!BalanceLoaded
<1>4. CASE B!MintSent
  BY <1>4 DEF B!MintSent
<1>5. CASE B!MintConfirmed
  BY <1>5 DEF B!MintConfirmed
<1>6. CASE B!onClose
  BY <1>6 DEF B!onClose
<1> QED BY <1>1, <1>2, <1>3, <1>4, <1>5, <1>6 DEF B!Next

\* Where the header stands still it stays.
LEMMA HeaderStutters ==
    ASSUME HeaderInv, UNCHANGED headerVars
    PROVE  HeaderInv'
  BY DEF HeaderInv, B!TypeOK, headerVars

\* The modal that offers to add OUSD to the wallet does not come back once it was
\* closed, whatever animations run or mints are confirmed then (BalanceHeader,
\* AddOUSDModal).
THEOREM ModalStaysClosed == B!Spec => []B!TypeOK /\ B!ClosedForGood
<1>1. HeaderInv /\ [B!Next]_B!headerVars => HeaderInv'
  BY HeaderStep, HeaderStutters DEF B!headerVars, headerVars
<1>2. B!Spec => []HeaderInv
  BY <1>1, HeaderInit, PTL DEF B!Spec
<1>3. HeaderInv => B!TypeOK
  BY DEF HeaderInv
<1>4. HeaderInv /\ [B!Next]_B!headerVars =>
          [addOUSDModalShown => addOusdModalState' = addOusdModalState]_B!headerVars
  BY HeaderStep
<1> QED BY <1>2, <1>3, <1>4, PTL DEF B!Spec, B!ClosedForGood
-----------------------------------------------------------------------------
(* The redeem form.                                                         *)

UnderWay(r) == redeems[r].phase \in {"clicked", "asked", "sent", "mined"}
Unhurried == ~phone.metaMask /\ \A r \in 1 .. MaxRedeems : ~redeems[r].hurried

\* A timer is a mobile wallet's; without one, and without a hurried click, what has
\* asked the wallet covers the form.
CoveredWhileUnderWay ==
    /\ ~phone.metaMask => phone.timers = {}
    /\ \A r \in 1 .. MaxRedeems : redeems[r].phase = "new" => ~redeems[r].hurried
    /\ Unhurried => \A r \in 1 .. MaxRedeems :
          redeems[r].phase \in {"asked", "sent", "mined"} => sell.state # "redeem-now"

\* Only a mounted instance of the widget calculates.
MountedFirst == mount.count = 0 => ~mount.open /\ interval = NoSplit

\* The timers of an instance of the widget fire in the order of time, and
\* latestCalculateSplits is the millisecond of the last.
FiredInLatest ==
    \A c \in calls :
        /\ c.at <= latest[c.by].at
        /\ c.at # 0 /\ c.at = latest[c.by].at => c.amount \in latest[c.by].amounts

\* What is shown is of the last calculation of some instance, or such a calculation
\* has yet to return.
ShownOrComing ==
    \/ sell.split = NoSplit
    \/ \E i \in 1 .. MaxMounts : sell.split \in latest[i].amounts
    \/ \E c \in calls : c.at # 0 /\ c.at = latest[c.by].at

RedeemInv ==
    /\ R!TypeOK
    /\ R!OneUnlessHurried /\ CoveredWhileUnderWay
    /\ MountedFirst /\ FiredInLatest /\ ShownOrComing

\* The redeem form's invariant holds at first.
LEMMA RedeemInit ==
    ASSUME R!Init
    PROVE  RedeemInv
<1> USE DEF R!Init
<1>1. R!TypeOK
  BY DEF R!TypeOK, R!Ousd, R!Instances, R!Call
<1>2. R!OneUnlessHurried
  BY DEF R!OneUnlessHurried
<1>3. CoveredWhileUnderWay
  BY DEF CoveredWhileUnderWay
<1>4. MountedFirst /\ FiredInLatest /\ ShownOrComing
  BY DEF MountedFirst, FiredInLatest, ShownOrComing
<1> QED BY <1>1, <1>2, <1>3, <1>4 DEF RedeemInv

\* It says what the run checks.
LEMMA RedeemFormIsTrue ==
    ASSUME RedeemInv
    PROVE  RedeemFormTrue
<1>1. R!LastCalculationShown
  BY DEF RedeemInv, ShownOrComing, R!LastCalculationShown, R!Instances
<1> QED BY <1>1 DEF RedeemInv, RedeemFormTrue

Holdings == [chain : R!Ousd, known : R!Ousd, animated : R!Ousd]
SellForms == [amount : R!Ousd, all : BOOLEAN, error : BOOLEAN, calculating : BOOLEAN,
              split : R!Ousd \cup {NoSplit},
              state : {"redeem-now", "waiting-user", "waiting-network"}]
Mounts == [open : BOOLEAN, count : 0 .. MaxMounts]
Intervals == R!Ousd \cup {NoSplit}
Latests == [1 .. MaxMounts -> [at : 0 .. MaxCalls, amounts : SUBSET R!Ousd]]
Asks == 0 .. MaxCalls
Redemption == [phase : {"new", "clicked", "asked", "sent", "mined", "over"},
               all : BOOLEAN, amount : R!Ousd, hurried : BOOLEAN]
Redemptions == [1 .. MaxRedeems -> Redemption]
Phones == [metaMask : BOOLEAN, timers : SUBSET (1 .. MaxRedeems)]

\* The types of the parts, one by one.
LEMMA RedeemTypes ==
    ASSUME R!TypeOK
    PROVE  /\ holding \in Holdings /\ sell \in SellForms /\ mount \in Mounts
           /\ interval \in Intervals /\ calls \subseteq R!Call /\ latest \in Latests
           /\ asked \in Asks /\ redeems \in Redemptions /\ phone \in Phones
           /\ steps \in 0 .. MaxSteps
  BY DEF R!TypeOK, Holdings, SellForms, Mounts, Intervals, Latests, Asks, Redemptions,
         Redemption, Phones, R!Instances

\* And what a step has to show of them.
LEMMA RedeemTypesAfter ==
    ASSUME holding' \in Holdings, sell' \in SellForms, mount' \in Mounts,
           interval' \in Intervals, calls' \subseteq R!Call, latest' \in Latests,
           asked' \in Asks, redeems' \in Redemptions, phone' \in Phones,
           steps' \in 0 .. MaxSteps
    PROVE  R!TypeOK'
  BY DEF R!TypeOK, Holdings, SellForms, Mounts, Intervals, Latests, Asks, Redemptions,
         Redemption, Phones, R!Instances

\* The form with another amount, and with or without Max.
LEMMA SellFormType ==
    ASSUME R!TypeOK, NEW v \in R!Ousd, NEW all \in BOOLEAN
    PROVE  LET s == R!setOusdToSellValue([sell EXCEPT !.all = all], v)
           IN  s \in SellForms /\ s.state = sell.state /\ s.split = sell.split
<1> DEFINE t == [sell EXCEPT !.all = all]
           error == IF v = t.amount THEN t.error ELSE v > holding.animated
<1>1. t \in SellForms /\ t.state = sell.state /\ t.split = sell.split
  BY RedeemTypes DEF SellForms
<1>2. error \in BOOLEAN
  <2>1. t.error \in BOOLEAN /\ (v > holding.animated) \in BOOLEAN
    BY <1>1 DEF SellForms
  <2> HIDE DEF t
  <2> QED BY <2>1, Zenon
<1>3. R!setOusdToSellValue(t, v) = [t EXCEPT !.amount = v, !.error = error]
  BY <1>1 DEF R!setOusdToSellValue, SellForms
<1> HIDE DEF t, error
<1>4. /\ [t EXCEPT !.amount = v, !.error = error] \in SellForms
      /\ [t EXCEPT !.amount = v, !.error = error].state = t.state
      /\ [t EXCEPT !.amount = v, !.error = error].split = t.split
  BY <1>1, <1>2 DEF SellForms
<1> QED BY <1>1, <1>3, <1>4 DEF t

\* What the form and the calculations do leaves the redemptions as they were.
LEMMA RedemptionsKept ==
    ASSUME RedeemInv, UNCHANGED <<redeems, phone>>, sell'.state = sell.state
    PROVE  (R!OneUnlessHurried /\ CoveredWhileUnderWay)'
  BY DEF RedeemInv, R!OneUnlessHurried, CoveredWhileUnderWay, Unhurried

\* What redemptions and balances do leaves the calculations as they were.
LEMMA CalculationsKept ==
    ASSUME RedeemInv, UNCHANGED <<mount, interval, calls, latest, asked>>,
           sell'.split \in {sell.split, NoSplit}
    PROVE  (MountedFirst /\ FiredInLatest /\ ShownOrComing)'
  BY DEF RedeemInv, MountedFirst, FiredInLatest, ShownOrComing

\* A calculation asked for only waits.
LEMMA Calculated ==
    ASSUME RedeemInv, NEW v \in R!Ousd, R!calculateSplits(v, mount'.count),
           UNCHANGED latest, mount'.count \in R!Instances, sell'.split = sell.split
    PROVE  /\ asked' \in Asks
           /\ calls' \subseteq R!Call
           /\ (MountedFirst /\ FiredInLatest /\ ShownOrComing)'
<1> DEFINE new == [turn |-> asked + 1, by |-> mount'.count, amount |-> v, at |-> 0]
<1>1. /\ asked \in 0 .. MaxCalls /\ asked < MaxCalls /\ asked' = asked + 1
      /\ calls' = calls \cup {new}
  BY DEF R!calculateSplits, RedeemInv, R!TypeOK
<1>2. asked' \in Asks /\ new \in R!Call
  BY <1>1 DEF R!Call, Asks
<1>3. calls' \subseteq R!Call
  BY <1>1, <1>2 DEF RedeemInv, R!TypeOK
<1>4. new.at = 0 /\ new.by \in 1 .. MaxMounts /\ new.at <= latest[new.by].at
  BY RedeemTypes DEF RedeemInv, Latests, R!Instances
<1> HIDE DEF new
<1>5. MountedFirst'
  BY DEF MountedFirst, R!Instances
<1>6. FiredInLatest' /\ ShownOrComing'
  BY <1>1, <1>4 DEF RedeemInv, FiredInLatest, ShownOrComing
<1> QED BY <1>2, <1>3, <1>5, <1>6

\* The effect on sellAllActive.
LEMMA SellAllEffectKeeps ==
    ASSUME RedeemInv, NEW all, R!SellAllEffect(all, mount'.count),
           UNCHANGED latest, mount'.count \in R!Instances, sell'.split = sell.split
    PROVE  /\ asked' \in Asks
           /\ calls' \subseteq R!Call
           /\ interval' \in Intervals
           /\ (MountedFirst /\ FiredInLatest /\ ShownOrComing)'
<1>1. holding.animated \in R!Ousd
  BY DEF RedeemInv, R!TypeOK
<1>2. CASE R!calculateSplits(holding.animated, mount'.count) /\ interval' = holding.animated
  BY <1>1, <1>2, Calculated DEF Intervals
<1>3. CASE interval' = NoSplit /\ UNCHANGED <<asked, calls>>
  <2>1. MountedFirst'
    BY DEF MountedFirst, R!Instances
  <2>2. FiredInLatest' /\ ShownOrComing'
    BY <1>3 DEF RedeemInv, FiredInLatest, ShownOrComing
  <2> QED BY <1>3, <2>1, <2>2, RedeemTypes DEF RedeemInv, Intervals
<1> QED BY <1>2, <1>3 DEF R!SellAllEffect

\* The user's amount, the tab and Max.
LEMMA FormStep ==
    ASSUME RedeemInv,
           \/ \E v \in R!Ousd : R!Enter(v)
           \/ R!SellAll \/ R!OpenTab \/ R!LeaveTab
    PROVE  RedeemInv'
<1>t. /\ holding \in Holdings /\ sell \in SellForms /\ mount \in Mounts
      /\ interval \in Intervals /\ latest \in Latests /\ calls \subseteq R!Call
      /\ asked \in Asks /\ redeems \in Redemptions /\ phone \in Phones
      /\ steps \in 0 .. MaxSteps
  BY RedeemTypes DEF RedeemInv
<1>1. mount.open => mount.count \in R!Instances
  BY <1>t DEF RedeemInv, MountedFirst, R!Instances, Mounts
<1>s. steps < MaxSteps /\ steps' = steps + 1 => steps' \in 0 .. MaxSteps
  BY <1>t, RedeemingAssumption
<1>2. ASSUME NEW v \in R!Ousd, R!Enter(v)
      PROVE  RedeemInv'
  <2>1. /\ mount.open /\ UNCHANGED <<holding, mount, latest, redeems, phone>>
        /\ R!calculateSplits(v, mount'.count)
        /\ steps < MaxSteps /\ steps' = steps + 1
        /\ interval' = IF sell.all THEN NoSplit ELSE interval
        /\ sell' = R!setOusdToSellValue([sell EXCEPT !.all = FALSE], v)
    BY <1>2 DEF R!Enter, R!Usable
  <2>2. sell' \in SellForms /\ sell'.state = sell.state /\ sell'.split = sell.split
    <3>1. FALSE \in BOOLEAN
      OBVIOUS
    <3> QED BY <2>1, <3>1, SellFormType DEF RedeemInv
  <2>3. /\ asked' \in Asks
        /\ calls' \subseteq R!Call
        /\ (MountedFirst /\ FiredInLatest /\ ShownOrComing)'
    BY <1>1, <2>1, <2>2, Calculated
  <2>4. R!TypeOK'
    <3>1. interval' \in Intervals
      BY <1>t, <2>1 DEF Intervals
    <3> QED BY <1>t, <1>s, <2>1, <2>2, <2>3, <3>1, RedeemTypesAfter
  <2> QED BY <2>1, <2>2, <2>3, <2>4, RedemptionsKept DEF RedeemInv
<1>3. CASE R!SellAll
  <2>1. /\ mount.open /\ UNCHANGED <<holding, mount, latest, redeems, phone>>
        /\ R!SellAllEffect(~sell.all, mount'.count)
        /\ steps < MaxSteps /\ steps' = steps + 1
        /\ sell' = R!setOusdToSellValue([sell EXCEPT !.all = ~sell.all], holding.known)
    BY <1>3 DEF R!SellAll, R!Usable
  <2>2. sell' \in SellForms /\ sell'.state = sell.state /\ sell'.split = sell.split
    <3> DEFINE other == ~sell.all
    <3>1. other \in BOOLEAN /\ holding.known \in R!Ousd
      BY <1>t DEF Holdings
    <3>2. sell' = R!setOusdToSellValue([sell EXCEPT !.all = other], holding.known)
      BY <2>1
    <3> HIDE DEF other
    <3> QED BY <3>1, <3>2, SellFormType DEF RedeemInv
  <2>3. /\ asked' \in Asks
        /\ calls' \subseteq R!Call
        /\ interval' \in Intervals
        /\ (MountedFirst /\ FiredInLatest /\ ShownOrComing)'
    BY <1>1, <2>1, <2>2, SellAllEffectKeeps
  <2>4. R!TypeOK'
    BY <1>t, <1>s, <2>1, <2>2, <2>3, RedeemTypesAfter
  <2> QED BY <2>1, <2>2, <2>3, <2>4, RedemptionsKept DEF RedeemInv
<1>4. CASE R!OpenTab
  <2>1. /\ mount' \in Mounts
        /\ mount'.count = mount.count + 1 /\ mount'.count \in R!Instances
        /\ UNCHANGED <<holding, latest, redeems, phone>>
        /\ R!SellAllEffect(sell.all, mount'.count)
        /\ steps < MaxSteps /\ steps' = steps + 1
    BY <1>4, <1>t, RedeemingAssumption DEF R!OpenTab, R!Instances, Mounts
  <2>2. sell' \in SellForms /\ sell'.state = sell.state /\ sell'.split = sell.split
    <3> DEFINE v == IF sell.all THEN holding.animated ELSE sell.amount
               error == v > holding.animated
    <3>1. sell' = [sell EXCEPT !.amount = v, !.error = error]
      BY <1>4 DEF R!OpenTab
    <3>2. v \in R!Ousd
      BY <1>t DEF SellForms, Holdings
    <3>3. error \in BOOLEAN
      OBVIOUS
    <3> HIDE DEF v, error
    <3> QED BY <1>t, <3>1, <3>2, <3>3 DEF SellForms
  <2>3. /\ asked' \in Asks
        /\ calls' \subseteq R!Call
        /\ interval' \in Intervals
        /\ (MountedFirst /\ FiredInLatest /\ ShownOrComing)'
    BY <2>1, <2>2, SellAllEffectKeeps
  <2>4. R!TypeOK'
    BY <1>t, <1>s, <2>1, <2>2, <2>3, RedeemTypesAfter
  <2> QED BY <2>1, <2>2, <2>3, <2>4, RedemptionsKept DEF RedeemInv
<1>5. CASE R!LeaveTab
  <2>1. /\ mount'.open = FALSE /\ mount'.count = mount.count
        /\ mount' \in Mounts
        /\ steps < MaxSteps /\ steps' = steps + 1
        /\ UNCHANGED <<holding, sell, interval, calls, latest, asked, redeems, phone>>
    BY <1>5, <1>t DEF R!LeaveTab, Mounts
  <2>2. R!TypeOK'
    BY <1>t, <1>s, <2>1, RedeemTypesAfter
  <2>3. (MountedFirst /\ FiredInLatest /\ ShownOrComing)'
    BY <2>1 DEF RedeemInv, MountedFirst, FiredInLatest, ShownOrComing
  <2> QED BY <2>1, <2>2, <2>3, RedemptionsKept DEF RedeemInv
<1> QED BY <1>2, <1>3, <1>4, <1>5

\* Balances.
LEMMA BalanceStep ==
    ASSUME RedeemInv, R!Receive \/ R!Poll \/ R!Animate
    PROVE  RedeemInv'
<1>t. /\ holding \in Holdings /\ sell \in SellForms /\ mount \in Mounts
      /\ interval \in Intervals /\ latest \in Latests /\ calls \subseteq R!Call
      /\ asked \in Asks /\ redeems \in Redemptions /\ phone \in Phones
      /\ steps \in 0 .. MaxSteps
  BY RedeemTypes DEF RedeemInv
<1>h. holding.chain \in R!Ousd /\ holding.known \in R!Ousd /\ holding.animated \in R!Ousd
  BY <1>t DEF Holdings
<1>1. CASE R!Receive
  <2>1. /\ holding' = [holding EXCEPT !.chain = holding.chain + 1]
        /\ holding.chain < MaxBalance /\ steps < MaxSteps /\ steps' = steps + 1
        /\ UNCHANGED <<sell, mount, interval, calls, latest, asked, redeems, phone>>
    BY <1>1 DEF R!Receive
  <2>2. holding.chain + 1 \in R!Ousd /\ steps' \in 0 .. MaxSteps
    BY <1>t, <1>h, <2>1, RedeemingAssumption DEF R!Ousd
  <2>3. holding' \in Holdings
    BY <1>t, <2>1, <2>2 DEF Holdings
  <2>4. R!TypeOK'
    BY <1>t, <2>1, <2>2, <2>3, RedeemTypesAfter
  <2> QED BY <2>1, <2>4, RedemptionsKept, CalculationsKept DEF RedeemInv
<1>2. CASE R!Poll
  <2>1. /\ holding' = [holding EXCEPT !.known = holding.chain]
        /\ UNCHANGED <<sell, mount, interval, calls, latest, asked, redeems, phone, steps>>
    BY <1>2 DEF R!Poll
  <2>2. holding' \in Holdings
    BY <1>t, <1>h, <2>1 DEF Holdings
  <2>3. R!TypeOK'
    BY <1>t, <2>1, <2>2, RedeemTypesAfter
  <2> QED BY <2>1, <2>3, RedemptionsKept, CalculationsKept DEF RedeemInv
<1>3. CASE R!Animate
  <2>1. /\ holding' = [holding EXCEPT !.animated = holding.known]
        /\ sell' = IF mount.open /\ sell.all
                   THEN [sell EXCEPT !.amount = holding.known, !.error = FALSE] ELSE sell
        /\ UNCHANGED <<mount, interval, calls, latest, asked, redeems, phone, steps>>
    BY <1>3 DEF R!Animate
  <2>2. holding' \in Holdings
    BY <1>t, <1>h, <2>1 DEF Holdings
  <2>3. sell' \in SellForms /\ sell'.state = sell.state /\ sell'.split = sell.split
    BY <1>t, <1>h, <2>1 DEF SellForms
  <2>4. R!TypeOK'
    BY <1>t, <2>1, <2>2, <2>3, RedeemTypesAfter
  <2> QED BY <2>1, <2>3, <2>4, RedemptionsKept, CalculationsKept DEF RedeemInv
<1> QED BY <1>1, <1>2, <1>3

\* A timer of the interval, or of a calculation, and the answer of the vault.
LEMMA CalculationStep ==
    ASSUME RedeemInv,
           \/ R!IntervalFires
           \/ \E c \in calls : \/ R!CallReturns(c)
                               \/ \E t \in 1 .. MaxCalls : R!CallFires(c, t)
    PROVE  RedeemInv'
<1>t. /\ holding \in Holdings /\ sell \in SellForms /\ mount \in Mounts
      /\ interval \in Intervals /\ latest \in Latests /\ calls \subseteq R!Call
      /\ asked \in Asks /\ redeems \in Redemptions /\ phone \in Phones
      /\ steps \in 0 .. MaxSteps
  BY RedeemTypes DEF RedeemInv
<1>c. ASSUME NEW c \in calls
      PROVE  /\ c.at \in Nat /\ c.by \in 1 .. MaxMounts /\ c.amount \in R!Ousd
             /\ latest[c.by].at \in Nat
  BY <1>t DEF R!Call, R!Instances, Latests
<1>1. CASE R!IntervalFires
  <2>1. /\ interval \in R!Ousd /\ mount'.count = mount.count
        /\ mount.count \in R!Instances
        /\ R!calculateSplits(interval, mount'.count)
        /\ UNCHANGED <<holding, sell, mount, interval, latest, redeems, phone, steps>>
    BY <1>1, <1>t DEF R!IntervalFires, RedeemInv, MountedFirst, R!Instances, Mounts,
                      Intervals
  <2>2. /\ asked' \in Asks
        /\ calls' \subseteq R!Call
        /\ (MountedFirst /\ FiredInLatest /\ ShownOrComing)'
    BY <2>1, Calculated
  <2>3. R!TypeOK'
    BY <1>t, <2>1, <2>2, RedeemTypesAfter
  <2> QED BY <2>1, <2>2, <2>3, RedemptionsKept DEF RedeemInv
<1>2. ASSUME NEW c \in calls, NEW t \in 1 .. MaxCalls, R!CallFires(c, t)
      PROVE  RedeemInv'
  <2> DEFINE fired == [c EXCEPT !.at = t]
             amounts == {c.amount} \cup
                        (IF latest[c.by].at = t THEN latest[c.by].amounts ELSE {})
             last == [at |-> t, amounts |-> amounts]
  <2>1. /\ c \in R!Call
        /\ \A i \in 1 .. MaxMounts : latest[i].at <= t
        /\ calls' = (calls \ {c}) \cup {fired}
        /\ latest' = [latest EXCEPT ![c.by] = last]
        /\ sell' = [sell EXCEPT !.calculating = TRUE]
        /\ UNCHANGED <<holding, mount, interval, asked, redeems, phone, steps>>
    BY <1>2 DEF R!CallFires, RedeemInv, R!TypeOK, R!Instances
  <2>2. /\ fired \in R!Call
        /\ fired.at = t /\ fired.by = c.by /\ fired.amount = c.amount
    BY <2>1 DEF R!Call
  <2>3. /\ amounts \subseteq R!Ousd /\ c.amount \in amounts
        /\ latest[c.by].at = t => latest[c.by].amounts \subseteq amounts
    BY <1>c, <1>t DEF Latests
  <2>4. last \in [at : 0 .. MaxCalls, amounts : SUBSET R!Ousd]
        /\ last.at = t /\ last.amounts = amounts
    BY <2>3
  <2> HIDE DEF fired, amounts, last
  <2>5. /\ latest' \in Latests /\ latest'[c.by] = last
        /\ \A i \in 1 .. MaxMounts : i # c.by => latest'[i] = latest[i]
    BY <1>c, <1>t, <2>1, <2>4 DEF Latests
  <2>6. sell' \in SellForms /\ sell'.state = sell.state
    BY <1>t, <2>1 DEF SellForms
  <2>7. R!TypeOK'
    <3>1. calls' \subseteq R!Call
      BY <1>t, <2>1, <2>2
    <3> QED BY <1>t, <2>1, <2>5, <2>6, <3>1, RedeemTypesAfter
  <2>8. MountedFirst'
    BY <2>1 DEF RedeemInv, MountedFirst
  <2>9. ASSUME NEW d \in calls'
        PROVE  /\ d.at <= latest'[d.by].at
               /\ d.at # 0 /\ d.at = latest'[d.by].at => d.amount \in latest'[d.by].amounts
    <3>1. CASE d = fired
      BY <2>2, <2>3, <2>4, <2>5, <3>1
    <3>2. CASE d \in calls
      <4>1. /\ d.at <= latest[d.by].at /\ d.at \in Nat /\ d.by \in 1 .. MaxMounts
            /\ latest[d.by].at \in Nat /\ latest[d.by].at <= t
            /\ d.at # 0 /\ d.at = latest[d.by].at => d.amount \in latest[d.by].amounts
        BY <1>c, <2>1, <3>2 DEF RedeemInv, FiredInLatest
      <4>2. CASE d.by # c.by
        BY <2>5, <4>1, <4>2
      <4>3. CASE d.by = c.by
        <5>1. d.at <= t
          BY <4>1
        <5>2. ASSUME d.at # 0, d.at = t
              PROVE  d.amount \in amounts
          BY <2>3, <4>1, <4>3, <5>2
        <5> QED BY <2>4, <2>5, <4>3, <5>1, <5>2
      <4> QED BY <4>2, <4>3
    <3> QED BY <2>1, <3>1, <3>2
  <2>10. FiredInLatest'
    BY <2>9 DEF FiredInLatest
  <2>11. ShownOrComing'
    <3>1. fired \in calls' /\ fired.at # 0 /\ fired.at = latest'[fired.by].at
      BY <2>1, <2>2, <2>4, <2>5
    <3> QED BY <3>1 DEF ShownOrComing
  <2> QED BY <2>1, <2>6, <2>7, <2>8, <2>10, <2>11, RedemptionsKept DEF RedeemInv
<1>3. ASSUME NEW c \in calls, R!CallReturns(c)
      PROVE  RedeemInv'
  <2>1. PICK split \in {c.amount, NoSplit} :
            sell' = IF latest[c.by].at = c.at
                    THEN [sell EXCEPT !.split = split, !.calculating = FALSE] ELSE sell
    BY <1>3 DEF R!CallReturns
  <2>2. /\ c.at # 0 /\ calls' = calls \ {c}
        /\ UNCHANGED <<holding, mount, interval, latest, asked, redeems, phone, steps>>
    BY <1>3 DEF R!CallReturns
  <2>3. /\ R!TypeOK' /\ sell'.state = sell.state
        /\ sell'.split = IF latest[c.by].at = c.at THEN split ELSE sell.split
    <3>1. split \in R!Ousd \cup {NoSplit}
      BY <1>c
    <3>2. /\ sell' \in SellForms /\ sell'.state = sell.state
          /\ sell'.split = IF latest[c.by].at = c.at THEN split ELSE sell.split
      BY <1>t, <2>1, <3>1 DEF SellForms
    <3>3. calls' \subseteq R!Call
      BY <1>t, <2>2
    <3> QED BY <1>t, <2>2, <3>2, <3>3, RedeemTypesAfter
  <2>4. MountedFirst' /\ FiredInLatest'
    BY <2>2 DEF RedeemInv, MountedFirst, FiredInLatest
  <2>5. ShownOrComing'
    <3>1. CASE latest[c.by].at = c.at
      <4>1. c.amount \in latest[c.by].amounts
        BY <2>2, <3>1 DEF RedeemInv, FiredInLatest
      <4> QED BY <1>c, <2>2, <2>3, <3>1, <4>1 DEF ShownOrComing
    <3>2. CASE latest[c.by].at # c.at
      BY <2>2, <2>3, <3>2 DEF RedeemInv, ShownOrComing
    <3> QED BY <3>1, <3>2
  <2> QED BY <2>2, <2>3, <2>4, <2>5, RedemptionsKept DEF RedeemInv
<1> QED BY <1>1, <1>2, <1>3

\* A redemption under way goes on, or ends.
LEMMA RedemptionGoesOn ==
    ASSUME RedeemInv, NEW r \in 1 .. MaxRedeems, UnderWay(r),
           phone'.metaMask = phone.metaMask, ~phone.metaMask => phone'.timers = {},
           NEW phase \in {"asked", "sent", "mined", "over"},
           redeems' = [redeems EXCEPT ![r].phase = phase],
           Unhurried /\ phase # "over" => sell'.state # "redeem-now"
    PROVE  /\ redeems' \in Redemptions
           /\ (R!OneUnlessHurried /\ CoveredWhileUnderWay)'
<1>1. redeems \in Redemptions /\ redeems[r] \in Redemption
  BY RedeemTypes DEF RedeemInv, Redemptions
<1> DEFINE next == [redeems[r] EXCEPT !.phase = phase]
<1>2. next \in Redemption /\ next.phase = phase /\ next.hurried = redeems[r].hurried
  BY <1>1 DEF Redemption
<1>3. redeems' = [redeems EXCEPT ![r] = next]
  OBVIOUS
<1> HIDE DEF next
<1>4. /\ redeems' \in Redemptions /\ redeems'[r] = next
      /\ \A q \in 1 .. MaxRedeems : q # r => redeems'[q] = redeems[q]
  BY <1>1, <1>2, <1>3 DEF Redemptions
<1>5. Unhurried' <=> Unhurried
  <2>1. \A q \in 1 .. MaxRedeems : redeems'[q].hurried <=> redeems[q].hurried
    BY <1>2, <1>4
  <2> QED BY <2>1 DEF Unhurried
<1>6. ASSUME Unhurried', NEW q \in 1 .. MaxRedeems, q # r
      PROVE  redeems'[q].phase \in {"new", "over"}
  <2>1. DOMAIN redeems = 1 .. MaxRedeems /\ redeems[q] \in Redemption
    BY <1>1 DEF Redemptions
  <2>2. Unhurried
    BY <1>5, <1>6
  <2>3. \A k \in DOMAIN redeems : ~redeems[k].hurried
    BY <2>1, <2>2 DEF Unhurried
  <2>4. {redeems[q].phase, redeems[r].phase} \cap {"new", "over"} = {} => q = r
    BY <1>6, <2>1, <2>2, <2>3 DEF RedeemInv, R!OneUnlessHurried, Unhurried
  <2>5. redeems[q].phase \in {"new", "over"}
    BY <1>6, <2>1, <2>4 DEF UnderWay, Redemption
  <2> QED BY <1>4, <1>6, <2>5
<1>7. R!OneUnlessHurried'
  <2>1. DOMAIN redeems' = 1 .. MaxRedeems
    BY <1>4 DEF Redemptions
  <2>2. SUFFICES ASSUME Unhurried', NEW p \in 1 .. MaxRedeems, NEW q \in 1 .. MaxRedeems,
                        redeems'[p].phase \notin {"new", "over"},
                        redeems'[q].phase \notin {"new", "over"}
                 PROVE  p = q
    BY <2>1 DEF R!OneUnlessHurried, Unhurried
  <2>3. p = r /\ q = r
    BY <1>6, <2>2
  <2> QED BY <2>3
<1>8. CoveredWhileUnderWay'
  <2>1. ASSUME NEW q \in 1 .. MaxRedeems, redeems'[q].phase = "new"
        PROVE  ~redeems'[q].hurried
    BY <1>2, <1>4, <2>1 DEF RedeemInv, CoveredWhileUnderWay
  <2>2. ASSUME Unhurried', NEW q \in 1 .. MaxRedeems,
               redeems'[q].phase \in {"asked", "sent", "mined"}
        PROVE  sell'.state # "redeem-now"
    BY <1>2, <1>4, <1>5, <1>6, <2>2
  <2> QED BY <2>1, <2>2 DEF CoveredWhileUnderWay
<1> QED BY <1>4, <1>7, <1>8

\* The button is enabled only while nothing covers the form, so that without a
\* mobile wallet and hurried clicks no redemption is under way then.
LEMMA onSellNowStep ==
    ASSUME RedeemInv, R!onSellNow
    PROVE  RedeemInv'
<1>t. /\ holding \in Holdings /\ sell \in SellForms /\ mount \in Mounts
      /\ interval \in Intervals /\ latest \in Latests /\ calls \subseteq R!Call
      /\ asked \in Asks /\ redeems \in Redemptions /\ phone \in Phones
      /\ steps \in 0 .. MaxSteps
  BY RedeemTypes DEF RedeemInv
<1> DEFINE all == sell.all \/ sell.amount \in holding.known .. holding.animated
           hurried == R!Under("clicked") # {}
           new == [phase |-> "clicked", amount |-> sell.amount, all |-> all,
                   hurried |-> hurried]
<1>1. PICK r \in R!Under("new") : redeems' = [redeems EXCEPT ![r] = new]
  BY DEF R!onSellNow
<1>2. /\ sell.state = "redeem-now"
      /\ UNCHANGED <<holding, sell, mount, interval, calls, latest, asked, phone, steps>>
  BY DEF R!onSellNow, R!Enabled, R!Usable, R!Covered
<1>3. /\ DOMAIN redeems = 1 .. MaxRedeems
      /\ r \in 1 .. MaxRedeems /\ redeems[r].phase = "new" /\ ~redeems[r].hurried
  BY <1>t, <1>1 DEF R!Under, Redemptions, RedeemInv, CoveredWhileUnderWay
<1>4. new \in Redemption /\ new.phase = "clicked" /\ new.hurried = hurried
  <2>1. all \in BOOLEAN /\ hurried \in BOOLEAN
    <3>1. sell.all \in BOOLEAN
      BY <1>t DEF SellForms
    <3> QED BY <3>1
  <2>2. sell.amount \in R!Ousd
    BY <1>t DEF SellForms
  <2> HIDE DEF all, hurried
  <2> QED BY <2>1, <2>2 DEF Redemption
<1> HIDE DEF new, all
<1>5. /\ redeems' \in Redemptions /\ redeems'[r] = new
      /\ \A q \in 1 .. MaxRedeems : q # r => redeems'[q] = redeems[q]
  BY <1>t, <1>1, <1>3, <1>4 DEF Redemptions
<1>6. R!TypeOK'
  BY <1>t, <1>2, <1>5, RedeemTypesAfter
<1>7. ASSUME Unhurried', NEW q \in 1 .. MaxRedeems, q # r
      PROVE  redeems'[q].phase \in {"new", "over"}
  <2>1. ~redeems'[r].hurried /\ \A k \in 1 .. MaxRedeems : ~redeems'[k].hurried
    BY <1>3, <1>7 DEF Unhurried
  <2>2. redeems[q].phase # "clicked"
    <3>1. R!Under("clicked") = {}
      BY <1>4, <1>5, <2>1
    <3> QED BY <1>3, <3>1 DEF R!Under
  <2>3. Unhurried
    BY <1>2, <1>3, <1>5, <1>7, <2>1 DEF Unhurried
  <2>4. redeems[q].phase \notin {"asked", "sent", "mined"}
    BY <1>2, <2>3 DEF RedeemInv, CoveredWhileUnderWay
  <2>5. redeems[q] \in Redemption
    BY <1>t DEF Redemptions
  <2> QED BY <1>5, <1>7, <2>2, <2>4, <2>5 DEF Redemption
<1>8. R!OneUnlessHurried'
  <2>1. DOMAIN redeems' = 1 .. MaxRedeems
    BY <1>5 DEF Redemptions
  <2>2. SUFFICES ASSUME Unhurried', NEW p \in 1 .. MaxRedeems, NEW q \in 1 .. MaxRedeems,
                        redeems'[p].phase \notin {"new", "over"},
                        redeems'[q].phase \notin {"new", "over"}
                 PROVE  p = q
    BY <2>1 DEF R!OneUnlessHurried, Unhurried
  <2>3. p = r /\ q = r
    BY <1>7, <2>2
  <2> QED BY <2>3
<1>9. CoveredWhileUnderWay'
  <2>1. ASSUME NEW q \in 1 .. MaxRedeems, redeems'[q].phase = "new"
        PROVE  ~redeems'[q].hurried
    BY <1>4, <1>5, <2>1 DEF RedeemInv, CoveredWhileUnderWay
  <2>2. ASSUME Unhurried', NEW q \in 1 .. MaxRedeems
        PROVE  redeems'[q].phase \notin {"asked", "sent", "mined"}
    BY <1>4, <1>5, <1>7, <2>2
  <2>3. ~phone'.metaMask => phone'.timers = {}
    BY <1>2 DEF RedeemInv, CoveredWhileUnderWay
  <2> QED BY <2>1, <2>2, <2>3 DEF CoveredWhileUnderWay
<1> QED BY <1>2, <1>6, <1>8, <1>9, CalculationsKept DEF RedeemInv

\* The token's decimals arrive, or do not.
LEMMA DecimalsStep ==
    ASSUME RedeemInv, NEW r \in 1 .. MaxRedeems, R!DecimalsReturn(r) \/ R!DecimalsFail(r)
    PROVE  RedeemInv'
<1>t. /\ holding \in Holdings /\ sell \in SellForms /\ mount \in Mounts
      /\ interval \in Intervals /\ latest \in Latests /\ calls \subseteq R!Call
      /\ asked \in Asks /\ redeems \in Redemptions /\ phone \in Phones
      /\ steps \in 0 .. MaxSteps
  BY RedeemTypes DEF RedeemInv
<1>1. CASE R!DecimalsReturn(r)
  <2>1. /\ UnderWay(r) /\ redeems' = [redeems EXCEPT ![r].phase = "asked"]
        /\ sell' = [sell EXCEPT !.state = "waiting-user"]
        /\ phone' = [phone EXCEPT !.timers = IF phone.metaMask THEN @ \cup {r} ELSE @]
        /\ UNCHANGED <<holding, mount, interval, calls, latest, asked, steps>>
    BY <1>1 DEF R!DecimalsReturn, UnderWay
  <2>2. sell' \in SellForms /\ sell'.split = sell.split /\ sell'.state # "redeem-now"
    BY <1>t, <2>1 DEF SellForms
  <2>3. /\ phone' \in Phones /\ phone'.metaMask = phone.metaMask
        /\ ~phone.metaMask => phone'.timers = phone.timers
    BY <1>t, <2>1 DEF Phones
  <2>4. ~phone.metaMask => phone'.timers = {}
    BY <2>3 DEF RedeemInv, CoveredWhileUnderWay
  <2>5. redeems' \in Redemptions /\ (R!OneUnlessHurried /\ CoveredWhileUnderWay)'
    BY <2>1, <2>2, <2>3, <2>4, RedemptionGoesOn
  <2>6. R!TypeOK'
    BY <1>t, <2>1, <2>2, <2>3, <2>5, RedeemTypesAfter
  <2> QED BY <2>1, <2>2, <2>5, <2>6, CalculationsKept DEF RedeemInv
<1>2. CASE R!DecimalsFail(r)
  <2>1. /\ UnderWay(r) /\ redeems' = [redeems EXCEPT ![r].phase = "over"]
        /\ UNCHANGED <<holding, sell, mount, interval, calls, latest, asked, phone, steps>>
    BY <1>2 DEF R!DecimalsFail, UnderWay
  <2>2. ~phone.metaMask => phone'.timers = {}
    BY <2>1 DEF RedeemInv, CoveredWhileUnderWay
  <2>3. redeems' \in Redemptions /\ (R!OneUnlessHurried /\ CoveredWhileUnderWay)'
    BY <2>1, <2>2, RedemptionGoesOn
  <2>4. R!TypeOK'
    BY <1>t, <2>1, <2>3, RedeemTypesAfter
  <2> QED BY <2>1, <2>3, <2>4, CalculationsKept DEF RedeemInv
<1> QED BY <1>1, <1>2

\* The other steps of a redemption, and the timer of the mobile wallet.
LEMMA RedemptionStep ==
    ASSUME RedeemInv, NEW r \in 1 .. MaxRedeems,
           \/ R!RedeemSent(r) \/ R!RedeemFails(r) \/ R!RedeemMined(r)
           \/ R!RedeemConfirmed(r) \/ R!HackTimer(r)
    PROVE  RedeemInv'
<1>t. /\ holding \in Holdings /\ sell \in SellForms /\ mount \in Mounts
      /\ interval \in Intervals /\ latest \in Latests /\ calls \subseteq R!Call
      /\ asked \in Asks /\ redeems \in Redemptions /\ phone \in Phones
      /\ steps \in 0 .. MaxSteps
  BY RedeemTypes DEF RedeemInv
<1>p. ~phone.metaMask => phone.timers = {}
  BY DEF RedeemInv, CoveredWhileUnderWay
<1>1. CASE R!HackTimer(r)
  <2>1. /\ r \in phone.timers /\ sell' = [sell EXCEPT !.state = "redeem-now"]
        /\ phone' = [phone EXCEPT !.timers = phone.timers \ {r}]
        /\ UNCHANGED <<holding, mount, interval, calls, latest, asked, redeems, steps>>
    BY <1>1 DEF R!HackTimer
  <2>2. sell' \in SellForms /\ sell'.split = sell.split
    BY <1>t, <2>1 DEF SellForms
  <2>3. phone.metaMask /\ phone' \in Phones /\ phone'.metaMask
    BY <1>p, <1>t, <2>1 DEF Phones
  <2>4. R!TypeOK'
    BY <1>t, <2>1, <2>2, <2>3, RedeemTypesAfter
  <2>5. R!OneUnlessHurried' /\ CoveredWhileUnderWay'
    BY <2>1, <2>3 DEF RedeemInv, R!OneUnlessHurried, CoveredWhileUnderWay, Unhurried
  <2> QED BY <2>1, <2>2, <2>4, <2>5, CalculationsKept DEF RedeemInv
<1>2. CASE R!RedeemSent(r)
  <2>1. /\ UnderWay(r) /\ redeems' = [redeems EXCEPT ![r].phase = "sent"]
        /\ sell' = [sell EXCEPT !.state = "waiting-network"]
        /\ UNCHANGED <<holding, mount, interval, calls, latest, asked, phone, steps>>
    BY <1>2 DEF R!RedeemSent, UnderWay
  <2>2. sell' \in SellForms /\ sell'.split = sell.split /\ sell'.state # "redeem-now"
    BY <1>t, <2>1 DEF SellForms
  <2>3. redeems' \in Redemptions /\ (R!OneUnlessHurried /\ CoveredWhileUnderWay)'
    BY <1>p, <2>1, <2>2, RedemptionGoesOn
  <2>4. R!TypeOK'
    BY <1>t, <2>1, <2>2, <2>3, RedeemTypesAfter
  <2> QED BY <2>1, <2>2, <2>3, <2>4, CalculationsKept DEF RedeemInv
<1>3. CASE R!RedeemFails(r)
  <2>1. /\ UnderWay(r) /\ redeems' = [redeems EXCEPT ![r].phase = "over"]
        /\ sell' = [sell EXCEPT !.state = "redeem-now"]
        /\ UNCHANGED <<holding, mount, interval, calls, latest, asked, phone, steps>>
    BY <1>3 DEF R!RedeemFails, UnderWay
  <2>2. sell' \in SellForms /\ sell'.split = sell.split
    BY <1>t, <2>1 DEF SellForms
  <2>3. redeems' \in Redemptions /\ (R!OneUnlessHurried /\ CoveredWhileUnderWay)'
    BY <1>p, <2>1, RedemptionGoesOn
  <2>4. R!TypeOK'
    BY <1>t, <2>1, <2>2, <2>3, RedeemTypesAfter
  <2> QED BY <2>1, <2>2, <2>3, <2>4, CalculationsKept DEF RedeemInv
<1>4. CASE R!RedeemMined(r)
  <2> DEFINE left == IF redeems[r].all THEN 0
                     ELSE IF redeems[r].amount > holding.chain THEN holding.chain
                     ELSE holding.chain - redeems[r].amount
  <2>1. /\ redeems[r].phase = "sent"
        /\ redeems' = [redeems EXCEPT ![r].phase = "mined"]
        /\ holding' = [holding EXCEPT !.chain = left]
        /\ UNCHANGED <<sell, mount, interval, calls, latest, asked, phone, steps>>
    BY <1>4 DEF R!RedeemMined
  <2>2. holding.chain \in R!Ousd /\ redeems[r].amount \in R!Ousd
    BY <1>t DEF Holdings, Redemptions, Redemption
  <2>3. left \in R!Ousd
    BY <2>2, RedeemingAssumption DEF R!Ousd
  <2> HIDE DEF left
  <2>4. holding' \in Holdings
    BY <1>t, <2>1, <2>3 DEF Holdings
  <2>5. UnderWay(r) /\ (Unhurried => sell.state # "redeem-now")
    BY <2>1 DEF UnderWay, RedeemInv, CoveredWhileUnderWay
  <2>6. redeems' \in Redemptions /\ (R!OneUnlessHurried /\ CoveredWhileUnderWay)'
    BY <1>p, <2>1, <2>5, RedemptionGoesOn
  <2>7. R!TypeOK'
    BY <1>t, <2>1, <2>4, <2>6, RedeemTypesAfter
  <2> QED BY <2>1, <2>6, <2>7, CalculationsKept DEF RedeemInv
<1>5. CASE R!RedeemConfirmed(r)
  <2> DEFINE s == R!setOusdToSellValue([sell EXCEPT !.all = sell.all], 0)
  <2>1. /\ UnderWay(r) /\ redeems' = [redeems EXCEPT ![r].phase = "over"]
        /\ sell' = [R!setOusdToSellValue(sell, 0) EXCEPT !.split = NoSplit,
                                                         !.state = "redeem-now"]
        /\ UNCHANGED <<holding, mount, interval, calls, latest, asked, phone, steps>>
    BY <1>5 DEF R!RedeemConfirmed, UnderWay
  <2>2. s \in SellForms
    <3>1. sell.all \in BOOLEAN /\ 0 \in R!Ousd
      BY <1>t, RedeemingAssumption DEF SellForms, R!Ousd
    <3> QED BY <3>1, SellFormType DEF RedeemInv
  <2>3. sell' = [s EXCEPT !.split = NoSplit, !.state = "redeem-now"]
    <3>1. [sell EXCEPT !.all = sell.all] = sell
      BY <1>t DEF SellForms
    <3> QED BY <2>1, <3>1
  <2> HIDE DEF s
  <2>4. sell' \in SellForms /\ sell'.split = NoSplit
    BY <2>2, <2>3 DEF SellForms
  <2>5. redeems' \in Redemptions /\ (R!OneUnlessHurried /\ CoveredWhileUnderWay)'
    BY <1>p, <2>1, RedemptionGoesOn
  <2>6. R!TypeOK'
    BY <1>t, <2>1, <2>4, <2>5, RedeemTypesAfter
  <2> QED BY <2>1, <2>4, <2>5, <2>6, CalculationsKept DEF RedeemInv
<1> QED BY <1>1, <1>2, <1>3, <1>4, <1>5

\* Every event of the redeem form keeps it.
LEMMA RedeemStep ==
    ASSUME RedeemInv, R!Next
    PROVE  RedeemInv'
<1>1. DOMAIN redeems = 1 .. MaxRedeems
  BY RedeemTypes DEF RedeemInv, Redemptions
<1> QED BY <1>1, FormStep, BalanceStep, CalculationStep, onSellNowStep, DecimalsStep,
           RedemptionStep DEF R!Next

\* Where the form stands still it stays.
LEMMA RedeemStutters ==
    ASSUME RedeemInv, UNCHANGED sellVars
    PROVE  RedeemInv'
<1>1. UNCHANGED <<holding, sell, mount, interval, calls, latest, asked, redeems, phone,
                  steps>>
  BY DEF sellVars
<1>2. R!TypeOK'
  BY <1>1, RedeemTypes, RedeemTypesAfter DEF RedeemInv
<1> QED BY <1>1, <1>2, RedemptionsKept, CalculationsKept DEF RedeemInv

\* In whatever order the vault answers what the form asks, the stablecoin mix that
\* is shown once all has been answered is of the calculation its instance of the
\* widget began last, up to the millisecond; and redemptions overlap only after a
\* click made while an earlier one waits for the token's decimals, unless the wallet
\* is a mobile one (SellWidget).
THEOREM RedeemFormAlwaysTrue == R!Spec => []RedeemFormTrue
<1>1. RedeemInv /\ [R!Next]_R!sellVars => RedeemInv'
  BY RedeemStep, RedeemStutters DEF R!sellVars, sellVars
<1> QED BY <1>1, RedeemInit, RedeemFormIsTrue, PTL DEF R!Spec
-----------------------------------------------------------------------------
(* The mint form.                                                           *)

Wallets == [balance : Amounts, approved : SUBSET Coins]
Knowns == [balance : Amounts, approved : SUBSET Coins, allowances : BOOLEAN]
Forms == [value : Amounts, off : SUBSET Coins, disabled : BOOLEAN,
          manual : [Coins -> 0 .. MaxAmount \cup {Unset}]]
Widgets == [state : WidgetStates, tab : {"buy", "sell"}, refused : BOOLEAN,
            mobile : BOOLEAN]
Modals == [open : BOOLEAN, needing : SUBSET Coins, approved : SUBSET Coins,
           stage : [Coins -> Stages]]
Mints == [1 .. MaxMints -> Mint]

\* The coins of the modal that are approved are those whose row says so, and the
\* chain has approved them.
ModalCounts ==
    modal.open => /\ modal.approved = {c \in modal.needing : modal.stage[c] = "done"}
                  /\ modal.approved \subseteq wallet.approved

\* An approval is allowed once it is mined; one that a row waits for is the only
\* one of its coin, and the row says how it goes.
ApprovalsShown ==
    /\ \A a \in approvals : a.phase = "mined" => a.coin \in wallet.approved
    /\ \A a \in approvals : a.live =>
          /\ modal.open /\ a.coin \in modal.needing
          /\ a.phase = "asked" => modal.stage[a.coin] = "waiting-user"
          /\ a.phase # "asked" => modal.stage[a.coin] = "waiting-network"
    /\ \A a, b \in approvals : a.live /\ b.live /\ a.coin = b.coin => a = b

\* Only a mobile wallet sets timers.
TimersAreMobile == ~widget.mobile => hackTimers = {}

\* What localStorage holds while a mint is pending was entered since it was sent.
StoredIsEntered ==
    pendingMintTransactions(mints) # {} =>
        \A c \in Coins : c \notin entered => form.manual[c] = 0

MintInv ==
    /\ TypeOK
    /\ ModalCounts /\ ApprovalsShown
    /\ IdleIsReady /\ TimersAreMobile
    /\ StoredIsEntered

\* The mint form's types, one by one.
LEMMA MintTypes ==
    ASSUME TypeOK
    PROVE  /\ wallet \in Wallets /\ known \in Knowns /\ form \in Forms
           /\ widget \in Widgets /\ modal \in Modals /\ approvals \subseteq Approval
           /\ mints \in Mints /\ hackTimers \subseteq Prefixes /\ entered \subseteq Coins
           /\ edits \in 0 .. MaxEdits[widget.mobile]
  BY DEF TypeOK, Wallets, Knowns, Forms, Widgets, Modals, Mints

\* The types after a step.
LEMMA MintTypesAfter ==
    ASSUME wallet' \in Wallets, known' \in Knowns, form' \in Forms,
           widget' \in Widgets, modal' \in Modals, approvals' \subseteq Approval,
           mints' \in Mints, hackTimers' \subseteq Prefixes, entered' \subseteq Coins,
           edits' \in 0 .. MaxEdits[widget'.mobile]
    PROVE  TypeOK'
  BY DEF TypeOK, Wallets, Knowns, Forms, Widgets, Modals, Mints

\* The mint form's invariant holds at first.
LEMMA MintInit ==
    ASSUME Init
    PROVE  MintInv
<1>1. TypeOK
  <2>1. Zero \in Amounts
    BY DEF Zero, Amounts
  <2>2. wallet \in Wallets
    <3>1. MaxAmount \in 0 .. MaxAmount
      BY AmountsAssumption
    <3> QED BY <3>1 DEF Init, Wallets, Amounts
  <2>3. known \in Knowns
    BY <2>1 DEF Init, Knowns
  <2>4. form \in Forms
    BY <2>1 DEF Init, Forms
  <2>5. widget \in Widgets
    <3>1. Ready \in WidgetStates
      BY DEF WidgetStates, Prefixes, Ready
    <3> QED BY <3>1 DEF Init, Widgets
  <2>6. modal \in Modals
    BY DEF Init, Closed, Modals, Stages
  <2>7. mints \in Mints
    BY <2>1 DEF Init, Mints, Mint, Prefixes
  <2>8. edits \in 0 .. MaxEdits[widget.mobile]
    <3>1. widget.mobile \in BOOLEAN
      BY <2>5 DEF Widgets
    <3>2. MaxEdits[widget.mobile] \in Nat
      BY <3>1, MintBoundsAssumption
    <3>3. edits = 0
      BY DEF Init
    <3> QED BY <3>2, <3>3
  <2> QED BY <2>2, <2>3, <2>4, <2>5, <2>6, <2>7, <2>8
          DEF Init, TypeOK, Wallets, Knowns, Forms, Widgets, Modals, Mints
<1>2. ModalCounts /\ ApprovalsShown /\ TimersAreMobile
  BY DEF Init, Closed, ModalCounts, ApprovalsShown, TimersAreMobile
<1>3. IdleIsReady
  BY DEF Init, IdleIsReady
<1>4. StoredIsEntered
  BY DEF Init, StoredIsEntered, pendingMintTransactions
<1> QED BY <1>1, <1>2, <1>3, <1>4 DEF MintInv

\* It says what the run checks.
LEMMA MintFormIsTrue ==
    ASSUME MintInv
    PROVE  MintFormTrue
<1>1. ApprovalsCounted /\ ApprovedIsAllowed
  BY DEF MintInv, ModalCounts, ApprovalsCounted, ApprovedIsAllowed
<1> QED BY <1>1 DEF MintInv, MintFormTrue

\* The effects that look for errors and warnings only decide about the button.
LEMMA CheckedForm ==
    ASSUME NEW f \in Forms, NEW k, NEW ms
    PROVE  /\ Checked(f, k, ms) \in Forms
           /\ Checked(f, k, ms).value = f.value /\ Checked(f, k, ms).off = f.off
           /\ Checked(f, k, ms).manual = f.manual
<1> DEFINE disabled == formErrors(f, k) \cup formWarnings(f, k, ms) # {}
<1>1. disabled \in BOOLEAN
  OBVIOUS
<1>2. Checked(f, k, ms) = [f EXCEPT !.disabled = disabled]
  BY DEF Checked
<1> HIDE DEF disabled
<1> QED BY <1>1, <1>2 DEF Forms

\* Checking the rows again leaves what is in them.
LEMMA EditedForm ==
    ASSUME NEW f \in Forms, NEW k
    PROVE  /\ Edited(f, k) \in Forms
           /\ Edited(f, k).value = f.value /\ Edited(f, k).off = f.off
           /\ Edited(f, k).manual = f.manual
  BY CheckedForm DEF Edited

\* A poll leaves what was chosen, and raises no amount that was set to zero by hand.
LEMMA RefilledForm ==
    ASSUME form \in Forms, NEW k \in Knowns, NEW fresh
    PROVE  /\ Refill(form, k, fresh) \in Forms
           /\ Refill(form, k, fresh).off = form.off
           /\ Refill(form, k, fresh).manual = form.manual
           /\ \A c \in Coins : form.manual[c] = 0 =>
                 Refill(form, k, fresh).value[c] <= form.value[c]
<1> DEFINE value == [c \in Coins |->
                        IF c \notin fresh THEN form.value[c]
                        ELSE IF form.manual[c] # Unset /\ form.manual[c] < k.balance[c]
                             THEN form.manual[c]
                        ELSE k.balance[c]]
<1>1. /\ k.balance \in Amounts /\ form.value \in Amounts
      /\ form.manual \in [Coins -> 0 .. MaxAmount \cup {Unset}]
  BY DEF Knowns, Forms
<1>2. value \in Amounts
  BY <1>1 DEF Amounts
<1>3. ASSUME NEW c \in Coins, form.manual[c] = 0
      PROVE  value[c] <= form.value[c]
  <2>1. k.balance[c] \in Nat /\ form.value[c] \in Nat /\ 0 # Unset
    BY <1>1, AmountsAssumption DEF Amounts
  <2> QED BY <1>3, <2>1
<1>4. Refill(form, k, fresh) = [form EXCEPT !.value = value]
  BY DEF Refill
<1> HIDE DEF value
<1> QED BY <1>2, <1>3, <1>4 DEF Forms

\* A row that takes what the user last entered takes nothing if that is 0.
LEMMA RenderedForm ==
    ASSUME form \in Forms, NEW k \in Knowns, NEW tab
    PROVE  /\ Rendered(tab, k) \in Forms
           /\ Rendered(tab, k).off = form.off
           /\ Rendered(tab, k).manual = form.manual
           /\ \A c \in Coins : form.manual[c] = 0 =>
                 Rendered(tab, k).value[c] <= form.value[c]
<1>1. \A c \in Coins : form.value[c] <= form.value[c]
  BY DEF Forms, Amounts
<1>2. ASSUME NEW fresh, Rendered(tab, k) = Edited(Refill(form, k, fresh), k)
      PROVE  /\ Rendered(tab, k) \in Forms
             /\ Rendered(tab, k).off = form.off
             /\ Rendered(tab, k).manual = form.manual
             /\ \A c \in Coins : form.manual[c] = 0 =>
                   Rendered(tab, k).value[c] <= form.value[c]
  <2> DEFINE f == Refill(form, k, fresh)
  <2>1. /\ f \in Forms /\ f.off = form.off /\ f.manual = form.manual
        /\ \A c \in Coins : form.manual[c] = 0 => f.value[c] <= form.value[c]
    BY RefilledForm
  <2> HIDE DEF f
  <2>2. /\ Edited(f, k) \in Forms /\ Edited(f, k).value = f.value
        /\ Edited(f, k).off = f.off /\ Edited(f, k).manual = f.manual
    BY <2>1, EditedForm
  <2>3. Rendered(tab, k) = Edited(f, k)
    BY <1>2 DEF f
  <2> QED BY <2>1, <2>2, <2>3
<1>3. CASE ~RowsShown(tab, k)
  <2>1. Rendered(tab, k) = form
    BY <1>3 DEF Rendered
  <2> QED BY <1>1, <2>1
<1>4. CASE RowsShown(tab, k) /\ ~RowsShown(widget.tab, known)
  <2>1. Rendered(tab, k) = Edited(Refill(form, k, Coins), k)
    BY <1>4 DEF Rendered
  <2> QED BY <1>2, <2>1
<1>5. CASE RowsShown(tab, k) /\ RowsShown(widget.tab, known)
  <2> DEFINE fresh == {c \in Coins : known.balance[c] = 0}
  <2>1. Rendered(tab, k) = Edited(Refill(form, k, fresh), k)
    BY <1>5 DEF Rendered
  <2> HIDE DEF fresh
  <2> QED BY <1>2, <2>1
<1> QED BY <1>3, <1>4, <1>5

\* A step of the form, the wallet's balance or the polls leaves modal and mints.
LEMMA ModalAndMintsKept ==
    ASSUME MintInv, TypeOK', UNCHANGED <<modal, approvals, mints, hackTimers>>,
           wallet'.approved = wallet.approved, widget'.state = widget.state,
           widget'.mobile = widget.mobile, entered \subseteq entered',
           \A c \in Coins : c \notin entered' => form'.manual[c] = form.manual[c]
    PROVE  MintInv'
<1>1. ModalCounts' /\ ApprovalsShown'
  BY DEF MintInv, ModalCounts, ApprovalsShown
<1>2. IdleIsReady' /\ TimersAreMobile'
  BY DEF MintInv, IdleIsReady, TimersAreMobile, Waiting
<1>3. StoredIsEntered'
  BY DEF MintInv, StoredIsEntered, pendingMintTransactions
<1> QED BY <1>1, <1>2, <1>3 DEF MintInv

\* Edits are counted up to their bound.
LEMMA EditType ==
    ASSUME TypeOK, Edit, widget'.mobile = widget.mobile
    PROVE  edits' \in 0 .. MaxEdits[widget'.mobile]
<1>1. widget.mobile \in BOOLEAN
  BY MintTypes DEF Widgets
<1>2. MaxEdits[widget.mobile] \in Nat
  BY <1>1, MintBoundsAssumption
<1>3. edits \in 0 .. MaxEdits[widget.mobile]
  BY MintTypes
<1> QED BY <1>2, <1>3 DEF Edit

\* The tab, the rows, and what the account receives.
LEMMA MintFormStep ==
    ASSUME MintInv,
           \/ \E tab \in {"buy", "sell"} : SetTab(tab)
           \/ \E c \in Coins : Toggle(c) \/ Receive(c)
           \/ \E c \in Coins, v \in 0 .. MaxAmount : Enter(c, v)
    PROVE  MintInv'
<1>t. /\ wallet \in Wallets /\ known \in Knowns /\ form \in Forms
      /\ widget \in Widgets /\ modal \in Modals /\ approvals \subseteq Approval
      /\ mints \in Mints /\ hackTimers \subseteq Prefixes /\ entered \subseteq Coins
  BY MintTypes DEF MintInv
<1>1. ASSUME NEW tab \in {"buy", "sell"}, SetTab(tab)
      PROVE  MintInv'
  <2>1. /\ widget' = [widget EXCEPT !.tab = tab] /\ form' = Rendered(tab, known) /\ Edit
        /\ UNCHANGED <<wallet, known, modal, approvals, mints, hackTimers, entered>>
    BY <1>1 DEF SetTab
  <2>2. form' \in Forms /\ form'.manual = form.manual
    BY <1>t, <2>1, RenderedForm
  <2>3. /\ widget' \in Widgets /\ widget'.state = widget.state
        /\ widget'.mobile = widget.mobile
    BY <1>t, <2>1 DEF Widgets
  <2>4. TypeOK'
    BY <1>t, <2>1, <2>2, <2>3, EditType, MintTypesAfter DEF MintInv
  <2> QED BY <2>1, <2>2, <2>3, <2>4, ModalAndMintsKept
<1>2. ASSUME NEW c \in Coins, Toggle(c)
      PROVE  MintInv'
  <2> DEFINE off == IF c \in form.off THEN form.off \ {c} ELSE form.off \cup {c}
  <2>1. /\ form' = Edited([form EXCEPT !.off = off], known) /\ Edit
        /\ UNCHANGED <<wallet, known, widget, modal, approvals, mints, hackTimers,
                       entered>>
    BY <1>2 DEF Toggle
  <2>2. off \in SUBSET Coins
    BY <1>t DEF Forms
  <2> HIDE DEF off
  <2>3. [form EXCEPT !.off = off] \in Forms /\ [form EXCEPT !.off = off].manual = form.manual
    BY <1>t, <2>2 DEF Forms
  <2>4. form' \in Forms /\ form'.manual = form.manual
    BY <2>1, <2>3, EditedForm
  <2>5. TypeOK'
    BY <1>t, <2>1, <2>4, EditType, MintTypesAfter DEF MintInv
  <2> QED BY <2>1, <2>4, <2>5, ModalAndMintsKept
<1>3. ASSUME NEW c \in Coins, Receive(c)
      PROVE  MintInv'
  <2>1. /\ wallet.balance[c] < MaxAmount /\ Edit
        /\ wallet' = [wallet EXCEPT !.balance[c] = wallet.balance[c] + 1]
        /\ UNCHANGED <<known, form, widget, modal, approvals, mints, hackTimers, entered>>
    BY <1>3 DEF Receive
  <2>2. wallet.balance \in Amounts /\ wallet.balance[c] + 1 \in 0 .. MaxAmount
    BY <1>t, <2>1, AmountsAssumption DEF Wallets, Amounts
  <2>3. wallet' \in Wallets /\ wallet'.approved = wallet.approved
    BY <1>t, <2>1, <2>2 DEF Wallets, Amounts
  <2>4. TypeOK'
    BY <1>t, <2>1, <2>3, EditType, MintTypesAfter DEF MintInv
  <2> QED BY <2>1, <2>3, <2>4, ModalAndMintsKept
<1>4. ASSUME NEW c \in Coins, NEW v \in 0 .. MaxAmount, Enter(c, v)
      PROVE  MintInv'
  <2> DEFINE f == [form EXCEPT !.value[c] = v, !.manual[c] = v]
  <2>1. /\ form' = Edited(f, known) /\ entered' = entered \cup {c} /\ Edit
        /\ UNCHANGED <<wallet, known, widget, modal, approvals, mints, hackTimers>>
    BY <1>4 DEF Enter
  <2>2. f \in Forms /\ \A d \in Coins : d # c => f.manual[d] = form.manual[d]
    BY <1>t DEF Forms, Amounts
  <2> HIDE DEF f
  <2>3. form' \in Forms /\ form'.manual = f.manual
    BY <2>1, <2>2, EditedForm
  <2>4. TypeOK'
    BY <1>t, <2>1, <2>3, EditType, MintTypesAfter DEF MintInv
  <2> QED BY <2>1, <2>2, <2>3, <2>4, ModalAndMintsKept
<1> QED BY <1>1, <1>2, <1>3, <1>4

\* The polls, which fill the rows again.
LEMMA PollStep ==
    ASSUME MintInv, PollBalances \/ PollAllowances
    PROVE  MintInv'
<1>t. /\ wallet \in Wallets /\ known \in Knowns /\ form \in Forms
      /\ widget \in Widgets /\ modal \in Modals /\ approvals \subseteq Approval
      /\ mints \in Mints /\ hackTimers \subseteq Prefixes /\ entered \subseteq Coins
      /\ edits \in 0 .. MaxEdits[widget.mobile]
  BY MintTypes DEF MintInv
<1>1. CASE PollBalances
  <2>1. /\ known' = [known EXCEPT !.balance = wallet.balance]
        /\ form' = Rendered(widget.tab, known')
        /\ UNCHANGED <<wallet, widget, modal, approvals, mints, hackTimers, entered, edits>>
    BY <1>1 DEF PollBalances
  <2>2. known' \in Knowns
    BY <1>t, <2>1 DEF Knowns, Wallets
  <2>3. form' \in Forms /\ form'.manual = form.manual
    BY <1>t, <2>1, <2>2, RenderedForm
  <2>4. TypeOK'
    BY <1>t, <2>1, <2>2, <2>3, MintTypesAfter
  <2> QED BY <2>1, <2>3, <2>4, ModalAndMintsKept
<1>2. CASE PollAllowances
  <2>1. /\ known' = [known EXCEPT !.approved = wallet.approved, !.allowances = TRUE]
        /\ UNCHANGED <<wallet, form, widget, modal, approvals, mints, hackTimers, entered,
                       edits>>
    BY <1>2 DEF PollAllowances
  <2>2. known' \in Knowns
    BY <1>t, <2>1 DEF Knowns, Wallets
  <2>3. TypeOK'
    BY <1>t, <2>1, <2>2, MintTypesAfter
  <2> QED BY <2>1, <2>3, ModalAndMintsKept
<1> QED BY <1>1, <1>2

\* A step of the modal and its approvals leaves the mints.
LEMMA MintsKept ==
    ASSUME MintInv, UNCHANGED <<form, widget, mints, hackTimers, entered>>
    PROVE  (IdleIsReady /\ TimersAreMobile /\ StoredIsEntered)'
  BY DEF MintInv, IdleIsReady, Waiting, TimersAreMobile, StoredIsEntered,
         pendingMintTransactions

\* The row of an approval, and that of another coin.
LEMMA StagedModal ==
    ASSUME modal \in Modals, NEW a \in approvals, a \in Approval, NEW stage \in Stages
    PROVE  /\ Staged(a, stage) \in Modals
           /\ Staged(a, stage).open = modal.open
           /\ Staged(a, stage).needing = modal.needing
           /\ Staged(a, stage).approved = modal.approved
           /\ \A c \in Coins :
                 Staged(a, stage).stage[c] = IF a.live /\ c = a.coin THEN stage
                                             ELSE modal.stage[c]
  BY DEF Staged, Modals, Approval

\* An approval goes on to another phase, or ends.
LEMMA ApprovalStep ==
    ASSUME MintInv,
           \E a \in approvals : \/ ApprovalSent(a) \/ ApprovalFails(a)
                                \/ MineApproval(a) \/ ApprovalConfirmed(a)
    PROVE  MintInv'
<1>t. /\ wallet \in Wallets /\ known \in Knowns /\ form \in Forms
      /\ widget \in Widgets /\ modal \in Modals /\ approvals \subseteq Approval
      /\ mints \in Mints /\ hackTimers \subseteq Prefixes /\ entered \subseteq Coins
      /\ edits \in 0 .. MaxEdits[widget.mobile]
  BY MintTypes DEF MintInv
<1>a. ASSUME NEW a \in approvals
      PROVE  /\ a \in Approval /\ a.coin \in Coins /\ a.live \in BOOLEAN
             /\ a.phase = "mined" => a.coin \in wallet.approved
             /\ a.live => /\ modal.open /\ a.coin \in modal.needing
                          /\ a.phase = "asked" => modal.stage[a.coin] = "waiting-user"
                          /\ a.phase # "asked" => modal.stage[a.coin] = "waiting-network"
             /\ \A b \in approvals : a.live /\ b.live /\ a.coin = b.coin => a = b
  BY <1>t DEF Approval, MintInv, ApprovalsShown
<1>m. modal.open => /\ modal.approved = {c \in modal.needing : modal.stage[c] = "done"}
                    /\ modal.approved \subseteq wallet.approved
  BY DEF MintInv, ModalCounts
<1>n. modal.needing \subseteq Coins
  BY <1>t DEF Modals
<1>1. ASSUME NEW a \in approvals, ApprovalSent(a)
      PROVE  MintInv'
  <2> DEFINE sent == [a EXCEPT !.phase = "sent"]
  <2>1. /\ a.phase = "asked" /\ approvals' = (approvals \ {a}) \cup {sent}
        /\ modal' = Staged(a, "waiting-network")
        /\ UNCHANGED <<wallet, known, form, widget, mints, hackTimers, entered, edits>>
    BY <1>1 DEF ApprovalSent
  <2>2. /\ sent \in Approval /\ sent.coin = a.coin /\ sent.live = a.live
        /\ sent.phase = "sent"
    BY <1>a DEF Approval
  <2> HIDE DEF sent
  <2>3. /\ modal' \in Modals /\ modal'.open = modal.open
        /\ modal'.needing = modal.needing /\ modal'.approved = modal.approved
        /\ \A c \in Coins : modal'.stage[c] = IF a.live /\ c = a.coin
                                              THEN "waiting-network" ELSE modal.stage[c]
    BY <1>t, <1>a, <2>1, StagedModal DEF Stages
  <2>4. TypeOK'
    BY <1>t, <2>1, <2>2, <2>3, MintTypesAfter
  <2>5. ModalCounts'
    <3>1. \A c \in modal.needing : modal'.stage[c] = "done" <=> modal.stage[c] = "done"
      BY <1>a, <1>n, <2>1, <2>3
    <3> QED BY <1>m, <2>1, <2>3, <3>1 DEF ModalCounts
  <2>6. ApprovalsShown'
    <3>1. ASSUME NEW b \in approvals'
          PROVE  /\ b.phase = "mined" => b.coin \in wallet.approved
                 /\ b.live => /\ modal.open /\ b.coin \in modal.needing
                              /\ b.phase = "asked" => modal'.stage[b.coin] = "waiting-user"
                              /\ b.phase # "asked" =>
                                    modal'.stage[b.coin] = "waiting-network"
      <4>1. CASE b = sent
        BY <1>a, <2>2, <2>3, <4>1
      <4>2. CASE b \in approvals /\ b # a
        <5>1. b.live /\ a.live => b.coin # a.coin
          BY <1>a, <4>2
        <5> QED BY <1>a, <2>3, <4>2, <5>1
      <4> QED BY <2>1, <4>1, <4>2
    <3>2. ASSUME NEW b \in approvals', NEW d \in approvals', b.live, d.live,
                 b.coin = d.coin
          PROVE  b = d
      BY <1>a, <2>1, <2>2, <3>2
    <3> QED BY <2>1, <2>3, <3>1, <3>2 DEF ApprovalsShown
  <2> QED BY <2>1, <2>4, <2>5, <2>6, MintsKept DEF MintInv
<1>2. ASSUME NEW a \in approvals, ApprovalFails(a)
      PROVE  MintInv'
  <2>1. /\ a.phase = "asked" /\ approvals' = approvals \ {a}
        /\ modal' = Staged(a, "approve")
        /\ UNCHANGED <<wallet, known, form, widget, mints, hackTimers, entered, edits>>
    BY <1>2 DEF ApprovalFails
  <2>2. /\ modal' \in Modals /\ modal'.open = modal.open
        /\ modal'.needing = modal.needing /\ modal'.approved = modal.approved
        /\ \A c \in Coins : modal'.stage[c] = IF a.live /\ c = a.coin
                                              THEN "approve" ELSE modal.stage[c]
    BY <1>t, <1>a, <2>1, StagedModal DEF Stages
  <2>3. TypeOK'
    BY <1>t, <2>1, <2>2, MintTypesAfter
  <2>4. ModalCounts'
    <3>1. \A c \in modal.needing : modal'.stage[c] = "done" <=> modal.stage[c] = "done"
      BY <1>a, <1>n, <2>1, <2>2
    <3> QED BY <1>m, <2>1, <2>2, <3>1 DEF ModalCounts
  <2>5. ApprovalsShown'
    <3>1. ASSUME NEW b \in approvals, b # a, b.live
          PROVE  modal'.stage[b.coin] = modal.stage[b.coin]
      BY <1>a, <2>2, <3>1
    <3> QED BY <1>a, <2>1, <2>2, <3>1 DEF ApprovalsShown
  <2> QED BY <2>1, <2>3, <2>4, <2>5, MintsKept DEF MintInv
<1>3. ASSUME NEW a \in approvals, MineApproval(a)
      PROVE  MintInv'
  <2> DEFINE mined == [a EXCEPT !.phase = "mined"]
  <2>1. /\ a.phase = "sent" /\ approvals' = (approvals \ {a}) \cup {mined}
        /\ wallet' = [wallet EXCEPT !.approved = wallet.approved \cup {a.coin}]
        /\ UNCHANGED <<known, form, widget, modal, mints, hackTimers, entered, edits>>
    BY <1>3 DEF MineApproval
  <2>2. /\ mined \in Approval /\ mined.coin = a.coin /\ mined.live = a.live
        /\ mined.phase = "mined"
    BY <1>a DEF Approval
  <2> HIDE DEF mined
  <2>3. wallet' \in Wallets /\ wallet'.approved = wallet.approved \cup {a.coin}
    BY <1>t, <1>a, <2>1 DEF Wallets
  <2>4. TypeOK'
    BY <1>t, <2>1, <2>2, <2>3, MintTypesAfter
  <2>5. ModalCounts'
    BY <1>m, <2>1, <2>3 DEF ModalCounts
  <2>6. ApprovalsShown'
    <3>1. ASSUME NEW b \in approvals'
          PROVE  /\ b.phase = "mined" => b.coin \in wallet'.approved
                 /\ b.live => /\ modal.open /\ b.coin \in modal.needing
                              /\ b.phase = "asked" => modal.stage[b.coin] = "waiting-user"
                              /\ b.phase # "asked" =>
                                    modal.stage[b.coin] = "waiting-network"
      <4>1. CASE b = mined
        BY <1>a, <2>1, <2>2, <2>3, <4>1
      <4>2. CASE b \in approvals
        BY <1>a, <2>3, <4>2
      <4> QED BY <2>1, <4>1, <4>2
    <3>2. ASSUME NEW b \in approvals', NEW d \in approvals', b.live, d.live,
                 b.coin = d.coin
          PROVE  b = d
      BY <1>a, <2>1, <2>2, <3>2
    <3> QED BY <2>1, <2>3, <3>1, <3>2 DEF ApprovalsShown
  <2> QED BY <2>1, <2>4, <2>5, <2>6, MintsKept DEF MintInv
<1>4. ASSUME NEW a \in approvals, ApprovalConfirmed(a)
      PROVE  MintInv'
  <2> DEFINE approved == IF a.live THEN modal.approved \cup {a.coin} ELSE modal.approved
             staged == Staged(a, "done")
  <2>1. /\ staged \in Modals /\ staged.open = modal.open
        /\ staged.needing = modal.needing /\ staged.approved = modal.approved
        /\ \A c \in Coins : staged.stage[c] = IF a.live /\ c = a.coin
                                              THEN "done" ELSE modal.stage[c]
    BY <1>t, <1>a, StagedModal DEF Stages
  <2> HIDE DEF staged
  <2>2. /\ a.phase = "mined" /\ approvals' = approvals \ {a}
        /\ modal' = [staged EXCEPT !.approved =
                        IF a.live THEN staged.approved \cup {a.coin} ELSE staged.approved]
        /\ UNCHANGED <<wallet, known, form, widget, mints, hackTimers, entered, edits>>
    BY <1>4 DEF ApprovalConfirmed, staged
  <2>3. approved \subseteq Coins /\ modal' = [staged EXCEPT !.approved = approved]
    BY <1>t, <1>a, <2>1, <2>2 DEF Modals
  <2>4. /\ modal' \in Modals /\ modal'.open = modal.open
        /\ modal'.needing = modal.needing /\ modal'.approved = approved
        /\ \A c \in Coins : modal'.stage[c] = IF a.live /\ c = a.coin
                                              THEN "done" ELSE modal.stage[c]
    <3> HIDE DEF approved
    <3> QED BY <2>1, <2>3 DEF Modals
  <2>5. TypeOK'
    BY <1>t, <2>2, <2>4, MintTypesAfter
  <2>6. ModalCounts'
    <3>1. CASE a.live
      <4>1. \A c \in modal.needing : modal'.stage[c] = "done"
                                        <=> modal.stage[c] = "done" \/ c = a.coin
        BY <1>n, <2>4, <3>1
      <4>2. a.coin \in modal.needing /\ a.coin \in wallet.approved
        BY <1>a, <2>2, <3>1
      <4> QED BY <1>m, <2>2, <2>4, <3>1, <4>1, <4>2 DEF ModalCounts
    <3>2. CASE ~a.live
      <4>1. \A c \in modal.needing : modal'.stage[c] = modal.stage[c]
        BY <1>n, <2>4, <3>2
      <4> QED BY <1>m, <2>2, <2>4, <3>2, <4>1 DEF ModalCounts
    <3> QED BY <3>1, <3>2
  <2>7. ApprovalsShown'
    <3>1. ASSUME NEW b \in approvals, b # a, b.live
          PROVE  modal'.stage[b.coin] = modal.stage[b.coin]
      BY <1>a, <2>4, <3>1
    <3> QED BY <1>a, <2>2, <2>4, <3>1 DEF ApprovalsShown
  <2> QED BY <2>2, <2>5, <2>6, <2>7, MintsKept DEF MintInv
<1> QED BY <1>1, <1>2, <1>3, <1>4

\* Approvals whose modal is gone are live in no row.
LEMMA OrphanedApprovals ==
    ASSUME MintInv, modal' = Closed, approvals' = Orphaned,
           wallet'.approved = wallet.approved
    PROVE  /\ modal' \in Modals /\ approvals' \subseteq Approval
           /\ ModalCounts' /\ ApprovalsShown'
<1>1. approvals \subseteq Approval
  BY MintTypes DEF MintInv
<1>2. modal' \in Modals /\ modal'.open = FALSE
  BY DEF Closed, Modals, Stages
<1>3. ASSUME NEW b \in approvals'
      PROVE  /\ b \in Approval /\ ~b.live
             /\ b.phase = "mined" => b.coin \in wallet.approved
  <2>1. PICK a \in approvals : b = [a EXCEPT !.live = FALSE]
    BY <1>3 DEF Orphaned
  <2>2. b \in Approval /\ ~b.live /\ b.phase = a.phase /\ b.coin = a.coin
    BY <1>1, <2>1 DEF Approval
  <2> QED BY <2>2 DEF MintInv, ApprovalsShown
<1> QED BY <1>2, <1>3 DEF ModalCounts, ApprovalsShown

\* A coin's row is clicked, or the modal is closed.
LEMMA RowStep ==
    ASSUME MintInv, (\E c \in Coins : Approve(c)) \/ Close
    PROVE  MintInv'
<1>t. /\ wallet \in Wallets /\ known \in Knowns /\ form \in Forms
      /\ widget \in Widgets /\ modal \in Modals /\ approvals \subseteq Approval
      /\ mints \in Mints /\ hackTimers \subseteq Prefixes /\ entered \subseteq Coins
      /\ edits \in 0 .. MaxEdits[widget.mobile]
  BY MintTypes DEF MintInv
<1>1. ASSUME NEW c \in Coins, Approve(c)
      PROVE  MintInv'
  <2> DEFINE new == [coin |-> c, phase |-> "asked", live |-> TRUE]
  <2>1. /\ modal.open /\ c \in modal.needing /\ modal.stage[c] = "approve"
        /\ modal' = [modal EXCEPT !.stage[c] = "waiting-user"]
        /\ approvals' = approvals \cup {new}
        /\ UNCHANGED <<wallet, known, form, widget, mints, hackTimers, entered, edits>>
    BY <1>1 DEF Approve
  <2>2. /\ new \in Approval /\ new.coin = c /\ new.phase = "asked" /\ new.live
    BY DEF Approval
  <2> HIDE DEF new
  <2>3. /\ modal' \in Modals /\ modal'.open = modal.open
        /\ modal'.needing = modal.needing /\ modal'.approved = modal.approved
        /\ \A d \in Coins : modal'.stage[d] = IF d = c THEN "waiting-user"
                                              ELSE modal.stage[d]
    BY <1>t, <2>1 DEF Modals, Stages
  <2>4. TypeOK'
    BY <1>t, <2>1, <2>2, <2>3, MintTypesAfter
  <2>5. ModalCounts'
    <3>1. modal.needing \subseteq Coins
      BY <1>t DEF Modals
    <3>2. \A d \in modal.needing : modal'.stage[d] = "done" <=> modal.stage[d] = "done"
      BY <2>1, <2>3, <3>1
    <3> QED BY <2>1, <2>3, <3>2 DEF MintInv, ModalCounts
  <2>6. ApprovalsShown'
    <3>1. ASSUME NEW b \in approvals
          PROVE  /\ b.coin \in Coins
                 /\ b.phase = "mined" => b.coin \in wallet.approved
                 /\ b.live => /\ modal.open /\ b.coin \in modal.needing
                              /\ b.phase = "asked" => modal.stage[b.coin] = "waiting-user"
                              /\ b.phase # "asked" =>
                                    modal.stage[b.coin] = "waiting-network"
                              /\ b.coin # c
      BY <1>t, <2>1 DEF MintInv, ApprovalsShown, Approval
    <3>2. ASSUME NEW b \in approvals'
          PROVE  /\ b.phase = "mined" => b.coin \in wallet.approved
                 /\ b.live => /\ modal.open /\ b.coin \in modal.needing
                              /\ b.phase = "asked" => modal'.stage[b.coin] = "waiting-user"
                              /\ b.phase # "asked" =>
                                    modal'.stage[b.coin] = "waiting-network"
      <4>1. CASE b = new
        BY <2>1, <2>2, <2>3, <4>1
      <4>2. CASE b \in approvals
        BY <2>3, <3>1, <4>2
      <4> QED BY <2>1, <4>1, <4>2
    <3>3. ASSUME NEW b \in approvals', NEW d \in approvals', b.live, d.live,
                 b.coin = d.coin
          PROVE  b = d
      BY <2>1, <2>2, <3>1, <3>3 DEF MintInv, ApprovalsShown
    <3> QED BY <2>1, <2>3, <3>2, <3>3 DEF ApprovalsShown
  <2> QED BY <2>1, <2>4, <2>5, <2>6, MintsKept DEF MintInv
<1>2. CASE Close
  <2>1. /\ modal' = Closed /\ approvals' = Orphaned /\ Edit
        /\ UNCHANGED <<wallet, known, form, widget, mints, hackTimers, entered>>
    BY <1>2 DEF Close
  <2>2. modal' \in Modals /\ approvals' \subseteq Approval /\ ModalCounts' /\ ApprovalsShown'
    BY <2>1, OrphanedApprovals
  <2>3. TypeOK'
    BY <1>t, <2>1, <2>2, EditType, MintTypesAfter DEF MintInv
  <2> QED BY <2>1, <2>2, <2>3, MintsKept DEF MintInv
<1> QED BY <1>1, <1>2

\* A mint starts.
LEMMA onMintOusdStep ==
    ASSUME MintInv, NEW prefix \in Prefixes, onMintOusd(prefix),
           UNCHANGED <<wallet, known, form, modal, approvals, entered, edits>>
    PROVE  MintInv'
<1>t. /\ wallet \in Wallets /\ known \in Knowns /\ form \in Forms
      /\ widget \in Widgets /\ modal \in Modals /\ approvals \subseteq Approval
      /\ mints \in Mints /\ hackTimers \subseteq Prefixes /\ entered \subseteq Coins
      /\ edits \in 0 .. MaxEdits[widget.mobile]
  BY MintTypes DEF MintInv
<1> DEFINE amounts == [c \in Coins |-> Amount(form, c)]
           new == [phase |-> "asked", prefix |-> prefix, amounts |-> amounts]
<1>1. PICK i \in DOMAIN mints :
          mints[i].phase = "new" /\ mints' = [mints EXCEPT ![i] = new]
  BY DEF onMintOusd
<1>2. /\ widget' = [widget EXCEPT !.state = <<prefix, "waiting-user">>]
      /\ hackTimers' = IF widget.mobile THEN hackTimers \cup {prefix} ELSE hackTimers
  BY DEF onMintOusd
<1>3. amounts \in Amounts
  BY <1>t, AmountsAssumption DEF Amount, Amounts, Forms
<1> HIDE DEF amounts
<1>4. new \in Mint /\ new.phase = "asked"
  BY <1>3 DEF Mint
<1> HIDE DEF new
<1>5. /\ i \in 1 .. MaxMints /\ DOMAIN mints = 1 .. MaxMints
      /\ mints' \in Mints /\ mints'[i].phase = "asked"
      /\ \A j \in 1 .. MaxMints : j # i => mints'[j] = mints[j]
  BY <1>t, <1>1, <1>4 DEF Mints
<1>6. widget' \in Widgets /\ widget'.mobile = widget.mobile
  <2>1. <<prefix, "waiting-user">> \in WidgetStates
    BY DEF WidgetStates
  <2> QED BY <1>t, <1>2, <2>1 DEF Widgets
<1>7. TypeOK'
  BY <1>t, <1>2, <1>5, <1>6, MintTypesAfter
<1>8. ModalCounts' /\ ApprovalsShown'
  BY DEF MintInv, ModalCounts, ApprovalsShown
<1>9. IdleIsReady' /\ TimersAreMobile'
  <2>1. i \in DOMAIN mints' /\ Waiting(i)'
    BY <1>5 DEF Waiting, Mints
  <2> QED BY <1>2, <1>6, <2>1 DEF IdleIsReady, MintInv, TimersAreMobile
<1>10. StoredIsEntered'
  <2>1. pendingMintTransactions(mints)' = pendingMintTransactions(mints)
    BY <1>1, <1>5 DEF pendingMintTransactions, Mints
  <2> QED BY <2>1 DEF StoredIsEntered, MintInv
<1> QED BY <1>7, <1>8, <1>9, <1>10 DEF MintInv

\* A mint is sent, from the form or from the modal.
LEMMA onBuyNowStep ==
    ASSUME MintInv, onBuyNow \/ onFinalize
    PROVE  MintInv'
<1>t. /\ wallet \in Wallets /\ known \in Knowns /\ form \in Forms
      /\ widget \in Widgets /\ modal \in Modals /\ approvals \subseteq Approval
      /\ mints \in Mints /\ hackTimers \subseteq Prefixes /\ entered \subseteq Coins
      /\ edits \in 0 .. MaxEdits[widget.mobile]
  BY MintTypes DEF MintInv
<1>p. "" \in Prefixes /\ "modal-" \in Prefixes
  BY DEF Prefixes
<1>1. CASE onFinalize
  BY <1>1, <1>p, onMintOusdStep DEF onFinalize
<1>2. CASE onBuyNow
  <2> DEFINE needing == {c \in Coins : Amount(form, c) > 0 /\ c \notin known.approved}
             stage == [c \in Coins |-> IF c \in needing THEN "approve" ELSE "done"]
  <2>1. /\ ~modal.open /\ UNCHANGED <<wallet, known, form, approvals, entered, edits>>
        /\ \/ /\ widget' = [widget EXCEPT !.refused = TRUE]
              /\ UNCHANGED <<modal, mints, hackTimers>>
           \/ /\ modal' = [open |-> TRUE, needing |-> needing, approved |-> {},
                           stage |-> stage]
              /\ UNCHANGED <<widget, mints, hackTimers>>
           \/ onMintOusd("") /\ UNCHANGED modal
    BY <1>2 DEF onBuyNow, Usable, Covered
  <2>2. CASE widget' = [widget EXCEPT !.refused = TRUE] /\ UNCHANGED <<modal, mints, hackTimers>>
    <3>1. /\ widget' \in Widgets /\ widget'.state = widget.state
          /\ widget'.mobile = widget.mobile
      BY <1>t, <2>2 DEF Widgets
    <3>2. TypeOK'
      BY <1>t, <2>1, <2>2, <3>1, MintTypesAfter
    <3> QED BY <2>1, <2>2, <3>1, <3>2, ModalAndMintsKept
  <2>3. CASE /\ modal' = [open |-> TRUE, needing |-> needing, approved |-> {},
                          stage |-> stage]
             /\ UNCHANGED <<widget, mints, hackTimers>>
    <3>1. /\ needing \subseteq Coins /\ stage \in [Coins -> Stages]
          /\ \A c \in needing : stage[c] # "done"
      BY DEF Stages
    <3> HIDE DEF needing, stage
    <3>2. modal' \in Modals
      BY <2>3, <3>1 DEF Modals
    <3>3. TypeOK'
      BY <1>t, <2>1, <2>3, <3>2, MintTypesAfter
    <3>4. ModalCounts'
      BY <2>3, <3>1 DEF ModalCounts
    <3>5. ApprovalsShown'
      BY <2>1, <2>3 DEF MintInv, ApprovalsShown
    <3> QED BY <2>1, <2>3, <3>3, <3>4, <3>5, MintsKept DEF MintInv
  <2>4. CASE onMintOusd("") /\ UNCHANGED modal
    BY <1>p, <2>1, <2>4, onMintOusdStep
  <2> QED BY <2>1, <2>2, <2>3, <2>4
<1> QED BY <1>1, <1>2

\* A mint goes on to another phase, or is over.
LEMMA MintPhase ==
    ASSUME MintInv, NEW i \in 1 .. MaxMints, NEW phase \in {"sent", "mined", "over"},
           mints' = [mints EXCEPT ![i].phase = phase]
    PROVE  /\ mints' \in Mints /\ mints'[i].phase = phase
           /\ mints'[i].prefix = mints[i].prefix
           /\ \A j \in 1 .. MaxMints : j # i => mints'[j] = mints[j]
           /\ phase # "over" => Waiting(i)'
<1>1. mints \in Mints
  BY MintTypes DEF MintInv
<1>2. /\ mints' \in Mints /\ mints'[i].phase = phase
      /\ mints'[i].prefix = mints[i].prefix
      /\ \A j \in 1 .. MaxMints : j # i => mints'[j] = mints[j]
  BY <1>1 DEF Mints, Mint
<1> QED BY <1>2 DEF Waiting

\* The end of a mint, which gives the form back.
LEMMA EndedStep ==
    ASSUME MintInv, NEW i \in 1 .. MaxMints, Ended(i), form' \in Forms,
           form'.manual = form.manual,
           mints[i].phase = "asked" \/ mints[i].phase = "mined",
           UNCHANGED <<wallet, known, hackTimers, entered, edits>>
    PROVE  MintInv'
<1>t. /\ wallet \in Wallets /\ known \in Knowns
      /\ widget \in Widgets /\ modal \in Modals /\ approvals \subseteq Approval
      /\ hackTimers \subseteq Prefixes /\ entered \subseteq Coins
      /\ edits \in 0 .. MaxEdits[widget.mobile]
  BY MintTypes DEF MintInv
<1>1. /\ mints' = [mints EXCEPT ![i].phase = "over"]
      /\ widget' = [widget EXCEPT !.state = Ready]
      /\ (modal' = Closed /\ approvals' = Orphaned) \/ UNCHANGED <<modal, approvals>>
  BY DEF Ended
<1>2. /\ mints' \in Mints /\ mints'[i].phase = "over"
      /\ \A j \in 1 .. MaxMints : j # i => mints'[j] = mints[j]
  BY <1>1, MintPhase
<1>3. /\ widget' \in Widgets /\ widget'.state = Ready /\ widget'.mobile = widget.mobile
  <2>1. Ready \in WidgetStates
    BY DEF Ready, WidgetStates, Prefixes
  <2> QED BY <1>t, <1>1, <2>1 DEF Widgets
<1>4. modal' \in Modals /\ approvals' \subseteq Approval /\ ModalCounts' /\ ApprovalsShown'
  <2>1. CASE UNCHANGED <<modal, approvals>>
    BY <1>t, <2>1 DEF MintInv, ModalCounts, ApprovalsShown
  <2> QED BY <1>1, <2>1, OrphanedApprovals
<1>5. TypeOK'
  BY <1>t, <1>2, <1>3, <1>4, MintTypesAfter
<1>6. IdleIsReady' /\ TimersAreMobile'
  BY <1>3 DEF IdleIsReady, MintInv, TimersAreMobile
<1>7. StoredIsEntered'
  <2>1. pendingMintTransactions(mints)' \subseteq pendingMintTransactions(mints)
    BY <1>2, MintTypes DEF pendingMintTransactions, Mints, MintInv
  <2> QED BY <2>1 DEF StoredIsEntered, MintInv
<1> QED BY <1>4, <1>5, <1>6, <1>7 DEF MintInv

\* The steps of a mint under way.
LEMMA MintGoesOn ==
    ASSUME MintInv,
           \E i \in DOMAIN mints : \/ MintSent(i) \/ MintFails(i)
                                   \/ MineMint(i) \/ MintConfirmed(i)
    PROVE  MintInv'
<1>t. /\ wallet \in Wallets /\ known \in Knowns /\ form \in Forms
      /\ widget \in Widgets /\ modal \in Modals /\ approvals \subseteq Approval
      /\ mints \in Mints /\ hackTimers \subseteq Prefixes /\ entered \subseteq Coins
      /\ edits \in 0 .. MaxEdits[widget.mobile]
  BY MintTypes DEF MintInv
<1>d. DOMAIN mints = 1 .. MaxMints /\ \A i \in 1 .. MaxMints : mints[i] \in Mint
  BY <1>t DEF Mints
<1>1. ASSUME NEW i \in 1 .. MaxMints, MintSent(i)
      PROVE  MintInv'
  <2> DEFINE f == setStoredCoinValuesToZero(onResetStableCoins(form))
  <2>1. /\ mints' = [mints EXCEPT ![i].phase = "sent"]
        /\ widget' = [widget EXCEPT !.state = <<mints[i].prefix, "waiting-network">>]
        /\ form' = Checked(f, known, mints') /\ entered' = {}
        /\ UNCHANGED <<wallet, known, modal, approvals, hackTimers, edits>>
    BY <1>1 DEF MintSent
  <2>2. f \in Forms /\ \A c \in Coins : f.manual[c] = 0
    <3>1. Zero \in Amounts
      BY AmountsAssumption DEF Zero, Amounts
    <3>2. onResetStableCoins(form) \in Forms
      BY <1>t, <3>1 DEF onResetStableCoins, Forms
    <3>3. Zero \in [Coins -> 0 .. MaxAmount \cup {Unset}] /\ \A c \in Coins : Zero[c] = 0
      BY AmountsAssumption DEF Zero
    <3> QED BY <3>2, <3>3 DEF setStoredCoinValuesToZero, Forms
  <2> HIDE DEF f
  <2>3. form' \in Forms /\ form'.manual = f.manual
    BY <2>1, <2>2, CheckedForm
  <2>4. mints' \in Mints /\ Waiting(i)'
    BY <2>1, MintPhase
  <2>5. widget' \in Widgets /\ widget'.mobile = widget.mobile
    <3>1. <<mints[i].prefix, "waiting-network">> \in WidgetStates
      BY <1>d DEF WidgetStates, Mint
    <3> QED BY <1>t, <2>1, <3>1 DEF Widgets
  <2>6. TypeOK'
    BY <1>t, <2>1, <2>3, <2>4, <2>5, MintTypesAfter
  <2>7. ModalCounts' /\ ApprovalsShown'
    BY <2>1 DEF MintInv, ModalCounts, ApprovalsShown
  <2>8. i \in DOMAIN mints'
    BY <2>4 DEF Mints
  <2>9. IdleIsReady' /\ TimersAreMobile'
    BY <2>1, <2>4, <2>5, <2>8 DEF IdleIsReady, MintInv, TimersAreMobile
  <2>10. StoredIsEntered'
    BY <2>2, <2>3 DEF StoredIsEntered
  <2> QED BY <2>6, <2>7, <2>9, <2>10 DEF MintInv
<1>2. ASSUME NEW i \in 1 .. MaxMints, MintFails(i)
      PROVE  MintInv'
  <2>1. /\ mints[i].phase = "asked" /\ Ended(i)
        /\ UNCHANGED <<wallet, known, form, hackTimers, entered, edits>>
    BY <1>2 DEF MintFails
  <2>2. form' \in Forms /\ form'.manual = form.manual
    BY <1>t, <2>1
  <2> QED BY <2>1, <2>2, EndedStep
<1>3. ASSUME NEW i \in 1 .. MaxMints, MineMint(i)
      PROVE  MintInv'
  <2> DEFINE paid == mints[i].amounts
             valid == \A c \in Coins : /\ paid[c] <= wallet.balance[c]
                                       /\ paid[c] > 0 => c \in wallet.approved
             left == [c \in Coins |-> wallet.balance[c] - paid[c]]
  <2>1. /\ mints[i].phase = "sent" /\ mints' = [mints EXCEPT ![i].phase = "mined"]
        /\ wallet' = IF ~valid THEN wallet ELSE [wallet EXCEPT !.balance = left]
        /\ UNCHANGED <<known, form, widget, modal, approvals, hackTimers, entered, edits>>
    BY <1>3 DEF MineMint
  <2>2. wallet' \in Wallets /\ wallet'.approved = wallet.approved
    <3>1. CASE ~valid
      BY <1>t, <2>1, <3>1
    <3>2. CASE valid
      <4>1. paid \in Amounts /\ wallet.balance \in Amounts
        BY <1>t, <1>d DEF Mint, Wallets
      <4>2. left \in Amounts
        BY <3>2, <4>1, AmountsAssumption DEF Amounts
      <4>3. wallet' = [wallet EXCEPT !.balance = left]
        BY <2>1, <3>2
      <4> HIDE DEF left
      <4> QED BY <1>t, <4>2, <4>3 DEF Wallets
    <3> QED BY <3>1, <3>2
  <2>3. /\ mints' \in Mints /\ mints'[i].phase = "mined" /\ Waiting(i)'
        /\ \A j \in 1 .. MaxMints : j # i => mints'[j] = mints[j]
    BY <2>1, MintPhase
  <2>4. TypeOK'
    BY <1>t, <2>1, <2>2, <2>3, MintTypesAfter
  <2>5. ModalCounts' /\ ApprovalsShown'
    BY <2>1, <2>2 DEF MintInv, ModalCounts, ApprovalsShown
  <2>6. i \in DOMAIN mints'
    BY <2>3 DEF Mints
  <2>7. IdleIsReady' /\ TimersAreMobile'
    BY <2>1, <2>3, <2>6 DEF IdleIsReady, MintInv, TimersAreMobile
  <2>8. StoredIsEntered'
    <3>1. i \in pendingMintTransactions(mints)
      BY <1>d, <2>1 DEF pendingMintTransactions
    <3> QED BY <2>1, <3>1 DEF StoredIsEntered, MintInv
  <2> QED BY <2>4, <2>5, <2>7, <2>8 DEF MintInv
<1>4. ASSUME NEW i \in 1 .. MaxMints, MintConfirmed(i)
      PROVE  MintInv'
  <2>1. /\ mints[i].phase = "mined" /\ Ended(i) /\ form' = Checked(form, known, mints')
        /\ UNCHANGED <<wallet, known, hackTimers, entered, edits>>
    BY <1>4 DEF MintConfirmed
  <2>2. form' \in Forms /\ form'.manual = form.manual
    BY <1>t, <2>1, CheckedForm
  <2> QED BY <2>1, <2>2, EndedStep
<1> QED BY <1>d, <1>1, <1>2, <1>3, <1>4

\* The timer of the mobile wallet fires.
LEMMA HackTimerStep ==
    ASSUME MintInv, NEW prefix \in Prefixes, HackTimer(prefix)
    PROVE  MintInv'
<1>t. /\ wallet \in Wallets /\ known \in Knowns /\ form \in Forms
      /\ widget \in Widgets /\ modal \in Modals /\ approvals \subseteq Approval
      /\ mints \in Mints /\ hackTimers \subseteq Prefixes /\ entered \subseteq Coins
      /\ edits \in 0 .. MaxEdits[widget.mobile]
  BY MintTypes DEF MintInv
<1>1. /\ prefix \in hackTimers /\ widget' = [widget EXCEPT !.state = <<prefix, "buy">>]
      /\ hackTimers' = hackTimers \ {prefix}
      /\ UNCHANGED <<wallet, known, form, modal, approvals, mints, entered, edits>>
  BY DEF HackTimer
<1>2. widget' \in Widgets /\ widget'.mobile = widget.mobile
  <2>1. <<prefix, "buy">> \in WidgetStates
    BY DEF WidgetStates
  <2> QED BY <1>t, <1>1, <2>1 DEF Widgets
<1>3. TypeOK'
  BY <1>t, <1>1, <1>2, MintTypesAfter
<1>4. ModalCounts' /\ ApprovalsShown'
  BY <1>1 DEF MintInv, ModalCounts, ApprovalsShown
<1>5. widget.mobile
  BY <1>1 DEF MintInv, TimersAreMobile
<1>6. IdleIsReady' /\ TimersAreMobile'
  BY <1>2, <1>5 DEF IdleIsReady, TimersAreMobile
<1>7. StoredIsEntered'
  BY <1>1 DEF MintInv, StoredIsEntered, pendingMintTransactions
<1> QED BY <1>3, <1>4, <1>6, <1>7 DEF MintInv

\* Every event of the mint form keeps its invariant.
LEMMA MintStep ==
    ASSUME MintInv, Next
    PROVE  MintInv'
  BY MintFormStep, PollStep, ApprovalStep, RowStep, onBuyNowStep, MintGoesOn,
     HackTimerStep DEF Next

\* Where the form stands still it stays.
LEMMA MintStutters ==
    ASSUME MintInv, UNCHANGED mintVars
    PROVE  MintInv'
<1>1. UNCHANGED <<wallet, known, form, widget, modal, approvals, mints, hackTimers,
                  entered, edits>>
  BY DEF mintVars
<1>2. TypeOK'
  BY <1>1, MintTypes, MintTypesAfter DEF MintInv
<1> QED BY <1>1, <1>2, ModalAndMintsKept

\* Whatever approvals, mints, polls and timers overlap, the modal counts exactly
\* the approvals its rows show as done and the chain has made, and the form is
\* ready again when no mint is under way (BuySellWidget, ApproveModal,
\* ApproveCurrencyRow).
THEOREM MintFormAlwaysTrue == Spec => []MintFormTrue
<1>1. MintInv /\ [Next]_mintVars => MintInv'
  BY MintStep, MintStutters
<1> QED BY <1>1, MintInit, MintFormIsTrue, PTL DEF Spec

\* A step that raises the amount of a coin while a mint is pending, with nothing
\* of the coin entered since the mint was sent, is the user's.
LEMMA NothingOffered ==
    ASSUME MintInv, Next, NEW i \in pendingMintTransactions(mints), NEW c \in Coins,
           c \notin entered, Amount(form', c) > Amount(form, c)
    PROVE  Enter(c, Amount(form', c)) \/ Toggle(c)
<1>t. known \in Knowns /\ form \in Forms /\ widget \in Widgets /\ wallet \in Wallets
  BY MintTypes DEF MintInv
<1>1. form.manual[c] = 0 /\ form.value[c] \in Nat
  BY <1>t DEF MintInv, StoredIsEntered, Forms, Amounts
<1>2. ASSUME form'.off = form.off, form'.value[c] <= form.value[c], form' \in Forms
      PROVE  FALSE
  <2>1. form'.value[c] \in Nat
    BY <1>2 DEF Forms, Amounts
  <2> QED BY <1>1, <1>2, <2>1 DEF Amount
<1>3. ASSUME NEW tab, NEW k \in Knowns, form' = Rendered(tab, k)
      PROVE  FALSE
  BY <1>t, <1>1, <1>2, <1>3, RenderedForm
<1>4. ASSUME NEW f \in Forms, NEW k, NEW ms, form' = Checked(f, k, ms),
             f.off = form.off, f.value[c] <= form.value[c]
      PROVE  FALSE
  BY <1>2, <1>4, CheckedForm
<1>5. ASSUME UNCHANGED form
      PROVE  FALSE
  BY <1>t, <1>1, <1>2, <1>5
<1>6. ASSUME NEW d \in Coins, NEW v \in 0 .. MaxAmount, Enter(d, v)
      PROVE  Enter(c, Amount(form', c))
  <2> DEFINE f == [form EXCEPT !.value[d] = v, !.manual[d] = v]
  <2>1. d \notin form.off /\ form' = Edited(f, known)
    BY <1>6 DEF Enter
  <2>2. /\ f \in Forms /\ f.off = form.off /\ f.value[d] = v
        /\ d # c => f.value[c] = form.value[c]
    BY <1>t DEF Forms, Amounts
  <2> HIDE DEF f
  <2>3. form' \in Forms /\ form'.value = f.value /\ form'.off = f.off
    BY <2>1, <2>2, EditedForm
  <2>4. d = c
    BY <1>1, <1>2, <2>2, <2>3
  <2>5. Amount(form', c) = v
    BY <2>1, <2>2, <2>3, <2>4 DEF Amount
  <2> QED BY <1>6, <2>4, <2>5
<1>7. ASSUME NEW d \in Coins, Toggle(d)
      PROVE  Toggle(c)
  <2> DEFINE off == IF d \in form.off THEN form.off \ {d} ELSE form.off \cup {d}
             f == [form EXCEPT !.off = off]
  <2>1. form' = Edited(f, known)
    BY <1>7 DEF Toggle
  <2>2. off \in SUBSET Coins /\ (d # c => (c \in off <=> c \in form.off))
    BY <1>t DEF Forms
  <2> HIDE DEF off
  <2>3. f \in Forms /\ f.off = off /\ f.value = form.value
    BY <1>t, <2>2 DEF Forms
  <2> HIDE DEF f
  <2>4. form' \in Forms /\ form'.value = form.value /\ form'.off = off
    BY <2>1, <2>3, EditedForm
  <2>5. d = c
    BY <1>1, <2>2, <2>4 DEF Amount
  <2> QED BY <1>7, <2>5
<1>8. ASSUME NEW j \in DOMAIN mints, MintSent(j)
      PROVE  FALSE
  <2> DEFINE f == setStoredCoinValuesToZero(onResetStableCoins(form))
  <2>1. form' = Checked(f, known, mints')
    BY <1>8 DEF MintSent
  <2>2. f \in Forms /\ f.off = form.off /\ f.value[c] <= form.value[c]
    <3>1. Zero \in Amounts /\ Zero[c] = 0 /\ Zero \in [Coins -> 0 .. MaxAmount \cup {Unset}]
      BY AmountsAssumption DEF Zero, Amounts
    <3>2. /\ onResetStableCoins(form) \in Forms
          /\ onResetStableCoins(form).off = form.off
          /\ onResetStableCoins(form).value[c] <= form.value[c]
      BY <1>t, <1>1, <3>1 DEF onResetStableCoins, Forms
    <3> QED BY <3>1, <3>2 DEF setStoredCoinValuesToZero, Forms
  <2> HIDE DEF f
  <2> QED BY <1>4, <2>1, <2>2
<1>9. ASSUME NEW j \in DOMAIN mints, MintConfirmed(j)
      PROVE  FALSE
  BY <1>t, <1>1, <1>4, <1>9 DEF MintConfirmed
<1>10. CASE PollBalances
  <2>1. known' \in Knowns
    BY <1>t, <1>10 DEF PollBalances, Knowns, Wallets
  <2> QED BY <1>3, <1>10, <2>1 DEF PollBalances
<1>11. ASSUME NEW tab \in {"buy", "sell"}, SetTab(tab)
       PROVE  FALSE
  BY <1>t, <1>3, <1>11 DEF SetTab
<1>12. ASSUME NEW d \in Coins, Receive(d) \/ Approve(d)
       PROVE  FALSE
  BY <1>5, <1>12 DEF Receive, Approve
<1>13. ASSUME NEW j \in DOMAIN mints, MintFails(j) \/ MineMint(j)
       PROVE  FALSE
  BY <1>5, <1>13 DEF MintFails, MineMint
<1>14. ASSUME NEW a \in approvals,
              ApprovalSent(a) \/ ApprovalFails(a) \/ MineApproval(a) \/ ApprovalConfirmed(a)
       PROVE  FALSE
  BY <1>5, <1>14 DEF ApprovalSent, ApprovalFails, MineApproval, ApprovalConfirmed
<1>15. ASSUME NEW prefix \in Prefixes, HackTimer(prefix)
       PROVE  FALSE
  BY <1>5, <1>15 DEF HackTimer
<1>16. ASSUME PollAllowances \/ onBuyNow \/ Close \/ onFinalize
       PROVE  FALSE
  BY <1>5, <1>16 DEF PollAllowances, onBuyNow, Close, onFinalize
<1> QED BY <1>6, <1>7, <1>8, <1>9, <1>10, <1>11, <1>12, <1>13, <1>14, <1>15, <1>16
        DEF Next

\* No amount of a mint that is pending comes back into the form by itself, by
\* whatever fills the rows: the tab, a poll, a mint sent or confirmed (CoinRow,
\* BuySellWidget, setStoredCoinValuesToZero).
THEOREM MintNotOfferedTwice == Spec => NothingOfferedTwice
<1>1. MintInv /\ [Next]_mintVars => MintInv'
  BY MintStep, MintStutters
<1>2. MintInv /\ [Next]_mintVars =>
          [\A i \in pendingMintTransactions(mints), c \in Coins :
              /\ mints[i].amounts[c] > 0 /\ c \notin entered
              /\ Amount(form', c) > Amount(form, c)
              => Enter(c, Amount(form', c)) \/ Toggle(c)]_mintVars
  BY NothingOffered
<1> QED BY <1>1, <1>2, MintInit, PTL DEF Spec, NothingOfferedTwice
-----------------------------------------------------------------------------
(* The web application.                                                     *)

DappInv == SignerIsConnected /\ MintInv /\ RedeemInv /\ HeaderInv

\* Every step of the whole keeps the invariant of each part.
LEMMA DappStep ==
    ASSUME DappInv, [DappNext]_dappVars
    PROVE  DappInv'
<1>1. CASE UNCHANGED dappVars
  <2>1. UNCHANGED accountVars /\ UNCHANGED mintVars /\ UNCHANGED sellVars
        /\ UNCHANGED headerVars
    BY <1>1 DEF dappVars
  <2> QED BY <2>1, AccountStutters, MintStutters, RedeemStutters, HeaderStutters
          DEF DappInv
<1>2. CASE A!Next /\ UNCHANGED <<mintVars, sellVars, headerVars>>
  BY <1>2, AccountStep, MintStutters, RedeemStutters, HeaderStutters DEF DappInv
<1>3. CASE Next /\ UNCHANGED <<accountVars, sellVars, headerVars>>
  BY <1>3, AccountStutters, MintStep, RedeemStutters, HeaderStutters DEF DappInv
<1>4. CASE R!Next /\ UNCHANGED <<accountVars, mintVars, headerVars>>
  BY <1>4, AccountStutters, MintStutters, RedeemStep, HeaderStutters DEF DappInv
<1>5. CASE B!Next /\ UNCHANGED <<accountVars, mintVars, sellVars>>
  BY <1>5, AccountStutters, MintStutters, RedeemStutters, HeaderStep DEF DappInv
<1> QED BY <1>1, <1>2, <1>3, <1>4, <1>5 DEF DappNext

\* It holds at all times.
LEMMA DappInvAlways == DappSpec => []DappInv
<1>1. DappInit => DappInv
  BY AccountInit, MintInit, RedeemInit, HeaderInit DEF DappInit, DappInv
<1> QED BY <1>1, DappStep, PTL DEF DappSpec

\* The parts of the web application side by side are as true as each alone.
THEOREM DappAlwaysTrue == DappSpec => [](SignerIsConnected /\ MintFormTrue /\ RedeemFormTrue)
<1>1. DappInv => SignerIsConnected /\ MintFormTrue /\ RedeemFormTrue
  BY MintFormIsTrue, RedeemFormIsTrue DEF DappInv
<1> QED BY <1>1, DappInvAlways, PTL

\* Neither an amount that is being minted nor the modal that was closed comes back.
THEOREM NothingEverComesBack == DappSpec => NothingComesBack
<1>1. DappInv => B!TypeOK
  BY DEF DappInv, HeaderInv
<1>2. DappInv /\ [DappNext]_dappVars =>
          [\A i \in pendingMintTransactions(mints), c \in Coins :
              /\ mints[i].amounts[c] > 0 /\ c \notin entered
              /\ Amount(form', c) > Amount(form, c)
              => Enter(c, Amount(form', c)) \/ Toggle(c)]_mintVars
  <2>1. [DappNext]_dappVars => Next \/ UNCHANGED mintVars
    BY DEF DappNext, dappVars
  <2> QED BY <2>1, NothingOffered DEF DappInv
<1>3. DappInv /\ [DappNext]_dappVars =>
          [addOUSDModalShown => addOusdModalState' = addOusdModalState]_B!headerVars
  <2>1. [DappNext]_dappVars => B!Next \/ UNCHANGED B!headerVars
    BY DEF DappNext, dappVars, headerVars, B!headerVars
  <2> QED BY <2>1, HeaderStep DEF DappInv
<1> QED BY <1>1, <1>2, <1>3, DappInvAlways, PTL
        DEF DappSpec, NothingComesBack, NothingOfferedTwice, B!ClosedForGood
=============================================================================

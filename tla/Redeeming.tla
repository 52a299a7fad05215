------------------------------ MODULE Redeeming ------------------------------
(***************************************************************************)
(* The redeem form of the web application: SellWidget, whose form state is  *)
(* kept by BuySellWidget while the tab changes, and the calculations of     *)
(* what a redemption would pay, which the vault answers in any order.       *)
(*                                                                         *)
(* A step is one event of the page with its renders and effects.  The       *)
(* outputs of a redemption are known by the amount they were asked for, and *)
(* a calculation by the millisecond in which its timer fired.               *)
(***************************************************************************)
EXTENDS Naturals

CONSTANTS MaxBalance,   \* bound: the most OUSD the account has
          MaxCalls,     \* bound: calculations asked for, and milliseconds
          MaxMounts,    \* bound: how often the tab is opened
          MaxRedeems,   \* bound: redemptions started
          MaxSteps,     \* bound: what the user does to tab, form and wallet
          NoSplit       \* no stablecoin mix is shown, no interval

VARIABLES holding,      \* the balance on the chain, as AccountStore knows it,
                        \* and as the header shows it
          sell,         \* the form
          mount,        \* the mounted instance of SellWidget, if any, and how
                        \* many there were
          interval,     \* the balance that sellWidgetSplitsInterval asks for
          calls,        \* calculations that wait for their timer or the vault
          latest,       \* instance -> latestCalculateSplits, and, as history,
                        \* the amounts whose timers fired in that millisecond
          asked,        \* how many calculations were asked for
          redeems,      \* redemptions under way
          phone,        \* whether the wallet is a mobile one, and the redemptions
                        \* that have a timer then
          steps

sellVars == <<holding, sell, mount, interval, calls, latest, asked, redeems, phone,
              steps>>

Ousd == 0 .. MaxBalance
Instances == 1 .. MaxMounts
Call == [turn : 1 .. MaxCalls, by : Instances, amount : Ousd, at : 0 .. MaxCalls]

Init ==
    /\ holding \in [chain : {MaxBalance - 1}, known : {0}, animated : {0}]
    /\ sell = [amount |-> 0, all |-> FALSE, error |-> FALSE, split |-> NoSplit,
               calculating |-> FALSE, state |-> "redeem-now"]
    /\ mount = [open |-> FALSE, count |-> 0]
    /\ interval = NoSplit
    /\ calls = {}
    /\ latest = [i \in Instances |-> [at |-> 0, amounts |-> {}]]
    /\ asked = 0
    /\ redeems = [r \in 1 .. MaxRedeems |->
                    [phase |-> "new", all |-> FALSE, amount |-> 0, hurried |-> FALSE]]
    /\ phone \in [metaMask : BOOLEAN, timers : {{}}]
    /\ steps = 0
-----------------------------------------------------------------------------
(* The form.                                                                *)

\* Something covers the widget.
Covered == sell.state # "redeem-now"

Usable == mount.open /\ ~Covered /\ holding.known > 0

\* The effect on the amount looks for errors; it does not run for a balance.
setOusdToSellValue(s, v) ==
    [s EXCEPT !.amount = v, !.error = IF v = s.amount THEN @ ELSE v > holding.animated]

\* A calculation is asked for and waits for its timer: the earlier timers,
\* variables of earlier renders, go on.
calculateSplits(v, by) ==
    /\ asked < MaxCalls
    /\ asked' = asked + 1
    /\ calls' = calls \cup {[turn |-> asked + 1, by |-> by, amount |-> v, at |-> 0]}

\* The effect on sellAllActive: it stops the interval and starts another.
SellAllEffect(all, by) ==
    IF all THEN /\ calculateSplits(holding.animated, by)
                /\ interval' = holding.animated
    ELSE interval' = NoSplit /\ UNCHANGED <<asked, calls>>

\* The user types an amount; focusing the input has turned Max off.
Enter(v) ==
    /\ Usable
    /\ sell' = setOusdToSellValue([sell EXCEPT !.all = FALSE], v)
    /\ interval' = IF sell.all THEN NoSplit ELSE interval
    /\ calculateSplits(v, mount.count)
    /\ steps < MaxSteps /\ steps' = steps + 1
    /\ UNCHANGED <<holding, mount, latest, redeems, phone>>

\* The user turns Max on or off.
SellAll ==
    /\ Usable
    /\ sell' = setOusdToSellValue([sell EXCEPT !.all = ~@], holding.known)
    /\ SellAllEffect(~sell.all, mount.count)
    /\ steps < MaxSteps /\ steps' = steps + 1
    /\ UNCHANGED <<holding, mount, latest, redeems, phone>>

\* The tab is opened, with the effects of a first render.
OpenTab ==
    /\ ~mount.open /\ mount.count < MaxMounts
    /\ mount' = [open |-> TRUE, count |-> mount.count + 1]
    /\ LET v == IF sell.all THEN holding.animated ELSE sell.amount
       IN  sell' = [sell EXCEPT !.amount = v, !.error = v > holding.animated]
    /\ SellAllEffect(sell.all, mount.count + 1)
    /\ steps < MaxSteps /\ steps' = steps + 1
    /\ UNCHANGED <<holding, latest, redeems, phone>>

\* The tab is left; interval and calculations go on.
LeaveTab ==
    /\ mount.open /\ ~Covered
    /\ mount' = [mount EXCEPT !.open = FALSE]
    /\ steps < MaxSteps /\ steps' = steps + 1
    /\ UNCHANGED <<holding, sell, interval, calls, latest, asked, redeems, phone>>
-----------------------------------------------------------------------------
(* Balances.                                                                *)

Receive ==
    /\ holding.chain < MaxBalance
    /\ holding' = [holding EXCEPT !.chain = @ + 1]
    /\ steps < MaxSteps /\ steps' = steps + 1
    /\ UNCHANGED <<sell, mount, interval, calls, latest, asked, redeems, phone>>

Poll ==
    /\ holding.known # holding.chain
    /\ holding' = [holding EXCEPT !.known = holding.chain]
    /\ UNCHANGED <<sell, mount, interval, calls, latest, asked, redeems, phone, steps>>

\* The animation of the header ends; with Max on the amount follows it.
Animate ==
    /\ holding.animated # holding.known
    /\ holding' = [holding EXCEPT !.animated = holding.known]
    /\ sell' = IF mount.open /\ sell.all
               THEN [sell EXCEPT !.amount = holding.known, !.error = FALSE] ELSE sell
    /\ UNCHANGED <<mount, interval, calls, latest, asked, redeems, phone, steps>>
-----------------------------------------------------------------------------
(* Calculations.                                                            *)

\* The interval's closure is of the instance that set it.
IntervalFires ==
    /\ interval # NoSplit
    /\ calculateSplits(interval, mount.count)
    /\ UNCHANGED <<holding, sell, mount, interval, latest, redeems, phone, steps>>

\* The timers fire in the order they were set, two perhaps in one millisecond t;
\* milliseconds in which none fires are left out.
CallFires(c, t) ==
    /\ c \in calls /\ c.at = 0 /\ \A d \in calls : d.turn < c.turn => d.at # 0
    /\ \A i \in Instances : latest[i].at <= t
    /\ \E i \in Instances : t <= latest[i].at + 1
    /\ calls' = (calls \ {c}) \cup {[c EXCEPT !.at = t]}
    /\ latest' = [latest EXCEPT ![c.by] =
          [at |-> t, amounts |-> {c.amount} \cup
                                 (IF latest[c.by].at = t THEN latest[c.by].amounts ELSE {})]]
    /\ sell' = [sell EXCEPT !.calculating = TRUE]
    /\ UNCHANGED <<holding, mount, interval, asked, redeems, phone, steps>>

\* Faulty: an answer is shown whether or not it is the latest's.
AnyAnswer(c) ==
    /\ c \in calls /\ c.at # 0
    /\ calls' = calls \ {c}
    /\ \E split \in {c.amount, NoSplit} :
          sell' = [sell EXCEPT !.split = split, !.calculating = FALSE]
    /\ UNCHANGED <<holding, mount, interval, latest, asked, redeems, phone, steps>>

\* The vault answers, or fails to.
CallReturns(c) ==
    /\ c \in calls /\ c.at # 0
    /\ calls' = calls \ {c}
    /\ \E split \in {c.amount, NoSplit} :
          sell' = IF latest[c.by].at = c.at
                  THEN [sell EXCEPT !.split = split, !.calculating = FALSE] ELSE sell
    /\ UNCHANGED <<holding, mount, interval, latest, asked, redeems, phone, steps>>
-----------------------------------------------------------------------------
(* Redemptions.                                                             *)

Under(phase) == {r \in DOMAIN redeems : redeems[r].phase = phase}

\* Whether the button is enabled: some stablecoin mix has been calculated.
Enabled ==
    /\ Usable
    /\ ~sell.error /\ sell.amount > 0
    /\ sell.split \notin {NoSplit, 0} /\ ~sell.calculating

\* A click: the token is asked for its decimals, and until it answers the button
\* stays enabled; `hurried`, as history, is a click during such a wait.  What
\* exceeds the known balance, but not the one shown, is redeemed as all.
onSellNow ==
    /\ Enabled
    /\ \E r \in Under("new") :
          /\ \A q \in Under("new") : r <= q
          /\ redeems' = [redeems EXCEPT ![r] =
                [phase |-> "clicked", amount |-> sell.amount,
                 all |-> sell.all \/ sell.amount \in holding.known .. holding.animated,
                 hurried |-> Under("clicked") # {}]]
    /\ UNCHANGED <<holding, sell, mount, interval, calls, latest, asked, phone, steps>>

\* The token has answered, and the wallet is asked.
DecimalsReturn(r) ==
    /\ redeems[r].phase = "clicked"
    /\ redeems' = [redeems EXCEPT ![r].phase = "asked"]
    /\ sell' = [sell EXCEPT !.state = "waiting-user"]
    /\ phone' = [phone EXCEPT !.timers = IF phone.metaMask THEN @ \cup {r} ELSE @]
    /\ UNCHANGED <<holding, mount, interval, calls, latest, asked, steps>>

\* The token does not answer, which nothing catches.
DecimalsFail(r) ==
    /\ redeems[r].phase = "clicked"
    /\ redeems' = [redeems EXCEPT ![r].phase = "over"]
    /\ UNCHANGED <<holding, sell, mount, interval, calls, latest, asked, phone, steps>>

\* mobileMetaMaskHack's timer.
HackTimer(r) ==
    /\ r \in phone.timers
    /\ sell' = [sell EXCEPT !.state = "redeem-now"]
    /\ phone' = [phone EXCEPT !.timers = @ \ {r}]
    /\ UNCHANGED <<holding, mount, interval, calls, latest, asked, redeems, steps>>

RedeemSent(r) ==
    /\ redeems[r].phase = "asked"
    /\ redeems' = [redeems EXCEPT ![r].phase = "sent"]
    /\ sell' = [sell EXCEPT !.state = "waiting-network"]
    /\ UNCHANGED <<holding, mount, interval, calls, latest, asked, phone, steps>>

\* The user refuses, or the wait for the receipt fails; the form keeps its amount.
RedeemFails(r) ==
    /\ redeems[r].phase \in {"asked", "mined"}
    /\ redeems' = [redeems EXCEPT ![r].phase = "over"]
    /\ sell' = [sell EXCEPT !.state = "redeem-now"]
    /\ UNCHANGED <<holding, mount, interval, calls, latest, asked, phone, steps>>

\* More than the account has is not redeemed, unless all is.
RedeemMined(r) ==
    /\ redeems[r].phase = "sent"
    /\ redeems' = [redeems EXCEPT ![r].phase = "mined"]
    /\ LET left == IF redeems[r].all THEN 0
                   ELSE IF redeems[r].amount > holding.chain THEN holding.chain
                   ELSE holding.chain - redeems[r].amount
       IN  holding' = [holding EXCEPT !.chain = left]
    /\ UNCHANGED <<sell, mount, interval, calls, latest, asked, phone, steps>>

\* onSellSuccess clears the form; whether the redemption failed is not looked at.
RedeemConfirmed(r) ==
    /\ redeems[r].phase = "mined"
    /\ redeems' = [redeems EXCEPT ![r].phase = "over"]
    /\ sell' = [setOusdToSellValue(sell, 0) EXCEPT !.split = NoSplit,
                                                   !.state = "redeem-now"]
    /\ UNCHANGED <<holding, mount, interval, calls, latest, asked, phone, steps>>

Next ==
    \/ \E v \in Ousd : Enter(v)
    \/ SellAll \/ OpenTab \/ LeaveTab \/ Receive \/ Poll \/ Animate
    \/ IntervalFires \/ onSellNow
    \/ \E c \in calls : CallReturns(c) \/ \E t \in 1 .. MaxCalls : CallFires(c, t)
    \/ \E r \in DOMAIN redeems :
          \/ DecimalsReturn(r) \/ DecimalsFail(r) \/ RedeemSent(r) \/ RedeemFails(r)
          \/ RedeemMined(r) \/ RedeemConfirmed(r) \/ HackTimer(r)

\* What is sent is mined and its receipt arrives.
Fairness ==
    WF_sellVars(\E r \in DOMAIN redeems : RedeemMined(r) \/ RedeemConfirmed(r))

Spec == Init /\ [][Next]_sellVars /\ Fairness
-----------------------------------------------------------------------------
\* The variables have their types.
TypeOK ==
    /\ holding \in [chain : Ousd, known : Ousd, animated : Ousd]
    /\ sell \in [amount : Ousd, all : BOOLEAN, error : BOOLEAN, calculating : BOOLEAN,
                 split : Ousd \cup {NoSplit},
                 state : {"redeem-now", "waiting-user", "waiting-network"}]
    /\ mount \in [open : BOOLEAN, count : 0 .. MaxMounts]
    /\ interval \in Ousd \cup {NoSplit}
    /\ calls \subseteq Call
    /\ latest \in [Instances -> [at : 0 .. MaxCalls, amounts : SUBSET Ousd]]
    /\ asked \in 0 .. MaxCalls
    /\ redeems \in [1 .. MaxRedeems ->
                       [phase : {"new", "clicked", "asked", "sent", "mined", "over"},
                        all : BOOLEAN, amount : Ousd, hurried : BOOLEAN]]
    /\ phone \in [metaMask : BOOLEAN, timers : SUBSET (1 .. MaxRedeems)]
    /\ steps \in 0 .. MaxSteps

\* In whatever order the vault answers, once it has answered everything the mix
\* shown is of an amount whose calculation was the last of its instance of the
\* widget to begin: no answer to an earlier one, unless of the same millisecond.
LastCalculationShown ==
    calls = {} =>
        \/ sell.split = NoSplit
        \/ \E i \in Instances : sell.split \in latest[i].amounts

\* Without the mobile wallet's timer, two redemptions are under way at once only
\* after a click during the wait of an earlier one for the token's decimals: what
\* asks the wallet or the network keeps every other from starting.
OneUnlessHurried ==
    /\ ~phone.metaMask
    /\ \A r \in DOMAIN redeems : ~redeems[r].hurried
    => \A q, r \in DOMAIN redeems :
          {redeems[q].phase, redeems[r].phase} \cap {"new", "over"} = {} => q = r

\* Whoever waits for the network to redeem gets the form back.
RedeemsEnd == sell.state = "waiting-network" ~> sell.state = "redeem-now"
=============================================================================

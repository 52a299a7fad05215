---------------------------- MODULE BalanceHeader ----------------------------
(***************************************************************************)
(* The OUSD balance in the header of the web application, its animation     *)
(* (utils/animation.js), and the AddOUSDModal that the end of an animation  *)
(* opens after a first mint.                                                *)
(*                                                                         *)
(* An animation runs on a timer with the closure of the render that started *)
(* it, and one started later replaces it.                                   *)
(***************************************************************************)
EXTENDS Integers

CONSTANTS MaxOusd,             \* bound: the most OUSD the account has
          mintAnimationLimit,  \* the least change that is animated as one
          NotLoaded            \* no balance, no animation

VARIABLES ousd,                \* the account's balance on the chain
          ousdBalance,         \* the balance in AccountStore
          animatedOusdBalance, \* the number in the header, between animations
          animations,          \* the animations whose timers run
          addOusdModalState,
          addOUSDModalShown,   \* in localStorage: the modal was closed once
          minting              \* a mint: not there, sent or mined

headerVars == <<ousd, ousdBalance, animatedOusdBalance, animations,
                addOusdModalState, addOUSDModalShown, minting>>

Ousd == 0 .. MaxOusd
ModalStates == {"none", "waiting", "show"}
Animation == [to : Ousd, waiting : BOOLEAN]

Init ==
    /\ ousd \in Ousd
    /\ ousdBalance = NotLoaded
    /\ animatedOusdBalance = NotLoaded
    /\ animations = {}
    /\ addOusdModalState = "none"
    /\ addOUSDModalShown = FALSE
    /\ minting = "none"
-----------------------------------------------------------------------------
\* A new animation stops the one with the same id; its callback has the modal's
\* state of this render.
animateValue(to) ==
    animations' = {[to |-> to, waiting |-> addOusdModalState = "waiting"]}

\* Faulty: only a step above the limit is shown.
LargeSteps(prev, new) ==
    IF /\ prev # NotLoaded
       /\ new > prev + mintAnimationLimit \/ prev > new + mintAnimationLimit
    THEN new ELSE 0

\* What the effect on the balance animates to: small balances count as none
\* unless the balance changed by more than the limit.
normalOusdAnimation(prev, new) ==
    LET change == IF new > prev THEN new - prev ELSE prev - new
    IN  IF \/ prev # NotLoaded /\ change > mintAnimationLimit
           \/ new > mintAnimationLimit
        THEN new ELSE 0

\* A poll of AccountListener brings a balance that differs.
BalanceLoaded ==
    /\ ousd # ousdBalance
    /\ ousdBalance' = ousd
    /\ animateValue(normalOusdAnimation(ousdBalance, ousd))
    /\ UNCHANGED <<ousd, animatedOusdBalance, addOusdModalState,
                   addOUSDModalShown, minting>>

\* The timer of an animation runs for the last time.
onCompleteCallback(a) ==
    /\ a \in animations
    /\ animations' = animations \ {a}
    /\ animatedOusdBalance' = a.to
    /\ addOusdModalState' = IF a.waiting THEN "show" ELSE addOusdModalState
    /\ UNCHANGED <<ousd, ousdBalance, addOUSDModalShown, minting>>

\* The user sends OUSD, receives it, or collects the yield of a rebase.
handleRebase(amount) ==
    /\ amount # ousd
    /\ ousd' = amount
    /\ UNCHANGED <<ousdBalance, animatedOusdBalance, animations,
                   addOusdModalState, addOUSDModalShown, minting>>

MintSent ==
    /\ minting = "none"
    /\ minting' = "sent"
    /\ UNCHANGED <<ousd, ousdBalance, animatedOusdBalance, animations,
                   addOusdModalState, addOUSDModalShown>>

MintMined(amount) ==
    /\ minting = "sent" /\ amount \in 1 .. MaxOusd - ousd
    /\ ousd' = ousd + amount
    /\ minting' = "mined"
    /\ UNCHANGED <<ousdBalance, animatedOusdBalance, animations,
                   addOusdModalState, addOUSDModalShown>>

\* onMintOusd has the receipt: unless the modal was closed once, the next
\* animation to start shall open it.
MintConfirmed ==
    /\ minting = "mined"
    /\ minting' = "none"
    /\ addOusdModalState' = IF addOUSDModalShown THEN addOusdModalState
                            ELSE "waiting"
    /\ UNCHANGED <<ousd, ousdBalance, animatedOusdBalance, animations,
                   addOUSDModalShown>>

\* The user closes the AddOUSDModal, or adds OUSD to the wallet.
onClose ==
    /\ addOusdModalState = "show"
    /\ addOusdModalState' = "none"
    /\ addOUSDModalShown' = TRUE
    /\ UNCHANGED <<ousd, ousdBalance, animatedOusdBalance, animations, minting>>

Next ==
    \/ \E amount \in Ousd : handleRebase(amount) \/ MintMined(amount)
    \/ \E a \in animations : onCompleteCallback(a)
    \/ BalanceLoaded \/ MintSent \/ MintConfirmed \/ onClose

\* Timers end, and polls go on.
Fairness ==
    /\ WF_headerVars(BalanceLoaded)
    /\ WF_headerVars(\E a \in animations : onCompleteCallback(a))

Spec == Init /\ [][Next]_headerVars /\ Fairness
-----------------------------------------------------------------------------
\* The variables have their types.
TypeOK ==
    /\ ousd \in Ousd
    /\ ousdBalance \in Ousd \cup {NotLoaded}
    /\ animatedOusdBalance \in Ousd \cup {NotLoaded}
    /\ animations \subseteq Animation
    /\ addOusdModalState \in ModalStates
    /\ addOUSDModalShown \in BOOLEAN
    /\ minting \in {"none", "sent", "mined"}

\* Once closed, the modal does not come back: not from an animation that was
\* started earlier, not from a mint that is confirmed later.
ClosedForGood ==
    [][addOUSDModalShown => addOusdModalState' = addOusdModalState]_headerVars

\* A balance above the limit that no longer changes ends up in the header.
BalanceShown ==
    \A b \in mintAnimationLimit + 1 .. MaxOusd :
        <>[](ousd = b) => <>[](animatedOusdBalance = b)
=============================================================================

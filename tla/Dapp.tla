-------------------------------- MODULE Dapp --------------------------------
(***************************************************************************)
(* The parts of the web application that do not share state, one at a time: *)
(* a behaviour chooses a part and the others stand still.  Minting's state   *)
(* is the module's own, the other parts are instances.                      *)
(***************************************************************************)
EXTENDS Minting

\* The account.
CONSTANTS Accounts, None, MaxChanges, MaxVersion, MaxFaults, MaxLoads

\* The redeem form.
CONSTANTS MaxBalance, MaxCalls, MaxMounts, MaxRedeems, MaxSteps, NoSplit

\* The balance in the header.
CONSTANTS MaxOusd, mintAnimationLimit, NotLoaded

ASSUME AccountAssumption ==
    MaxChanges \in Nat /\ MaxVersion \in Nat /\ MaxFaults \in Nat
ASSUME RedeemingAssumption ==
    /\ MaxBalance \in Nat \ {0}
    /\ MaxCalls \in Nat /\ MaxMounts \in Nat /\ MaxRedeems \in Nat /\ MaxSteps \in Nat
ASSUME HeaderAssumption == MaxOusd \in Nat

VARIABLES part

\* The account.
VARIABLES account, ledger, listener, store, signer, fetcher, loads, user, changes,
          faults
A == INSTANCE Account

\* The redeem form.
VARIABLES holding, sell, mount, interval, calls, latest, asked, redeems, phone, steps
R == INSTANCE Redeeming

\* The balance in the header.
VARIABLES ousd, ousdBalance, animatedOusdBalance, animations, addOusdModalState,
          addOUSDModalShown, minting
B == INSTANCE BalanceHeader

accountVars == <<account, ledger, listener, store, signer, fetcher, loads, user,
                 changes, faults>>
sellVars == <<holding, sell, mount, interval, calls, latest, asked, redeems, phone,
              steps>>
headerVars == <<ousd, ousdBalance, animatedOusdBalance, animations,
                addOusdModalState, addOUSDModalShown, minting>>
dappVars == <<part, accountVars, mintVars, sellVars, headerVars>>

DappInit ==
    /\ part \in {"account", "mint", "redeem", "header"}
    /\ A!Init /\ Init /\ R!Init /\ B!Init
    /\ part # "mint" => ~widget.mobile
    /\ part # "redeem" => ~phone.metaMask
    /\ part # "header" => ousd = 0

DappNext ==
    /\ UNCHANGED part
    /\ \/ /\ part = "account" /\ A!Next
          /\ UNCHANGED <<mintVars, sellVars, headerVars>>
       \/ /\ part = "mint" /\ Next
          /\ UNCHANGED <<accountVars, sellVars, headerVars>>
       \/ /\ part = "redeem" /\ R!Next
          /\ UNCHANGED <<accountVars, mintVars, headerVars>>
       \/ /\ part = "header" /\ B!Next
          /\ UNCHANGED <<accountVars, mintVars, sellVars>>

\* The fairness of each part: of the same actions, once the part is chosen.
DappSpec ==
    /\ DappInit /\ [][DappNext]_dappVars
    /\ WF_accountVars(part = "account" /\ A!Poll)
    /\ WF_accountVars(part = "account" /\ A!Fetch)
    /\ WF_accountVars(part = "account" /\ \E a \in A!Connectable : A!SetupReturns(a))
    /\ \A k \in A!Kinds :
          WF_accountVars(part = "account" /\ \E l \in loads : l.kind = k /\ A!Answer(l))
    /\ WF_mintVars(part = "mint" /\ \E i \in DOMAIN mints :
                    MineMint(i) \/ MintConfirmed(i))
    /\ WF_sellVars(part = "redeem" /\ \E r \in DOMAIN redeems :
                    R!RedeemMined(r) \/ R!RedeemConfirmed(r))
    /\ WF_headerVars(part = "header" /\ B!BalanceLoaded)
    /\ WF_headerVars(part = "header" /\ \E a \in animations : B!onCompleteCallback(a))
-----------------------------------------------------------------------------
\* The connected account, and no other, is asked to sign.
SignerIsConnected == A!TypeOK /\ A!SignerIsConnected

\* What the header and the forms show of the account ends up as the chain has it.
StoreFollowsAccount == A!StoreFollowsAccount

\* The mix shown is no overtaken one, and redemptions overlap after hurried clicks
\* only.
RedeemFormTrue == R!TypeOK /\ R!LastCalculationShown /\ R!OneUnlessHurried

\* No amount is offered again while it is being minted, and a closed modal stays
\* closed.
NothingComesBack == []B!TypeOK /\ NothingOfferedTwice /\ B!ClosedForGood

\* Modals close, the redeem form comes back and animations end at the balance.
FormsEnd == ModalCloses /\ R!RedeemsEnd /\ B!BalanceShown
=============================================================================

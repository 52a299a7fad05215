-------------------------------- MODULE OUSD --------------------------------
(***************************************************************************)
(* The elastic-supply token, contracts/token/OUSD.sol.  An account holds    *)
(* credits; its balance is credits / rate.  Rebasing accounts share the     *)
(* rate rebasingCreditsPerToken, which changeSupply moves; a non-rebasing   *)
(* account has a frozen rate of its own.  Contracts that never chose are    *)
(* moved to the non-rebasing side the first time a call touches them.       *)
(*                                                                         *)
(* The contract's storage is one record, and each function of the contract  *)
(* an operator from storage to storage; a transaction is one atomic step    *)
(* that reverts (is disabled) when a require or a SafeMath check fails.     *)
(***************************************************************************)
EXTENDS StableMath, Tally

CONSTANTS Accounts,     \* addresses other than 0
          Deployable,   \* the addresses at which code can be created and destroyed
          MaxSupply,    \* MAX_SUPPLY, 2^128 - 1 in the contract
          MaxWord,      \* the largest storage word, 2^256 - 1 on the EVM
          Amounts,      \* the amounts of transfers, mints and burns
          Approvals,    \* the amounts of approvals
          Supplies      \* the arguments of changeSupply

ASSUME AccountsAssumption == IsFiniteSet(Accounts) /\ Deployable \subseteq Accounts
ASSUME BoundsAssumption ==
    /\ MaxSupply \in Nat
    /\ MaxWord \in Nat /\ FullScale <= MaxWord
    /\ Amounts \subseteq Nat /\ Approvals \subseteq Nat
    /\ Supplies \subseteq Nat

VARIABLES token,        \* the contract's storage
          allowances,   \* owner -> spender -> what the spender may still move
          contracts     \* the accounts that have code now (Address.isContract)

vars == <<token, allowances, contracts>>

RebaseOptions == {"NotSet", "OptOut", "OptIn"}

Storage == [totalSupply : 0 .. MaxWord,
            creditBalances : [Accounts -> 0 .. MaxWord],
            rebasingCredits : 0 .. MaxWord,
            rebasingCreditsPerToken : 0 .. MaxWord,
            nonRebasingSupply : 0 .. MaxWord,
            nonRebasingCreditsPerToken : [Accounts -> 0 .. MaxWord],
            rebaseState : [Accounts -> RebaseOptions]]

Init ==
    /\ token = [totalSupply |-> 0,
                creditBalances |-> [a \in Accounts |-> 0],
                rebasingCredits |-> 0,
                rebasingCreditsPerToken |-> FullScale,
                nonRebasingSupply |-> 0,
                nonRebasingCreditsPerToken |-> [a \in Accounts |-> 0],
                rebaseState |-> [a \in Accounts |-> "NotSet"]]
    /\ allowances = [o \in Accounts |-> [s \in Accounts |-> 0]]
    /\ contracts = {}
-----------------------------------------------------------------------------
(* The functions of the contract on its storage.                            *)

CreditsPerToken(t, a) ==
    IF t.nonRebasingCreditsPerToken[a] # 0
    THEN t.nonRebasingCreditsPerToken[a]
    ELSE t.rebasingCreditsPerToken

BalanceOf(t, a) ==
    IF t.creditBalances[a] = 0 THEN 0
    ELSE DivPrecisely(t.creditBalances[a], CreditsPerToken(t, a))

IsNonRebasing(t, a) == t.nonRebasingCreditsPerToken[a] > 0

Frozen(t, a, rate) ==
    [t EXCEPT !.nonRebasingCreditsPerToken[a] = rate,
              !.nonRebasingSupply = @ + BalanceOf(t, a),
              !.rebasingCredits = @ - t.creditBalances[a]]

\* Faulty variants of Touch: the choice is not looked at; the account may
\* already be frozen; the rate is the initial one.
TouchIgnoringChoice(t, a) ==
    IF a \in contracts /\ ~IsNonRebasing(t, a)
    THEN Frozen(t, a, t.rebasingCreditsPerToken) ELSE t

TouchAgain(t, a) ==
    IF a \in contracts /\ t.rebaseState[a] = "NotSet" /\ t.rebasingCredits >= t.creditBalances[a]
    THEN Frozen(t, a, t.rebasingCreditsPerToken) ELSE t

TouchAtPar(t, a) ==
    IF a \in contracts /\ t.rebaseState[a] = "NotSet" /\ ~IsNonRebasing(t, a)
    THEN Frozen(t, a, FullScale) ELSE t

\* The storage after _isNonRebasingAccount(a): a contract that never chose
\* is migrated to the non-rebasing side at the current rate.
Touch(t, a) ==
    IF a \in contracts /\ t.rebaseState[a] = "NotSet" /\ ~IsNonRebasing(t, a)
    THEN Frozen(t, a, t.rebasingCreditsPerToken) ELSE t

\* A faulty Fits: plain arithmetic in place of SafeMath.
FitsAlways(t) == TRUE

\* No SafeMath operation that led to t under- or overflowed.
Fits(t) == t \in Storage

\* Faulty variants of Moved: the same credits are taken and given although the
\* rates differ; the tally of rebasing credits is moved by the wrong amount.
MovedAtOneRate(t, from, to, v) ==
    LET credits == MulTruncate(v, CreditsPerToken(t, from))
    IN  [t EXCEPT
          !.creditBalances = [[t.creditBalances EXCEPT ![from] = @ - credits]
                                                EXCEPT ![to] = @ + credits]]

MovedWithWrongTally(t, from, to, v) ==
    LET creditsCredited == MulTruncate(v, CreditsPerToken(t, to))
        creditsDeducted == MulTruncate(v, CreditsPerToken(t, from))
        debited == [t.creditBalances EXCEPT ![from] = @ - creditsDeducted]
    IN  [t EXCEPT
          !.creditBalances = [debited EXCEPT ![to] = @ + creditsCredited],
          !.rebasingCredits = @ + (IF IsNonRebasing(t, to) THEN 0 ELSE creditsDeducted)
                                - (IF IsNonRebasing(t, from) THEN 0 ELSE creditsCredited)]

\* The balances and tallies once from and to are known to be migrated.  The
\* tallies move only when the two accounts are of different kinds.
Moved(t, from, to, v) ==
    LET creditsCredited == MulTruncate(v, CreditsPerToken(t, to))
        creditsDeducted == MulTruncate(v, CreditsPerToken(t, from))
        debited == [t.creditBalances EXCEPT ![from] = @ - creditsDeducted]
    IN  [t EXCEPT
          !.creditBalances = [debited EXCEPT ![to] = @ + creditsCredited],
          !.nonRebasingSupply = @ + (IF IsNonRebasing(t, to) THEN v ELSE 0)
                                  - (IF IsNonRebasing(t, from) THEN v ELSE 0),
          !.rebasingCredits = @ + (IF IsNonRebasing(t, to) THEN 0 ELSE creditsCredited)
                                - (IF IsNonRebasing(t, from) THEN 0 ELSE creditsDeducted)]

\* _executeTransfer, with the balance check both of its callers make first.
ExecuteTransfer(from, to, v) ==
    LET t1 == Touch(token, to)
        t2 == Touch(t1, from)
        t3 == Moved(t2, from, to, v)
    IN  /\ v <= BalanceOf(token, from)
        /\ Fits(t1) /\ Fits(t2) /\ Fits(t3)
        /\ token' = t3
-----------------------------------------------------------------------------
(* Transactions.                                                            *)

Transfer(from, to, v) ==
    /\ ExecuteTransfer(from, to, v)
    /\ UNCHANGED <<allowances, contracts>>

\* A faulty transferFrom: the allowance is checked and not used up.
TransferFromUnspent(spender, from, to, v) ==
    /\ v <= allowances[from][spender]
    /\ ExecuteTransfer(from, to, v)
    /\ UNCHANGED <<allowances, contracts>>

TransferFrom(spender, from, to, v) ==
    /\ v <= allowances[from][spender]
    /\ ExecuteTransfer(from, to, v)
    /\ allowances' = [allowances EXCEPT ![from][spender] = @ - v]
    /\ UNCHANGED contracts

SetAllowance(owner, spender, v) ==
    /\ v <= MaxWord
    /\ allowances' = [allowances EXCEPT ![owner][spender] = v]
    /\ UNCHANGED <<token, contracts>>

Approve(owner, spender, v) == SetAllowance(owner, spender, v)

IncreaseAllowance(owner, spender, v) ==
    SetAllowance(owner, spender, allowances[owner][spender] + v)

DecreaseAllowance(owner, spender, v) ==
    SetAllowance(owner, spender,
        IF v >= allowances[owner][spender] THEN 0 ELSE allowances[owner][spender] - v)

\* The storage after a call of mint: one, or none if the call reverts.
Minted(t0, a, v) ==
    LET t == Touch(t0, a)
        creditAmount == MulTruncate(v, CreditsPerToken(t, a))
        minted == [t EXCEPT
            !.creditBalances[a] = @ + creditAmount,
            !.nonRebasingSupply = @ + (IF IsNonRebasing(t, a) THEN v ELSE 0),
            !.rebasingCredits = @ + (IF IsNonRebasing(t, a) THEN 0 ELSE creditAmount),
            !.totalSupply = @ + v]
    IN  {m \in {minted} : Fits(t) /\ Fits(m) /\ m.totalSupply < MaxSupply}

\* Called by the vault only.
Mint(a, v) ==
    /\ token' \in Minted(token, a, v)
    /\ UNCHANGED <<allowances, contracts>>

\* The credits left after a burn: one credit of dust is burned with the rest.
CreditsAfterBurn(currentCredits, creditAmount) ==
    IF currentCredits - creditAmount \in {0, 1} THEN 0 ELSE currentCredits - creditAmount

\* The storage after a call of burn; a burn of nothing changes nothing.
Burned(t0, a, v) ==
    LET t == Touch(t0, a)
        creditAmount == MulTruncate(v, CreditsPerToken(t, a))
        burned == [t EXCEPT
            !.creditBalances[a] = CreditsAfterBurn(@, creditAmount),
            !.nonRebasingSupply = @ - (IF IsNonRebasing(t, a) THEN v ELSE 0),
            !.rebasingCredits = @ - (IF IsNonRebasing(t, a) THEN 0 ELSE creditAmount),
            !.totalSupply = @ - v]
    IN  IF v = 0 THEN {t0} ELSE {x \in {burned} : Fits(t) /\ Fits(x)}

\* Called by the vault only.
Burn(a, v) ==
    /\ token' \in Burned(token, a, v)
    /\ UNCHANGED <<allowances, contracts>>

\* A faulty rebaseOptIn: the credits are not converted to the common rate.
RebaseOptInUnconverted(a) ==
    /\ IsNonRebasing(token, a)
    /\ token' = [token EXCEPT !.nonRebasingSupply = 0,
                             !.rebasingCredits = @ + token.creditBalances[a],
                             !.rebaseState[a] = "OptIn",
                             !.nonRebasingCreditsPerToken[a] = 0]
    /\ UNCHANGED <<allowances, contracts>>

RebaseOptIn(a) ==
    LET t == Touch(token, a)
        newCreditBalance ==
            (t.creditBalances[a] * t.rebasingCreditsPerToken) \div CreditsPerToken(t, a)
        in == [t EXCEPT
            !.creditBalances[a] = newCreditBalance,
            !.nonRebasingSupply = @ - BalanceOf(t, a),
            !.rebasingCredits = @ + newCreditBalance,
            !.rebaseState[a] = "OptIn",
            !.nonRebasingCreditsPerToken[a] = 0]
    IN  /\ IsNonRebasing(t, a)
        /\ Fits(t) /\ Fits(in)
        /\ token' = in
        /\ UNCHANGED <<allowances, contracts>>

RebaseOptOut(a) ==
    LET t == Touch(token, a)
        out == [t EXCEPT
            !.nonRebasingSupply = @ + BalanceOf(t, a),
            !.nonRebasingCreditsPerToken[a] = t.rebasingCreditsPerToken,
            !.rebasingCredits = @ - t.creditBalances[a],
            !.rebaseState[a] = "OptOut"]
    IN  /\ ~IsNonRebasing(t, a)
        /\ Fits(out)
        /\ token' = out
        /\ UNCHANGED <<allowances, contracts>>

\* The new rate, rounded down, and the supply that goes with it.
Repriced(t, newTotalSupply) ==
    LET capped == IF newTotalSupply > MaxSupply THEN MaxSupply ELSE newTotalSupply
        rate == DivPrecisely(t.rebasingCredits, capped - t.nonRebasingSupply)
    IN  [t EXCEPT
          !.rebasingCreditsPerToken = rate,
          !.totalSupply = DivPrecisely(t.rebasingCredits, rate) + t.nonRebasingSupply]

CanReprice(t, newTotalSupply) ==
    LET capped == IF newTotalSupply > MaxSupply THEN MaxSupply ELSE newTotalSupply
    IN  /\ t.totalSupply > 0
        /\ capped > t.nonRebasingSupply
        /\ DivPrecisely(t.rebasingCredits, capped - t.nonRebasingSupply) > 0

\* The storage after a call of changeSupply; the present supply changes nothing.
SupplyChanged(t, newTotalSupply) ==
    CASE newTotalSupply = t.totalSupply -> {x \in {t} : t.totalSupply > 0}
      [] newTotalSupply # t.totalSupply /\ CanReprice(t, newTotalSupply) ->
            {x \in {Repriced(t, newTotalSupply)} : Fits(x)}
      [] OTHER -> {}

\* Called by the vault only.
ChangeSupply(newTotalSupply) ==
    /\ token' \in SupplyChanged(token, newTotalSupply)
    /\ UNCHANGED <<allowances, contracts>>

\* Outside the token: code is created at an address, or destroys itself.
Deploy(a) ==
    /\ a \in Deployable \ contracts
    /\ contracts' = contracts \union {a}
    /\ UNCHANGED <<token, allowances>>

SelfDestruct(a) ==
    /\ a \in contracts
    /\ contracts' = contracts \ {a}
    /\ UNCHANGED <<token, allowances>>

\* The transactions an account can send itself.
By(a) ==
    \/ \E to \in Accounts, v \in Amounts : Transfer(a, to, v)
    \/ \E from, to \in Accounts, v \in Amounts : TransferFrom(a, from, to, v)
    \/ \E s \in Accounts, v \in Approvals :
          Approve(a, s, v) \/ IncreaseAllowance(a, s, v) \/ DecreaseAllowance(a, s, v)
    \/ RebaseOptIn(a)
    \/ RebaseOptOut(a)

\* The vault only ratchets the supply upwards (VaultCore._rebase).
ByVault ==
    \/ \E a \in Accounts, v \in Amounts : Mint(a, v) \/ Burn(a, v)
    \/ \E n \in Supplies : n > token.totalSupply /\ ChangeSupply(n)

Next ==
    \/ \E a \in Accounts : By(a) \/ Deploy(a) \/ SelfDestruct(a)
    \/ ByVault

Spec == Init /\ [][Next]_vars
-----------------------------------------------------------------------------
(* Properties.                                                              *)

\* Every storage word stays within its width, whatever the order of calls.
TypeOK ==
    /\ token \in Storage
    /\ allowances \in [Accounts -> [Accounts -> 0 .. MaxWord]]
    /\ contracts \subseteq Deployable

RebasingPart(t) ==
    [a \in Accounts |-> IF IsNonRebasing(t, a) THEN 0 ELSE t.creditBalances[a]]

RebasingCreditsHeld(t) == Total(RebasingPart(t))

\* The tally rebasingCredits, kept by hand in every function, never falls
\* below the credits the rebasing accounts really hold (burning dust can only
\* leave it above), whatever migrations, opt-ins and opt-outs came between.
\* Were it below, the last rebasing holders could not transfer or burn.
RebasingCreditsBacked == RebasingCreditsHeld(token) <= token.rebasingCredits

\* An account that opted in has no frozen rate, one that opted out has one,
\* and the common rate is never zero, so no balance divides by zero.
RatesMatch(t) ==
    /\ t.rebasingCreditsPerToken > 0
    /\ \A a \in Accounts :
          /\ t.rebaseState[a] = "OptIn" => ~IsNonRebasing(t, a)
          /\ t.rebaseState[a] = "OptOut" => IsNonRebasing(t, a)

RatesMatchOptions == RatesMatch(token)

Gain(a) == BalanceOf(token', a) - BalanceOf(token, a)

\* A transaction of s takes nothing from the balance of another account beyond
\* what it uses up of that account's allowance to s, and a migration it sets off
\* takes nothing at all (senderCannotDecreaseOthersBalance in spec/ousd.spec).
OthersBalancesKept ==
    [][\A o \in Accounts : \A gain \in {Gain(o)}, s \in Accounts \ {o} :
          gain < allowances'[o][s] - allowances[o][s] => ~By(s)]_vars

\* Credits are rounded down at two different rates, yet a transfer never takes
\* more than its value from the sender nor gives more than it to the receiver,
\* and a transfer to oneself changes nothing.
TransferWithinValue ==
    [][\A a \in Accounts : \A gain \in {Gain(a)} :
          /\ gain # 0 => \A v \in Amounts : ~Transfer(a, a, v)
          /\ \A v \in Amounts :
                /\ gain < -v => \A b \in Accounts : ~Transfer(a, b, v)
                /\ gain > v => \A b \in Accounts : ~Transfer(b, a, v)]_vars

\* Choosing a side, being migrated to one, or gaining and losing code never
\* creates OUSD in an account, and takes away at most one credit's worth,
\* rounded up.
ChangingSidesPaysNothing ==
    [][\A a \in Accounts : \A gain \in {Gain(a)} :
          \/ gain > 0
          \/ gain < -(DivPrecisely(1, CreditsPerToken(token', a)) + 1)
          => ~\E b \in Accounts : RebaseOptIn(b) \/ RebaseOptOut(b)]_vars

\* The rates and choices of the accounts evolve as RebasePolicy promises.
Policy == INSTANCE RebasePolicy WITH
              rate <- token.rebasingCreditsPerToken,
              frozen <- token.nonRebasingCreditsPerToken,
              choice <- token.rebaseState

ImplementsPolicy == Policy!Spec

\* spec/ousd.spec:29, totalSupplyIsBelowMaxSupply: the supply never exceeds the cap.
TotalSupplyIsBelowMaxSupply == token.totalSupply <= MaxSupply

\* spec/ousd.spec:54-62, totalSupplyIntegrity: the supply covers what the
\* rebasing credits and the non-rebasing tally are worth.
TotalSupplyIntegrity ==
    token.totalSupply >=
        DivPrecisely(token.rebasingCredits, token.rebasingCreditsPerToken)
            + token.nonRebasingSupply
=============================================================================

----------------------------- MODULE OUSDProofs -----------------------------
(***************************************************************************)
(* The token keeps its words in range, its rates in line with the accounts' *)
(* choices and its tally of rebasing credits above what is held, for any    *)
(* accounts, scale, cap and word width; and it implements RebasePolicy.     *)
(***************************************************************************)
EXTENDS OUSD, ArithmeticProofs

USE FullScaleAssumption, AccountsAssumption, BoundsAssumption

\* Truncated products and quotients of naturals are naturals.
LEMMA DivType ==
    ASSUME NEW n \in Nat, NEW d \in Nat \ {0}
    PROVE  n \div d \in Nat
  OBVIOUS

\* The units for an amount are a natural number.
LEMMA MulTruncateType ==
    ASSUME NEW x \in Nat, NEW y \in Nat
    PROVE  MulTruncate(x, y) \in Nat
<1>1. x * y \in Nat
  OBVIOUS
<1> QED
  BY <1>1, DivType DEF MulTruncate

\* A storage in which the three invariants hold.
Sound(t) ==
    /\ t \in Storage
    /\ RatesMatch(t)
    /\ RebasingCreditsHeld(t) <= t.rebasingCredits

\* What the rebasing accounts hold is a natural number.
LEMMA RebasingPartType ==
    ASSUME NEW t \in Storage
    PROVE  RebasingPart(t) \in [Accounts -> 0 .. MaxWord] /\ RebasingCreditsHeld(t) \in Nat
<1>1. RebasingPart(t) \in [Accounts -> 0 .. MaxWord]
  BY DEF RebasingPart, Storage
<1> QED
  BY <1>1, TotalType DEF RebasingCreditsHeld

\* Migrating a contract takes its credits out of both sides of the tally.
LEMMA TouchSound ==
    ASSUME NEW t, Sound(t), NEW a \in Accounts, Fits(Touch(t, a))
    PROVE  Sound(Touch(t, a))
<1> DEFINE u == Touch(t, a)
<1>0. t \in Storage /\ u \in Storage
  BY DEF Sound, Fits
<1>1. CASE u = t
  BY <1>1
<1>2. CASE u # t
  <2>1. /\ t.rebaseState[a] = "NotSet"
        /\ ~IsNonRebasing(t, a)
        /\ u = [t EXCEPT !.nonRebasingCreditsPerToken[a] = t.rebasingCreditsPerToken,
                         !.nonRebasingSupply = @ + BalanceOf(t, a),
                         !.rebasingCredits = @ - t.creditBalances[a]]
    BY <1>2 DEF Touch, Frozen
  <2>2. RatesMatch(u)
    BY <1>0, <2>1 DEF Sound, RatesMatch, IsNonRebasing, Storage
  <2>3. /\ RebasingPart(t)[a] = t.creditBalances[a]
        /\ RebasingPart(u)[a] = 0
        /\ \A b \in Accounts \ {a} : RebasingPart(u)[b] = RebasingPart(t)[b]
    BY <1>0, <2>1 DEF Sound, RatesMatch, RebasingPart, IsNonRebasing, Storage
  <2>4. RebasingCreditsHeld(u)
          = RebasingCreditsHeld(t) - RebasingPart(t)[a] + RebasingPart(u)[a]
    BY <1>0, <2>3, RebasingPartType, TotalChange DEF RebasingCreditsHeld
  <2>5. t.creditBalances[a] \in Nat /\ u.rebasingCredits = t.rebasingCredits - t.creditBalances[a]
    BY <1>0, <2>1 DEF Storage
  <2>6. RebasingCreditsHeld(t) \in Nat /\ t.rebasingCredits \in Nat
    BY <1>0, RebasingPartType DEF Storage
  <2> QED
    BY <1>0, <2>2, <2>3, <2>4, <2>5, <2>6 DEF Sound
<1> QED
  BY <1>1, <1>2

\* A transfer moves the same credits in the tally as in the balances.
LEMMA MovedSound ==
    ASSUME NEW t, Sound(t), NEW from \in Accounts, NEW to \in Accounts, NEW v \in Nat,
           Fits(Moved(t, from, to, v))
    PROVE  Sound(Moved(t, from, to, v))
<1> DEFINE u == Moved(t, from, to, v)
           in == MulTruncate(v, CreditsPerToken(t, to))
           out == MulTruncate(v, CreditsPerToken(t, from))
<1>0. t \in Storage /\ u \in Storage
  BY DEF Sound, Fits
<1>1. in \in Nat /\ out \in Nat
  <2>1. CreditsPerToken(t, to) \in Nat /\ CreditsPerToken(t, from) \in Nat
    BY <1>0 DEF CreditsPerToken, Storage
  <2> QED
    BY <2>1, MulTruncateType
<1>2. /\ u.nonRebasingCreditsPerToken = t.nonRebasingCreditsPerToken
      /\ u.rebaseState = t.rebaseState
      /\ u.rebasingCreditsPerToken = t.rebasingCreditsPerToken
      /\ u.rebasingCredits = t.rebasingCredits
            + (IF IsNonRebasing(t, to) THEN 0 ELSE in)
            - (IF IsNonRebasing(t, from) THEN 0 ELSE out)
      /\ u.creditBalances = [[t.creditBalances EXCEPT ![from] = @ - out] EXCEPT ![to] = @ + in]
  BY <1>0 DEF Moved, Storage
<1>3. RatesMatch(u)
  BY <1>2 DEF Sound, RatesMatch, IsNonRebasing
<1>4. \A b \in Accounts : IsNonRebasing(u, b) = IsNonRebasing(t, b)
  BY <1>2 DEF IsNonRebasing
<1>5. \A b \in Accounts \ {from, to} : RebasingPart(u)[b] = RebasingPart(t)[b]
  BY <1>0, <1>2, <1>4 DEF RebasingPart, Storage
<1>6. RebasingCreditsHeld(t) \in Nat /\ t.rebasingCredits \in Nat
  BY <1>0, RebasingPartType DEF Storage
<1> SUFFICES Sound(u)
  OBVIOUS
<1> HIDE DEF u, in, out
<1>7. CASE from = to
  <2>1. in = out
    BY <1>7 DEF in, out
  <2>2. RebasingPart(u)[to] = RebasingPart(t)[to]
    BY <1>0, <1>1, <1>2, <1>4, <1>7, <2>1 DEF RebasingPart, Storage
  <2>3. RebasingPart(t) = RebasingPart(u)
    BY <1>5, <1>7, <2>2 DEF RebasingPart
  <2> QED
    BY <1>0, <1>1, <1>2, <1>3, <1>6, <1>7, <2>1, <2>3 DEF Sound, RebasingCreditsHeld
<1>8. CASE from # to
  <2>1. /\ RebasingPart(u)[to]
             = RebasingPart(t)[to] + (IF IsNonRebasing(t, to) THEN 0 ELSE in)
        /\ RebasingPart(u)[from]
             = RebasingPart(t)[from] - (IF IsNonRebasing(t, from) THEN 0 ELSE out)
    BY <1>0, <1>1, <1>2, <1>4, <1>8 DEF RebasingPart, Storage
  <2>2. RebasingCreditsHeld(u)
          = RebasingCreditsHeld(t) - RebasingPart(t)[from] - RebasingPart(t)[to]
              + RebasingPart(u)[from] + RebasingPart(u)[to]
    BY <1>0, <1>5, <1>8, RebasingPartType, TotalChangeTwo DEF RebasingCreditsHeld
  <2>3. RebasingPart(t)[from] \in Nat /\ RebasingPart(t)[to] \in Nat
    BY <1>0, RebasingPartType
  <2> QED
    BY <1>0, <1>1, <1>2, <1>3, <1>6, <2>1, <2>2, <2>3 DEF Sound
<1> QED
  BY <1>7, <1>8

\* Both accounts are migrated, if need be, before the amount moves.
LEMMA TransferSound ==
    ASSUME Sound(token), NEW from \in Accounts, NEW to \in Accounts, NEW v \in Nat,
           ExecuteTransfer(from, to, v)
    PROVE  Sound(token')
<1> DEFINE t1 == Touch(token, to)
           t2 == Touch(t1, from)
<1>1. Fits(t1) /\ Fits(t2) /\ Fits(Moved(t2, from, to, v)) /\ token' = Moved(t2, from, to, v)
  BY DEF ExecuteTransfer
<1>2. Sound(t1)
  BY <1>1, TouchSound
<1> HIDE DEF t1
<1>3. Sound(t2)
  BY <1>1, <1>2, TouchSound
<1> HIDE DEF t2
<1> QED
  BY <1>1, <1>3, MovedSound

\* A storage that differs from a sound one in the credits of one account, with
\* the tally moved by as much, or left above by the burnt dust, is sound.
LEMMA OneAccountSound ==
    ASSUME NEW t, Sound(t), NEW u \in Storage, NEW a \in Accounts,
           RatesMatch(u),
           \A b \in Accounts \ {a} : RebasingPart(u)[b] = RebasingPart(t)[b],
           RebasingPart(u)[a] - RebasingPart(t)[a] <= u.rebasingCredits - t.rebasingCredits
    PROVE  Sound(u)
<1>0. t \in Storage
  BY DEF Sound
<1>1. RebasingCreditsHeld(u) = RebasingCreditsHeld(t) - RebasingPart(t)[a] + RebasingPart(u)[a]
  BY <1>0, RebasingPartType, TotalChange DEF RebasingCreditsHeld
<1>2. /\ RebasingPart(t)[a] \in Nat /\ RebasingPart(u)[a] \in Nat
      /\ RebasingCreditsHeld(t) \in Nat /\ t.rebasingCredits \in Nat /\ u.rebasingCredits \in Nat
  BY <1>0, RebasingPartType DEF Storage
<1> QED
  BY <1>1, <1>2 DEF Sound

\* Minting gives an account and the tally the same credits.
LEMMA MintSound ==
    ASSUME NEW s, Sound(s), NEW a \in Accounts, NEW v \in Nat, NEW u \in Minted(s, a, v)
    PROVE  Sound(u)
<1> DEFINE t == Touch(s, a)
           creditAmount == MulTruncate(v, CreditsPerToken(t, a))
<1>1. /\ Fits(t) /\ Fits(u)
      /\ u = [t EXCEPT
            !.creditBalances[a] = @ + creditAmount,
            !.nonRebasingSupply = @ + (IF IsNonRebasing(t, a) THEN v ELSE 0),
            !.rebasingCredits = @ + (IF IsNonRebasing(t, a) THEN 0 ELSE creditAmount),
            !.totalSupply = @ + v]
  BY DEF Minted
<1>2. Sound(t)
  BY <1>1, TouchSound
<1>3. t \in Storage /\ u \in Storage
  BY <1>1 DEF Fits
<1> HIDE DEF t
<1>4. creditAmount \in Nat
  <2>1. CreditsPerToken(t, a) \in Nat
    BY <1>3 DEF CreditsPerToken, Storage
  <2> QED
    BY <2>1, MulTruncateType
<1> HIDE DEF creditAmount
<1>5. /\ RatesMatch(u)
      /\ \A b \in Accounts : IsNonRebasing(u, b) = IsNonRebasing(t, b)
  BY <1>1, <1>2, <1>3 DEF Sound, RatesMatch, IsNonRebasing, Storage
<1>6. \A b \in Accounts \ {a} : RebasingPart(u)[b] = RebasingPart(t)[b]
  BY <1>1, <1>3, <1>5 DEF RebasingPart, Storage
<1>7. RebasingPart(u)[a] - RebasingPart(t)[a] <= u.rebasingCredits - t.rebasingCredits
  BY <1>1, <1>3, <1>4, <1>5 DEF RebasingPart, Storage
<1> QED
  BY <1>2, <1>3, <1>5, <1>6, <1>7, OneAccountSound

\* A burn takes one credit of dust more from the account than from the tally.
LEMMA BurnSomeSound ==
    ASSUME NEW s, Sound(s), NEW a \in Accounts, NEW v \in Nat \ {0}, NEW u \in Burned(s, a, v)
    PROVE  Sound(u)
<1> DEFINE t == Touch(s, a)
           creditAmount == MulTruncate(v, CreditsPerToken(t, a))
<1>1. /\ Fits(t) /\ Fits(u)
      /\ u = [t EXCEPT
            !.creditBalances[a] = CreditsAfterBurn(@, creditAmount),
            !.nonRebasingSupply = @ - (IF IsNonRebasing(t, a) THEN v ELSE 0),
            !.rebasingCredits = @ - (IF IsNonRebasing(t, a) THEN 0 ELSE creditAmount),
            !.totalSupply = @ - v]
  BY DEF Burned
<1>2. Sound(t)
  BY <1>1, TouchSound
<1>3. t \in Storage /\ u \in Storage
  BY <1>1 DEF Fits
<1> HIDE DEF t
<1>4. creditAmount \in Nat
  <2>1. CreditsPerToken(t, a) \in Nat
    BY <1>3 DEF CreditsPerToken, Storage
  <2> QED
    BY <2>1, MulTruncateType
<1> HIDE DEF creditAmount
<1>5. /\ RatesMatch(u)
      /\ \A b \in Accounts : IsNonRebasing(u, b) = IsNonRebasing(t, b)
  BY <1>1, <1>2, <1>3 DEF Sound, RatesMatch, IsNonRebasing, Storage
<1>6. \A b \in Accounts \ {a} : RebasingPart(u)[b] = RebasingPart(t)[b]
  BY <1>1, <1>3, <1>5 DEF RebasingPart, Storage
<1>7. CreditsAfterBurn(t.creditBalances[a], creditAmount) <= t.creditBalances[a] - creditAmount
  <2>1. t.creditBalances[a] \in Nat
    BY <1>3 DEF Storage
  <2>2. u.creditBalances[a] = CreditsAfterBurn(t.creditBalances[a], creditAmount)
    BY <1>1, <1>3 DEF Storage
  <2>3. u.creditBalances[a] >= 0
    BY <1>3 DEF Storage
  <2> QED
    BY <1>4, <2>1, <2>2, <2>3 DEF CreditsAfterBurn
<1>8. RebasingPart(u)[a] - RebasingPart(t)[a] <= u.rebasingCredits - t.rebasingCredits
  <2>1. /\ u.creditBalances[a] = CreditsAfterBurn(t.creditBalances[a], creditAmount)
        /\ u.rebasingCredits
             = t.rebasingCredits - (IF IsNonRebasing(t, a) THEN 0 ELSE creditAmount)
        /\ t.creditBalances[a] \in Int /\ t.rebasingCredits \in Int
    BY <1>1, <1>3 DEF Storage
  <2>2. CASE IsNonRebasing(t, a)
    BY <1>5, <2>1, <2>2 DEF RebasingPart
  <2>3. CASE ~IsNonRebasing(t, a)
    <3>1. /\ RebasingPart(t)[a] = t.creditBalances[a]
          /\ RebasingPart(u)[a] = u.creditBalances[a]
      BY <1>5, <2>3 DEF RebasingPart
    <3>2. u.creditBalances[a] \in Int
      BY <1>3 DEF Storage
    <3> QED
      BY <1>4, <1>7, <2>1, <2>3, <3>1, <3>2
  <2> QED
    BY <2>2, <2>3
<1> QED
  BY <1>2, <1>3, <1>5, <1>6, <1>8, OneAccountSound

\* Burning nothing changes nothing; burning something is the case above.
LEMMA BurnSound ==
    ASSUME NEW s, Sound(s), NEW a \in Accounts, NEW v \in Nat, NEW u \in Burned(s, a, v)
    PROVE  Sound(u)
<1>1. CASE v = 0
  BY <1>1 DEF Burned
<1>2. CASE v # 0
  BY <1>2, BurnSomeSound
<1> QED
  BY <1>1, <1>2

\* Opting in adds the converted credits to both sides.
LEMMA OptInSound ==
    ASSUME Sound(token), NEW a \in Accounts, RebaseOptIn(a)
    PROVE  Sound(token')
<1> DEFINE t == Touch(token, a)
           credits == (t.creditBalances[a] * t.rebasingCreditsPerToken) \div CreditsPerToken(t, a)
<1>1. /\ IsNonRebasing(t, a)
      /\ Fits(t) /\ Fits(token')
      /\ token' = [t EXCEPT
            !.creditBalances[a] = credits,
            !.nonRebasingSupply = @ - BalanceOf(t, a),
            !.rebasingCredits = @ + credits,
            !.rebaseState[a] = "OptIn",
            !.nonRebasingCreditsPerToken[a] = 0]
  BY DEF RebaseOptIn
<1>2. Sound(t)
  BY <1>1, TouchSound
<1> HIDE DEF t, credits
<1>3. t \in Storage /\ token' \in Storage
  BY <1>1 DEF Fits
<1>4. RatesMatch(token')
  BY <1>1, <1>2, <1>3 DEF Sound, RatesMatch, IsNonRebasing, Storage
<1>5. token'.creditBalances[a] = credits /\ credits \in Int
  <2>1. token'.creditBalances[a] = credits
    BY <1>1, <1>3 DEF Storage
  <2>2. token'.creditBalances[a] \in 0 .. MaxWord
    BY <1>3 DEF Storage
  <2> QED
    BY <2>1, <2>2
<1>6. /\ \A b \in Accounts \ {a} : RebasingPart(token')[b] = RebasingPart(t)[b]
      /\ RebasingPart(t)[a] = 0
      /\ RebasingPart(token')[a] = credits
  BY <1>1, <1>3 DEF RebasingPart, IsNonRebasing, Storage
<1>7. token'.rebasingCredits = t.rebasingCredits + credits /\ t.rebasingCredits \in Int
  BY <1>1, <1>3 DEF Storage
<1> QED
  BY <1>2, <1>3, <1>4, <1>5, <1>6, <1>7, OneAccountSound

\* Opting out takes the account's credits out of both sides.
LEMMA OptOutSound ==
    ASSUME Sound(token), NEW a \in Accounts, RebaseOptOut(a)
    PROVE  Sound(token')
<1>1. Touch(token, a) = token
  BY DEF RebaseOptOut, Touch, Frozen, IsNonRebasing, Sound, RatesMatch, Storage
<1>2. /\ ~IsNonRebasing(token, a)
      /\ Fits(token')
      /\ token' = [token EXCEPT
            !.nonRebasingSupply = @ + BalanceOf(token, a),
            !.nonRebasingCreditsPerToken[a] = token.rebasingCreditsPerToken,
            !.rebasingCredits = @ - token.creditBalances[a],
            !.rebaseState[a] = "OptOut"]
  BY <1>1 DEF RebaseOptOut
<1>3. token \in Storage /\ token' \in Storage
  BY <1>2 DEF Fits, Sound
<1>4. RatesMatch(token')
  BY <1>2, <1>3 DEF Sound, RatesMatch, IsNonRebasing, Storage
<1>5. /\ \A b \in Accounts \ {a} : RebasingPart(token')[b] = RebasingPart(token)[b]
      /\ RebasingPart(token)[a] = token.creditBalances[a]
      /\ RebasingPart(token')[a] = 0
  BY <1>2, <1>3 DEF RebasingPart, IsNonRebasing, Sound, RatesMatch, Storage
<1>6. /\ token'.rebasingCredits = token.rebasingCredits - token.creditBalances[a]
      /\ token.rebasingCredits \in Int /\ token.creditBalances[a] \in Int
  BY <1>2, <1>3 DEF Storage
<1> QED
  BY <1>3, <1>4, <1>5, <1>6, OneAccountSound

\* A change of supply moves the common rate only, and keeps it above zero.
LEMMA SupplyMovedSound ==
    ASSUME NEW s, Sound(s), NEW n \in Nat \ {s.totalSupply}, NEW u \in SupplyChanged(s, n)
    PROVE  Sound(u)
<1>1. /\ Fits(u)
      /\ u = Repriced(s, n)
      /\ u.rebasingCreditsPerToken > 0
  <2>1. s \in Storage
    BY DEF Sound
  <2> QED
    BY <2>1 DEF SupplyChanged, CanReprice, Repriced, Storage
<1>2. s \in Storage /\ u \in Storage
  BY <1>1 DEF Fits, Sound
<1>3. /\ u.nonRebasingCreditsPerToken = s.nonRebasingCreditsPerToken
      /\ u.creditBalances = s.creditBalances
      /\ u.rebasingCredits = s.rebasingCredits
      /\ u.rebaseState = s.rebaseState
  BY <1>1, <1>2 DEF Repriced, Storage
<1>4. RatesMatch(u)
  BY <1>1, <1>3 DEF Sound, RatesMatch, IsNonRebasing
<1>5. RebasingPart(u) = RebasingPart(s)
  BY <1>3 DEF RebasingPart, IsNonRebasing
<1> QED
  BY <1>2, <1>3, <1>4, <1>5 DEF Sound, RebasingCreditsHeld

\* A change of supply to the present one changes nothing.
LEMMA ChangeSupplySound ==
    ASSUME NEW s, Sound(s), NEW n \in Nat, NEW u \in SupplyChanged(s, n)
    PROVE  Sound(u)
<1>1. CASE n = s.totalSupply
  BY <1>1 DEF SupplyChanged
<1>2. CASE n # s.totalSupply
  BY <1>2, SupplyMovedSound
<1> QED
  BY <1>1, <1>2
-----------------------------------------------------------------------------
\* The invariant is inductive: what the storage needs, and typed allowances.
Inv == TypeOK /\ Sound(token)

\* A new token is sound.
LEMMA InitInv == Init => Inv
<1> SUFFICES ASSUME Init PROVE Inv
  OBVIOUS
<1>1. TypeOK
  BY DEF Init, TypeOK, Storage, RebaseOptions
<1>2. RatesMatch(token)
  BY DEF Init, RatesMatch, IsNonRebasing
<1>3. RebasingPart(token) \in [Accounts -> {0}]
  BY DEF Init, RebasingPart, IsNonRebasing
<1>4. RebasingCreditsHeld(token) = 0
  BY <1>3, TotalZero DEF RebasingCreditsHeld
<1>5. token.rebasingCredits = 0
  BY DEF Init
<1> QED
  BY <1>1, <1>2, <1>4, <1>5 DEF Inv, Sound, TypeOK

\* An allowance can only be set to a word.
LEMMA AllowanceTyped ==
    ASSUME TypeOK, NEW o \in Accounts, NEW s \in Accounts, NEW v \in Nat, SetAllowance(o, s, v)
    PROVE  /\ token' = token /\ contracts' = contracts
           /\ allowances' \in [Accounts -> [Accounts -> 0 .. MaxWord]]
  BY DEF SetAllowance, TypeOK

\* Every transaction keeps the token sound and the allowances words.
LEMMA NextInv == Inv /\ [Next]_vars => Inv'
<1> SUFFICES ASSUME Inv, [Next]_vars PROVE Inv'
  OBVIOUS
<1> USE DEF Inv
<1>0. Sound(token) /\ TypeOK
  OBVIOUS
<1>1. ASSUME NEW a \in Accounts, By(a) PROVE Inv'
  <2>1. ASSUME NEW to \in Accounts, NEW v \in Amounts, Transfer(a, to, v) PROVE Inv'
    <3>1. Sound(token')
      BY <2>1, TransferSound DEF Transfer
    <3> QED
      BY <2>1, <3>1 DEF Transfer, TypeOK, Sound
  <2>2. ASSUME NEW from \in Accounts, NEW to \in Accounts, NEW v \in Amounts,
               TransferFrom(a, from, to, v)
        PROVE  Inv'
    <3>1. Sound(token')
      BY <2>2, TransferSound DEF TransferFrom
    <3>2. allowances' \in [Accounts -> [Accounts -> 0 .. MaxWord]]
      <4>1. allowances[from][a] - v \in 0 .. MaxWord
        BY <2>2 DEF TransferFrom, TypeOK
      <4> QED
        BY <2>2, <4>1 DEF TransferFrom, TypeOK
    <3> QED
      BY <2>2, <3>1, <3>2 DEF TransferFrom, TypeOK, Sound
  <2>3. ASSUME NEW s \in Accounts, NEW v \in Approvals,
               Approve(a, s, v) \/ IncreaseAllowance(a, s, v) \/ DecreaseAllowance(a, s, v)
        PROVE  Inv'
    <3>1. allowances[a][s] \in Nat /\ v \in Nat
      BY DEF TypeOK
    <3>2. PICK w \in Nat : SetAllowance(a, s, w)
      <4>1. v \in Nat /\ allowances[a][s] + v \in Nat
        BY <3>1
      <4>2. (IF v >= allowances[a][s] THEN 0 ELSE allowances[a][s] - v) \in Nat
        BY <3>1
      <4> QED
        BY <2>3, <4>1, <4>2 DEF Approve, IncreaseAllowance, DecreaseAllowance
    <3> QED
      BY <3>2, AllowanceTyped DEF TypeOK
  <2>4. CASE RebaseOptIn(a)
    BY <2>4, OptInSound DEF RebaseOptIn, TypeOK, Sound
  <2>5. CASE RebaseOptOut(a)
    BY <2>5, OptOutSound DEF RebaseOptOut, TypeOK, Sound
  <2> QED
    BY <1>1, <2>1, <2>2, <2>3, <2>4, <2>5 DEF By
<1>2. ASSUME NEW a \in Accounts, Deploy(a) \/ SelfDestruct(a) PROVE Inv'
  BY <1>2 DEF Deploy, SelfDestruct, TypeOK
<1>3. CASE ByVault
  <2>1. ASSUME NEW a \in Accounts, NEW v \in Amounts, Mint(a, v) PROVE Inv'
    BY <2>1, MintSound DEF Mint, TypeOK, Sound
  <2>2. ASSUME NEW a \in Accounts, NEW v \in Amounts, Burn(a, v) PROVE Inv'
    BY <2>2, BurnSound DEF Burn, Inv, TypeOK, Sound
  <2>3. ASSUME NEW n \in Supplies, ChangeSupply(n) PROVE Inv'
    BY <2>3, ChangeSupplySound DEF ChangeSupply, Inv, TypeOK, Sound
  <2> QED
    BY <1>3, <2>1, <2>2, <2>3 DEF ByVault
<1>4. CASE UNCHANGED vars
  BY <1>4 DEF vars, TypeOK
<1> QED
  BY <1>1, <1>2, <1>3, <1>4 DEF Next

\* The token is sound at all times.
THEOREM SpecInv == Spec => []Inv
  BY InitInv, NextInv, PTL DEF Spec

\* Every storage word stays within its width and every choice is a choice.
THEOREM TypeCorrect == Spec => []TypeOK
<1>1. Inv => TypeOK
  BY DEF Inv
<1> QED
  BY <1>1, SpecInv, PTL

\* An account's frozen rate is there exactly when its choice says so, and the
\* common rate is never zero.
THEOREM RatesMatchOptionsAlways == Spec => []RatesMatchOptions
<1>1. Inv => RatesMatchOptions
  BY DEF Inv, Sound, RatesMatchOptions
<1> QED
  BY <1>1, SpecInv, PTL

\* The tally of rebasing credits covers the credits of the rebasing accounts,
\* after any sequence of transfers, migrations, opt-ins, burns and rebases.
THEOREM RebasingCreditsAlwaysBacked == Spec => []RebasingCreditsBacked
<1>1. Inv => RebasingCreditsBacked
  BY DEF Inv, Sound, RebasingCreditsBacked
<1> QED
  BY <1>1, SpecInv, PTL
-----------------------------------------------------------------------------
(* OUSD implements RebasePolicy.                                            *)

\* A new token has the initial state of the policy.
LEMMA InitPolicy == Init => Policy!Init
  BY DEF Init, Policy!Init

\* Once the storage has its type, it is only the policy's three parts that tell
\* whether a step of the token is a step of the policy.
SamePolicy(t, u) ==
    /\ u.rebasingCreditsPerToken = t.rebasingCreditsPerToken
    /\ u.nonRebasingCreditsPerToken = t.nonRebasingCreditsPerToken
    /\ u.rebaseState = t.rebaseState

\* u is t but for some accounts that never chose and have been frozen.
Swept(t, u) ==
    \E S \in SUBSET Accounts :
        /\ \A a \in S : t.rebaseState[a] = "NotSet" /\ t.nonRebasingCreditsPerToken[a] = 0
        /\ u.nonRebasingCreditsPerToken =
              [a \in Accounts |-> IF a \in S THEN t.rebasingCreditsPerToken
                                  ELSE t.nonRebasingCreditsPerToken[a]]
        /\ u.rebasingCreditsPerToken = t.rebasingCreditsPerToken
        /\ u.rebaseState = t.rebaseState

\* A migration freezes the account or nothing.
LEMMA TouchSweeps ==
    ASSUME NEW t \in Storage, NEW a \in Accounts
    PROVE  Swept(t, Touch(t, a))
<1> DEFINE u == Touch(t, a)
<1>1. CASE a \in contracts /\ t.rebaseState[a] = "NotSet" /\ ~IsNonRebasing(t, a)
  <2>1. /\ t.nonRebasingCreditsPerToken[a] = 0
        /\ u.nonRebasingCreditsPerToken =
              [b \in Accounts |-> IF b \in {a} THEN t.rebasingCreditsPerToken
                                  ELSE t.nonRebasingCreditsPerToken[b]]
        /\ u.rebasingCreditsPerToken = t.rebasingCreditsPerToken
        /\ u.rebaseState = t.rebaseState
    BY <1>1 DEF Touch, Frozen, IsNonRebasing, Storage
  <2> QED
    BY <1>1, <2>1 DEF Swept
<1>2. CASE u = t
  <2>1. t.nonRebasingCreditsPerToken =
          [b \in Accounts |-> IF b \in {} THEN t.rebasingCreditsPerToken
                              ELSE t.nonRebasingCreditsPerToken[b]]
    BY DEF Storage
  <2>2. \A b \in {} : t.rebaseState[b] = "NotSet" /\ t.nonRebasingCreditsPerToken[b] = 0
    OBVIOUS
  <2> DEFINE S == {}
  <2>3. S \in SUBSET Accounts
    OBVIOUS
  <2> QED
    BY <1>2, <2>1, <2>2, <2>3, Zenon DEF Swept
<1> QED
  BY <1>1, <1>2 DEF Touch

\* Two migrations in a row are one.
LEMMA SweptTwice ==
    ASSUME NEW t \in Storage, NEW u, NEW w, t.rebasingCreditsPerToken > 0, Swept(t, u), Swept(u, w)
    PROVE  Swept(t, w)
<1>1. PICK S \in SUBSET Accounts :
        /\ \A a \in S : t.rebaseState[a] = "NotSet" /\ t.nonRebasingCreditsPerToken[a] = 0
        /\ u.nonRebasingCreditsPerToken =
              [a \in Accounts |-> IF a \in S THEN t.rebasingCreditsPerToken
                                  ELSE t.nonRebasingCreditsPerToken[a]]
        /\ u.rebasingCreditsPerToken = t.rebasingCreditsPerToken
        /\ u.rebaseState = t.rebaseState
  BY DEF Swept
<1>2. PICK T \in SUBSET Accounts :
        /\ \A a \in T : u.rebaseState[a] = "NotSet" /\ u.nonRebasingCreditsPerToken[a] = 0
        /\ w.nonRebasingCreditsPerToken =
              [a \in Accounts |-> IF a \in T THEN u.rebasingCreditsPerToken
                                  ELSE u.nonRebasingCreditsPerToken[a]]
        /\ w.rebasingCreditsPerToken = u.rebasingCreditsPerToken
        /\ w.rebaseState = u.rebaseState
  BY DEF Swept
<1>3. \A a \in T : a \notin S
  BY <1>1, <1>2 DEF Storage
<1>4. \A a \in S \union T : t.rebaseState[a] = "NotSet" /\ t.nonRebasingCreditsPerToken[a] = 0
  BY <1>1, <1>2, <1>3
<1>5. w.nonRebasingCreditsPerToken =
        [a \in Accounts |-> IF a \in S \union T THEN t.rebasingCreditsPerToken
                            ELSE t.nonRebasingCreditsPerToken[a]]
  BY <1>1, <1>2, <1>3
<1> QED
  BY <1>1, <1>2, <1>4, <1>5 DEF Swept

\* A swept storage is a Freeze step of the policy.
LEMMA SweptIsFreeze ==
    ASSUME NEW u, Swept(token, u), SamePolicy(u, token')
    PROVE  Policy!Next
  BY DEF Swept, SamePolicy, Policy!Next, Policy!Freeze

\* A transfer freezes at most its two accounts.
LEMMA TransferPolicy ==
    ASSUME Sound(token), NEW from \in Accounts, NEW to \in Accounts, NEW v \in Nat,
           ExecuteTransfer(from, to, v)
    PROVE  Policy!Next
<1> DEFINE t1 == Touch(token, to)
           t2 == Touch(t1, from)
<1>1. t1 \in Storage /\ t2 \in Storage /\ token' = Moved(t2, from, to, v)
  BY DEF ExecuteTransfer, Fits
<1>2. token \in Storage /\ token.rebasingCreditsPerToken > 0
  BY DEF Sound, RatesMatch
<1>3. Swept(token, t1) /\ Swept(t1, t2)
  BY <1>1, <1>2, TouchSweeps
<1> HIDE DEF t1, t2
<1>4. Swept(token, t2)
  BY <1>2, <1>3, SweptTwice
<1>5. SamePolicy(t2, token')
  BY <1>1 DEF Moved, SamePolicy, Storage
<1> QED
  BY <1>4, <1>5, SweptIsFreeze

\* Minting and burning freeze at most the one account.
LEMMA MintBurnPolicy ==
    ASSUME Sound(token), NEW a \in Accounts, NEW v \in Nat, 
           token' \in Minted(token, a, v) \/ (v # 0 /\ token' \in Burned(token, a, v))
    PROVE  Policy!Next
<1>1. Swept(token, Touch(token, a)) /\ Touch(token, a) \in Storage
  BY TouchSweeps DEF Sound, Minted, Burned, Fits
<1>2. SamePolicy(Touch(token, a), token')
  BY <1>1 DEF Minted, Burned, SamePolicy, Storage
<1> QED
  BY <1>1, <1>2, SweptIsFreeze

\* Opting in is the policy's, also right after a migration.
LEMMA OptInPolicy ==
    ASSUME Sound(token), NEW a \in Accounts, RebaseOptIn(a)
    PROVE  Policy!OptIn(a)
<1> DEFINE t == Touch(token, a)
<1>1. token \in Storage /\ t \in Storage /\ IsNonRebasing(t, a)
  BY DEF RebaseOptIn, Fits, Sound
<1>2. /\ t.rebaseState = token.rebaseState
      /\ t.rebasingCreditsPerToken = token.rebasingCreditsPerToken
      /\ [t.nonRebasingCreditsPerToken EXCEPT ![a] = 0]
            = [token.nonRebasingCreditsPerToken EXCEPT ![a] = 0]
  BY <1>1 DEF Touch, Frozen, Storage
<1>3. token.rebaseState[a] # "OptIn"
  BY <1>1 DEF Touch, Frozen, Sound, RatesMatch, Storage
<1>4. /\ token'.rebasingCreditsPerToken = t.rebasingCreditsPerToken
      /\ token'.nonRebasingCreditsPerToken = [t.nonRebasingCreditsPerToken EXCEPT ![a] = 0]
      /\ token'.rebaseState = [t.rebaseState EXCEPT ![a] = "OptIn"]
  BY <1>1 DEF RebaseOptIn, Storage
<1> QED
  BY <1>2, <1>3, <1>4 DEF Policy!OptIn

\* Opting out is the policy's.
LEMMA OptOutPolicy ==
    ASSUME Sound(token), NEW a \in Accounts, RebaseOptOut(a)
    PROVE  Policy!OptOut(a)
<1>1. Touch(token, a) = token
  BY DEF RebaseOptOut, Touch, Frozen, IsNonRebasing, Sound, RatesMatch, Storage
<1>2. token \in Storage
  BY DEF Sound
<1>3. token.nonRebasingCreditsPerToken[a] = 0
  BY <1>1, <1>2 DEF RebaseOptOut, IsNonRebasing, Storage
<1>4. /\ token'.rebasingCreditsPerToken = token.rebasingCreditsPerToken
      /\ token'.nonRebasingCreditsPerToken
            = [token.nonRebasingCreditsPerToken EXCEPT ![a] = token.rebasingCreditsPerToken]
      /\ token'.rebaseState = [token.rebaseState EXCEPT ![a] = "OptOut"]
  BY <1>1, <1>2 DEF RebaseOptOut, Storage
<1> QED
  BY <1>3, <1>4 DEF Policy!OptOut

\* A change of supply moves the common rate and keeps it positive.
LEMMA ChangeSupplyPolicy ==
    ASSUME Sound(token), NEW n \in Nat \ {token.totalSupply},
           token' \in SupplyChanged(token, n)
    PROVE  Policy!Reprice
<1>1. /\ token \in Storage /\ token' \in Storage
      /\ token' = Repriced(token, n)
      /\ Sound(token')
  BY SupplyMovedSound DEF SupplyChanged, CanReprice, Fits, Sound
<1>2. token'.rebasingCreditsPerToken \in Nat \ {0}
  BY <1>1 DEF Sound, RatesMatch, Storage
<1> QED
  BY <1>1, <1>2 DEF Policy!Reprice, Repriced, Storage

\* Every transaction is a step of the policy or a stutter.
LEMMA NextPolicy == Inv /\ [Next]_vars => [Policy!Next]_(Policy!vars)
<1> SUFFICES ASSUME Inv, [Next]_vars PROVE [Policy!Next]_(Policy!vars)
  OBVIOUS
<1>0. Sound(token)
  BY DEF Inv
<1>1. ASSUME token' = token PROVE UNCHANGED Policy!vars
  BY <1>1 DEF Policy!vars
<1>2. ASSUME NEW a \in Accounts, By(a) PROVE [Policy!Next]_(Policy!vars)
  <2>1. ASSUME NEW from \in Accounts, NEW to \in Accounts, NEW v \in Amounts,
               ExecuteTransfer(from, to, v)
        PROVE  Policy!Next
    BY <1>0, <2>1, TransferPolicy
  <2>2. ASSUME NEW s \in Accounts, NEW v \in Approvals,
               Approve(a, s, v) \/ IncreaseAllowance(a, s, v) \/ DecreaseAllowance(a, s, v)
        PROVE  token' = token
    BY <2>2 DEF Approve, IncreaseAllowance, DecreaseAllowance, SetAllowance
  <2>3. CASE RebaseOptIn(a)
    BY <1>0, <2>3, OptInPolicy DEF Policy!Next
  <2>4. CASE RebaseOptOut(a)
    BY <1>0, <2>4, OptOutPolicy DEF Policy!Next
  <2> QED
    BY <1>1, <1>2, <2>1, <2>2, <2>3, <2>4 DEF By, Transfer, TransferFrom
<1>3. ASSUME NEW a \in Accounts, Deploy(a) \/ SelfDestruct(a) PROVE UNCHANGED Policy!vars
  BY <1>1, <1>3 DEF Deploy, SelfDestruct
<1>4. CASE ByVault
  <2>1. ASSUME NEW a \in Accounts, NEW v \in Amounts, Mint(a, v) \/ Burn(a, v)
        PROVE  [Policy!Next]_(Policy!vars)
    <3>1. CASE v = 0 /\ Burn(a, v)
      BY <1>1, <3>1 DEF Burn, Burned
    <3>2. CASE Mint(a, v) \/ (v # 0 /\ Burn(a, v))
      BY <1>0, <3>2, MintBurnPolicy DEF Mint, Burn
    <3> QED
      BY <2>1, <3>1, <3>2
  <2>2. ASSUME NEW n \in Supplies, ChangeSupply(n)
        PROVE  [Policy!Next]_(Policy!vars)
    <3>1. CASE n = token.totalSupply
      BY <1>1, <2>2, <3>1 DEF ChangeSupply, SupplyChanged
    <3>2. CASE n # token.totalSupply
      BY <1>0, <2>2, <3>2, ChangeSupplyPolicy DEF ChangeSupply, Policy!Next
    <3> QED
      BY <3>1, <3>2
  <2> QED
    BY <1>4, <2>1, <2>2 DEF ByVault
<1>5. CASE UNCHANGED vars
  BY <1>1, <1>5 DEF vars
<1> QED
  BY <1>2, <1>3, <1>4, <1>5 DEF Next

\* The token implements the rebasing policy: a choice is final until its
\* account chooses again, a frozen rate stays frozen, and only accounts that
\* never chose are migrated, at the rate of the moment.
THEOREM TokenImplementsPolicy == Spec => ImplementsPolicy
<1>1. Init => Policy!Init
  BY InitPolicy
<1>2. Inv /\ [Next]_vars => [Policy!Next]_(Policy!vars)
  BY NextPolicy
<1> QED
  BY <1>1, <1>2, SpecInv, PTL DEF Spec, ImplementsPolicy, Policy!Spec
-----------------------------------------------------------------------------
(* What calls do to the balances.                                           *)

\* The balance of no credits is what the general case computes, and rates are
\* never zero.
LEMMA BalanceIsWorth ==
    ASSUME NEW t, Sound(t), NEW a \in Accounts
    PROVE  /\ CreditsPerToken(t, a) \in Nat \ {0}
           /\ t.creditBalances[a] \in Nat
           /\ BalanceOf(t, a) = DivPrecisely(t.creditBalances[a], CreditsPerToken(t, a))
           /\ BalanceOf(t, a) \in Nat
<1>1. CreditsPerToken(t, a) \in Nat \ {0} /\ t.creditBalances[a] \in Nat
  BY DEF Sound, RatesMatch, CreditsPerToken, Storage
<1>2. DivPrecisely(0, CreditsPerToken(t, a)) = 0
  <2>1. 0 * FullScale = 0
    OBVIOUS
  <2>2. 0 \div CreditsPerToken(t, a) = 0
    BY <1>1
  <2> QED
    BY <2>1, <2>2 DEF DivPrecisely
<1>3. DivPrecisely(t.creditBalances[a], CreditsPerToken(t, a)) \in Nat
  BY <1>1, WorthMonotone
<1> QED
  BY <1>1, <1>2, <1>3 DEF BalanceOf

\* Accounts with the credits and the rate they had have the balance they had.
LEMMA SameBalance ==
    ASSUME NEW t, NEW u, NEW a \in Accounts, u.creditBalances[a] = t.creditBalances[a],
           CreditsPerToken(u, a) = CreditsPerToken(t, a)
    PROVE  BalanceOf(u, a) = BalanceOf(t, a)
  BY DEF BalanceOf

\* A migration changes no balance.
LEMMA TouchBalances ==
    ASSUME NEW t, Sound(t), NEW b \in Accounts, NEW a \in Accounts
    PROVE  BalanceOf(Touch(t, b), a) = BalanceOf(t, a)
<1> DEFINE u == Touch(t, b)
<1>1. CASE u = t
  BY <1>1
<1>2. CASE u # t
  <2>1. /\ ~IsNonRebasing(t, b)
        /\ u = [t EXCEPT !.nonRebasingCreditsPerToken[b] = t.rebasingCreditsPerToken,
                         !.nonRebasingSupply = @ + BalanceOf(t, b),
                         !.rebasingCredits = @ - t.creditBalances[b]]
    BY <1>2 DEF Touch, Frozen
  <2>2. /\ u.creditBalances = t.creditBalances
        /\ u.rebasingCreditsPerToken = t.rebasingCreditsPerToken
        /\ u.nonRebasingCreditsPerToken =
              [t.nonRebasingCreditsPerToken EXCEPT ![b] = t.rebasingCreditsPerToken]
    BY <2>1 DEF Sound, Storage
  <2>3. /\ t.rebasingCreditsPerToken # 0
        /\ t.nonRebasingCreditsPerToken \in [Accounts -> Nat]
        /\ t.nonRebasingCreditsPerToken[b] = 0
    BY <2>1 DEF Sound, RatesMatch, IsNonRebasing, Storage
  <2> HIDE DEF u
  <2>4. CreditsPerToken(u, a) = CreditsPerToken(t, a)
    BY <2>2, <2>3 DEF CreditsPerToken
  <2>5. BalanceOf(u, a) = BalanceOf(t, a)
    BY <2>2, <2>4, SameBalance
  <2> QED
    BY <2>5 DEF u
<1> QED
  BY <1>1, <1>2

\* Credits are rounded down at both rates: the sender loses at most the value
\* and the receiver gains at most the value.
LEMMA MovedBalances ==
    ASSUME NEW t, Sound(t), NEW from \in Accounts, NEW to \in Accounts, NEW v \in Nat,
           Fits(Moved(t, from, to, v))
    PROVE  LET u == Moved(t, from, to, v)
           IN  /\ \A o \in Accounts \ {from, to} : BalanceOf(u, o) = BalanceOf(t, o)
               /\ from = to => BalanceOf(u, to) = BalanceOf(t, to)
               /\ from # to =>
                     /\ BalanceOf(t, from) - v <= BalanceOf(u, from)
                     /\ BalanceOf(t, to) <= BalanceOf(u, to)
                     /\ BalanceOf(u, to) <= BalanceOf(t, to) + v
<1> DEFINE u == Moved(t, from, to, v)
           in == MulTruncate(v, CreditsPerToken(t, to))
           out == MulTruncate(v, CreditsPerToken(t, from))
<1>0. t \in Storage /\ u \in Storage /\ Sound(u)
  BY MovedSound DEF Sound, Fits
<1>1. /\ CreditsPerToken(t, to) \in Nat \ {0} /\ CreditsPerToken(t, from) \in Nat \ {0}
      /\ in \in Nat /\ in * FullScale <= v * CreditsPerToken(t, to)
      /\ out \in Nat /\ out * FullScale <= v * CreditsPerToken(t, from)
  BY BalanceIsWorth, MulTruncateBounds
<1>2. /\ u.nonRebasingCreditsPerToken = t.nonRebasingCreditsPerToken
      /\ u.rebasingCreditsPerToken = t.rebasingCreditsPerToken
      /\ u.creditBalances = [[t.creditBalances EXCEPT ![from] = @ - out] EXCEPT ![to] = @ + in]
  BY <1>0 DEF Moved, Storage
<1>3. from = to => in = out
  OBVIOUS
<1> HIDE DEF u, in, out
<1>4. \A o \in Accounts : CreditsPerToken(u, o) = CreditsPerToken(t, o)
  BY <1>2 DEF CreditsPerToken
<1>5. t.creditBalances \in [Accounts -> Nat] /\ u.creditBalances \in [Accounts -> Nat]
  BY <1>0 DEF Storage
<1>6. \A o \in Accounts \ {from, to} : BalanceOf(u, o) = BalanceOf(t, o)
  BY <1>2, <1>4, <1>5, SameBalance
<1>7. CASE from = to
  <2>1. u.creditBalances[to] = t.creditBalances[to]
    BY <1>1, <1>2, <1>3, <1>5, <1>7
  <2>2. BalanceOf(u, to) = BalanceOf(t, to)
    BY <1>4, <2>1, SameBalance
  <2> QED
    BY <1>6, <1>7, <2>2 DEF u
<1>8. CASE from # to
  <2>1. /\ u.creditBalances[from] = t.creditBalances[from] - out
        /\ u.creditBalances[to] = t.creditBalances[to] + in
    BY <1>1, <1>2, <1>5, <1>8
  <2>2. out <= t.creditBalances[from]
    <3>1. t.creditBalances[from] - out \in Nat /\ t.creditBalances[from] \in Nat
      BY <1>5, <2>1
    <3> QED
      BY <1>1, <3>1
  <2>3. BalanceOf(t, from) - v <= BalanceOf(u, from)
    <3> DEFINE x == t.creditBalances[from]
               rate == CreditsPerToken(t, from)
    <3>1. x \in Nat /\ rate \in Nat \ {0} /\ out * FullScale <= v * rate /\ out <= x
      BY <1>1, <1>5, <2>2
    <3>2. BalanceOf(t, from) = DivPrecisely(x, rate)
      BY BalanceIsWorth
    <3>3. BalanceOf(u, from) = DivPrecisely(x - out, rate)
      BY <1>0, <1>4, <2>1, BalanceIsWorth
    <3> HIDE DEF x, rate
    <3>4. DivPrecisely(x, rate) - v <= DivPrecisely(x - out, rate)
      BY <1>1, <3>1, UnitsWorthAmount
    <3> QED
      BY <3>2, <3>3, <3>4
  <2>4. BalanceOf(u, to) <= BalanceOf(t, to) + v
    <3> DEFINE x == t.creditBalances[to]
               rate == CreditsPerToken(t, to)
    <3>1. x \in Nat /\ rate \in Nat \ {0} /\ in * FullScale <= v * rate
      BY <1>1, <1>5
    <3>2. BalanceOf(t, to) = DivPrecisely(x, rate)
      BY BalanceIsWorth
    <3>3. BalanceOf(u, to) = DivPrecisely(x + in, rate)
      BY <1>0, <1>4, <2>1, BalanceIsWorth
    <3> HIDE DEF x, rate
    <3>4. DivPrecisely(x + in, rate) <= DivPrecisely(x, rate) + v
      BY <1>1, <3>1, UnitsWorthAmount
    <3> QED
      BY <3>2, <3>3, <3>4
  <2>5. BalanceOf(t, to) <= BalanceOf(u, to)
    <3>1. t.creditBalances[to] \in Nat /\ t.creditBalances[to] + in \in Nat
          /\ t.creditBalances[to] <= t.creditBalances[to] + in
      BY <1>1, <1>5
    <3> QED
      BY <1>0, <1>1, <1>4, <2>1, <3>1, BalanceIsWorth, WorthMonotone
  <2> QED
    BY <1>6, <1>8, <2>3, <2>4, <2>5 DEF u
<1> QED
  BY <1>7, <1>8

\* What is minted is paid: credits worth the amount, rounded down, and no more.
LEMMA MintBalances ==
    ASSUME NEW s, Sound(s), NEW a \in Accounts, NEW v \in Nat, NEW u \in Minted(s, a, v)
    PROVE  /\ BalanceOf(s, a) \in Nat /\ BalanceOf(u, a) \in Nat
           /\ BalanceOf(u, a) <= BalanceOf(s, a) + v
           /\ BalanceOf(s, a) + v
                 <= BalanceOf(u, a) + DivPrecisely(1, CreditsPerToken(u, a)) + 1
<1> DEFINE t == Touch(s, a)
           rate == CreditsPerToken(t, a)
           units == MulTruncate(v, rate)
           x == t.creditBalances[a]
<1>1. /\ Fits(t) /\ Fits(u)
      /\ u = [t EXCEPT
            !.creditBalances[a] = @ + units,
            !.nonRebasingSupply = @ + (IF IsNonRebasing(t, a) THEN v ELSE 0),
            !.rebasingCredits = @ + (IF IsNonRebasing(t, a) THEN 0 ELSE units),
            !.totalSupply = @ + v]
  BY DEF Minted
<1>2. Sound(t) /\ Sound(u) /\ t \in Storage
  BY <1>1, TouchSound, MintSound DEF Fits
<1>3. BalanceOf(t, a) = BalanceOf(s, a) /\ BalanceOf(s, a) \in Nat /\ BalanceOf(u, a) \in Nat
  BY <1>2, TouchBalances, BalanceIsWorth
<1>4. rate \in Nat \ {0} /\ x \in Nat /\ BalanceOf(t, a) = DivPrecisely(x, rate)
  BY <1>2, BalanceIsWorth
<1> HIDE DEF t, units
<1>5. u.creditBalances[a] = t.creditBalances[a] + units /\ CreditsPerToken(u, a) = rate
  BY <1>1, <1>2 DEF CreditsPerToken, Storage
<1>6. BalanceOf(u, a) = DivPrecisely(x + units, rate)
  BY <1>2, <1>5, BalanceIsWorth
<1> HIDE DEF rate, x
<1>7. /\ DivPrecisely(x + units, rate) <= DivPrecisely(x, rate) + v
      /\ DivPrecisely(x, rate) + v <= DivPrecisely(x + units, rate) + DivPrecisely(1, rate) + 1
  BY <1>4, UnitsMinted DEF units
<1> QED
  BY <1>3, <1>4, <1>5, <1>6, <1>7

\* The common rate is rounded down: the supply that goes with it is not below the
\* one that was asked for, unless the cap is.  No credit moves, and no frozen rate.
LEMMA SupplyReached ==
    ASSUME NEW s, Sound(s), NEW n \in Nat, NEW u \in SupplyChanged(s, n)
    PROVE  /\ n <= u.totalSupply \/ MaxSupply <= u.totalSupply
           /\ u.creditBalances = s.creditBalances
           /\ u.nonRebasingCreditsPerToken = s.nonRebasingCreditsPerToken
<1>0. s \in Storage /\ s.totalSupply \in Nat
  BY DEF Sound, Storage
<1>1. CASE n = s.totalSupply
  BY <1>0, <1>1 DEF SupplyChanged
<1>2. CASE n # s.totalSupply
  <2> DEFINE capped == IF n > MaxSupply THEN MaxSupply ELSE n
             c == s.rebasingCredits
             d == capped - s.nonRebasingSupply
             rate == DivPrecisely(c, d)
  <2>1. /\ capped > s.nonRebasingSupply /\ rate > 0
        /\ u = [s EXCEPT !.rebasingCreditsPerToken = rate,
                         !.totalSupply = DivPrecisely(c, rate) + s.nonRebasingSupply]
    BY <1>0, <1>2 DEF SupplyChanged, CanReprice, Repriced
  <2>2. c \in Nat /\ s.nonRebasingSupply \in Nat /\ capped \in Nat
    BY <1>0, BoundsAssumption DEF Storage
  <2> HIDE DEF rate, c
  <2>3. /\ u.totalSupply = DivPrecisely(c, rate) + s.nonRebasingSupply
        /\ u.creditBalances = s.creditBalances
        /\ u.nonRebasingCreditsPerToken = s.nonRebasingCreditsPerToken
    BY <1>0, <2>1 DEF Storage
  <2> HIDE DEF capped
  <2>4. d \in Nat \ {0}
    BY <2>1, <2>2
  <2>5. DivPrecisely(c, rate) \in Int /\ d <= DivPrecisely(c, rate)
    <3> HIDE DEF d
    <3> QED
      BY <2>1, <2>2, <2>4, RateRoundedDown DEF rate
  <2>6. capped <= u.totalSupply
    BY <2>2, <2>3, <2>5
  <2>7. capped = n \/ capped = MaxSupply
    BY DEF capped
  <2> QED
    BY <2>3, <2>6, <2>7
<1> QED
  BY <1>1, <1>2

\* What a transfer does to every balance.
LEMMA TransferBalances ==
    ASSUME Sound(token), NEW from \in Accounts, NEW to \in Accounts, NEW v \in Nat,
           ExecuteTransfer(from, to, v)
    PROVE  /\ \A o \in Accounts : Gain(o) \in Int
           /\ \A o \in Accounts \ {from, to} : Gain(o) = 0
           /\ from = to => Gain(to) = 0
           /\ from # to => -v <= Gain(from) /\ 0 <= Gain(to) /\ Gain(to) <= v
<1> DEFINE t1 == Touch(token, to)
           t2 == Touch(t1, from)
<1>1. Fits(t1) /\ Fits(t2) /\ Fits(Moved(t2, from, to, v)) /\ token' = Moved(t2, from, to, v)
  BY DEF ExecuteTransfer
<1>2. \A o \in Accounts : BalanceOf(t1, o) = BalanceOf(token, o)
  BY TouchBalances
<1>3. Sound(t1)
  BY <1>1, TouchSound
<1> HIDE DEF t1
<1>4. \A o \in Accounts : BalanceOf(t2, o) = BalanceOf(t1, o)
  BY <1>3, TouchBalances
<1>5. Sound(t2)
  BY <1>1, <1>3, TouchSound
<1> HIDE DEF t2
<1>6. Sound(token')
  BY <1>1, <1>5, MovedSound
<1>7. \A o \in Accounts :
         /\ BalanceOf(token, o) \in Nat /\ BalanceOf(token', o) \in Nat
         /\ BalanceOf(t2, o) = BalanceOf(token, o)
  BY <1>2, <1>4, <1>6, BalanceIsWorth
<1>8. /\ \A o \in Accounts \ {from, to} : BalanceOf(token', o) = BalanceOf(t2, o)
      /\ from = to => BalanceOf(token', to) = BalanceOf(t2, to)
      /\ from # to =>
            /\ BalanceOf(t2, from) - v <= BalanceOf(token', from)
            /\ BalanceOf(t2, to) <= BalanceOf(token', to)
            /\ BalanceOf(token', to) <= BalanceOf(t2, to) + v
  BY <1>1, <1>5, MovedBalances
<1> QED
  BY <1>7, <1>8 DEF Gain

\* Opting in converts the credits of one account, to its loss of at most one
\* credit of the common rate.
LEMMA OptInBalances ==
    ASSUME Sound(token), NEW a \in Accounts, RebaseOptIn(a)
    PROVE  /\ \A o \in Accounts : Gain(o) \in Int
           /\ \A o \in Accounts \ {a} : Gain(o) = 0
           /\ Gain(a) <= 0
           /\ -(DivPrecisely(1, CreditsPerToken(token', a)) + 1) <= Gain(a)
<1> DEFINE t == Touch(token, a)
           x == t.creditBalances[a]
           old == CreditsPerToken(t, a)
           new == t.rebasingCreditsPerToken
           credits == (x * new) \div old
<1>1. /\ Fits(t) /\ Fits(token')
      /\ token' = [t EXCEPT
            !.creditBalances[a] = credits,
            !.nonRebasingSupply = @ - BalanceOf(t, a),
            !.rebasingCredits = @ + credits,
            !.rebaseState[a] = "OptIn",
            !.nonRebasingCreditsPerToken[a] = 0]
  BY DEF RebaseOptIn
<1>2. Sound(t) /\ Sound(token')
  BY <1>1, TouchSound, OptInSound
<1>3. \A o \in Accounts : BalanceOf(t, o) = BalanceOf(token, o)
  BY TouchBalances
<1> HIDE DEF t
<1>4. /\ token'.creditBalances = [t.creditBalances EXCEPT ![a] = credits]
      /\ token'.rebasingCreditsPerToken = new
      /\ token'.nonRebasingCreditsPerToken = [t.nonRebasingCreditsPerToken EXCEPT ![a] = 0]
  BY <1>1, <1>2 DEF Sound, Storage
<1>5. x \in Nat /\ old \in Nat \ {0} /\ new \in Nat \ {0}
  BY <1>2, BalanceIsWorth DEF Sound, RatesMatch, Storage
<1>6. /\ t.creditBalances \in [Accounts -> Nat]
      /\ t.nonRebasingCreditsPerToken \in [Accounts -> Nat]
  BY <1>2 DEF Sound, Storage
<1> HIDE DEF credits
<1>7. CreditsPerToken(token', a) = new /\ token'.creditBalances[a] = credits
  BY <1>4, <1>6 DEF CreditsPerToken
<1>8. ASSUME NEW o \in Accounts \ {a} PROVE BalanceOf(token', o) = BalanceOf(t, o)
  <2>1. CreditsPerToken(token', o) = CreditsPerToken(t, o)
    BY <1>4, <1>6 DEF CreditsPerToken
  <2> QED
    BY <1>4, <1>6, <2>1, SameBalance
<1>9. BalanceOf(t, a) = DivPrecisely(x, old) /\ BalanceOf(token', a) = DivPrecisely(credits, new)
  BY <1>2, <1>7, BalanceIsWorth
<1>10. \A o \in Accounts : BalanceOf(token, o) \in Nat /\ BalanceOf(token', o) \in Nat
  BY <1>2, BalanceIsWorth
<1> HIDE DEF x, old, new
<1>11. /\ DivPrecisely(credits, new) <= DivPrecisely(x, old)
       /\ DivPrecisely(x, old) <= DivPrecisely(credits, new) + DivPrecisely(1, new) + 1
       /\ DivPrecisely(1, new) \in Nat
  <2>1. DivPrecisely(1, new) \in Nat
    BY <1>5, WorthMonotone
  <2> QED
    BY <1>5, <2>1, ConvertedUnits DEF credits
<1> QED
  BY <1>3, <1>7, <1>8, <1>9, <1>10, <1>11 DEF Gain

\* Opting out freezes the rate an account has.
LEMMA OptOutBalances ==
    ASSUME Sound(token), NEW a \in Accounts, RebaseOptOut(a), NEW o \in Accounts
    PROVE  Gain(o) = 0
<1>1. Touch(token, a) = token
  BY DEF RebaseOptOut, Touch, Frozen, IsNonRebasing, Sound, RatesMatch, Storage
<1>2. /\ ~IsNonRebasing(token, a)
      /\ token' = [token EXCEPT
            !.nonRebasingSupply = @ + BalanceOf(token, a),
            !.nonRebasingCreditsPerToken[a] = token.rebasingCreditsPerToken,
            !.rebasingCredits = @ - token.creditBalances[a],
            !.rebaseState[a] = "OptOut"]
  BY <1>1 DEF RebaseOptOut
<1>3. token \in Storage /\ token.rebasingCreditsPerToken # 0
  BY DEF Sound, RatesMatch, Storage
<1>4. /\ token'.creditBalances = token.creditBalances
      /\ token'.rebasingCreditsPerToken = token.rebasingCreditsPerToken
      /\ token'.nonRebasingCreditsPerToken =
            [token.nonRebasingCreditsPerToken EXCEPT ![a] = token.rebasingCreditsPerToken]
  BY <1>2, <1>3 DEF Storage
<1>5. /\ token.nonRebasingCreditsPerToken \in [Accounts -> Nat]
      /\ token.nonRebasingCreditsPerToken[a] = 0
  BY <1>2, <1>3 DEF IsNonRebasing, Storage
<1>6. CreditsPerToken(token', o) = CreditsPerToken(token, o)
  BY <1>3, <1>4, <1>5 DEF CreditsPerToken
<1>7. BalanceOf(token', o) = BalanceOf(token, o)
  BY <1>4, <1>6, SameBalance
<1>8. BalanceOf(token, o) \in Nat
  BY BalanceIsWorth
<1> QED
  BY <1>7, <1>8 DEF Gain

\* At two rates of any size, each rounded down, a transfer never takes more than
\* its value from the sender nor gives more than it to the receiver, and one to
\* oneself changes nothing: nothing is gained by transferring in small amounts,
\* or through accounts at other rates.
THEOREM TransfersStayWithinValue == Spec => TransferWithinValue
<1>1. ASSUME Inv, NEW a \in Accounts, NEW v \in Amounts, Transfer(a, a, v)
      PROVE  Gain(a) = 0
  BY <1>1, TransferBalances DEF Inv, Transfer
<1>2. ASSUME Inv, NEW a \in Accounts, NEW b \in Accounts, NEW v \in Amounts,
             Transfer(a, b, v)
      PROVE  ~(Gain(a) < -v) /\ ~(Gain(b) > v)
  <2>1. v \in Nat /\ Gain(a) \in Int /\ Gain(b) \in Int
    BY <1>2, TransferBalances DEF Inv, Transfer
  <2>2. CASE a = b
    BY <1>1, <1>2, <2>1, <2>2
  <2>3. CASE a # b
    <3>1. -v <= Gain(a) /\ Gain(b) <= v
      BY <1>2, <2>3, TransferBalances DEF Inv, Transfer
    <3> QED
      BY <2>1, <3>1
  <2> QED
    BY <2>2, <2>3
<1>3. Inv => [\A a \in Accounts : \A gain \in {Gain(a)} :
                 /\ gain # 0 => \A v \in Amounts : ~Transfer(a, a, v)
                 /\ \A v \in Amounts :
                       /\ gain < -v => \A b \in Accounts : ~Transfer(a, b, v)
                       /\ gain > v => \A b \in Accounts : ~Transfer(b, a, v)]_vars
  BY <1>1, <1>2
<1> QED
  BY <1>3, SpecInv, PTL DEF TransferWithinValue

\* Opting in or out, by anyone, creates no OUSD in any account and takes at most
\* one credit's worth, rounded up, for any rates.
THEOREM ChangingSidesNeverPays == Spec => ChangingSidesPaysNothing
<1>1. ASSUME Inv, NEW a \in Accounts, NEW b \in Accounts, RebaseOptIn(b) \/ RebaseOptOut(b)
      PROVE  /\ ~(Gain(a) > 0)
             /\ ~(Gain(a) < -(DivPrecisely(1, CreditsPerToken(token', a)) + 1))
  <2> DEFINE one == DivPrecisely(1, CreditsPerToken(token', a))
  <2>1. Sound(token) /\ Sound(token')
    BY <1>1, OptInSound, OptOutSound DEF Inv
  <2>2. one \in Nat
    BY <2>1, BalanceIsWorth, WorthMonotone
  <2>3. Gain(a) \in Int /\ Gain(a) <= 0 /\ -(one + 1) <= Gain(a)
    <3>1. CASE RebaseOptIn(b) /\ a = b
      BY <2>1, <3>1, OptInBalances
    <3>2. CASE RebaseOptIn(b) /\ a # b
      <4>1. Gain(a) = 0
        BY <2>1, <3>2, OptInBalances
      <4> HIDE DEF one
      <4> QED
        BY <2>2, <4>1
    <3>3. CASE RebaseOptOut(b)
      <4>1. Gain(a) = 0
        BY <2>1, <3>3, OptOutBalances
      <4> HIDE DEF one
      <4> QED
        BY <2>2, <4>1
    <3> QED
      BY <1>1, <3>1, <3>2, <3>3
  <2> HIDE DEF one
  <2>4. ~(Gain(a) > 0) /\ ~(Gain(a) < -(one + 1))
    BY <2>2, <2>3
  <2> QED
    BY <2>4 DEF one
<1>2. Inv => [\A a \in Accounts : \A gain \in {Gain(a)} :
                 \/ gain > 0
                 \/ gain < -(DivPrecisely(1, CreditsPerToken(token', a)) + 1)
                 => ~\E b \in Accounts : RebaseOptIn(b) \/ RebaseOptOut(b)]_vars
  BY <1>1
<1> QED
  BY <1>2, SpecInv, PTL DEF ChangingSidesPaysNothing

\* No transaction of another account takes from a balance more than what it uses
\* up of an allowance, whatever contracts it migrates on the way.
THEOREM OthersBalancesAlwaysKept == Spec => OthersBalancesKept
<1>1. ASSUME Inv, NEW o \in Accounts, NEW s \in Accounts \ {o}, By(s)
      PROVE  ~(Gain(o) < allowances'[o][s] - allowances[o][s])
  <2>0. /\ Sound(token)
        /\ allowances \in [Accounts -> [Accounts -> Nat]]
        /\ allowances[o][s] \in Nat /\ BalanceOf(token, o) \in Nat
    BY <1>1, BalanceIsWorth DEF Inv, TypeOK
  <2>1. ASSUME NEW to \in Accounts, NEW v \in Amounts, Transfer(s, to, v)
        PROVE  ~(Gain(o) < allowances'[o][s] - allowances[o][s])
    <3>1. Gain(o) \in Int /\ 0 <= Gain(o) /\ allowances' = allowances
      BY <2>0, <2>1, TransferBalances DEF Transfer
    <3> QED
      BY <2>0, <3>1
  <2>2. ASSUME NEW from \in Accounts, NEW to \in Accounts, NEW v \in Amounts,
               TransferFrom(s, from, to, v)
        PROVE  ~(Gain(o) < allowances'[o][s] - allowances[o][s])
    <3>1. v \in Nat /\ Gain(o) \in Int
      BY <2>0, <2>2, TransferBalances DEF TransferFrom
    <3>2. allowances' = [allowances EXCEPT ![from][s] = @ - v]
      BY <2>2 DEF TransferFrom
    <3>3. CASE o = from
      <4>1. allowances'[o][s] = allowances[o][s] - v
        BY <2>0, <3>2, <3>3
      <4>2. -v <= Gain(o)
        BY <2>0, <2>2, <3>1, <3>3, TransferBalances DEF TransferFrom
      <4> QED
        BY <2>0, <3>1, <4>1, <4>2
    <3>4. CASE o # from
      <4>1. allowances'[o][s] = allowances[o][s]
        BY <2>0, <3>2, <3>4
      <4>2. 0 <= Gain(o)
        BY <2>0, <2>2, <3>1, <3>4, TransferBalances DEF TransferFrom
      <4> QED
        BY <2>0, <3>1, <4>1, <4>2
    <3> QED
      BY <3>3, <3>4
  <2>3. ASSUME NEW p \in Accounts, NEW v \in Approvals,
               Approve(s, p, v) \/ IncreaseAllowance(s, p, v) \/ DecreaseAllowance(s, p, v)
        PROVE  ~(Gain(o) < allowances'[o][s] - allowances[o][s])
    <3>1. PICK w : SetAllowance(s, p, w)
      BY <2>3 DEF Approve, IncreaseAllowance, DecreaseAllowance
    <3>2. token' = token /\ allowances'[o][s] = allowances[o][s]
      BY <2>0, <3>1 DEF SetAllowance
    <3> QED
      BY <2>0, <3>2 DEF Gain
  <2>4. ASSUME RebaseOptIn(s) \/ RebaseOptOut(s)
        PROVE  ~(Gain(o) < allowances'[o][s] - allowances[o][s])
    <3>1. Gain(o) = 0
      BY <2>0, <2>4, OptInBalances, OptOutBalances
    <3>2. allowances' = allowances
      BY <2>4 DEF RebaseOptIn, RebaseOptOut
    <3> QED
      BY <2>0, <3>1, <3>2
  <2> QED
    BY <1>1, <2>1, <2>2, <2>3, <2>4 DEF By
<1>2. Inv => [\A o \in Accounts : \A gain \in {Gain(o)}, s \in Accounts \ {o} :
                 gain < allowances'[o][s] - allowances[o][s] => ~By(s)]_vars
  BY <1>1
<1> QED
  BY <1>2, SpecInv, PTL DEF OthersBalancesKept

\* The supply that goes with the new rate is above the one that was asked for by no
\* more than what one unit of the rate makes of it.
LEMMA SupplyOvershoots ==
    ASSUME NEW s, Sound(s), NEW n \in Nat, NEW u \in SupplyChanged(s, n)
    PROVE  \/ u = s /\ u.totalSupply = n
           \/ /\ u.rebasingCreditsPerToken \in Nat \ {0}
              /\ u.totalSupply <= n + u.totalSupply \div u.rebasingCreditsPerToken
<1>0. s \in Storage /\ s.totalSupply \in Nat
  BY DEF Sound, Storage
<1>1. CASE n = s.totalSupply
  BY <1>0, <1>1 DEF SupplyChanged
<1>2. CASE n # s.totalSupply
  <2> DEFINE capped == IF n > MaxSupply THEN MaxSupply ELSE n
             c == s.rebasingCredits
             fixed == s.nonRebasingSupply
             d == capped - fixed
             rate == DivPrecisely(c, d)
             worth == DivPrecisely(c, rate)
  <2>1. /\ capped > fixed /\ rate > 0
        /\ u = [s EXCEPT !.rebasingCreditsPerToken = rate, !.totalSupply = worth + fixed]
    BY <1>0, <1>2 DEF SupplyChanged, CanReprice, Repriced
  <2>2. c \in Nat /\ fixed \in Nat /\ capped \in Nat /\ capped <= n
    BY <1>0, BoundsAssumption DEF Storage
  <2> HIDE DEF rate, c, worth
  <2>3. u.totalSupply = worth + fixed /\ u.rebasingCreditsPerToken = rate
    BY <1>0, <2>1 DEF Storage
  <2> HIDE DEF capped, fixed
  <2>4. d \in Nat \ {0}
    BY <2>1, <2>2
  <2> HIDE DEF d
  <2>5. rate \in Nat \ {0} /\ worth \in Int /\ worth <= d + d \div rate /\ d <= worth
    BY <2>1, <2>2, <2>4, RateOvershoots, RateRoundedDown DEF rate, worth
  <2>6. d \div rate \in Int /\ (worth + fixed) \div rate \in Int
        /\ d \div rate <= (worth + fixed) \div rate
    <3>1. d \in Int /\ worth + fixed \in Int /\ d <= worth + fixed
      BY <2>2, <2>4, <2>5
    <3> QED
      BY <2>5, <3>1, DivMonotone, DivBounds
  <2>7. d = capped - fixed
    BY DEF d
  <2>8. worth + fixed <= n + (worth + fixed) \div rate
    BY <2>2, <2>4, <2>5, <2>6, <2>7
  <2> QED
    BY <2>3, <2>5, <2>8
<1> QED
  BY <1>1, <1>2

\* A mint adds what is minted to the supply, and the common rate stays.
LEMMA SupplyMinted ==
    ASSUME NEW s, Sound(s), NEW a \in Accounts, NEW v \in Nat, NEW u \in Minted(s, a, v)
    PROVE  /\ u.totalSupply = s.totalSupply + v
           /\ u.rebasingCreditsPerToken = s.rebasingCreditsPerToken
<1>1. s \in Storage
  BY DEF Sound
<1>2. /\ Touch(s, a) \in Storage
      /\ Touch(s, a).totalSupply = s.totalSupply
      /\ Touch(s, a).rebasingCreditsPerToken = s.rebasingCreditsPerToken
  BY <1>1 DEF Minted, Fits, Touch, Frozen, Storage
<1> DEFINE t == Touch(s, a)
           units == MulTruncate(v, CreditsPerToken(t, a))
           part == IF IsNonRebasing(t, a) THEN v ELSE 0
           credits == IF IsNonRebasing(t, a) THEN 0 ELSE units
<1>3. u = [t EXCEPT !.creditBalances[a] = @ + units, !.nonRebasingSupply = @ + part,
                    !.rebasingCredits = @ + credits, !.totalSupply = @ + v]
  BY DEF Minted
<1>4. t \in Storage /\ t.totalSupply = s.totalSupply
      /\ t.rebasingCreditsPerToken = s.rebasingCreditsPerToken
  BY <1>2
<1> HIDE DEF t, units, part, credits
<1> QED
  BY <1>3, <1>4 DEF Storage

\* A burn takes what is burned from the supply, and the common rate stays.
LEMMA SupplyBurned ==
    ASSUME NEW s, Sound(s), NEW a \in Accounts, NEW v \in Nat, NEW u \in Burned(s, a, v)
    PROVE  /\ u.totalSupply = s.totalSupply - v
           /\ u.rebasingCreditsPerToken = s.rebasingCreditsPerToken
<1>1. s \in Storage /\ s.totalSupply \in Nat
  BY DEF Sound, Storage
<1>2. CASE v = 0
  BY <1>1, <1>2 DEF Burned
<1>3. CASE v # 0
  <2> DEFINE t == Touch(s, a)
             units == MulTruncate(v, CreditsPerToken(t, a))
             part == IF IsNonRebasing(t, a) THEN v ELSE 0
             credits == IF IsNonRebasing(t, a) THEN 0 ELSE units
             left == CreditsAfterBurn(t.creditBalances[a], units)
  <2>1. /\ Fits(t)
        /\ u = [t EXCEPT !.creditBalances[a] = CreditsAfterBurn(@, units), !.nonRebasingSupply = @ - part,
                      !.rebasingCredits = @ - credits, !.totalSupply = @ - v]
    BY <1>3 DEF Burned
  <2>2. t \in Storage /\ t.totalSupply = s.totalSupply
        /\ t.rebasingCreditsPerToken = s.rebasingCreditsPerToken
    BY <1>1, <2>1 DEF Fits, Touch, Frozen, Storage
  <2> HIDE DEF t, units, part, credits
  <2> QED
    BY <2>1, <2>2 DEF Storage
<1> QED
  BY <1>2, <1>3

\* No transaction of an account changes the supply.
LEMMA BySupply ==
    ASSUME Inv, NEW a \in Accounts, By(a)
    PROVE  token'.totalSupply = token.totalSupply
<1>1. token \in Storage
  BY DEF Inv, Sound
<1>2. ASSUME NEW b \in Accounts, NEW t, t \in Storage
      PROVE  Touch(t, b).totalSupply = t.totalSupply
  BY <1>2 DEF Touch, Frozen, Storage
<1>3. ASSUME NEW from \in Accounts, NEW to \in Accounts, NEW v, ExecuteTransfer(from, to, v)
      PROVE  token'.totalSupply = token.totalSupply
  <2> DEFINE t1 == Touch(token, to)
             t2 == Touch(t1, from)
  <2>1. t1 \in Storage /\ t2 \in Storage /\ token' = Moved(t2, from, to, v)
    BY <1>3 DEF ExecuteTransfer, Fits
  <2>2. t1.totalSupply = token.totalSupply /\ t2.totalSupply = t1.totalSupply
    BY <1>1, <1>2, <2>1
  <2> HIDE DEF t2, t1
  <2>3. Moved(t2, from, to, v).totalSupply = t2.totalSupply
    BY <2>1 DEF Moved, Storage
  <2> QED
    BY <2>1, <2>2, <2>3
<1>4. ASSUME NEW o, NEW s, NEW v, SetAllowance(o, s, v)
      PROVE  token'.totalSupply = token.totalSupply
  BY <1>4 DEF SetAllowance
<1>5. CASE RebaseOptIn(a)
  <2> DEFINE t == Touch(token, a)
             credits == (t.creditBalances[a] * t.rebasingCreditsPerToken) \div CreditsPerToken(t, a)
             worth == BalanceOf(t, a)
  <2>1. /\ t \in Storage
        /\ token' = [t EXCEPT !.creditBalances[a] = credits, !.nonRebasingSupply = @ - worth,
                              !.rebasingCredits = @ + credits, !.rebaseState[a] = "OptIn",
                              !.nonRebasingCreditsPerToken[a] = 0]
    BY <1>5 DEF RebaseOptIn, Fits
  <2>2. t.totalSupply = token.totalSupply
    BY <1>1, <1>2
  <2> HIDE DEF t, credits, worth
  <2> QED
    BY <2>1, <2>2 DEF Storage
<1>6. CASE RebaseOptOut(a)
  <2> DEFINE t == Touch(token, a)
             worth == BalanceOf(t, a)
  <2>1. /\ t.totalSupply = token.totalSupply
        /\ t = token \/ ~IsNonRebasing(t, a)
    BY <1>1, <1>2, <1>6 DEF RebaseOptOut
  <2> QED
    BY <1>1, <1>6 DEF RebaseOptOut, Touch, Frozen, Storage
<1> QED
  BY <1>3, <1>4, <1>5, <1>6 DEF By, Transfer, TransferFrom, Approve, IncreaseAllowance, DecreaseAllowance
-----------------------------------------------------------------------------
(* An account that burns its balance.                                        *)

\* A migration keeps every account's credits and what one is worth.
LEMMA TouchKeepsRate ==
    ASSUME NEW s, Sound(s), NEW a \in Accounts, NEW b \in Accounts
    PROVE  /\ Touch(s, a).creditBalances = s.creditBalances
           /\ CreditsPerToken(Touch(s, a), b) = CreditsPerToken(s, b)
           /\ CreditsPerToken(s, b) \in Nat \ {0}
<1>1. s \in Storage /\ s.rebasingCreditsPerToken > 0
  BY DEF Sound, RatesMatch
<1> QED
  BY <1>1 DEF Touch, Frozen, IsNonRebasing, CreditsPerToken, Storage

\* Where a credit is worth a unit at least, a burn of the balance burns all credits.
LEMMA BurnAll ==
    ASSUME NEW s, Sound(s), NEW a \in Accounts, BalanceOf(s, a) # 0,
           CreditsPerToken(s, a) <= FullScale, NEW u \in Burned(s, a, BalanceOf(s, a))
    PROVE  u.creditBalances[a] = 0
<1> DEFINE t == Touch(s, a)
           v == BalanceOf(s, a)
           c == s.creditBalances[a]
           r == CreditsPerToken(s, a)
           units == MulTruncate(v, CreditsPerToken(t, a))
           part == IF IsNonRebasing(t, a) THEN v ELSE 0
           credits == IF IsNonRebasing(t, a) THEN 0 ELSE units
<1>1. t.creditBalances = s.creditBalances /\ CreditsPerToken(t, a) = r /\ r \in Nat \ {0}
  BY TouchKeepsRate
<1>2. /\ Fits(t)
      /\ u = [t EXCEPT !.creditBalances[a] = CreditsAfterBurn(@, units), !.nonRebasingSupply = @ - part,
                    !.rebasingCredits = @ - credits, !.totalSupply = @ - v]
  BY DEF Burned
<1>3. c \in Nat /\ v = DivPrecisely(c, r)
  <2>1. s \in Storage
    BY DEF Sound
  <2>2. c \in Nat
    BY <2>1 DEF Storage
  <2> QED
    BY <2>2 DEF BalanceOf
<1>4. c - units \in {0, 1}
  BY <1>1, <1>3, UnitsAtPar
<1>5. t \in Storage
  BY <1>2 DEF Fits
<1> HIDE DEF t, v, r, units, part, credits
<1>6. u.creditBalances[a] = CreditsAfterBurn(c, units)
  BY <1>1, <1>2, <1>5 DEF Storage
<1> QED
  BY <1>4, <1>6 DEF CreditsAfterBurn

\* A mint leaves the credits of the others.
LEMMA MintOthers ==
    ASSUME NEW s, Sound(s), NEW a \in Accounts, NEW v \in Nat, NEW u \in Minted(s, a, v),
           NEW b \in Accounts \ {a}
    PROVE  u.creditBalances[b] = s.creditBalances[b]
<1> DEFINE t == Touch(s, a)
           units == MulTruncate(v, CreditsPerToken(t, a))
           part == IF IsNonRebasing(t, a) THEN v ELSE 0
           credits == IF IsNonRebasing(t, a) THEN 0 ELSE units
<1>1. t \in Storage
  BY DEF Minted, Fits
<1>2. u = [t EXCEPT !.creditBalances[a] = @ + units, !.nonRebasingSupply = @ + part,
                    !.rebasingCredits = @ + credits, !.totalSupply = @ + v]
  BY DEF Minted
<1>3. t.creditBalances = s.creditBalances
  BY TouchKeepsRate
<1> HIDE DEF t, units, part, credits
<1> QED
  BY <1>1, <1>2, <1>3 DEF Storage

\* Of the rebasing credits there are no more than of the supply they share.
AtPar(t) == t.rebasingCredits <= t.totalSupply - t.nonRebasingSupply

\* A mint to an account that need not be migrated leaves it so.
LEMMA MintAtPar ==
    ASSUME NEW s, Sound(s), NEW a \in Accounts, Touch(s, a) = s, NEW v \in Nat,
           NEW u \in Minted(s, a, v)
    PROVE  /\ u.nonRebasingCreditsPerToken = s.nonRebasingCreditsPerToken
           /\ u.rebasingCreditsPerToken = s.rebasingCreditsPerToken
           /\ AtPar(s) /\ s.rebasingCreditsPerToken <= FullScale => AtPar(u)
<1> DEFINE units == MulTruncate(v, CreditsPerToken(s, a))
           part == IF IsNonRebasing(s, a) THEN v ELSE 0
           credits == IF IsNonRebasing(s, a) THEN 0 ELSE units
<1>1. s \in Storage /\ s.rebasingCreditsPerToken > 0
  BY DEF Sound, RatesMatch
<1>2. u = [s EXCEPT !.creditBalances[a] = @ + units, !.nonRebasingSupply = @ + part,
                    !.rebasingCredits = @ + credits, !.totalSupply = @ + v]
  BY DEF Minted
<1>3. part \in Nat /\ (s.rebasingCreditsPerToken <= FullScale => credits \in Nat /\ part + credits <= v)
  <2>1. CASE IsNonRebasing(s, a)
    BY <2>1
  <2>2. CASE ~IsNonRebasing(s, a)
    <3>1. s.rebasingCreditsPerToken \in Nat \ {0} /\ CreditsPerToken(s, a) = s.rebasingCreditsPerToken
      BY <1>1, <2>2 DEF IsNonRebasing, CreditsPerToken, Storage
    <3>2. s.rebasingCreditsPerToken <= FullScale => units \in Nat /\ units <= v
      BY <3>1, UnitsAtPar
    <3> HIDE DEF units
    <3> QED
      BY <2>2, <3>2
  <2> QED
    BY <2>1, <2>2
<1> HIDE DEF units, part, credits
<1>4. /\ u.nonRebasingCreditsPerToken = s.nonRebasingCreditsPerToken
      /\ u.rebasingCreditsPerToken = s.rebasingCreditsPerToken
      /\ u.nonRebasingSupply = s.nonRebasingSupply + part
      /\ u.rebasingCredits = s.rebasingCredits + credits
      /\ u.totalSupply = s.totalSupply + v
  BY <1>1, <1>2 DEF Storage
<1>5. s.nonRebasingSupply \in Nat /\ s.rebasingCredits \in Nat /\ s.totalSupply \in Nat
  BY <1>1 DEF Storage
<1> QED
  BY <1>3, <1>4, <1>5 DEF AtPar

\* So does a larger supply, below the cap: the new rate is at most the scale.
LEMMA RateStaysAtPar ==
    ASSUME NEW s, Sound(s), AtPar(s), s.totalSupply <= MaxSupply,
           NEW n \in Nat, n > s.totalSupply, NEW u \in SupplyChanged(s, n)
    PROVE  u.rebasingCreditsPerToken <= FullScale
<1> DEFINE capped == IF n > MaxSupply THEN MaxSupply ELSE n
           c == s.rebasingCredits
           d == capped - s.nonRebasingSupply
           rate == DivPrecisely(c, d)
<1>1. s \in Storage
  BY DEF Sound
<1>2. s.nonRebasingSupply \in Nat /\ c \in Nat /\ s.totalSupply \in Nat
  BY <1>1 DEF Storage
<1>3. /\ capped > s.nonRebasingSupply
      /\ u = [s EXCEPT !.rebasingCreditsPerToken = rate,
                       !.totalSupply = DivPrecisely(c, rate) + s.nonRebasingSupply]
  BY <1>2 DEF SupplyChanged, CanReprice, Repriced
<1>4. d \in Nat \ {0} /\ c <= d
  BY <1>2, <1>3, BoundsAssumption DEF AtPar
<1> HIDE DEF d, c
<1>5. u.rebasingCreditsPerToken = rate
  BY <1>1, <1>3 DEF Storage
<1> QED
  BY <1>2, <1>4, <1>5, RateAtPar
=============================================================================

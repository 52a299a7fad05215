------------------------------- MODULE Staking -------------------------------
(***************************************************************************)
(* Staking of OGN, SingleAssetStaking.sol, with the air drops whose Merkle  *)
(* trees contracts/utils/stake.js builds: the root goes into the contract   *)
(* by a proposal, the proofs into a file that is published, and an account  *)
(* brings its proof along.                                                  *)
(*                                                                         *)
(* A hash is the tuple of what is hashed, so that it has no collisions.     *)
(***************************************************************************)
EXTENDS StableMath, SequencesExt

CONSTANTS Stakers,
          Stakes,        \* staker -> the amounts it stakes
          Tariffs,       \* durations -> rates, as they are set one after the other
          Lists,         \* lists of air drops: sequences of <<address, amount>>
          DropDuration, DropRate,
          MAX_STAKES,    \* 256 in the contract
          MaxStaked,     \* bound: stakes of all accounts
          MaxTime,       \* bound: the block's time
          MaxFunds       \* bound: what is given to the contract at once and in all

VARIABLES now,
          userStakes,    \* staker -> its stakes
          totalOutstanding,
          paused,
          tariff,        \* the number of the one in force
          dropRoot,      \* the root for stakes of type 1
          published,     \* what airDrop.js printed and filed last, if anything
          ogn            \* the contract's balance

stakingVars == <<now, userStakes, totalOutstanding, paused, tariff, dropRoot, published, ogn>>
-----------------------------------------------------------------------------
(* The trees.                                                               *)

hash(index, address, amount) == <<index, address, DropDuration, DropRate, amount>>

\* Indices are counted from 0.
getLeaves(list) == [i \in DOMAIN list |-> hash(i - 1, list[i][1], list[i][2])]

\* One level up; the last leaf of an odd number is paired with itself.
reduceMerkleBranches(leaves) ==
    LET paired == IF Len(leaves) % 2 = 1 THEN Append(leaves, Last(leaves)) ELSE leaves
    IN  [i \in 1 .. Len(paired) \div 2 |-> <<paired[2 * i - 1], paired[2 * i]>>]

\* The leaves, and each level the one below it reduced.
levels(list) ==
    LET level[d \in 0 .. Len(list)] ==
            IF d = 0 THEN getLeaves(list) ELSE reduceMerkleBranches(level[d - 1])
    IN  level

\* How often the leaves are reduced until one is left.
depth(tree) == Min({d \in DOMAIN tree : Len(tree[d]) <= 1})

computeRootHash(list) ==
    LET tree == levels(list)
        top == depth(tree)
    IN  [hash |-> tree[top][1], depth |-> top]

\* Where the path from a leaf goes through a level.
PathAt(index, d) == index \div 2 ^ d

Sibling(path, leaves) ==
    leaves[1 + IF path % 2 = 1 THEN path - 1
               ELSE IF path + 1 < Len(leaves) THEN path + 1 ELSE path]

computeMerkleProof(list, index) ==
    LET tree == levels(list)
    IN  [d \in 1 .. depth(tree) |-> Sibling(PathAt(index, d - 1), tree[d - 1])]

\* airDrop.js files a voucher under each address, the last one if there are more.
airDropPayouts(list) ==
    {[index |-> i - 1, amount |-> list[i][2], proof |-> computeMerkleProof(list, i - 1),
      address |-> list[i][1]] :
        i \in {j \in DOMAIN list : \A k \in DOMAIN list : k > j => list[k][1] # list[j][1]}}

\* The contract, and airDropVerification.js, climb from the voucher to the root.
NodesAbove(leaf, index, proof) ==
    LET node[d \in 0 .. Len(proof)] ==
            IF d = 0 THEN leaf
            ELSE IF PathAt(index, d - 1) % 2 = 1 THEN <<proof[d], node[d - 1]>>
            ELSE <<node[d - 1], proof[d]>>
    IN  node

verifyMerkleSignature(root, account, voucher) ==
    /\ Len(voucher.proof) = root.depth
    /\ voucher.index < 2 ^ Len(voucher.proof)
    /\ root.hash = NodesAbove(hash(voucher.index, account, voucher.amount), voucher.index,
                              voucher.proof)[Len(voucher.proof)]
-----------------------------------------------------------------------------
(* The contract.                                                            *)

Init ==
    /\ now = 0
    /\ userStakes = [a \in Stakers |-> <<>>]
    /\ totalOutstanding = 0
    /\ paused = FALSE
    /\ tariff = 1
    /\ dropRoot = [hash |-> <<>>, depth |-> 0]
    /\ published = {}
    /\ ogn = 0

rates == Tariffs[tariff]

Reward(s) == MulTruncate(s.amount, s.rate)

totalExpected(s) == s.amount + Reward(s)

\* Faulty: the new stake is put at the end.
StakedLast(stakes, new) == Append(stakes, new)

\* A stake goes in front of those that end later.  The entry it is written into
\* held another stake, whose field paid stays.
Inserted(stakes, new) ==
    LET later == {i \in DOMAIN stakes : stakes[i].end > new.end}
        place == IF later = {} THEN Len(stakes) + 1 ELSE Min(later)
    IN  InsertAt(stakes, place,
                 [new EXCEPT !.paid = place <= Len(stakes) /\ stakes[place].paid])

\* What _stake writes; sent tells the stakes that came through the token.
stakeFor(a, stakeType, duration, rate, amount, sent) ==
    LET new == [amount |-> amount, end |-> now + duration, rate |-> rate, paid |-> FALSE,
                stakeType |-> stakeType, sent |-> sent]
    IN  /\ ~paused /\ Len(userStakes[a]) < MAX_STAKES
        /\ SumFunction([b \in Stakers |-> Len(userStakes[b])]) < MaxStaked
        /\ userStakes' = [userStakes EXCEPT ![a] = Inserted(@, new)]
        /\ totalOutstanding' = totalOutstanding + totalExpected(new)
        /\ UNCHANGED <<now, paused, tariff, dropRoot, published>>

requireLiquidity == ogn' >= totalOutstanding'

stakeWithChecks(a, amount, duration, sent) ==
    /\ rates[duration] > 0
    /\ stakeFor(a, 0, duration, rates[duration], amount, sent)
    /\ ogn' = ogn + amount

stake(a, amount, duration) ==
    stakeWithChecks(a, amount, duration, FALSE) /\ requireLiquidity

\* Called by the token, in approveAndCallWithSender.
stakeWithSender(a, amount, duration) == stakeWithChecks(a, amount, duration, TRUE)

airDroppedStakeClaimed(a) ==
    \E i \in DOMAIN userStakes[a] : userStakes[a][i].stakeType = 1

\* Nothing is paid in for an air drop.
airDroppedStake(a, voucher) ==
    /\ verifyMerkleSignature(dropRoot, a, voucher)
    /\ ~airDroppedStakeClaimed(a)
    /\ stakeFor(a, 1, DropDuration, DropRate, voucher.amount, FALSE)
    /\ UNCHANGED ogn
    /\ requireLiquidity

Ended(s) == s.end < now

\* exit looks from the last stake to the first, up to one that ended and is paid.
Payable(a) ==
    {i \in DOMAIN userStakes[a] :
        /\ Ended(userStakes[a][i])
        /\ \A j \in i .. Len(userStakes[a]) :
              ~(Ended(userStakes[a][j]) /\ userStakes[a][j].paid)}

\* The stakes at these places are paid.
Marked(stakes, paid) ==
    [i \in DOMAIN stakes |-> [stakes[i] EXCEPT !.paid = @ \/ i \in paid]]

\* Faulty: the rewards stay in the total.
ExitLeavesRewards(a) ==
    LET totalWithdraw == SumFunction([i \in Payable(a) |-> totalExpected(userStakes[a][i])])
        stakedAmount == SumFunction([i \in Payable(a) |-> userStakes[a][i].amount])
    IN  /\ totalWithdraw > 0 /\ totalWithdraw <= ogn
        /\ userStakes' = [userStakes EXCEPT ![a] = Marked(@, Payable(a))]
        /\ totalOutstanding' = totalOutstanding - stakedAmount
        /\ ogn' = ogn - totalWithdraw
        /\ requireLiquidity
        /\ UNCHANGED <<now, paused, tariff, dropRoot, published>>

exit(a) ==
    LET totalWithdraw == SumFunction([i \in Payable(a) |-> totalExpected(userStakes[a][i])])
    IN  /\ totalWithdraw > 0 /\ totalWithdraw <= ogn
        /\ userStakes' = [userStakes EXCEPT ![a] = Marked(@, Payable(a))]
        /\ totalOutstanding' = totalOutstanding - totalWithdraw
        /\ ogn' = ogn - totalWithdraw
        /\ requireLiquidity
        /\ UNCHANGED <<now, paused, tariff, dropRoot, published>>

setPaused ==
    /\ paused' = ~paused
    /\ UNCHANGED <<now, userStakes, totalOutstanding, tariff, dropRoot, published, ogn>>

setDurationRates ==
    /\ tariff < Len(Tariffs)
    /\ tariff' = tariff + 1
    /\ UNCHANGED <<now, userStakes, totalOutstanding, paused, dropRoot, published, ogn>>

\* The governor sets the root of a list, as the script printed it.
setAirDropRoot(list) ==
    /\ dropRoot' = computeRootHash(list)
    /\ dropRoot' # dropRoot
    /\ UNCHANGED <<now, userStakes, totalOutstanding, paused, tariff, published, ogn>>

\* airDrop.js prints the root of a list and writes its file, over the former.
airDrop(list) ==
    /\ \A drop \in published : drop.list # list
    /\ published' = {[list |-> list, root |-> computeRootHash(list),
                      vouchers |-> airDropPayouts(list)]}
    /\ UNCHANGED <<now, userStakes, totalOutstanding, paused, tariff, dropRoot, ogn>>

\* Somebody gives the contract tokens.
Supply ==
    /\ ogn < MaxFunds
    /\ ogn' = MaxFunds
    /\ UNCHANGED <<now, userStakes, totalOutstanding, paused, tariff, dropRoot, published>>

Tick ==
    /\ now < MaxTime
    /\ now' = now + 1
    /\ UNCHANGED <<userStakes, totalOutstanding, paused, tariff, dropRoot, published, ogn>>

Vouchers == UNION {drop.vouchers : drop \in published}

Next ==
    \/ \E a \in Stakers : \E amount \in Stakes[a], duration \in DOMAIN rates :
          stake(a, amount, duration) \/ stakeWithSender(a, amount, duration)
    \/ \E a \in Stakers, voucher \in Vouchers : airDroppedStake(a, voucher)
    \/ \E a \in Stakers : exit(a)
    \/ setPaused
    \/ setDurationRates
    \/ \E list \in Lists : setAirDropRoot(list) \/ airDrop(list)
    \/ Supply \/ Tick

Spec == Init /\ [][Next]_stakingVars
-----------------------------------------------------------------------------
Stake == [amount : Nat, end : Nat, rate : Nat, paid : BOOLEAN, stakeType : {0, 1},
          sent : BOOLEAN]

\* The variables have their types.
TypeOK ==
    /\ now \in 0 .. MaxTime
    /\ userStakes \in [Stakers -> Seq(Stake)]
    /\ totalOutstanding \in Nat /\ ogn \in Nat
    /\ paused \in BOOLEAN /\ tariff \in DOMAIN Tariffs
    /\ dropRoot.depth \in Nat
    /\ {drop.list : drop \in published} \subseteq Lists

Unpaid(a) == {i \in DOMAIN userStakes[a] : ~userStakes[a][i].paid}

Promised(a) == SumFunction([i \in Unpaid(a) |-> totalExpected(userStakes[a][i])])

\* Rewards of stakes that came through the token.
Unchecked(a) ==
    SumFunction([i \in Unpaid(a) |->
        IF userStakes[a][i].sent THEN Reward(userStakes[a][i]) ELSE 0])

\* Whatever is inserted among stakes already paid, and however the rates change,
\* the contract's total is what it promised for the stakes not paid.
OutstandingIsOwed == totalOutstanding = SumFunction([a \in Stakers |-> Promised(a)])

\* An exit that stops at the first stake paid before forgets none: afterwards no
\* stake of the account that ended is unpaid.
ExitForgetsNothing ==
    [][\A a \in Stakers :
          (\E i \in DOMAIN userStakes[a] : userStakes'[a][i].paid /\ ~userStakes[a][i].paid)
          => \A i \in DOMAIN userStakes'[a] :
                Ended(userStakes'[a][i]) => userStakes'[a][i].paid]_stakingVars

\* Only rewards of stakes that came through the token can be uncovered.
ShortfallIsSent == totalOutstanding - ogn <= SumFunction([a \in Stakers |-> Unchecked(a)])

\* An account has one air drop at most, of what a list granted to it.
DropsAreGranted ==
    \A a \in Stakers :
        LET drops == {i \in DOMAIN userStakes[a] : userStakes[a][i].stakeType = 1}
        IN  /\ Cardinality(drops) <= 1
            /\ \A i \in drops : \E list \in Lists :
                  <<a, userStakes[a][i].amount>> \in Range(list)

\* Every voucher in the file of the list whose root the contract has is accepted
\* from the account it is for.
VouchersAccepted ==
    \A drop \in published :
        dropRoot = drop.root =>
            \A voucher \in drop.vouchers :
                verifyMerkleSignature(dropRoot, voucher.address, voucher)
=============================================================================

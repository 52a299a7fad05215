------------------------------ MODULE Liquidity ------------------------------
(***************************************************************************)
(* Liquidity mining: contracts/liquidity/LiquidityReward.sol, with the two  *)
(* scripts that operate it on a fork, startLiquidity.js and                 *)
(* depositWithdrawLiquidity.js.                                             *)
(*                                                                         *)
(* Rewards accrue per block to whoever provides pair tokens, in proportion; *)
(* the contract keeps one accumulator of rewards per share and a debt per   *)
(* user.  Pair tokens, OUSD and the reward token are outside contracts: a   *)
(* transfer of what the sender lacks reverts, and anyone may send tokens to *)
(* the pool.                                                                *)
(***************************************************************************)
EXTENDS StableMath, FiniteSets, Functions

CONSTANTS Users,
          tester,        \* the user whose key depositWithdrawLiquidity.js has
          Unit,          \* a common multiple of the supplies, for the history
          Tokens,        \* bound: the pair tokens of each user
          Campaigns,     \* bound: rates and lengths of campaigns
          MaxBlock,      \* bound: blocks
          MaxChanges,    \* bound: deposits, withdrawals, claims and gifts
          MaxCampaigns,  \* bound: campaigns started or stopped
          Fund           \* the reward startLiquidity.js sends

\* The script may add one pair token to those there are at first.
Supply == SumFunction(Tokens) + 1

VARIABLES block,
          pool,          \* PoolInfo, with the contract's balance of pair tokens
          rewardPerBlock, endBlock,
          userInfo, totalRewardDebt,
          reward,        \* the contract's balance of the reward token
          wallet,        \* the users' pair tokens
          starting,      \* startLiquidity.js
          testing,       \* depositWithdrawLiquidity.js
          changes, campaigns,
          startBlock, entitled, paid,    \* history: see Tick
          deposits, withdrawals, updates, \* history: roundings
          stoppedLate    \* history: a campaign was stopped after its end

users == <<userInfo, totalRewardDebt, wallet, paid, deposits, withdrawals>>
campaign == <<rewardPerBlock, endBlock, startBlock, campaigns, stoppedLate>>
scripts == <<starting, testing>>
liquidityVars == <<block, pool, reward, entitled, updates, changes, users, campaign, scripts>>

Init ==
    /\ block = 1
    /\ pool = [balance |-> 0, lastRewardBlock |-> 1, accRewardPerShare |-> 0]
    /\ rewardPerBlock = 0 /\ endBlock = 0
    /\ userInfo = [u \in Users |-> [amount |-> 0, rewardDebt |-> 0]]
    /\ totalRewardDebt = 0
    /\ reward \in {0, Fund}
    /\ wallet = Tokens
    /\ starting \in {"transfer", "idle"}
    /\ testing \in {"mint", "idle"}
    /\ testing = "idle" \/ starting = "idle"
    /\ changes = 0 /\ campaigns = 0
    /\ startBlock = 0
    /\ entitled = [u \in Users |-> 0] /\ paid = [u \in Users |-> 0]
    /\ deposits = [u \in Users |-> 0] /\ withdrawals = [u \in Users |-> 0]
    /\ updates = 0 /\ stoppedLate = FALSE
-----------------------------------------------------------------------------
(* The accumulator.                                                         *)

getCampaignMultiplier ==
    IF pool.lastRewardBlock > endBlock THEN 0
    ELSE (IF block < endBlock THEN block ELSE endBlock) - pool.lastRewardBlock

Accrued == DivPrecisely(getCampaignMultiplier * rewardPerBlock, pool.balance)

updatePool ==
    IF block <= pool.lastRewardBlock \/ endBlock <= pool.lastRewardBlock THEN pool
    ELSE [pool EXCEPT !.lastRewardBlock = block,
             !.accRewardPerShare = IF pool.balance = 0 THEN @ ELSE @ + Accrued]

\* What _pendingRewards subtracts; it reverts when the result is negative.
Pending(u) ==
    MulTruncate(userInfo[u].amount,
                pool.accRewardPerShare
                   + IF block > pool.lastRewardBlock /\ pool.balance # 0
                     THEN Accrued ELSE 0)
        - userInfo[u].rewardDebt

Owed(u, p) == MulTruncate(userInfo[u].amount, p.accRewardPerShare) - userInfo[u].rewardDebt

\* History: how often the accumulator was rounded.
Counted == updates' = IF updatePool = pool THEN updates ELSE updates + 1

\* The pool after updatePool and a change of the contract's pair tokens.
Update(change) ==
    /\ pool' = [updatePool EXCEPT !.balance = @ + change]
    /\ Counted

Indebt(u, change, debt) ==
    /\ userInfo' = [userInfo EXCEPT ![u] = [amount |-> @.amount + change,
                                            rewardDebt |-> @.rewardDebt + debt]]
    /\ totalRewardDebt' = totalRewardDebt + debt

Pay(u, amount) == reward' = reward - amount /\ paid' = [paid EXCEPT ![u] = @ + amount]

\* A block is mined.  History: each user is entitled to their share of a block
\* of the campaign, at the rate of that campaign.
Tick ==
    /\ block < MaxBlock
    /\ block' = block + 1
    /\ entitled' =
          IF startBlock <= block /\ block < endBlock /\ pool.balance > 0
          THEN [u \in Users |-> entitled[u]
                   + (rewardPerBlock * userInfo[u].amount * Unit) \div pool.balance]
          ELSE entitled
-----------------------------------------------------------------------------
(* The users.                                                               *)

deposit(u, amount) ==
    LET newDebt == MulTruncate(amount, updatePool.accRewardPerShare) IN
    /\ amount <= wallet[u]
    /\ Update(amount)
    /\ Indebt(u, amount, newDebt)
    /\ wallet' = [wallet EXCEPT ![u] = @ - amount]
    /\ deposits' = [deposits EXCEPT ![u] = @ + 1]
    /\ UNCHANGED <<reward, paid, withdrawals>>

\* withdraw and, with everything and a claim, exit.
withdraw(u, amount, claims) ==
    LET pending == IF claims THEN Owed(u, updatePool) ELSE 0 IN
    /\ amount <= userInfo[u].amount
    /\ 0 <= pending /\ pending <= reward
    /\ Update(-amount)
    /\ Indebt(u, -amount,
              pending - MulTruncate(amount, updatePool.accRewardPerShare))
    /\ Pay(u, pending)
    /\ wallet' = [wallet EXCEPT ![u] = @ + amount]
    /\ withdrawals' = [withdrawals EXCEPT ![u] = @ + 1]
    /\ UNCHANGED deposits

\* claim leaves the pool as it is: its blocks are counted again at the next update.
claim(u) ==
    /\ 0 <= Pending(u) /\ Pending(u) <= reward
    /\ Indebt(u, 0, Pending(u))
    /\ Pay(u, Pending(u))
    /\ UNCHANGED <<pool, updates, wallet, deposits, withdrawals>>

Change(u) ==
    /\ changes < MaxChanges
    /\ u = tester => testing = "idle"
    /\ changes' = changes + 1
    /\ \/ \E amount \in 1..wallet[u] : deposit(u, amount)
       \/ \E amount \in 0..userInfo[u].amount, claims \in BOOLEAN :
             withdraw(u, amount, claims)
       \/ claim(u)
    /\ UNCHANGED <<block, entitled, campaign, scripts>>

\* Pair tokens are sent to the contract without a deposit.
Gift(u) ==
    /\ changes < MaxChanges /\ wallet[u] > 0
    /\ changes' = changes + 1
    /\ wallet' = [wallet EXCEPT ![u] = @ - 1]
    /\ pool' = [pool EXCEPT !.balance = @ + 1]
    /\ UNCHANGED <<block, reward, entitled, updates, userInfo, totalRewardDebt, paid,
                   deposits, withdrawals, campaign, scripts>>

doUpdatePool ==
    /\ changes < MaxChanges
    /\ changes' = changes + 1
    /\ Update(0)
    /\ UNCHANGED <<block, reward, entitled, users, campaign, scripts>>
-----------------------------------------------------------------------------
(* The governor.                                                            *)

\* What startCampaign counts as owed; the subtraction reverts below zero.
totalPending ==
    MulTruncate(updatePool.accRewardPerShare, pool.balance) - totalRewardDebt

Startable(rate, start, numBlocks) ==
    /\ 0 <= totalPending
    /\ reward >= rate * numBlocks + totalPending
    /\ start >= block

\* Faulty: the blocks until now are not accrued at the old rate.
startCampaignAnew(rate, from, numBlocks) ==
    LET start == IF from = 0 THEN block ELSE from IN
    /\ Startable(rate, start, numBlocks)
    /\ pool' = [pool EXCEPT !.lastRewardBlock = start]
    /\ Counted
    /\ endBlock' = start + numBlocks
    /\ rewardPerBlock' = rate
    /\ startBlock' = start

\* `from` is zero for a campaign that starts now.
startCampaign(rate, from, numBlocks) ==
    LET start == IF from = 0 THEN block ELSE from IN
    /\ Startable(rate, start, numBlocks)
    /\ pool' = [updatePool EXCEPT !.lastRewardBlock = start]
    /\ Counted
    /\ endBlock' = start + numBlocks
    /\ rewardPerBlock' = rate
    /\ startBlock' = start

\* After the end of a campaign this moves endBlock past lastRewardBlock, and the
\* blocks between them are rewarded.
stopCampaign ==
    /\ Update(0)
    /\ endBlock' = block
    /\ stoppedLate' = (stoppedLate \/ block > endBlock)
    /\ UNCHANGED <<rewardPerBlock, startBlock>>

Govern ==
    /\ campaigns < MaxCampaigns
    /\ campaigns' = campaigns + 1
    /\ \/ /\ \E c \in Campaigns, from \in {0, block + 1} :
                startCampaign(c.rate, from, c.blocks)
          /\ UNCHANGED stoppedLate
       \/ stopCampaign
    /\ UNCHANGED <<block, reward, entitled, changes, users, scripts>>

\* startLiquidity.js does not wait for the transfer of the reward, which may be
\* mined only after the campaign has started, or has failed to.
TransferMined ==
    /\ starting \in {"transfer", "waiting"}
    /\ starting' = IF starting = "transfer" THEN "funded" ELSE "done"
    /\ reward' = reward + Fund
    /\ UNCHANGED <<block, pool, entitled, updates, changes, users, campaign, testing>>

StartScript ==
    /\ starting \in {"transfer", "funded"}
    /\ starting' = IF starting = "transfer" THEN "waiting" ELSE "done"
    /\ \E c \in Campaigns :
          \/ startCampaign(c.rate, 0, c.blocks)
          \/ /\ ~Startable(c.rate, block, c.blocks)
             /\ UNCHANGED <<pool, updates, endBlock, rewardPerBlock, startBlock>>
    /\ UNCHANGED <<block, reward, entitled, changes, campaigns, stoppedLate, users,
                   testing>>
-----------------------------------------------------------------------------
(* depositWithdrawLiquidity.js: OUSD, minted or had, into pair tokens, which *)
(* are deposited; some blocks; exit.  A call that reverts ends it.           *)

Goes(from, to) == testing = from /\ testing' = to

AddLiquidity ==
    /\ \E added \in {0, 1} :
          /\ wallet' = [wallet EXCEPT ![tester] = @ + added]
          /\ Goes("mint", IF wallet'[tester] = 0 THEN "done" ELSE "deposit")
    /\ UNCHANGED <<block, pool, reward, entitled, updates, changes, userInfo,
                   totalRewardDebt, paid, deposits, withdrawals, campaign, starting>>

TestDeposit ==
    /\ Goes("deposit", "look")
    /\ deposit(tester, wallet[tester])
    /\ UNCHANGED <<block, entitled, changes, campaign, starting>>

\* pendingRewards is printed before and after the blocks.
Look ==
    /\ \/ Pending(tester) >= 0 /\ (Goes("look", "advance") \/ Goes("advanced", "exit"))
       \/ Pending(tester) < 0 /\ (Goes("look", "failed") \/ Goes("advanced", "failed"))
    /\ UNCHANGED <<block, pool, reward, entitled, updates, changes, users, campaign,
                   starting>>

TestExit ==
    LET everything == userInfo[tester].amount IN
    /\ \/ /\ withdraw(tester, everything, TRUE)
          /\ Goes("exit", "done")
       \/ /\ Owed(tester, updatePool) \notin 0..reward
          /\ Goes("exit", "failed")
          /\ UNCHANGED <<pool, reward, updates, users>>
    /\ UNCHANGED <<block, entitled, changes, campaign, starting>>

MintFails ==
    /\ Goes("mint", "failed")
    /\ UNCHANGED <<block, pool, reward, entitled, updates, changes, users, campaign,
                   starting>>

TestScript == AddLiquidity \/ TestDeposit \/ Look \/ TestExit \/ MintFails

Mined ==
    /\ Tick
    /\ testing' = IF testing = "advance" THEN "advanced" ELSE testing
    /\ UNCHANGED <<pool, reward, updates, changes, users, campaign, starting>>

Next ==
    \/ Mined \/ doUpdatePool \/ Govern
    \/ \E u \in Users : Gift(u) \/ Change(u)
    \/ TransferMined \/ StartScript \/ TestScript

Spec == Init /\ [][Next]_liquidityVars
-----------------------------------------------------------------------------
\* The variables have their types.
TypeOK ==
    /\ block \in 1 .. MaxBlock
    /\ pool \in [balance : Nat, lastRewardBlock : Nat, accRewardPerShare : Nat]
    /\ rewardPerBlock \in Nat /\ endBlock \in Nat /\ startBlock \in Nat
    /\ userInfo \in [Users -> [amount : Nat, rewardDebt : Int]]
    /\ totalRewardDebt \in Int
    /\ reward \in Nat
    /\ wallet \in [Users -> Nat]
    /\ starting \in {"idle", "transfer", "waiting", "funded", "done"}
    /\ testing \in {"idle", "mint", "deposit", "look", "advance", "advanced", "exit",
                    "done", "failed"}
    /\ changes \in 0 .. MaxChanges /\ campaigns \in 0 .. MaxCampaigns
    /\ entitled \in [Users -> Nat] /\ paid \in [Users -> Nat]
    /\ deposits \in [Users -> Nat] /\ withdrawals \in [Users -> Nat]
    /\ updates \in Nat /\ stoppedLate \in BOOLEAN

Have(u) == paid[u] + Pending(u)
Deposited == SumFunction([u \in Users |-> userInfo[u].amount])

\* However campaigns follow each other and whenever users come, go and claim, no
\* user is paid or owed more than their share of each block at the rate of the
\* campaign that was running, but for what their deposits round; unless a
\* campaign was stopped after its end.
NobodyOverpaid ==
    ~stoppedLate => \A u \in Users : Unit * (Have(u) - deposits[u]) <= entitled[u]

\* Nor less, "before update to the new rate" (startCampaign), but for rounding;
\* unless tokens were sent to the contract, which take a share of their own.
NobodyForgotten ==
    pool.balance = Deposited /\ ~stoppedLate =>
        \A u \in Users :
            LET most == Tokens[u] + 1 IN
            entitled[u] <= Unit * (Have(u) + 1 + withdrawals[u])
                              + ((updates + 1) * Unit * most) \div FullScale

\* The blocks of the campaign that are still to come.
Ahead ==
    IF block >= endBlock THEN 0
    ELSE endBlock - (IF block < startBlock THEN startBlock ELSE block)

\* What updates round, where the contract has tokens nobody deposited: startCampaign
\* takes what they accrue, rounded once, for what is there to pay others.
Slack == IF pool.balance = Deposited THEN 0 ELSE (updates * Supply) \div FullScale

\* "startCampaign: insufficient rewards": the contract can pay what it owes, now
\* and at the end of the campaign, but for what deposits, withdrawals and updates
\* round.
Covered ==
    LET owing == {u \in Users : Pending(u) > 0} IN
    ~stoppedLate =>
        SumFunction([u \in owing |-> Pending(u)]) + rewardPerBlock * Ahead
            <= reward + SumFunction(deposits) + SumFunction(withdrawals) + Slack
=============================================================================

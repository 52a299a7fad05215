# A verification project for OUSD

TLA+ models of the OUSD contracts, of the scripts that deploy and run them, and of
the web application in front of them; checked with TLC on small instances and, for
the parts that matter most, proved with TLAPS for every value of the constants.
Source paths below are relative to `src/`; contracts are in `contracts/contracts`,
scripts in `contracts/scripts` and the web application in `dapp`.

## 1. The system

OUSD is a stablecoin with an elastic supply. Users deposit stablecoins in a *vault*
and get OUSD; the vault lends the stablecoins out through *strategies*; what they
earn is given to the holders of OUSD by *rebasing*, which raises the supply and with
it every balance. A *governor* behind a *timelock* administers the contracts.

         users                                       admin, guardian
           |  web application                               |  scripts, tasks
           |  (account, connection, forms, history)         |  propose, queue, execute
           v                                                v
    Vault (Core, Admin)  <------------ governs -------- Governor / Timelock
      |            |                                        ^
      | mint, burn,| deposit, withdraw                      | proposals
      v            v                                        |
     OUSD     strategies -> Aave, Compound, Curve       deployment, upgrades

Beside it stand the contracts that give rewards away (`SingleAssetStaking`,
`CompensationClaims`, `LiquidityReward`), each with scripts of its own.

Three kinds of concurrency matter.

- **Contracts.** A transaction runs alone and succeeds or reverts as a whole.
  Transactions of different senders interleave in an order nobody controls; the risks
  are what another transaction has changed since one looked, integer rounding, and
  storage that is kept in two places by hand.
- **Scripts.** A script sends one transaction after another, reads the chain between
  them, sleeps, dies half way and is run again, while others send theirs.
- **The web application.** One thread, but what it waits for (wallets, nodes, timers,
  blocks) answers in any order, after the account has changed or the page was
  reloaded; an answer is handled by the closure of an earlier render.

### Inventory

| component | state it keeps | operations | hard because | correct when |
|---|---|---|---|---|
| **OUSD token** (`token/OUSD.sol`, `utils/StableMath.sol`) | credits, the common rate, frozen rates, choices, three tallies kept by hand, allowances | transfer(From), approve and its two increments, mint, burn, changeSupply, rebaseOptIn/Out | two rates in one transfer, each truncated; accounts that gain or lose code and are migrated by whoever touches them; tallies changed in six places | the tally of credits covers the credits; rates agree with choices; a transfer moves no more than its value; no change of side pays; nobody loses OUSD to others beyond an allowance |
| **Governor and timelock** (`governance/Governor.sol`, `timelock/Timelock.sol`) | admin, pending admin, delay, queued hashes, proposals | propose, queue, cancel, execute, setDelay, the admin hand-over | proposals that share actions; a delay changed while others wait; a state computed from the time | a proposal runs at most once, after its delay, before its grace period ends and never after cancellation |
| **Vault** (`vault/VaultCore.sol`, `VaultAdmin.sol`, `VaultStorage.sol`) | assets, strategies, defaults, buffer, fees, thresholds, pauses | mint, mintMultiple, redeem, redeemAll, allocate, rebase; the governor's and strategist's calls | prices and balances read before the calls that change them; a list, a mapping and defaults that must agree | the supply stays backed up to rounding and losses; a rebase hands out the yield, the fee and no more; the buffer stays |
| **Single asset staking** (`staking/`, `contracts/utils/stake.js`) | stakes of each user by end, rates, outstanding liability, air drop roots | stake, stakeWithSender, airDroppedStake, exit, rates, roots, pausing | insertion among stakes already paid; exit stops at the first paid one; one way in without the liquidity check | what is promised is counted and paid once; every published voucher is accepted |
| **Compensation claims** (`compensation/`, `scripts/compensation/compensationSync.js`) | claims, total, lock, period; the script's progress | setClaims, lock, unlock, start, claim, collect; compare, upload in batches, verify | batches overlap with claims, locks and other batches; the script reads one account at a time | total = sum of the claims; covered in the period; the script says what is so |
| **Liquidity mining** (`liquidity/`, two scripts) | pool, debts, reward per share, campaign | deposit, withdraw, exit, claim, start/stopCampaign | claims from a pool that is not updated; campaigns that follow each other | nobody gets more or less than their share; the contract can pay |
| **Governance scripts** (`scripts/governor/propose.js`, `contracts/utils/governor.js`, `utils/deploy.js`, `tasks/governance.js`) | the proposal they go on with | propose, queue, execute, sleep | the id is read after the confirmation; others queue and execute meanwhile | the id is the script's own or later; the vault's halves match |
| **Deployment** (`deploy/*.js`) | what is on chain, what has finished | some 60 transactions in order | dies anywhere, is run again from the start; transactions nobody waits for | never half open, never initialised twice |
| **Storage layouts** (`tasks/storageSlots.js`) | the stored layout | check, deploy, store | dies between deploying and storing | every upgrade extends the layout in use |
| **Source verification** (`scripts/etherscan`) | Etherscan's queue | submit, poll, report | lost and refused answers | what is said is so |
| **Account and contracts** (`AccountListener.js`, `utils/contracts.js`, `UserActivityListener.js`) | stores of the connected account | set up, poll, load | late answers for an earlier account | the right signer; the account's own balances in the end |
| **Wallet connection** (`utils/hooks.js`, `LoginWidget.js`, `LedgerConnector.js`, `_app.js`) | the connection, storage over reloads | eager connect, login, disconnect | attempts that race and settle late | nobody is connected against their wish |
| **Mint form** (`BuySellWidget.js`, `CoinRow.js`, `ApproveModal.js`, `ApproveCurrencyRow.js`) | rows, modal, approvals, mints | enter, approve, mint | approvals and mints end in any order | nothing is offered twice, modals close |
| **Redeem form** (`SellWidget.js`) | amount, split, state | enter, calculate, click, redeem | calculations answered out of order; a button that stays enabled for a while after a click | the mix shown is of the last calculation; nothing but a hurried click makes redemptions overlap |
| **Balance header** (`BalanceHeader.js`, `utils/animation.js`, `AddOUSDModal.js`) | animated balance, modal | animate, close | callbacks of earlier renders | the balance is shown; what is closed stays closed |
| **Transaction history** (`TransactionListener.js`, `TransactionStore.js`, `withRpcProvider.js`, `SidePanelTransactionMessage.js`) | history per account in localStorage | observe, mine, merge, load, dismiss | timers, promises and events against changes of account and reloads | each account's history is its own and says what the chain says |
| **Translations** (`dapp/scripts/*Fbt*.js`, `splitTranslations.js`, `utils/setLocale.js`) | files per locale, the page's language | encode, decode, split, switch | variables moved by translators; overlapping fetches | no variable is lost; the page shows the language chosen |

Not modelled, with the reasons in section 7: strategies, Governable, proxies, oracles,
Flipper, Buyback, helper libraries, interfaces and mocks, one-off tasks, the Certora
and Echidna specifications, pages without state, the playground.

## 2. The modules

| module | what it is |
|---|---|
| `StableMath` | `mulTruncate` and `divPrecisely` over a scale `FullScale` |
| `Tally` | the total of a function over a finite set, as a cardinality |
| `ArithmeticProofs` | lemmas about totals, induction, powers of two and truncation |
| `OUSD`, `RebasePolicy`, `OUSDProofs` | the token; what it promises an account about its rate and its choice; theorems |
| `Governor`, `DelayedExecution` | governor and timelock; what they promise of a proposal |
| `Vault`, `VaultProofs`, `VaultValueProofs` | the vault, both halves, over an instance of `OUSD`; theorems |
| `Staking` | staking with its air drops |
| `Compensation` | claims and the script that uploads them |
| `Liquidity` | liquidity mining and its scripts |
| `Rewards`, `RewardsProofs` | the last three beside each other; theorems |
| `Proposals`, `Deployment`, `Upgrades`, `Verification` | the scripts run by hand |
| `Operations`, `GovernanceProofs` | proposals, layouts and verification beside each other; theorems about them and about the governor |
| `Account`, `Minting`, `Redeeming`, `BalanceHeader` | the web application around the account |
| `Dapp`, `DappProofs` | the four of them, one at a time; theorems |
| `Connection`, `Transactions` | the connection to a wallet; the history of transactions |
| `Web`, `WebProofs` | the two beside each other; theorems |
| `Translations` | translation files and the page's language |
| `MCGovernor`, `MCOUSD`, `MCOUSDs`, `MCVault`, `MCVaults` | instances of the contracts for TLC |
| `MCRewards`, `MCOperations` | the reward contracts, and with them the scripts, one part at a time |
| `MCDapp`, `MCTransactions`, `MCWeb` | the web application, one part at a time |

`MCOUSDs`, `MCVaults`, `MCOperations`, `Dapp` and `MCWeb` put parts that share no
state into one specification: the initial state chooses the part (`part` or `instance`), the
others stand still in one initial state, and fairness is that of the part's own
specification. A run of it explores the sum, never the product, of its parts.

Operators a comment calls *faulty* are not part of the specifications: they are
plausible mistakes in the operator that follows them, kept to show that a property
notices.

## 3. How the modules correspond to the code

### OUSD

The contract's storage is one record `token` with the fields of `OUSD.sol:39-50`;
allowances are apart, as is the set `contracts` of accounts that have code
(`Address.isContract`, which the environment changes with `Deploy` and
`SelfDestruct`; an address of `Deployable` may gain and lose code any number of
times). A function of the contract is an operator from storage to storage: `Touch` is
`_isNonRebasingAccount` with the migration it may perform, `Moved` the body of
`_executeTransfer`, `Repriced` the body of `changeSupply`. An action composes them in
the order of the code. `Fits` stands for SafeMath: a step after which a word would
leave its width reverts, that is, is disabled. `changeSupply` is called with higher
supplies only, as `VaultCore._rebase` does (385-389); mint and burn with any amount
for any account.

`RebasePolicy` leaves out balances and supply. Its `Freeze(S)` freezes accounts that
never chose, at the common rate; a transfer is a `Freeze` of at most two accounts, an
opt-in or opt-out sets the choice, a rebase is `Reprice`.

### Governor

`queuedTransactions` is the set of hashes, and a hash is a pair of action and time, so
that two proposals with a common action queued at the same time collide as in the
code. An action is an opaque call or a `setDelay`. `Execute` is the whole of
`execute`, with `executeTransaction` for every action: all require to find their hash,
one failing call reverts everything, and of several `setDelay` the last one stays.
`Cancel` writes the time 1 before it computes the hashes, as the code does.
`DelayedExecution` keeps for each proposal a phase and a time and says when each may
change; `Phases` and `Etas` are the refinement mapping. What the calls do to other
contracts is left out, and so a call that re-enters the governor.

### Vault

`vault` is the storage of `VaultStorage.sol` as a record, `held` says what lies in the
vault and in each strategy, `price` what the oracle says. The token is an instance of
`OUSD` on the same `token`; the vault calls its functions (`Minted`, `Burned`,
`SupplyChanged`) in the course of its own. A function called in a transaction is an
operator that gives the set of its outcomes, empty if it reverts; a user's action
composes them in the order of the code, so `Mint` is rebase, mint, transfer,
allocation, and `Redeem` is rebase, payment, burn, rebase.

A strategy is what it holds: `deposit`, `withdraw` and `withdrawAll` move exactly what
they are asked to, and `Earn`, `Lose` change what it holds between transactions;
anybody may send the vault assets. Rewards are an amount of the first asset that
arrives, or none (`Harvested`). A redemption that finds too little reverts. Left out:
who may call what (every call of the governor or strategist is possible at any time),
the callers' minimum amounts, the addresses of the oracle, the exchange and the
strategist, the delegation from core to admin, and reentrancy, which the lock
excludes.

### The reward contracts

`Staking` has the list of stakes with its insertion and the loop of `exit`, the
liquidity checks of each way in, and the Merkle trees of `utils/stake.js` with a hash
that has no collisions: `levels` is the function of all rows of a tree, each the one below
it reduced, and `NodesAbove` the nodes a verifier computes from a leaf and its proof.
`transferStakes` is left out. `Compensation` has the contract
and `compensationSync.js`: the script's reads are steps of their own, one account
each, and batches are mined in the order they were sent, with anything between them.
`Liquidity` keeps, besides the contract's own arithmetic, what each user is entitled
to by an exact count of shares per block (`entitled`, in units of which all supplies
are divisors: `UnitAssumption`), which the contract's rounded reward per share is
compared with. `NobodyOverpaid` and `NobodyForgotten` compare them for each user,
`Covered` compares what is owed to everybody, and what the campaign is still to bring,
with the contract's tokens. Each names what it allows for: a unit for each deposit or
withdrawal of the user, an update's rounding for each update (`updates`).

### The scripts

`Proposals` gives every option of `propose.js` as the list of its calls, a call as a
write of one slot of a contract. `Deployment` gives every transaction of
`000_mock.js` and `001_core.js` as what it needs, what must not hold, and what it
makes hold; a transaction that is not awaited is mined later. `Upgrades` and
`Verification` follow one script each through its steps.

### The web application

A step is one event of the page (an answer, a timer, a click) with every render and
effect it causes. An answer belongs to the render that asked: it carries the account
or the numbers of its closure. In `Account`, balances and allowances are one kind of
load, credits the other. `Connection` models web3-react by what the code expects of
it: a call that settles after the connection has changed is dropped. An error of the
Ledger of which `activate` says nothing (`LoginWidget.js:118-124`) is `Suppressed`. In
`Redeeming`, a click (`onSellNow`) and the answer to `decimals()` that covers the form
(`DecimalsReturn`) are two steps, and the button is enabled between them; a calculation is
known by the millisecond in which its timer fired, as the code's `Date.now()` has it, and
several timers may fire in one. In
`Transactions`, `componentDidUpdate` runs after each store update; a history carries
what it stored. `Minting`, `Redeeming` and `BalanceHeader` keep amounts as small
numbers; `Translations` keeps of a text only the characters the scripts look at.

## 4. The runs

| run | what it checks |
|---|---|
| `governor` | `TypeOK`, `WaitingActionsQueued`, refinement of `DelayedExecution`: two admins, two calls and a `setDelay` in and out of range, expiry |
| `ousd` | one token whose tallies matter (`TypeOK`, `RatesMatchOptions`, `RebasingCreditsBacked`, refinement of `RebasePolicy`, `OthersBalancesKept`, `TransferWithinValue`, `ChangingSidesPaysNothing`), one with allowances (`AllowancesBoundSpenders`) |
| `vault` | four vaults: strategies (`StrategyListsAgree`, `BufferIsKept`), a moving price (`NobodyDilutes`, `NothingIsLeft`), two assets of different decimals (`OutputsAreWorthIt`), a trustee that becomes a contract (`FeeIsPaid`); `TypesKept` |
| `operations` | rewards: `ClaimsCovered`, `UndisturbedSucceeds`, `UploadIsTrue`, `StakingTrue`, `LiquidityTrue`; scripts: `ProposalsTrue`, `OpenIsConfigured`, `VerificationTrue`, `TranslationsTrue`, `NothingUndone`; and `ToolsEnd` |
| `dapp` | `SignerIsConnected`, `StoreFollowsAccount`, `MintFormTrue`, `RedeemFormTrue`, `NothingComesBack`, `FormsEnd` |
| `web` | `HistoryTrue`, `SpinnersStop`, `ConnectionTrue`, `ButtonsComeBack`, `PageTrue` |
| `governor_cancel` | *violation:* a cancelled proposal leaves its actions queued (`Governor.sol:212`) |
| `ousd_cap` | *violation:* the supply exceeds the cap of `spec/ousd.spec:29` |
| `ousd_integrity` | *violation:* the supply falls below what the tallies are worth, against `spec/ousd.spec:61` |
| `vault_default` | *violation:* a removed strategy stays the default of its assets, against `VaultAdmin.sol:134` |
| `vault_percentage` | *violation:* a trustee that rebases receives more than its part, against `VaultAdmin.sol:266` |
| `transactions_history` | *violation:* a request answered while no account is connected makes the next account's history be overwritten, against `TransactionListener.js:14` |

A property of a composed run is the conjunction of its parts' properties, each under
the condition that the behaviour is about that part; the parts are named and
commented in their modules.

Deadlock is checked in `governor`, `ousd` and `vault`, whose systems can always take a
step. The others stop by themselves: a script has ended, a user does nothing more, a
bound on the number of events is used up.

### Bounds

Every bound is a constant, commented `bound:` where it is declared.

- **Token and vault.** `FullScale` is 1e18 in the code and 1 to 12 here: one unit of
  precision is large, so every truncation shows. With 2, the rate falls below par
  after one rebase. `MaxWord` stands for 2^256-1 and is reached by sums. Prices lie
  below, at and above 1. Each vault opens the calls its question is about and gives
  the others no arguments. Properties that allow for rounding do so in the code's own
  terms (`Dust`, `Overshoot`): at 1e18 a few units of the last decimal, as long as the
  rate is near its start.
- **Governor.** Two proposals of up to two actions; times from 3 to 8 let one proposal
  expire after another was queued with a different delay. Time starts beyond the
  grace period, as real time does (`TimeAssumption`); this is what makes the mark 1
  of a cancelled proposal mean "expired".
- **Rewards.** Three claimants, two files (one lists everybody), two runs of the
  script with batches of two: a batch boundary falls inside the file. Three stakes
  per user at most, two tariffs, four moments: insertion before, between and after
  paid stakes; an odd list of air drops, so that a leaf is paired with itself. Rates are
  halves of the amount, in units of `FullScale` 4. Two liquidity providers with a pair token each and a third one the script
  may add, so that shares are whole, halves or thirds and `FullScale` 4 rounds the last; two
  campaigns of different rates, which overlap, follow each other or are stopped, in three
  blocks; two deposits, claims, withdrawals or gifts beside those of the scripts.
- **Scripts.** Two scripts at a time, of which one makes proposals only; one death of
  a deployment, at any transaction; three deployments of layouts of two variables;
  two runs over a vault, a token and a mock, with one lost or refused answer.
- **Web application.** Two accounts, because what goes wrong is an answer for one
  arriving under the other; three changes of account, or of account and reload; one
  fault; two mints, calculations or redemptions that overlap, calculations perhaps in one
  millisecond. Three changes of account let an earlier account's set-up return while
  another is connected and the first then connect again: a set-up that fails at that
  moment leaves the poll the other's (`AccountListener.js:196-224` does not try again),
  which is why `StoreFollowsAccount` is about accounts for which a set-up has returned
  since they were connected (`served`). Liveness under more changes is not checked.

### Fairness

The contracts assume none: nothing in the code makes a transaction happen. Scripts and
pages assume weak fairness of what the platform owes them: timers fire
(`LoadTimer`, `Poll`, `Fetch`), promises that nothing can lose are settled
(`SetupReturns`, `Answer`, `observeTransaction`), the Ledger answers the connector's
questions (`Derives`), a sent transaction is
mined where no replacement is modelled (`MineMint`, `RedeemMined`, `Mine`), a script
takes its next step unless it died, the timelock's delay passes (`Ripen`), Etherscan
works off its queue. Users, what they answer to a wallet's prompt (`Settles` of
`Connection`, `MintSent`, `RedeemSent`), faults, deaths, changes of account and the
socket's events owe nothing. The one action of a person that is fair is `Rerun`: whoever
deploys runs a deployment again that died or failed. So `ButtonsComeBack` says that a
vendor's button is disabled for ever only while its wallet is being asked.

## 5. The proofs

What TLC shows on a small instance these theorems state for any set of accounts,
proposals, strategies or transactions, any scale and any bound.

**`ArithmeticProofs`.** `Total(f)` counts units, so the library's theorems about
cardinalities apply. `TotalChange` and `TotalChangeTwo` say how a total moves when one
or two values do, further lemmas compare totals of functions on a part of the domain.
They stand in for an induction over the set. The vault adds up with the library's
`SumFunction`, a fold: `SumIsTotal` shows that the fold of any finite function is its
total. Where an induction over the set would go, the proof takes a smallest part of it
for which the equation fails, which there is because strict subsets of a finite set are
well founded. From it follow the laws the vault needs: `SumLinear`, `SumPlus`,
`SumMonotone`, `SumConstant`, `SumChange`, `SumOfPart`, `SumOfTable`, `SumRenamed` (along
a bijection), `SumSplit`, `SumOfOne`, `SumOfZeros`; and those staking needs, `SumNamedAnew`
(the same values at other places) and `SumOfParts`.

The same detour serves for the natural numbers. The library's induction takes an operator
as a parameter; `LeastNatural` says instead that every set of natural numbers has a least
one, by the same argument about strict subsets, and `ByInduction` that a set with 0 and with
`k + 1` for each of its `k` has them all. A proof by induction defines the set of numbers for
which its claim holds and cites it. `PowersOfTwo` is the first of them.

About rounding, from `FullScaleAssumption`: a rounded quotient lies between its
neighbours; what credits are worth grows with them; the credits of an amount, rounded
down, are worth no more than the amount and less than a unit short of it. `UnitsMinted`
bounds what minted credits are worth, `RateRoundedDown` and `RateOvershoots` what a new
rate makes of them.

**`OUSDProofs`**, from `AccountsAssumption` (finitely many accounts),
`BoundsAssumption` and `FullScaleAssumption`. The inductive invariant is
`TypeOK /\ Sound(token)`, where `Sound` is the storage's types, the match of rates and
choices, and the backing. It is needed as a whole: that a migration takes from the
tally no more than it holds uses the backing, and that the accounts of the two sides
are told apart by their rates uses the match. Each function on the storage has a lemma
(`Touch`, `Moved`, mint, burn, the two choices, repricing), and actions follow by
composition. `TypeCorrect`, `RatesMatchOptionsAlways` and
`RebasingCreditsAlwaysBacked` are its parts; `TokenImplementsPolicy` is the refinement,
action by action. On top of them stand the action properties about balances: a
migration changes no balance (`TouchBalances`); a transfer takes from one side at most,
and gives the other at most, what the value is worth at that side's rate
(`MovedBalances`); a change of side keeps the balance up to a credit
(`OptInBalances`, `OptOutBalances`); a mint credits its value (`MintBalances`), a change
of the supply reaches it (`SupplyReached`). So `TransfersStayWithinValue`,
`ChangingSidesNeverPays` and `OthersBalancesAlwaysKept`.

**`GovernanceProofs`** has four parts.

*The governor*, from `AddressAssumption` and `TimeAssumption`. The inductive
invariant is `TypeOK /\ WaitingActionsQueued`; one lemma per handler shows that it
stays, and one per handler that the step is one of `DelayedExecution` or a stutter.
That a cancelled proposal cannot be cancelled again needs that the mark 1 is long
expired.

*Proposals*, from `DeploymentsAssumption` (every deployment has the
strategy the vault starts with) and `MenuAssumption`. `ProposalsAlwaysTrue` is about any
scripts, options, deployments and versions. The invariant says that each script's id is
its own proposal's or a later one's, and that every proposal made or about to be sent is one
that `argsMethod` gives (`Honest`): a list of calls that writes both halves of the vault with
one version or neither, unless its option is the one that upgrades a half. That the calls of
such a list, made one after another, leave the halves matched goes by the length of the list
(`AfterCalls`).

*Layouts*, from `LayoutsAssumption`. `UpgradesAlwaysExtend` is the action property
`UpgradesExtend` for any variables and number of deployments. It is not inductive by itself:
what is upgraded to may be any earlier deployment, so the invariant compares every two
layouts deployed, and the one that was checked with all of them, until a check has met an
outdated file.

*Verification*, from `ArgumentsAssumption`. What is said to be verified is; what a run over all
contracts has not reported on is still left to be gone through (`VerificationInv`), so a run
that ends has reported on all.

**`RewardsProofs`** has three parts.

*Staking*, from `StakersAssumption`, `TariffsAssumption`, `ListsAssumption` (which bound
nothing: lists of air drops have an entry and may be of any length) and
`FullScaleAssumption`. `StakingAlwaysTrue` says that `totalOutstanding` is what is owed, that
the contract is short by no more than the rewards of stakes that came through the token,
that each air drop was granted by a list, and that each published voucher of a list is
accepted. The invariant is `StakingInv`:

- `Ordered`: the stakes of an account are in the order of their ends, and the paid ones are
  the first and have ended. Insertion keeps it (`InsertedWhere`, `StakeAdded`): the loop stops
  before the new stake's place at the latest where the paid ones end, because a new stake ends
  in the future. So `exit`, which stops at the first paid stake it meets, misses none
  (`StakesPaid`): the stakes it pays are all that have ended.
- The total is a sum of sums (`Owed`): `OwedChange` says how it moves when one account's list
  does, `StakeAdded` and `StakesPaid` how the list's own sum moves.
- The shortfall is bounded by the rewards of unpaid stakes that were sent (`Sent`).
- Each stake of an air drop is a list's, the root is a list's or none, and the published
  files are those of lists (`DropsKept`).

The trees come apart in two lemmas about lists of any length. Row `d` of a tree has half the
nodes of row `d - 1`, rounded up, and `2 ^ d` times as many nodes reach the leaves, so
row `Len(list)` has one node at the latest and `depth` is a minimum that exists (`DepthIs`).
`TreeSound`: whoever presents a proof the contract accepts holds a leaf of the list, since,
from the root down, every node the verifier computed is one of the row (hash pairs are
injective, and the length of the proof is the tree's depth). `TreeComplete`: what
`computeMerkleProof` returns is accepted, since, from the leaf up, the node at
`PathAt(index, d)` of row `d` is the one the verifier computes, the odd end being paired with
itself. Recursive functions are unfolded by `LevelsAre` and `NodesAre`, whose induction proves
that the function exists.

`ExitsForgetNothing` is the action property on top: a step that pays an account's stakes
leaves no ended stake of it unpaid.

*Liquidity mining*, from `UsersAssumption` (finitely many users with their pair tokens),
`UnitAssumption` and `FullScaleAssumption`. `LiquidityAlwaysTrue` is about all users,
campaigns, amounts and bounds. The three things it promises are not inductive: they speak
of whole units of reward, and truncating twice may lose what once did not. `LiquidityInv`
counts in units of 1 / (`Unit` * `FullScale`) instead, in which neither the contract's
accumulator nor the exact entitlement is rounded.

- `Shared`: what a user was paid and is owed (`Value`: payments, less debts, plus the
  user's tokens at what a token has brought, `Worth`) is the user's entitlement, up to a
  unit for each deposit and withdrawal and `1 / FullScale` for each token and update. A
  block adds the same to both sides (`TickShares`); an update lowers what tokens are worth
  by what it rounds (`WorthUpdated`); a deposit's debt is rounded down once, in the
  user's favour, and a withdrawal may cost its user a unit (`DepositShares`,
  `WithdrawShares`); a gift to the contract dilutes only blocks not counted yet (`GiftShares`).
- `TokensCounted`: no pair token is counted twice, so nobody's share is above one, and
  the pool's balance is one `UnitAssumption` speaks of.
- `DebtsCounted`: the contract's `totalRewardDebt` is the sum of the users' debts.
- `Payable`: the reward covers all tokens at the accumulator, what is not counted yet and
  what the campaign is still to bring, less the total debt (`RewardCovers`). What a claim
  or `startCampaign` sees is a difference in which a user whose debt exceeds their share
  hides what others are owed. So the sum of these excesses is part of the bound, and is
  itself bounded by what the tokens nobody deposited bring (`ExcessBounded`): without gifts
  no debt exceeds the share by more than a withdrawal rounds. `startCampaign`'s check of
  the reward is then enough for what it adds (`RecountPayable`).
- `BlocksInOrder`: a campaign that lies ahead starts where the pool has been counted to,
  so the blocks the pool has still to count are never those of an earlier one.
- `NewcomersOweNothing`: a withdrawal of nothing by somebody who never deposited is nothing.

`OverpaidNobody`, `ForgottenNobody` and `CoveredAlways` turn that into whole units.

*Compensation*, from the assumptions on accounts, claims, files and batches.
The inductive invariant is `ClaimsCovered /\ ScriptInv`. The first half is the
contract's alone. The second says what the script knows at each of its points: of a
run that nothing disturbs, that what it has read as correct is so, and that a batch on
its way will not be reverted; of any run, that in the second look a claim read as
correct can only have been paid since. `UndisturbedRunsSucceed` and
`UploadIsAlwaysTrue` follow from it, `ClaimsAlwaysCovered` is its first half.

**`VaultProofs`**, from `AssetsAssumption`, `ArgumentsAssumption` and
`TokenAssumption`. The inductive invariant is `ListInv /\ VInv`: the storage's types
and the agreement of the two lists of strategies; the types of holdings and prices; and
the token's own invariant. The token's lemmas are not proved again:
`TokenProofs == INSTANCE OUSDProofs` brings them in, and a few lemmas (`SameMint`,
`SameBurn`, ...) say that the two instances mean the same functions.

- `StrategyListsAlwaysAgree`: moving the last strategy into the gap and cutting the
  list leaves an injective list of the others (`Removed`).
- `VaultTypeCorrect` and `VaultKeepsTokenSound`: each function of the vault is a chain
  of the token's functions and of moves of assets; each link keeps `Sound` or
  `Holdings`. What has to be shown is that what is subtracted is there: that an
  allocation deposits no more than the vault holds, a payment takes no more than its
  payer has, and the fee is below the yield.
- `RedemptionsAlwaysPayTheirWorth`: asset by asset an output times its price is within
  one factor and one price of its share of the ratio (`ShareAtPrice`); `SumLinear`
  and `SumMonotone` add that up, and `PaidBounds` divides by the ratio.
- `RebasesHandOutTheYield` and `RebasesPayTheFee`: `RebaseSteps` cuts a rebase into the
  mint of the fee and the change of the supply. The new rate is rounded down, so the
  supply reaches the value; the change of the supply leaves a frozen trustee what the
  mint gave it.
- `AllocationsKeepTheBuffer`: for one asset the deposit leaves the vault the part the
  modifier says, up to one unit of value (`AssetKeepsBuffer`); the strategies' value,
  summed by strategy in the code, is summed by asset instead (`CountedByAssets`); the
  sum over the assets and the definition of the modifier give the bound for the whole
  (`DepositKeepsBuffer`), and the harvest after it only adds to the vault. Of all
  other calls it is shown that they leave the strategies no more than they had, or
  the vault as it was.

**`VaultValueProofs`**, from the same and `StrategiesAssumption` (finitely many
strategies). `NoCallDilutes` is `KeepsValue` as a theorem: no call that pays nothing out,
of whomever, takes value from behind the supply, but for a unit of value for each asset.

- The code adds the value up strategy by strategy over a list, and a call moves one
  asset at a time. `ValueByAssets` turns the one sum into the other: by `SumOfTable`, and
  by `SumRenamed` along the list, which is a bijection onto the approved strategies because
  the lists agree. So `StrategyListsAgree` is part of what the proof rests on.
- For one asset, floors of a sum and of its parts: merging amounts loses no value
  (`ValueMerged`, `ValueSummed`), moving a part loses at most one unit (`ValueMoved`).
  `ValueDeposited`, `ValueHarvested`, `ValueWithdrawn` and `ValueReallocated` apply this
  to what calls do with an asset; `ValueAdded` sums it over the assets, which gives
  `Dust`.
- An asset or a strategy that is added is counted from then on (`AssetAdds`,
  `StrategyAdds`), one that is removed was emptied before (`StrategyLeaves`).
- An allocation keeps the value only where the default strategy is one that supports the
  asset: `DefaultsSupport`, a second invariant (`SpecDefaults`). That the default strategy
  is still approved is a premise of `KeepsValue`, since `removeStrategy` does not see to it.
- A mint adds to the supply the worth of each deposit, rounded down, which is no more than
  the whole is worth (`BroughtValue`, `MintBacked`).
- A rebase leaves the token or makes the supply the value, up to the credits the rounded
  rate gives (`RebasedCatchesUp`, from `SupplyOvershoots` of the token): the fee is below
  the yield, so a mint of the fee is always followed by a change of the supply. `CaughtUp`
  survives the mint (`CaughtUpAndMinted`) and the burn (`CaughtUpAndBurned`) after it.

`RedeemAllLeavesNothing` is `RedeemsAll` under two conditions TLC does not need on its
instance: that the supply is not above its cap (which `ousd_cap` shows it can be), and that
the call does not migrate the trustee, which takes a rounded balance from the supply that the
others' credits share. Then the rebase before the burn keeps what a credit is worth at a unit
or more (`RateStaysAtPar`), the units of the balance read again are all of the credits but at
most one (`UnitsAtPar`), which the burn takes as dust (`BurnAll`), and the rebase after it
gives credits to the trustee only (`RebasedOthers`).

**`WebProofs`** has two parts.

*The connection*, from `VendorsAssumption` ("MetaMask" is among the vendors).
`ConnectionAlwaysTrue` is about any wallets and accounts. The invariant (`ConnInv`) adds to what
the run checks why a call that is late cannot connect against the user's wish: a
disconnection makes stale whatever was under way, and of a page whose user wants no
connection nothing is under way that is not stale (`Wished`); and that the Ledger's second
path is tried only where the first has no balance (`Derivations`).

*The history*, from `NoAccountAssumption`, `HashesAssumption` and
`SwitchesAssumption`. The inductive invariant is
`TypeOK /\ NoncesOnce /\ AtRest(dapp, account, chain)`: every record anywhere in the
page or the storage states a fact of the chain, whatever closure holds it; between two
events an account's page has stored what it shows; of the transactions of one nonce
at most one is mined. The last is why a fact once recorded stays one: mining a
transaction drops the others of its nonce, none of which was mined before.
`componentDidUpdate` is one lemma, and each event
of the page a change of the store followed by it. `HistoriesAreTrue` is the theorem.

**`DappProofs`**, from `AmountsAssumption`, `MintBoundsAssumption`, `AccountAssumption`,
`RedeemingAssumption` and `HeaderAssumption`, which say that the bounds are numbers and that
"no amount" is none. Each part has its inductive invariant and a lemma for each event; they
are put together in `DappInv`, where the parts that do not move stutter. So
`DappAlwaysTrue` and `NothingEverComesBack` are about the specification the run checks.

- *Account.* `SignerIsConnected` is inductive with the types: contracts are stored with the
  change of account, before anything is awaited, so no late set-up stores others.
- *Header.* At most one animation runs; one that has still to open the modal does so only
  while the modal waits for it; a modal shown once is not waiting any more (`HeaderInv`).
- *Redeem form.* `LastCalculationShown` needs that the millisecond of every calculation that
  has begun is at most the one `latest` keeps for its instance of the widget, and that those of
  that millisecond are among what it keeps (`FiredInLatest`); and that the mix shown is of such
  a calculation or one has still to return (`ShownOrComing`): an answer that finds a later
  millisecond is dropped, and then a calculation of the later one is under way or has been
  shown. `OneUnlessHurried` needs that whatever has asked the wallet covers the form, so that
  no click is possible until it is over (`CoveredWhileUnderWay`).
- *Mint form.* The coins a modal counts as approved are those whose rows say so, and the
  chain has approved them (`ModalCounts`). That rests on `ApprovalsShown`: an approval is
  counted only when its transaction is confirmed, at most one approval of a coin answers to
  a row, and the row says how it goes. `NothingOfferedTwice` is the action property of the
  same invariant with `StoredIsEntered`: while a mint is pending, an amount is stored only of
  coins entered since, so neither a poll nor a change of tab restores another.

### Only model-checked

- **Liveness:** `StoreFollowsAccount`, `SpinnersStop`, `ButtonsComeBack`, `FormsEnd`,
  `ToolsEnd`. TLAPS does not prove properties under fairness.
- **What the scripts never undo:** of `NothingUndone`, the part about initialised proxies;
  staking's part and that of storage layouts are theorems.
- **The vault:** that `redeemAll` leaves nothing where the supply is above its cap or the
  call migrates the trustee.
- **The deployment and the page's language:** the deployment's transactions are one fixed
  list with names put together from parts, the page's state a small set of phases; TLC looks
  at every interleaving of them. What the translation scripts make of a text is an induction
  over its characters, out of TLAPS's reach.

## 6. What the code does that one may not expect

The six violations of section 4 are findings, each with its lines, in `PROJECT.json`.
Some properties had to exclude or to bound what the code allows:

- **Token.** A transfer of an amount too small for a credit at the sender's rate deducts
  nothing and may still add to a receiver with another rate; `TransferWithinValue`
  bounds by the value what either side sees.
- **Staking.** Stakes that come through the token are not checked for funds; then every
  exit and stake waits for funds. Of two entries of one address in a list of air drops
  only the last gets a voucher (`airDrop.js:37`).
- **Compensation.** The script reads accounts one by one and the total last, and never
  removes claims of accounts the file does not list; a disturbed run may call an upload
  successful although others have claims. `UploadIsTrue` says what is certain.
- **Liquidity.** `stopCampaign` after the end of a campaign rewards the blocks between
  (`stoppedLate` excludes it); a claim before a partial withdrawal may round such that
  claim and exit revert until more is accrued; pair tokens sent to the contract take a
  share, and what updates round for them may be missing from what `startCampaign` keeps for
  others (`Slack`, a few units of the last decimal at 1e18).
- **Proposals.** A script goes on with another's proposal if one is made in the moment
  between; a newer version may be replaced by an older one if proposals are executed in
  the other order.
- **Deployment.** A rerun after the first proxy was initialised never finishes.
- **Connection.** An attempt at load that is superseded may set the wrong icon; an
  answer of `isAuthorized` that comes after a disconnection connects again, and so
  counts as part of the load; the Ledger's provider is kept after a failed derivation;
  the address is not reset on disconnection. Where an error of the Ledger is suppressed, as
  the comment in `LoginWidget.js:118-124` says, its button stays disabled until another
  vendor's is clicked or the modal is closed: `ButtonsComeBack` speaks of the Ledger only
  where nothing failed.
- **Mint and redeem forms.** With MetaMask's mobile wallet a timer changes the state of
  the form, and a second modal may stay open (`BuySellWidget.js:181-188`);
  `IdleIsReady` and `OneUnlessHurried` exclude it. A second click on the redeem form's
  button while the first waits for the token's decimals (`SellWidget.js:199-206`) starts a
  second redemption; if the decimals are not answered nothing catches the error. Two
  calculations that begin in one millisecond may answer for each other.
- **Account.** A set-up of the contracts that fails is not tried again while the account
  stays: the poll may then be an earlier account's until the account changes.
- **History.** A transaction dismissed while it is pending comes back when it is mined;
  one that was replaced while the page was closed may wait for ever.
- **Language.** When choices overlap, the last answer decides, not the last choice.
- **Tasks that are not modelled.** `tasks/account.js` uses an undefined `isLocalHost`;
  the yield task of `tasks/vault.js` takes the array of signers for a signer;
  `ApproveCurrencyInProgressModal` looks for transactions of a type that is never
  stored.

## 7. Not modelled

Strategies (`strategies/*.sol`): what the vault sees of them is in `Vault`; the rest is
the arithmetic of Aave, Compound and Curve, outside the repository. Governable and the
proxies: guards of one `require` each; `Deployment` and `Upgrades` use them. Oracles:
reads without state. Flipper and Buyback: exchanges without state of their own.
Interfaces, mocks and helper libraries. The remaining tasks are single queries. The
Certora and Echidna specifications are documents here, which findings quote. Pages,
styles and links of the web application display and keep nothing. The playground is a
demonstration.

Gas, events, ERC-20 metadata and the encoding of calls are left out everywhere.

## 8. Plan

Done: the modules of section 2 and the theorems of section 5. Next, if the code grows: the
deployment, should its list become a parameter; the strategies, should one keep state of its
own; two lookups instead of one in `proposeUpgradeVaultCoreAndAdmin`, should deployments
beside proposals become usual.

# Dogether contracts: specification, model checking and proofs

The repository holds three CosmWasm contracts that together make a "hybrid no
loss" lottery: users pool uusd, the pool deposits it at the Anchor money
market, and the interest buys tickets of the LoTerra lottery for the users.
This directory models the three contracts in TLA+, checks them with TLC and
proves the central results with TLAPS.

Paths below are short: `dogether/` is `src/contracts/dogether/src/`,
`staking/` is `src/contracts/loterra-staking-contract-dogether/src/`, `cw20/`
is `src/contracts/cw20-contract-dogether/src/`.

## 1. Inventory

| Component | State it keeps | Operations | Correct when |
|---|---|---|---|
| Pool, `dogether/contract.rs` | `total_ust_pool`, `next_draw`, the addresses of the other two; at the bank and at Anchor: uusd and aUST | `Pool`, `UnPool`, `ClaimUnPool` (+ `withdraw_reply`), `RedeemEarning`; `instantiate` (+ two replies) | deposits are never lost, a matured claim is paid, the three contracts agree on who deposited what, one earning per draw period |
| Staking, `staking/contract.rs`, `user.rs`, `global.rs`, `claim.rs` | `global_index`, `total_balance`, `prev_reward_balance`; per holder balance, index, pending rewards, list of claims; the combinations registered; uusd at the bank | `Receive/BondStake`, `UnbondStake`, `WithdrawStake`, `UpdateGlobalIndex`, `GetTicket` | rewards are shared by stake and never promised twice, stake is either bonded or in a claim, claims wait their period and are paid in the end, a combination is registered once per draw |
| Token, `cw20/contract.rs` | `total_supply`, `balances`, the minter | `instantiate` with rows, `Bond` (mint and tell), `Burn` | the supply covers the balances, nothing below zero |
| Tax, `taxation.rs` (two identical copies) | none | `compute_tax`, `deduct_tax` | what is sent plus the chain's tax is covered by what was there |
| Decimals, `math.rs` | none | 256-bit products, sums, differences of 128-bit decimals | roundings and limits as their users expect |
| Anchor, treasury, bank, LoTerra | exchange rate, aUST, tax rate and cap, lottery counter | external | modelled from the calls |
| Wiring and the chain: `dogether/contract.rs` (`instantiate`, `reply`), the callers each handler checks | addresses in the pool's `STATE`, the token's minter, the staking contract's `CONFIG`; the messages, events and replies of the running transaction | deploy in three messages and two replies, dispatch, roll back | the pool exists fully wired or not at all; whole transactions are what stays, whatever fails; a reply reads the right event |
| Paged queries, `staking/state.rs` (`read_holders`), `cw20/enumerable.rs` | none of their own | a page of keys after a key | a reader gets every key once, whatever is stored meanwhile |
| Other queries, migration, schemas, scripts, CI | none | read only | not modelled (section 9) |

How they interact:

    user --Pool-------> pool --DepositStable--> Anchor
                        pool --Bond--> token --Receive--> staking
    user --UnPool-----> pool --UnbondStake--> staking
    user --ClaimUnPool> pool --WithdrawStake--> staking --Burn--> token
                        pool <--reply-- (amount)  --> Anchor, bank
    any  --RedeemEarning> pool --Send--> aUST/Anchor
                        pool --UpdateGlobalIndex + coins--> staking
    any  --GetTicket--> staking --Register + coins--> LoTerra

A message of a user and all that follows from it is one transaction of the
chain: it happens entirely or not at all. Inside it the messages are handled
one after the other, depth first, each handler on the state the ones before it
left. Two levels follow: `Messages` handles one message or reply in a step,
and `Dogether` one transaction, which `Messages` is proved to implement. Above
them is the hard part: what a sequence of transactions by several users can
reach, with arithmetic that rounds down everywhere, panics when a result does
not fit, and a chain that takes a tax on every transfer.
Hard to test, in order of weight:

* lazy distribution: every handler must bring a holder up to the global index
  with the *old* balance, and spending must move the index with the rewards;
* money counted in one place and kept in another: `prev_reward_balance` and the
  staking contract's wallet, `total_ust_pool` and the value of the aUST;
* the same deposits counted by three contracts, in four variables, while whose
  they are is known to the staking contract only;
* a transaction that is a chain of up to eight messages: amounts fixed in the
  first handler and used by the last, an amount and an address read back from
  an event, a refusal anywhere in between;
* claims: a list per user, a release height, a greedy pass with a cap;
* roundings that add up, or that make a transfer one uusd short;
* limits: the decimal of a balance may not fit though the balance does;
* pages read while keys are added, from a key extended by zero bytes twice.

`PROJECT.json` lists every such hazard at its line, with the properties for it.

## 2. Modules

| Module | Models | Uses |
|---|---|---|
| `Decimals` | `math.rs` and the Uint128/Decimal operations used; `Unit` is 10^18 and `MaxUint` 2^128 - 1 in the code, parameters here | |
| `Sums` | sums over a finite set, defined without recursion | |
| `Taxation` | `taxation.rs` and the chain's charge | `Decimals` |
| `RewardLedger` | abstract: what the staking contract promises, rewards shared out at once | `Decimals`, `Sums` |
| `Staking` | the staking contract | `Taxation`, `Sums` |
| `Cw20` | the token | `Decimals`, `Sums` |
| `Dogether` | the pool, composed with `Staking` and `Cw20` and with Anchor as environment | `Staking`, `Cw20` |
| `DepositLedger` | abstract: what the pool promises its users, a deposit each, asked back in parts and paid when due | `Decimals`, `Sums` |
| `Messages` | the three contracts and the chain one message at a time, from before the deployment | `Dogether` |
| `Pages` | the paged queries and their reader | |
| `MCTaxation`, `MCRewardLedger`, `MCStaking`, `MCDogether`, `MCMessages`, `MCPages` | instances for TLC: constants, bounds, fairness | |
| `SetTheorems` | induction over finite sets and over initial segments, least and greatest elements, listing a finite set in a given order | |
| `ArithmeticTheorems` | lemmas on sums, roundings and the tax | `SetTheorems` |
| `TaxationProofs`, `RewardLedgerProofs`, `StakingProofs` | theorems on one module each | `ArithmeticTheorems` |
| `PagesProofs` | theorems on the paged queries | `Pages`, `SetTheorems` |
| `DogetherProofs` | theorems on the token and on the composition, and that the pool implements `DepositLedger` | `Dogether`, `StakingProofs` |
| `MessagesProofs` | the inductive invariant of `Messages`, the stages of each transaction, the proof that the messages implement the transactions, and what follows for the messages from the theorems on the transactions. `MCMessages` extends it: TLC checks the invariant that is proved | `Messages`, `DogetherProofs` |

Definitions that begin with `Slip:` in their comment are plausible mistakes in
the code next to which they stand. They are part of no specification: each
property has one that breaks it when put in the place of the real definition
(`PROJECT.json`, "mutants").

### Correspondence with the code

* **One operator per handler, one action per transaction.** A handler that
  returns an error or panics changes nothing, so its conditions are conjuncts.
  In `Staking` a transaction is one handler. In `Dogether` it is the pool's
  handler and every handler, external call and reply behind it, each with its
  guards in the state it finds: `Pool` is `try_pool`, `execute_bond` and
  `handle_bond`; `ClaimUnPool` is `try_claim_un_pool`,
  `handle_withdraw_stake`, `execute_burn` and `withdraw_reply`.
* **Numbers.** A Decimal is its raw numerator. `Fits(n)` stands where the code
  stores or converts to 128 bits: Uint128 additions panic on overflow
  (`overflow-checks = true`), and so do conversions out of 256 bits. A
  subtraction that the code checks is a guard `>=`.
* **Claims.** The code keeps a list per address. The model keeps one set of
  records with the owner and the position in its list. `partition` with a cap
  is not a loop in the actions: `IsPaid(h, cap, paid)` says which set of claims
  is paid, by a condition on each claim and the ones before it. The loop is
  beside it, `ClaimTokens`, with what it does to one claim (`Partitioned`) and
  the list as it is stored (`ClaimList`). `SumsFit` guards the sums the loop
  forms under a cap, of claims it then refuses too. That exactly one set satisfies the
  condition, the one the loop computes, is `PartitionIsOnePass`, checked and
  proved.
* **Combinations.** The loop that looks up and saves each combination rejects a
  list exactly when it repeats an element or has one that is stored
  (`CombinationsAreNew`).
* **Messages.** In `Messages` a step is one handler. `pending` is what the
  transaction still has to handle: `Emit` puts what a handler sends in front of
  it, which is the depth-first order of the chain, and after each message with
  `SubMsg::reply_on_success` its reply. A reply hears the events emitted since
  its message was sent (`since`), and `FirstHeard` is the `find` of
  `cw20_instance_reply`, `staking_instance_reply` and `withdraw_reply`; where
  the code unwraps an attribute that is not there the step is disabled. A
  handler that refuses is not a step; the transaction then has `Abort` only,
  which brings back `committed`. `Abort` is possible at any message, which also
  stands for a call that runs out of gas. The handlers of `Staking` and `Cw20`
  are used as they are, with the sender of the message held against the
  address stored at instantiation; coins of a message are credited first.
  Events are kept where their type or attributes matter to a reply: those of
  `instantiate`, `WithdrawStake` and `Burn`.
* **Who owns a deposit.** `DepositLedger` has a deposit per user and the
  requests for what is asked back. Under the mapping a deposit is the holder's
  balance in the staking contract, a request is a claim, and the total is the
  pool's `total_ust_pool`: three variables of two contracts.
* **Pages.** A key is a sequence of bytes. `calc_range_start` appends a zero
  byte to a holder's key, and the range begins at that key extended by the zero
  byte of `Bound::exclusive`; the token's accounts get the latter only. A
  reader asks from the last key it was given until a page is empty that it
  asked a key of: a limit of zero is accepted, and its page says nothing;
  transactions store keys between two pages and never remove one (a holder or
  a balance of zero stays).
* **Callers.** In `Staking` any of `Callers` may send any message, so the
  authorisation guards matter. In `Dogether` messages to the staking contract
  and the token come from the contracts that own them, except the two anyone
  may send (`GetTicket`, `Burn`). In `Messages` users send all of them to all
  contracts (`ForeignMessages`), and that nothing comes of it is part of
  `ImplementsTransactions`.
* **Coins.** Coins attached to a message are credited before the handler runs.
  Coins that a handler does not refuse, and plain transfers, are `GiveRewards`,
  `GiveUusd` and `GiveAust`.
* **Tax.** It is queried in every transaction: a parameter of the action, so it
  may change from one to the next. `NetworkTax`, the chain's charge, is
  external: the smaller of amount times rate rounded down and the cap. This is
  the law that `compute_tax` inverts.
* **Anchor.** A deposit mints `deposit / rate` aUST, a redemption pays
  `aust * rate`, both rounded down, the latter less tax. The rate starts at
  `Unit` and only rises.

## 3. Runs

Distinct states are those of two TLC workers.

| Run | Instance | Checks | States |
|---|---|---|---|
| `taxation` | amounts to 40, six rates of tenths, five caps | a wallet that sends `deduct_tax` of what it has is never overdrawn, keeps at most a rounding, and more in gives no less out | 2,407 |
| `ledger` | two accounts, stake to 4, rewards to 5 | `OwedIsCovered` of the abstract ledger | 2,448 |
| `rewards` | two holders, amounts 1 and 2, stake to 3, rewards to 4, one combination in lists with and without a repeat, two draws, no tax | types, `StakeConserved`, `RewardsSolvent`, `RewardsBacked`, `TicketsRegisteredOnce`, and that `Staking` implements `RewardLedger` | 347,594 |
| `claims` | two holders, stake to 4, three blocks, a period of one, with and without a cap of 2 | `PartitionIsOnePass`, `UnbondingDelayKept`, `StakeMovesIntoClaims`, and `MatureClaimsPaid` (liveness) | 39,181 |
| `limits` | `MaxUint` 12 with `Unit` 4: a balance of 3 is the largest Decimal | `NoHolderLockedOut` | 182,098 |
| `accounts` | two users, deposits of 3, unpooled in ones and threes, an account with an initial token, rates 4 and 8 over `Unit` 4, no tax | `DogetherInv`, `AccountsAgree`, `ClaimNeedsOnlyMoney`, `InterestNeverLost`, and that `Dogether` implements `DepositLedger` | 276,806 |
| `money` | one user, deposits of 3 and 5, rates 4 to 6 over `Unit` 4, gifts, tax of a quarter | `OneDrawPerPeriod`, `ClaimNeedsOnlyDust`, `EarningNeedsOnlyDust`, `PrincipalKept` | 139,528 |
| `calls` | two users, one of them the initial holder, named in two rows, of nearly all the token can count; a token message it refuses and one it accepts; deposits of 5, tax of a quarter, a rate that doubles, two draws | `MessagesInv`, `WiredOrAbsent`, `AccountsAgreeInFlight`, `PayoutIsForTheClaims`, the token's `Cw20TypeOK` and `SupplyCoversBalances`, and that `Messages` implements `Dogether` | 587,760 |
| `pages` | four keys of either kind, limits of 0, 1 and 3 and none: pages of no key, of 1 and of 2 | `NothingSkipped`, `NothingTwice` | 1,374 |
| `fees`, `decimals`, `payout` | see section 4 | one property each that the code does not keep | |

What the properties say:

* `WalletNeverOverdrawn`, `NothingWithheld`, `DeductTaxMonotone`: both sides
  round down, the tax may be capped on one side and not on the other, and yet
  what is sent and its tax never exceed what was there; what stays behind is at
  most one part per division.
* `OwedIsCovered`, `RewardsSolvent`: all rewards together, with their decimals,
  are covered by what was received and not spent. For the contract this is why
  the subtraction at `staking/user.rs:126` never refuses a holder.
* `PaysLikeLedger`: refinement. Under `owed <- AllRewards` a settlement is a
  stutter or a change of stake, a distribution gives every holder its share at
  once, a ticket takes its cost and the decimals of its buyer.
* `RewardsBacked`: the counter is covered by the wallet. It holds without tax
  (run `rewards`) and fails with it (run `fees`).
* `StakeConserved`, `StakeMovesIntoClaims`: the divisor of every distribution
  is the sum of the balances, and what leaves a balance is exactly what its new
  claim is for.
* `NoHolderLockedOut`: a bond of a balance beyond the largest Decimal is
  accepted, and its holder is then refused everything, unbonding included. The
  property states how far that reaches: while each balance and the counter fit
  a Decimal, nobody is refused. With 10^18 parts that limit is about 3.4 * 10^20
  uusd.
* `AccountsAgree`: `total_ust_pool` = bonded stake + claims = the staking
  contract's tokens, after every transaction. It is why neither
  `checked_sub` of `withdraw_reply` nor the burn can refuse a mature claim.
* `KeepsDeposits`: refinement of `DepositLedger`. That the totals agree would
  allow one user's claim to be paid from another's deposit, or a claim to be
  paid twice and another never; the ledger does not. A deposit changes by its
  owner's call only, a request is made of what was asked, waits its period, and
  everything due is paid at once.
* `ClaimNeedsOnlyMoney`: whenever the aUST and the uusd for a matured claim are
  there, `ClaimUnPool` is enabled: no counter of the three contracts, no
  conversion and no burn stands in the way. The condition on
  `total_ust_pool` is the largest Decimal again.
* `InterestNeverLost`: what the contracts own beyond the deposits grows by
  interest and gifts, falls by tickets, and is otherwise kept up to the
  rounding of one redemption or deposit. A draw that is late, refused
  because nobody is bonded, or made by the first to pool again loses nothing.
  Who gets that interest is another matter: it is shared by the stakes of the
  moment of the draw. It is stated without tax, which takes its part of each
  transfer.
* `ImplementsTransactions`: refinement of `Dogether` by `Messages`, under
  "the state is the committed one". Every message of every handler, in the
  order of the chain, with a failure anywhere and with messages from the wrong
  senders, amounts to the transactions of `Dogether` or to nothing. It is what
  makes the properties and theorems about `Dogether` speak of the code: its
  actions put guards of late handlers on an early state, and compute in one
  expression what several handlers compute in turn.
* `MessagesInv`: at every message, the state worked on is the committed one
  changed as far as the message that started the transaction asks for, the
  pending messages are those it still needs, with the amounts and addresses it
  fixed, and the books of the three contracts are sound, half done as the
  transaction is. It is the inductive invariant of section 6, and TLC checks it
  state by state.
* `AccountsAgreeInFlight`: `AccountsAgree` at every message, with what is on
  its way: each handler books what it passes on.
* `PayoutIsForTheClaims`: what `withdraw_reply` is about to send goes to the
  owner of the claims just taken out, and with its tax costs no more than
  they were for. The reply knows neither; it reads the first `wasm` event, and
  the token's `Burn` has emitted one too.
* `WiredOrAbsent`: between transactions the addresses in the three contracts
  are all right or all absent.
* `NothingSkipped`, `NothingTwice`: a reader that went on to an empty page, of
  which it asked at least one key, has been given every key that was there when it started, in order and once.
* `PrincipalKept`: no transaction makes the aUST worth less than the deposits,
  nor lowers a negative difference further, but a deposit may cost the
  rounding of the aUST minted for it.
* `OneDrawPerPeriod`: earnings cannot be redeemed ahead of their period,
  however calls and blocks interleave.
* `ClaimNeedsOnlyDust`, `EarningNeedsOnlyDust`: the aUST redeemed for a claim,
  or for a draw, brings what is then sent, up to one aUST's worth and one
  uusd: what the pool must have of its own does not grow with the amounts.
* `MatureClaimsPaid`: a claim due at a block is paid, whatever else its owner
  unbonds in the meantime.

### Bounds, and why they are enough

`Unit` is 4 in most runs: every division then has remainders, and amounts up to
6 cross the unit several times. A distribution of 1 or 3 over stakes of 1 to 3
gives every rounding of a share. Two holders are the smallest number among whom
rewards can be promised twice; the theorems of section 6 are for any number.
Three blocks with a period of one give claims that are waiting, due and overdue
at once. In `limits`, `calls` and `ledger` `MaxUint` is 12, 70 and 5, and
amounts reach it: in `calls` it is the token's supply, which refuses a second
deposit until the initial holder has burnt its own tokens. In the other runs
every balance and wallet stays below it, but not the global index, which each
distribution raises by a share of a whole `Unit` and more: there `MaxUint` is
what ends the distributions (20 in `rewards`), as 128 bits would in the
contract. Two users can have claims at once in `accounts`; one is enough in
`money`, where amounts and rates matter and the users are indistinguishable. In
`calls` one transaction runs at a time, as on the chain, and may fail at each
of its messages; height and time allow for a claim, a second one while the
first waits, and two draws. In `pages` the keys end in zeros, or are prefixes
of one another where the program allows it.

The bounds are conjuncts of the instances' next-state relations (`Bounds'`) and
the constants' names say what they bound: `MaxHeight`, `MaxLottery`,
`MaxStake`, `MaxRewards`, `MaxUusd`, `MaxAust`, `MaxRate`, `MaxTotal`,
`MaxPot`. They are what ends every behaviour, hence `CHECK_DEADLOCK FALSE`
where they do. Holders are symmetric in the runs without liveness; the two
refinements checked with symmetry are action properties that treat the users
alike.

### Fairness

`MatureClaimsPaid` assumes that blocks keep coming (the chain) and that each
holder keeps asking for its mature claims through the pool, which passes no cap
(`dogether/contract.rs:217-220`). Nothing else is assumed: no fairness of the
holder's other messages, and none of the caps. The contract has no process of
its own, so without someone asking nothing would happen. The property is about
the staking contract. At the pool a matured claim may also wait for a uusd
(finding 3).

## 4. Disagreements found

1. **`fees`, `RewardsBacked`** (`staking/user.rs:68-82,124`). The fee reserved
   for a ticket is what `deduct_tax` would take out of its cost, but the whole
   cost is sent and the chain's tax comes on top: rate times cost against
   rate / (1 + rate) of it. The counter stays above the wallet, and the checked
   subtraction behind "claimed_rewards = current_balance - prev_balance"
   (`global.rs:35`) fails until new coins make up for the difference; those
   coins are then never shared.
2. **`decimals`, `TicketKeepsDecimals`** (`staking/user.rs:134`). The comment
   says "adding new decimals"; the code stores whole uusd. The test that would
   have shown it is commented out (`testing/tests.rs:784-793`).
3. **`payout`, `MatureClaimPayable`** (`dogether/contract.rs:489`). The aUST
   redeemed for a claim is rounded down, so what Anchor pays may be below what
   the reply sends the user. With no uusd left in the pool the claim is
   refused. `ClaimNeedsOnlyDust` bounds what is missing.

## 5. What TLC checks and no theorem covers

* `MatureClaimsPaid`: liveness under fairness.
* `ClaimNeedsOnlyMoney` as it stands: it speaks of ENABLED. What it says of the
  guards is proved (`ClaimsNeedOnlyMoney`, section 6), and so is that a claim
  whose guards hold becomes a step with the values it assigns
  (`AllowedClaimHappens`); that such values exist is all that ENABLED adds.

## 6. Theorems

All hold for every value of the constants under the named assumptions: `Unit` a
positive natural, `MaxUint` a natural, finitely many holders and addresses,
amounts and tax records of their types, combinations in lists. Those on `Pages`
assume finitely many keys, of bytes, of one of the two kinds the contracts
store. Those on `Messages` assume besides that no user has the address of one
of the three contracts, and that no contract or deployer has the one that
stands for no address (`MessagesAssumption`).

| Theorem | States |
|---|---|
| `RewardLedgerProofs!LedgerSafety` | the ledger's types, its counter, `OwedIsCovered` |
| `StakingProofs!StakingTypeCorrect` | `StakingTypeOK` |
| `StakingProofs!StakeIsConserved` | `StakeConserved` |
| `StakingProofs!RewardsAreSolvent` | `RewardsSolvent` |
| `StakingProofs!StakingImplementsLedger` | `StakingSpec => PaysLikeLedger` |
| `StakingProofs!HoldersAreNotLockedOut` | `NoHolderLockedOut` |
| `StakingProofs!UnbondingTakesItsTime` | `UnbondingDelayKept` |
| `StakingProofs!StakeIsInOnePlace` | `StakeMovesIntoClaims` |
| `StakingProofs!TicketsAreRegisteredOnce` | `TicketsRegisteredOnce` |
| `StakingProofs!UntaxedRewardsAreBacked` | `RewardsBacked`, if no tax has a rate |
| `StakingProofs!ClaimsPaidInOrder` | `PartitionIsOnePass` |
| `DogetherProofs!Cw20TypeCorrect` | `Cw20TypeOK`, of the token alone |
| `DogetherProofs!SupplyAlwaysCovers` | `SupplyCoversBalances`, of the token alone |
| `DogetherProofs!PoolKeepsSupply` | `SupplyCoversBalances`, in the composition |
| `DogetherProofs!AccountsAlwaysAgree` | `AccountsAgree` |
| `DogetherProofs!PoolIsSound` | `DogetherInv` |
| `DogetherProofs!PoolImplementsLedger` | `DogetherSpec => PaysLikeLedger` |
| `DogetherProofs!DrawsKeepTheirPeriod` | `OneDrawPerPeriod` |
| `DogetherProofs!PrincipalIsKept` | `PrincipalKept` |
| `DogetherProofs!ClaimsNeedOnlyDust` | `ClaimNeedsOnlyDust` |
| `DogetherProofs!EarningsNeedOnlyDust` | `EarningNeedsOnlyDust` |
| `DogetherProofs!InterestIsNeverLost` | `InterestNeverLost` |
| `DogetherProofs!PoolKeepsDeposits` | `DogetherSpec => KeepsDeposits` |
| `DogetherProofs!ClaimsNeedOnlyMoney` | `ClaimNeedsOnlyMoney`, as guards in place of ENABLED |
| `MessagesProofs!EveryMessageKeepsTheBooks` | `MessagesInv` |
| `MessagesProofs!MessagesImplementTransactions` | `MessagesSpec => ImplementsTransactions`, for token rows whose sum fits |
| `MessagesProofs!OverflowingTokenIsNeverDeployed` | and for the others: there is never a pool |
| `MessagesProofs!DeploymentIsWhole` | `WiredOrAbsent` |
| `MessagesProofs!AccountsAlwaysAgreeInFlight` | `AccountsAgreeInFlight` |
| `MessagesProofs!PayoutsAreForClaims` | `PayoutIsForTheClaims` |
| `MessagesProofs!TokenIsSoundInFlight` | `Cw20TypeOK` and `SupplyCoversBalances`, at every message |
| `MessagesProofs!PromisesAreKept` | `KeepsDeposits`, `PaysLikeLedger`, `PrincipalKept`, `InterestNeverLost` and `DogetherInv` of the committed state of `Messages`, for token rows whose sum fits |
| `PagesProofs!PagesInvariant` | `PagesInv`, the inductive invariant |
| `PagesProofs!NoKeyIsSkipped` | `NothingSkipped` |
| `PagesProofs!NoKeyComesTwice` | `NothingTwice` |
| `PagesProofs!ReadingIsBounded` | no more keys are given than are stored |
| `TaxationProofs!DeductedCoversTheTax` | `WalletNeverOverdrawn` |
| `TaxationProofs!OnlyRoundingsWithheld` | `NothingWithheld` |
| `TaxationProofs!PaymentsKeepTheirOrder` | `DeductTaxMonotone` |

**The ledger.** `LedgerInv` (types, counter = sum, owed <= pot) is inductive.
The one step that needs thought is a distribution: the sum of `owed + stake *
share` is the old sum plus `total * share`, and `share` is `amount * Unit \div
total`, so the growth is at most `amount * Unit`. That the counter is the sum
is used exactly there, which is why solvency is not inductive by itself.
`ArithmeticTheorems` gives the algebra of sums by counting the elements of
disjoint sets, since a recursive sum could not be reasoned about without
induction over data.

**The staking contract.** `StakingInv` is `StakingTypeOK` together with the
ledger's invariant on the mapped state. Neither half is enough: that
`total_balance - amount` stays in 128 bits needs that the total is a sum with
the holder's balance in it, and that a step maps to the ledger needs that no
index is ahead. For each handler one lemma shows that it keeps the types
(`BondKeeps`, `UnbondKeeps`, `WithdrawKeeps`, `UpdateKeeps`, `GetTicketKeeps`,
for any amounts, not only those of a run), then `StakingStepRefines` that every
step is one of the ledger's or a stutter, and the ledger's own lemma carries
its invariant over. Refinement rests on one fact of arithmetic,
`RewardsExact`: an index times a whole balance has nothing to round,
because `balance * Unit` is divided by `Unit` at once. So settling often or
seldom makes no difference. Solvency of the contract then follows from the
ledger's. A ticket's list has no repetition, so its keys are as many as its
places (`KeysAreAsMany`, a bijection), and they are none of those stored: with
the combinations finite, that is `TicketsRegisteredOnce`. `RewardsBacked` is
proved from the assumption that no tax has a rate, which is the one the run
`fees` drops: then a ticket leaves the wallet by its cost and the counter by no
less (`Untaxed`).

**The loop over the claims.** `IsPaid` is a condition that mentions the set it
defines; a model may rest on it only if it has one solution.
`ClaimsPaidInOrder` goes along the list by induction over its initial segments
(`PrefixInduction`, which takes a set of indices where a theorem of the library
would take a predicate). What the loop has paid after `n` claims
satisfies the condition for the first `n` (`PassPays`), since a later claim
changes nothing for an earlier one; and two sets that satisfy it agree on the
first `n`, so they are equal (`PaidIsUnique`). The list exists because the
claims of a holder are finitely many and no two have the same position, which
are conjuncts of `StakingTypeOK` (`ClaimListIs`, from `ListInOrder`).

**The token.** `total_supply - amount` is guarded by itself, so types need no
strengthening; coverage needs that the rows' sum covers the last row of every
address (`SumMatching`: each balance is matched with a row of its own).

**The composition.** The lemmas on the other contracts' handlers are about any
amount, and those handlers are conjuncts of the pool's transactions, so they
apply to the amounts the pool computes. `PoolInv` is `DogetherInv` with the
ledger's invariant on the staking contract's books: the type half of each
handler's lemma needs it. `AccountsAgree` rests on two facts about sums of
claims: a new claim adds its amount, since its position is new and no other
claim is lost in the set (`NewAmount`), and a paid one takes its amount with it
(`PaidAmount`). `WiringAssumption` gives the start (no initial tokens) and that
nobody but the pool moves the staking contract's tokens. For `PrincipalKept`,
`InterestExact` shows that the interest is `aust * rate - total_ust_pool *
Unit` with nothing rounded, and `AustWorthBelow` and `AustMintedBounds` say on
which side of a deposit, a claim or an earning its aUST falls. The rate is only
assumed to be at least `Unit` and never to fall. The proof needs no accounts
but the pool's: that the amount of a claim is the one that stops being owed is
a matter of the transaction.

**Nothing but money.** The guards of `ClaimUnPool` are those of four handlers.
What the claims due are for is part of `total_ust_pool` by `AccountsAgree`, and
that is what the staking contract's tokens are; the supply covers these
(`PoolKeepsSupply`), so neither `withdraw_reply` nor the burn can refuse. The
rest is the money the hypothesis is about.

**The promise.** `KeepsDeposits` needs no invariant of its own: `PoolInv` says
that a new claim is none of those already there (its position is past them
all), and that a paid set with no cap is the owner's matured claims, which is
the ledger's `Pay`. Everything else is that no other transaction touches a
balance, a claim or the total.

**The interest.** Redeemed aUST becomes uusd but for a fraction, whatever is
then paid or handed over: one lemma, `RedeemKeepsSurplus`, serves the claim,
where as much stops being owed as is paid, and the draw, where the staking
contract gets what the pool sends. A deposit loses the rounding of its aUST.

**The messages.** That whole transactions are what stays is not inductive as it
is stated: a step of `Messages` that commits must be a transaction of
`Dogether`, and what it commits was computed by handlers that ran before, each
on what the last one left. `MessagesInv` remembers what they did. It has one
*stage* for each message a transaction can be about to handle (`PoolDeposits`,
`PoolBonds`, `PoolReceived`, ...), and a stage says three things: how the state
differs from `committed`, as a function of what the user sent (`DidBond`,
`DidMint`, `DidWithdraw`, ...), which guards have been passed, and which
messages and events there are. The sender and the amount are bound by the
stage, so a reply that read another recipient, or a message with another
amount, would leave no stage to be in.

The proof goes by the type of the next message: `Head(pending)` decides the
stage, so for each of them one lemma takes its handler from that stage to the
next (`HandlesWithdrawStake` from `ClaimAsks` to `ClaimBurns`,
`HandlesClaimBurn` to `ClaimReplies`, and so on to `Finished`). A handler whose
message a foreign caller sent is either refused, by the address it holds
against the sender, or is one of the two that anyone may call. That the books
stay sound is not proved again: the lemmas of `StakingProofs` and
`DogetherProofs` are about one handler and any amount. Where a stage has
nothing pending but `Done`, the difference to `committed` is, conjunct by
conjunct, that of an action of `Dogether` (`Whole`; `CommitsPool`,
`CommitsClaim`, ...), and that is the step which the commit maps to; every
other step leaves `committed` as it is, or is one of the environment. The three
other invariants are read off the stages.

The mapped initial state has the token's rows already, while the code checks
them at a message of the deployment. So the refinement assumes that their sum
fits 128 bits; for rows whose sum does not, `OverflowingTokenIsNeverDeployed`
shows that the deployment never ends, and there is no pool to speak of.

So what is proved about whole transactions holds of the messages.
`PromisesAreKept` says so in one theorem: `Promised` is `DogetherProofs` for
the committed state, its `DogetherSpec` is the one that `Messages` implements
(`PromisedSpec`: two instances with the same substitution are the same
formulas), and its theorems are cited for it.

**The pages.** A zero byte in a key, twice, and a prefix that is another key
make the order of the store the difficult part. `BelowIs` reduces it to the
first place at which two keys differ, with the end of a key below any byte
(`At`); that gives that it is irreflexive, transitive and total. `FromIs` and
`AfterFrom` show that among the keys that are stored those in the range of the
next page are the ones above the last key given, whichever of the two ways its
start was extended. `PagesInv` says that what was given is increasing and
stored, and, since that alone says nothing of what was left out, that every key
known from the start and not yet given is in the next range (`NotPassed`). A
page keeps it, because it is a first part, in order, of what is in the range
(`InOrderIs`, `PageIs`); a store keeps it, because it does not change `known`.
An empty page then means that nothing known is left, unless no key was asked
for; the limits may be any naturals, and the default one and the highest any
but zero.

**The tax.** `compute_tax` keeps back what is left of an amount divided by 1 +
rate, rounded down; the chain takes rate times the net, rounded down.
`DeductTaxIs` and `NetworkTaxIs` reduce both to one division each,
`ByRateBounds` says on which side of it the result falls, and `SendKeeps` puts
them together for either side of the cap. That `deduct_tax` grows with its
argument, and by at most what the argument does, is `DeductTaxGrows` and
`DeductTaxGrowsSlowly`; the latter carries the dust theorems: the redemption
falls short by at most an aUST's worth (`AustWorthNear`), and after tax by no
more than that (`RedeemedShortByDust`).

Out of the provers' reach: liveness under fairness, and ENABLED. These stay
with TLC (section 5). The loop and the sorting could be proved
because they are recursive functions and choices from a finite set, not
recursive operators, and because an induction over a set of numbers or a set of
sets, which `SetTheorems` derives from the well-foundedness of inclusion, needs
no operator as a parameter.

## 7. How it grew, and what is left

In this order: `Decimals`, `Taxation`, `Sums`; `Staking` with its runs;
`RewardLedger` and the refinement; `Cw20`; `Dogether` and its theorems;
`Messages`, which took over the token's run; `DepositLedger`; `Pages`; the
theorems on the tax, the dust, the deposits, the tickets and the interest; the
invariant of `Messages` and the proof that it implements `Dogether`; the
theorems on the pages, the loop over the claims, the guards of a claim, and the
promises at the level of the messages.

Left: liveness at the level of the pool, which needs assumptions on the
market's rates and liquidity that no code here makes.

## 8. Running

    tlc -workers 2 -config MCStakingRewards.cfg MCStaking
    tlapm StakingProofs.tla

Each row of section 3 is a configuration of that name (`accounts` is
`MCDogetherAccounts.cfg`, `calls` is `MCMessages.cfg`). The longest runs take
about two minutes, the longest proof (`MessagesProofs`) about nine.

## 9. Not modelled

* Queries that return a stored value as it is; `migrate`: empty.
* A pool given token rows for the staking contract's address would start with
  the accounts apart; the address is not known when the rows are written, and
  `WiringAssumption` excludes it.
* `withdraw_reply` reads the first event of type `wasm` as the chain orders
  them: a contract's own events before those of the messages it sends. A chain
  that merged or reordered events is not modelled.
* The cost of a call: a list of claims grows with every `UnPool` and is read
  and stored whole, so past some length it needs more gas than a block has.
* Denominations: every coin is uusd. Handlers that take funds refuse others.
* Addresses and their canonical form; JSON; wording of errors. (The error
  `RetryRedeemLater` speaks of a block height and is given seconds.)
* Overflow of 64-bit heights and times, and of `1 + rate` in `compute_tax`,
  which takes a tax rate within one of the largest Decimal.
* Anchor's own failures: a market that cannot pay, or a falling rate.
* What LoTerra does with a ticket.

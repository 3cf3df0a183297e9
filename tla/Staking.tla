------------------------------ MODULE Staking -------------------------------
(***************************************************************************)
(* loterra-staking-contract-dogether: holders bond cw20 tokens, rewards in *)
(* uusd are shared by a global index, unbonding waits in claims, rewards   *)
(* buy lottery tickets.  One operator per handler; a handler that returns  *)
(* an error or panics leaves the state alone, so its guards are conjuncts. *)
(*                                                                         *)
(* Environment: the contract's uusd balance, the block height and the      *)
(* LoTerra lottery (its counter and the tickets it has registered).        *)
(***************************************************************************)
EXTENDS Taxation, Sums, Sequences, FiniteSetsExt

CONSTANTS
  Holders,          \* addresses that can hold a stake
  Admin,            \* config.admin: the contract that instantiated this one
  Cw20Token,        \* config.cw20_token_addr
  UnbondingPeriod   \* config.unbonding_period, in blocks

CONSTANTS
  Callers,          \* addresses messages come from
  Amounts,          \* amounts bonded and unbonded
  Rewards,          \* coins sent with UpdateGlobalIndex or given
  Prices,           \* prices of a ticket the lottery may ask
  Taxes,            \* taxes the chain may report
  Caps,             \* the cap of WithdrawStake: {} for None, {limit} for Some
  Combinations      \* the combination lists of GetTicket

ASSUME HoldersAssumption == IsFiniteSet(Holders)
ASSUME UnbondingAssumption == UnbondingPeriod \in Nat
ASSUME InputsAssumption ==
  /\ Amounts \subseteq Uint
  /\ Rewards \subseteq Uint
  /\ Prices \subseteq Uint
  /\ Taxes \subseteq TaxType
  /\ Caps \subseteq SUBSET Uint
  /\ \A combination \in Combinations : combination \in Seq(Range(combination))

VARIABLES
  global_index, total_balance, prev_reward_balance,  \* STATE
  holders,           \* PREFIXED_HOLDERS: address -> Holder
  claims,            \* CLAIM, flattened: one record per claim of anyone
  combinations       \* PREFIXED_COMBINATIONS: <<lottery, holder, combo>>

VARIABLES
  staking_uusd,      \* uusd the contract owns at the bank
  height,            \* env.block.height
  lottery_counter,   \* the lottery's current draw
  lottery_tickets    \* tickets the lottery has registered for this contract

state == <<global_index, total_balance, prev_reward_balance>>
lottery == <<lottery_counter, lottery_tickets>>
stakingVars ==
  <<state, holders, claims, combinations, staking_uusd, height, lottery>>

-----------------------------------------------------------------------------
(* State.                                                                   *)

Holder == [balance : Uint, index : Uint, pending_rewards : Uint]

\* A claim.  The code keeps a list per address, and the order of the list
\* decides which claims a cap lets through: position is that order.
Claim == [owner : Holders, position : Nat, amount : Uint, release_at : Nat]

\* read_holder of an address never stored.
NoHolder == [balance |-> 0, index |-> 0, pending_rewards |-> 0]

StakingInit ==
  /\ global_index = 0
  /\ total_balance = 0
  /\ prev_reward_balance = 0
  /\ holders = [h \in Holders |-> NoHolder]
  /\ claims = {}
  /\ combinations = {}
  /\ staking_uusd = 0
  /\ height = 0
  /\ lottery_counter = 0
  /\ lottery_tickets = 0

-----------------------------------------------------------------------------
(* Rewards.                                                                 *)

\* Slip: the operands of the subtraction swapped.
RewardsBackwards(user_index, user_balance) ==
  DecimalMultiplication(DecimalSubtraction(user_index, global_index),
                        FromRatio(user_balance, 1))

\* calculate_decimal_rewards.
CalculateDecimalRewards(user_index, user_balance) ==
  DecimalMultiplication(DecimalSubtraction(global_index, user_index),
                        FromRatio(user_balance, 1))

\* All the rewards of a holder with their decimals: those since its index
\* and those pending from before.
AllRewards(h) ==
  DecimalSummation(
    CalculateDecimalRewards(holders[h].index, holders[h].balance),
    holders[h].pending_rewards)

\* The 128-bit conversions on the way to AllRewards succeed.
RewardsComputable(h) ==
  /\ Fits(FromRatio(holders[h].balance, 1))
  /\ holders[h].index <= global_index
  /\ Fits(CalculateDecimalRewards(holders[h].index, holders[h].balance))
  /\ Fits(AllRewards(h))

\* query_accrued_rewards, the whole rewards of a holder.
QueryAccruedRewards(h) == Floor(AllRewards(h))

\* Slips: the index left where it was, the pending rewards overwritten.
SettledKeepsIndex(h) == [holders[h] EXCEPT !.pending_rewards = AllRewards(h)]
SettledDropsPending(h) ==
  [holders[h] EXCEPT
     !.index = global_index,
     !.pending_rewards =
       CalculateDecimalRewards(holders[h].index, holders[h].balance)]

\* A holder brought up to the global index.
Settled(h) ==
  [holders[h] EXCEPT !.index = global_index,
                     !.pending_rewards = AllRewards(h)]

\* Slip: the total not saved with the holder.
MoveStakeOfHolder(h, balance, total) ==
  /\ RewardsComputable(h)
  /\ holders' = [holders EXCEPT ![h] = [Settled(h) EXCEPT !.balance = balance]]
  /\ UNCHANGED state

\* What handle_bond and handle_unbound store: the holder settled with its
\* old balance, then the new balance, and the new total.
MoveStake(h, balance, total) ==
  /\ RewardsComputable(h)
  /\ Fits(balance) /\ Fits(total)
  /\ holders' = [holders EXCEPT ![h] = [Settled(h) EXCEPT !.balance = balance]]
  /\ total_balance' = total
  /\ UNCHANGED <<global_index, prev_reward_balance>>

-----------------------------------------------------------------------------
(* Claims.                                                                  *)

ClaimsOf(h) == {c \in claims : c.owner = h}

AmountOf(cs) == SumOver(cs, [c \in cs |-> c.amount])

\* Slips: a block early, and only in the very block.
MatureEarly(c) == height + 1 >= c.release_at
MatureOnce(c) == height = c.release_at

\* Expiration::AtHeight(release_at).is_expired.
Mature(c) == height >= c.release_at

\* create_claim: pushed at the end of the owner's list.
NextPosition(h) == 1 + Max({0} \cup {c.position : c \in ClaimsOf(h)})

\* Slip: the new claim stored in place of the list.
CreateOnlyClaim(h, amount, release_at) ==
  claims' = (claims \ ClaimsOf(h))
              \cup {[owner |-> h, position |-> 1,
                    amount |-> amount, release_at |-> release_at]}

CreateClaim(h, amount, release_at) ==
  claims' = claims \cup {[owner |-> h, position |-> NextPosition(h),
                          amount |-> amount, release_at |-> release_at]}

\* Slip: every claim held against the limit on its own.
IsPaidOneByOne(h, cap, paid) ==
  \A c \in ClaimsOf(h) :
    c \in paid <=> Mature(c) /\ \A limit \in cap : c.amount <= limit

\* The claims claim_tokens pays h, of all those it could be: a mature claim
\* is paid if the limit, when there is one, covers it and the claims paid
\* before it in the list.
IsPaid(h, cap, paid) ==
  \A c \in ClaimsOf(h) :
    c \in paid <=>
      /\ Mature(c)
      /\ \A limit \in cap :
           AmountOf({d \in paid : d.position < c.position}) + c.amount <= limit

\* The list of an owner as it is stored.
ClaimList(h) ==
  CHOOSE list \in [1 .. Cardinality(ClaimsOf(h)) -> ClaimsOf(h)] :
    \A i, j \in DOMAIN list : i < j => list[i].position < list[j].position

\* What claim_tokens does with the next claim of the list.
Partitioned(sent, c, cap) ==
  IF Mature(c) /\ \A limit \in cap : sent.total + c.amount <= limit
  THEN [total |-> sent.total + c.amount, paid |-> sent.paid \cup {c}]
  ELSE sent

\* claim_tokens as the code runs it, one pass that adds up what it pays.
ClaimTokens(h, cap) ==
  LET list == ClaimList(h)
      pass[n \in 0 .. Cardinality(ClaimsOf(h))] ==
        IF n = 0 THEN [total |-> 0, paid |-> {}]
        ELSE Partitioned(pass[n - 1], list[n], cap)
  IN  pass[Cardinality(ClaimsOf(h))]

\* The sums claim_tokens holds against a limit, those it refuses included, do
\* not overflow.
SumsFit(h, paid) ==
  \A c \in ClaimsOf(h) :
    Mature(c) =>
      Fits(AmountOf({d \in paid : d.position < c.position}) + c.amount)

-----------------------------------------------------------------------------
(* Handlers.                                                                *)

\* handle_bond, reached through handle_receive: only the token may call, with
\* no funds attached.
Bond(sender, funds, h, amount) ==
  /\ sender = Cw20Token
  /\ funds = 0
  /\ amount > 0
  /\ MoveStake(h, holders[h].balance + amount, total_balance + amount)
  /\ UNCHANGED <<claims, combinations, staking_uusd, height, lottery>>

\* handle_unbound.
UnbondStake(sender, funds, h, amount) ==
  /\ sender = Admin
  /\ funds = 0
  /\ amount > 0
  /\ holders[h].balance >= amount
  /\ MoveStake(h, holders[h].balance - amount, total_balance - amount)
  /\ CreateClaim(h, amount, height + UnbondingPeriod)
  /\ UNCHANGED <<combinations, staking_uusd, height, lottery>>

\* handle_withdraw_stake: the paid claims go, and the cw20 tokens they stand
\* for are burnt by a message to the token (module Cw20).  Coins attached to
\* it are not refused: that is GiveRewards.
WithdrawStake(sender, h, cap, paid) ==
  /\ sender = Admin
  /\ paid \subseteq ClaimsOf(h)
  /\ IsPaid(h, cap, paid)
  /\ \A limit \in cap : SumsFit(h, paid)
  /\ AmountOf(paid) > 0
  /\ Fits(AmountOf(paid))
  /\ claims' = claims \ paid
  /\ UNCHANGED <<state, holders, combinations, staking_uusd, height, lottery>>

\* handle_update_global_index.  The coins attached are credited before the
\* handler runs; they and whatever else raised the balance are the rewards.
UpdateGlobalIndex(sender, funds) ==
  LET balance == staking_uusd + funds
      claimed_rewards == balance - prev_reward_balance
  IN  /\ sender = Admin
      /\ total_balance > 0
      /\ balance >= prev_reward_balance
      /\ Fits(balance)
      /\ Fits(FromRatio(claimed_rewards, total_balance))
      /\ prev_reward_balance' = balance
      /\ global_index' = DecimalSummation(
                           global_index, FromRatio(claimed_rewards, total_balance))
      /\ Fits(global_index')
      /\ staking_uusd' = balance
      /\ UNCHANGED <<total_balance, holders, claims, combinations, height, lottery>>

\* handle_get_ticket: what the tickets cost, and what the code adds for the
\* tax of sending it.
TicketCost(combination, price) == price * Len(combination)
TicketFee(tax, cost) == cost - DeductTax(tax, cost)

\* Slip: the fees alone taken from the rewards.
TicketFeesOnly(tax, cost) == TicketFee(tax, cost)

TicketWithFees(tax, cost) == cost + TicketFee(tax, cost)

\* The keys a list of combinations is saved under.
CombinationKeys(h, combination) ==
  {<<lottery_counter, h, combo>> : combo \in Range(combination)}

\* Slip: the stored combinations looked up before any is saved.
CombinationsNotStored(h, combination) ==
  CombinationKeys(h, combination) \cap combinations = {}

\* The loop over the combinations meets none that exists, an earlier one of
\* the same list included.
CombinationsAreNew(h, combination) ==
  /\ IsInjective(combination)
  /\ CombinationKeys(h, combination) \cap combinations = {}

\* handle_get_ticket, for any caller.  The lottery is asked for its price; it
\* registers the tickets for the coins sent, and the chain takes the tax.
GetTicket(h, combination, price, tax) ==
  LET cost == TicketCost(combination, price)
      cost_with_fees == TicketWithFees(tax, cost)
      rewards == QueryAccruedRewards(h)
  IN  /\ combination # << >>
      /\ RewardsComputable(h)
      /\ rewards > 0
      /\ Fits(cost) /\ Fits(cost_with_fees)
      /\ rewards >= cost_with_fees
      /\ CombinationsAreNew(h, combination)
      /\ prev_reward_balance >= cost_with_fees
      /\ Fits(FromRatio(rewards - cost_with_fees, 1))
      /\ SendCost(tax, cost) <= staking_uusd
      /\ combinations' = combinations \cup CombinationKeys(h, combination)
      /\ prev_reward_balance' = prev_reward_balance - cost_with_fees
      /\ holders' = [holders EXCEPT
           ![h].pending_rewards = FromRatio(rewards - cost_with_fees, 1),
           ![h].index = global_index]
      /\ staking_uusd' = staking_uusd - SendCost(tax, cost)
      /\ lottery_tickets' = lottery_tickets + Len(combination)
      /\ UNCHANGED <<global_index, total_balance, claims, height, lottery_counter>>

-----------------------------------------------------------------------------
(* Environment.                                                             *)

\* Anyone may send uusd to the contract, with a bank transfer or attached to
\* a message whose handler does not refuse it.
GiveRewards(amount) ==
  /\ amount > 0
  /\ Fits(staking_uusd + amount)
  /\ staking_uusd' = staking_uusd + amount
  /\ UNCHANGED <<state, holders, claims, combinations, height, lottery>>

NextBlock ==
  /\ height' = height + 1
  /\ UNCHANGED <<state, holders, claims, combinations, staking_uusd, lottery>>

\* The lottery goes on to its next draw.
NextLottery ==
  /\ lottery_counter' = lottery_counter + 1
  /\ UNCHANGED <<state, holders, claims, combinations, staking_uusd, height,
                 lottery_tickets>>

-----------------------------------------------------------------------------
StakingNext ==
  \/ \E sender \in Callers, funds \in Rewards, h \in Holders, amount \in Amounts :
       Bond(sender, funds, h, amount)
  \/ \E sender \in Callers, funds \in Rewards, h \in Holders, amount \in Amounts :
       UnbondStake(sender, funds, h, amount)
  \/ \E sender \in Callers, h \in Holders, cap \in Caps :
       \E paid \in SUBSET ClaimsOf(h) : WithdrawStake(sender, h, cap, paid)
  \/ \E sender \in Callers, funds \in Rewards : UpdateGlobalIndex(sender, funds)
  \/ \E h \in Holders, combination \in Combinations, price \in Prices, tax \in Taxes :
       GetTicket(h, combination, price, tax)
  \/ \E amount \in Rewards : GiveRewards(amount)
  \/ NextBlock
  \/ NextLottery

StakingSpec == StakingInit /\ [][StakingNext]_stakingVars

-----------------------------------------------------------------------------
(* Properties.                                                              *)

\* state.rs: the stored amounts and decimals fit their 128 bits, no holder's index is ahead of
\* the global one, and claims of one owner keep distinct places in its list.
StakingTypeOK ==
  /\ global_index \in Uint
  /\ total_balance \in Uint
  /\ prev_reward_balance \in Uint
  /\ holders \in [Holders -> Holder]
  /\ \A h \in Holders : holders[h].index <= global_index
  /\ claims \subseteq Claim
  /\ IsFiniteSet(claims)
  /\ \A c, d \in claims : c.owner = d.owner /\ c.position = d.position => c = d
  /\ combinations \subseteq Nat \X Holders \X UNION {Range(s) : s \in Combinations}
  /\ staking_uusd \in Uint
  /\ height \in Nat
  /\ lottery_counter \in Nat
  /\ lottery_tickets \in Nat

\* user.rs: total_balance, the divisor of every distribution, is the sum of
\* the holders' balances.
StakeConserved ==
  total_balance = SumOver(Holders, [h \in Holders |-> holders[h].balance])

\* user.rs, global.rs: the rewards of all holders together, decimals
\* included, never exceed the rewards the contract has counted and not spent.
\* So no holder who is owed a ticket is refused it by the subtraction from
\* prev_reward_balance, in whatever order holders settle and buy.
RewardsSolvent ==
  SumOver(Holders, [h \in Holders |-> AllRewards(h)])
    <= prev_reward_balance * Unit

\* user.rs, global.rs: settling lazily by the global index pays exactly what
\* sharing every reward out at once would.
Ledger == INSTANCE RewardLedger WITH
  Accounts <- Holders,
  stake <- [h \in Holders |-> holders[h].balance],
  total <- total_balance,
  owed <- [h \in Holders |-> AllRewards(h)],
  pot <- prev_reward_balance

PaysLikeLedger == Ledger!Spec

\* global.rs: what the contract has counted as rewards it still has, so that
\* the next UpdateGlobalIndex finds a balance at least as high.
RewardsBacked == prev_reward_balance <= staking_uusd

\* user.rs: as long as balances and counted rewards stay below the 128-bit
\* limit of a Decimal, no holder is locked out by a panic in its rewards.
NoHolderLockedOut ==
  /\ \A h \in Holders : Fits(FromRatio(holders[h].balance, 1))
  /\ Fits(prev_reward_balance * Unit)
  => \A h \in Holders : RewardsComputable(h)

\* claim.rs: the claims WithdrawStake may pay are exactly the ones the pass
\* over the owner's list pays, and it sends their amounts.
PartitionIsOnePass ==
  \A h \in Holders, cap \in Caps :
    /\ {paid \in SUBSET ClaimsOf(h) : IsPaid(h, cap, paid)}
         = {ClaimTokens(h, cap).paid}
    /\ ClaimTokens(h, cap).total = AmountOf(ClaimTokens(h, cap).paid)

\* claim.rs: a claim is created to wait a whole unbonding period and is never
\* paid before it is over.
UnbondingDelayKept ==
  [][/\ \A c \in claims \ claims' : c.release_at <= height
     /\ \A c \in claims' \ claims : c.release_at >= height + UnbondingPeriod
    ]_stakingVars

\* user.rs: stake is in one place at a time; what leaves a holder's balance is
\* what its new claim is for, and paying a claim touches no balance.
StakeMovesIntoClaims ==
  [][\A h \in Holders :
       holders'[h].balance < holders[h].balance
         => holders[h].balance - holders'[h].balance
              = AmountOf(ClaimsOf(h))' - AmountOf(ClaimsOf(h))]_stakingVars

\* user.rs: the lottery never gets the same combination of a holder twice in
\* one draw, whether repeated in a message or in a later one.
TicketsRegisteredOnce == lottery_tickets = Cardinality(combinations)

\* user.rs, the comment on pending_rewards: a ticket takes from a holder's
\* rewards what it cost and nothing of their decimals.
TicketKeepsDecimals ==
  [][prev_reward_balance' < prev_reward_balance
       => SumOver(Holders, [h \in Holders |-> AllRewards(h)])
            - SumOver(Holders, [h \in Holders |-> AllRewards(h)])'
          = (prev_reward_balance - prev_reward_balance') * Unit]_stakingVars

=============================================================================

------------------------------ MODULE Dogether ------------------------------
(***************************************************************************)
(* The pool contract with the staking contract and the cw20 token it       *)
(* instantiates.  Users' uusd is deposited at the Anchor money market, the *)
(* pool holds the aUST minted for it, the stake in the staking contract    *)
(* records who deposited what, and the interest becomes ticket money.      *)
(*                                                                         *)
(* A message of a user, every message it leads to and the reply that       *)
(* follows are one transaction: all of it happens or none.  An action here *)
(* is one transaction, so its guards are those of every handler involved   *)
(* and of the external contracts, in the state each of them finds.         *)
(***************************************************************************)
EXTENDS Staking, Cw20

CONSTANTS
  StakingContract,   \* state.staking_address
  DrawPeriod,        \* state.draw_period, in seconds
  FirstDraw          \* next_draw of the instantiate message

CONSTANTS
  Deposits,          \* uusd sent with Pool
  Gifts,             \* uusd or aUST anyone sends to the pool
  RateSteps,         \* raises of the exchange rate
  BlockSeconds       \* seconds between two blocks

\* instantiate and its two replies: the pool instantiates the token and the
\* staking contract itself, so it is the minter of one and the admin of the
\* other, and the staking contract has no tokens yet.
ASSUME WiringAssumption ==
  /\ Minter = Admin
  /\ StakingContract \in Addresses
  /\ StakingContract # Admin
  /\ \A rows \in InitialRows : \A i \in DOMAIN rows :
       rows[i].address # StakingContract

ASSUME PoolInputsAssumption ==
  /\ DrawPeriod \in Nat
  /\ FirstDraw \in Nat
  /\ Deposits \subseteq Uint
  /\ Gifts \subseteq Uint
  /\ RateSteps \subseteq Nat
  /\ BlockSeconds \subseteq Nat

VARIABLES
  total_ust_pool,    \* STATE: uusd owed to the depositors
  next_draw,         \* STATE: when earnings may next be redeemed
  pool_uusd,         \* uusd the pool owns at the bank
  aust,              \* aUST the pool owns
  exchange_rate,     \* uusd for one aUST, a raw decimal
  now                \* env.block.time in seconds

anchor == <<aust, exchange_rate>>
poolState == <<total_ust_pool, next_draw>>
poolVars == <<poolState, pool_uusd, anchor, now>>
dogetherVars == <<stakingVars, cw20Vars, poolVars>>

DogetherInit ==
  /\ StakingInit
  /\ Cw20Init
  /\ total_ust_pool = 0
  /\ next_draw = FirstDraw
  /\ pool_uusd = 0
  /\ aust = 0
  /\ exchange_rate = Unit
  /\ now = 0

-----------------------------------------------------------------------------
(* External: the money market.                                              *)

\* DepositStable mints this much aUST, and none is an error.
AustMinted(deposit) == MultiplyRatio(deposit, Unit, exchange_rate)

\* RedeemStable burns amount aUST and sends what it is worth, less the tax.
UusdRedeemed(tax, amount) ==
  DeductTax(tax, MultiplyRatio(amount, exchange_rate, Unit))

-----------------------------------------------------------------------------
(* What the pool computes before it calls the market.                       *)

\* Slip: rounded up.
AustWorthUp(decimal) == Floor(FromRatio(decimal, exchange_rate)) + 1

\* Decimal256::from_ratio of two raw decimals, the whole part.
AustWorth(decimal) == Floor(FromRatio(decimal, exchange_rate))

\* try_redeem_earning: what the pool's aUST is worth, and how much of it is
\* not owed to the depositors.
AustValue == DecimalMultiplication(FromRatio(aust, 1), exchange_rate)
InterestAccrued == DecimalSubtraction(AustValue, FromRatio(total_ust_pool, 1))

\* Slip: the amount sent as it was reported.
NetAmountUntaxed(tax, amount) == amount

\* withdraw_reply: what the user gets of amount, and what has to be redeemed.
NetAmount(tax, amount) == DeductTax(tax, DeductTax(tax, amount))

\* Slip: the amount taken for a raw decimal.
AustToRedeemRaw(amount) == AustWorth(amount)

AustToRedeem(amount) == AustWorth(FromRatio(amount, 1))

-----------------------------------------------------------------------------
(* Transactions.                                                            *)

\* try_pool, and the token's Bond and the staking contract's Receive it
\* leads to.  The coins sent are the pool's before it runs.
Pool(sender, sent, tax) ==
  LET deposit == DeductTax(tax, sent)
  IN  /\ sent > 0
      /\ deposit > 0
      /\ AustMinted(deposit) > 0
      /\ SendCost(tax, deposit) <= pool_uusd + sent
      /\ Fits(total_ust_pool + deposit)
      /\ aust' = aust + AustMinted(deposit)
      /\ pool_uusd' = pool_uusd + sent - SendCost(tax, deposit)
      /\ total_ust_pool' = total_ust_pool + deposit
      /\ ExecuteBond(Admin, StakingContract, deposit)
      /\ Bond(Cw20Token, 0, sender, deposit)
      /\ UNCHANGED <<next_draw, exchange_rate, now>>

\* Slip: the amount no longer owed from the moment it unbonds.
UnPoolAtOnce(sender, amount) ==
  /\ UnbondStake(Admin, 0, sender, amount)
  /\ total_ust_pool' = total_ust_pool - amount
  /\ UNCHANGED <<cw20Vars, next_draw, pool_uusd, anchor, now>>

\* try_un_pool: total_ust_pool still counts what is unbonding.
UnPool(sender, amount) ==
  /\ amount > 0
  /\ UnbondStake(Admin, 0, sender, amount)
  /\ UNCHANGED <<cw20Vars, poolVars>>

\* try_claim_un_pool, the WithdrawStake and the Burn it leads to, then
\* withdraw_reply with the amount the staking contract reported.
ClaimUnPool(sender, paid, tax) ==
  LET amount == AmountOf(paid)
      interest_to_withdraw == AustToRedeem(amount)
      net_amount == NetAmount(tax, amount)
      held == pool_uusd + UusdRedeemed(tax, interest_to_withdraw)
  IN  /\ WithdrawStake(Admin, sender, {}, paid)
      /\ ExecuteBurn(StakingContract, amount)
      /\ Fits(FromRatio(amount, 1))
      /\ total_ust_pool >= amount
      /\ total_ust_pool' = total_ust_pool - amount
      /\ interest_to_withdraw > 0
      /\ interest_to_withdraw <= aust
      /\ aust' = aust - interest_to_withdraw
      /\ net_amount > 0
      /\ SendCost(tax, net_amount) <= held
      /\ pool_uusd' = held - SendCost(tax, net_amount)
      /\ UNCHANGED <<next_draw, exchange_rate, now>>

\* Slip: a period early.
DrawWasDue == now + DrawPeriod >= next_draw

\* The earnings may be redeemed.
DrawIsDue == now >= next_draw

\* The interest it expects and whatever else the pool has, or the interest
\* alone if that overflows.
EarningsExpected(tax) ==
  LET expected == DeductTax(tax, Floor(InterestAccrued))
  IN  IF Fits(expected + pool_uusd) THEN expected + pool_uusd ELSE expected

\* Slip: the tax of sending not taken off.
EarningUntaxed(tax) == EarningsExpected(tax)

\* What is sent on to the staking contract.
Earning(tax) == DeductTax(tax, EarningsExpected(tax))

\* try_redeem_earning, for any caller, and UpdateGlobalIndex with the coins it
\* sends, computed before anything is redeemed.  With an aUST and a rate of at
\* least one, Fits(AustValue) and no negative interest say of the balance, the
\* rate and the deposits that each fits a Decimal too.
RedeemEarning(tax) ==
  LET interest_to_withdraw == AustWorth(InterestAccrued)
      earning == Earning(tax)
      held == pool_uusd + UusdRedeemed(tax, interest_to_withdraw)
  IN  /\ DrawIsDue
      /\ Fits(AustValue)
      /\ InterestAccrued >= 0
      /\ interest_to_withdraw > 0
      /\ interest_to_withdraw <= aust
      /\ earning > 0
      /\ SendCost(tax, earning) <= held
      /\ aust' = aust - interest_to_withdraw
      /\ pool_uusd' = held - SendCost(tax, earning)
      /\ next_draw' = next_draw + DrawPeriod
      /\ UpdateGlobalIndex(Admin, earning)
      /\ UNCHANGED <<cw20Vars, total_ust_pool, exchange_rate, now>>

\* GetTicket is sent to the staking contract itself.
BuyTicket(h, combination, price, tax) ==
  /\ GetTicket(h, combination, price, tax)
  /\ UNCHANGED <<cw20Vars, poolVars>>

\* A holder of initial tokens may burn them.
BurnTokens(sender, amount) ==
  /\ sender # StakingContract
  /\ ExecuteBurn(sender, amount)
  /\ UNCHANGED <<stakingVars, poolVars>>

-----------------------------------------------------------------------------
(* Environment.                                                             *)

\* Anyone may send uusd or aUST to the pool, or uusd to the staking contract.
GiveUusd(amount) ==
  /\ amount > 0
  /\ Fits(pool_uusd + amount)
  /\ pool_uusd' = pool_uusd + amount
  /\ UNCHANGED <<stakingVars, cw20Vars, poolState, anchor, now>>

GiveAust(amount) ==
  /\ amount > 0
  /\ Fits(aust + amount)
  /\ aust' = aust + amount
  /\ UNCHANGED <<stakingVars, cw20Vars, poolState, pool_uusd, exchange_rate, now>>

GiveToStaking(amount) ==
  /\ GiveRewards(amount)
  /\ UNCHANGED <<cw20Vars, poolVars>>

\* The deposits of the market earn interest.
AccrueInterest(step) ==
  /\ exchange_rate' = exchange_rate + step
  /\ UNCHANGED <<stakingVars, cw20Vars, poolState, pool_uusd, aust, now>>

Block(seconds) ==
  /\ NextBlock
  /\ now' = now + seconds
  /\ UNCHANGED <<cw20Vars, poolState, pool_uusd, anchor>>

LotteryDraw ==
  /\ NextLottery
  /\ UNCHANGED <<cw20Vars, poolVars>>

-----------------------------------------------------------------------------
DogetherNext ==
  \/ \E sender \in Holders, sent \in Deposits, tax \in Taxes : Pool(sender, sent, tax)
  \/ \E sender \in Holders, amount \in Amounts : UnPool(sender, amount)
  \/ \E sender \in Holders, tax \in Taxes :
       \E paid \in SUBSET ClaimsOf(sender) : ClaimUnPool(sender, paid, tax)
  \/ \E tax \in Taxes : RedeemEarning(tax)
  \/ \E h \in Holders, combination \in Combinations, price \in Prices, tax \in Taxes :
       BuyTicket(h, combination, price, tax)
  \/ \E sender \in Addresses, amount \in TokenAmounts : BurnTokens(sender, amount)
  \/ \E amount \in Gifts : GiveUusd(amount)
  \/ \E amount \in Gifts : GiveAust(amount)
  \/ \E amount \in Rewards : GiveToStaking(amount)
  \/ \E step \in RateSteps : AccrueInterest(step)
  \/ \E seconds \in BlockSeconds : Block(seconds)
  \/ LotteryDraw

DogetherSpec == DogetherInit /\ [][DogetherNext]_dogetherVars

-----------------------------------------------------------------------------
(* Properties.                                                              *)

\* state.rs: what the pool owes fits its 128 bits, no wallet is overdrawn, and
\* an aUST is never worth less than the uusd it was first minted for.
PoolTypeOK ==
  /\ total_ust_pool \in Uint
  /\ next_draw \in Nat
  /\ pool_uusd \in Nat
  /\ aust \in Nat
  /\ exchange_rate \in Nat /\ exchange_rate >= Unit
  /\ now \in Nat

\* contract.rs: three contracts count the deposits and always agree: what the
\* pool owes is what is staked or waiting in claims, and is what the staking
\* contract can burn.  So no mature claim is refused by a subtraction.
AccountsAgree ==
  /\ total_ust_pool = total_balance + AmountOf(claims)
  /\ balances[StakingContract] = total_ust_pool

\* contract.rs, user.rs, claim.rs: three contracts and an unbonding period
\* together are a ledger in which every deposit is its owner's alone, is asked
\* back in parts, and is paid when due, whole and once.
Deposited == INSTANCE DepositLedger WITH
  Depositors <- Holders,
  Delay <- UnbondingPeriod,
  deposited <- [h \in Holders |-> holders[h].balance],
  asked <- claims,
  owed <- total_ust_pool,
  block <- height

KeepsDeposits == Deposited!DepositSpec

\* The three contracts' values are what they can be, and their accounts agree.
DogetherInv ==
  /\ StakingTypeOK
  /\ Cw20TypeOK
  /\ PoolTypeOK
  /\ AccountsAgree

\* contract.rs: no transaction lets the deposits become worth less than is
\* owed, or less so than they were, except that a deposit may lose the rounding
\* of the aUST minted for it: less than one aUST.
PrincipalKept ==
  [][\/ InterestAccrued' >= 0
     \/ InterestAccrued' >= InterestAccrued
     \/ /\ total_ust_pool' > total_ust_pool
        /\ InterestAccrued' > InterestAccrued - exchange_rate]_dogetherVars

\* contract.rs: earnings are redeemed at most once for every draw period that
\* has gone by, however late the calls come.
OneDrawPerPeriod ==
  next_draw = FirstDraw \/ next_draw <= now + DrawPeriod

\* contract.rs: beyond what the money market pays it, the pool needs at most a
\* few uusd of its own to send a user a mature claim.
Dust == 1 + exchange_rate \div Unit
DueAmount(h) == AmountOf({c \in ClaimsOf(h) : Mature(c)})

ClaimCovered(h, tax, dust) ==
  SendCost(tax, NetAmount(tax, DueAmount(h)))
    <= dust + UusdRedeemed(tax, AustToRedeem(DueAmount(h)))

ClaimNeedsOnlyDust ==
  \A h \in Holders, tax \in Taxes : ClaimCovered(h, tax, Dust)

\* contract.rs: a draw sends what it computed and not what the money market
\* paid it; it too needs at most a few uusd more.
EarningCovered(tax, dust) ==
  SendCost(tax, Earning(tax))
    <= dust + pool_uusd + UusdRedeemed(tax, AustWorth(InterestAccrued))

EarningNeedsOnlyDust ==
  InterestAccrued >= 0 => \A tax \in Taxes : EarningCovered(tax, Dust)

\* contract.rs, user.rs: nothing but money refuses a user a mature claim: not
\* the subtractions from the books of the three contracts, nor the burn.
ClaimNeedsOnlyMoney ==
  Fits(FromRatio(total_ust_pool, 1)) =>
    \A h \in Holders, tax \in Taxes :
      /\ NetAmount(tax, DueAmount(h)) > 0
      /\ AustToRedeem(DueAmount(h)) \in 1 .. aust
      /\ ClaimCovered(h, tax, pool_uusd)
      => ENABLED \E paid \in SUBSET ClaimsOf(h) : ClaimUnPool(h, paid, tax)

\* contract.rs, global.rs: as long as the chain takes no tax, the uusd of the
\* two contracts and the worth of the aUST, beyond what is owed, grow only by
\* interest and gifts and are spent only on tickets: however late the draws
\* come, and when they find nobody bonded, no interest is lost but the rounding
\* of a redemption or a deposit, and nobody is paid out of it.
Surplus == InterestAccrued + (pool_uusd + staking_uusd) * Unit

SurplusMayGrow ==
  \/ \E amount \in Gifts : GiveUusd(amount) \/ GiveAust(amount)
  \/ \E amount \in Rewards : GiveToStaking(amount)
  \/ \E step \in RateSteps : AccrueInterest(step)

SurplusRounding ==
  Unit + (IF total_ust_pool' > total_ust_pool THEN exchange_rate ELSE 0)

SurplusStep ==
  \/ SurplusMayGrow
  \/ lottery_tickets' > lottery_tickets
  \/ Surplus' <= Surplus /\ Surplus' > Surplus - SurplusRounding

TaxFree == \A tax \in Taxes : tax.rate = 0

InterestNeverLost == [][TaxFree => SurplusStep]_dogetherVars

\* msg.rs: a user can withdraw once the unbonding period has succeeded, from
\* what is redeemed for the claim.
MatureClaimPayable ==
  \A h \in Holders, tax \in Taxes :
    DueAmount(h) > 0 => ClaimCovered(h, tax, pool_uusd)

=============================================================================

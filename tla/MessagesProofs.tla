--------------------------- MODULE MessagesProofs ---------------------------
(***************************************************************************)
(* Machine-checked theorems about Messages, for every set of users, every  *)
(* token message, every width and unit of the numbers and every input.     *)
(*                                                                         *)
(* The inductive invariant, MessagesInv, comes first: where a transaction  *)
(* can be, and what it has done by then.  Between two messages the pending *)
(* ones, the events and the difference between the state worked on and the *)
(* committed one are determined by the message that started the            *)
(* transaction, so each stage is a predicate with what that message said   *)
(* as its parameters.                                                      *)
(*                                                                         *)
(* The proof follows a message through its handler: the type of the first  *)
(* pending message gives the stage, the handler takes it to the next, and  *)
(* the last stage of each transaction is the step of Dogether that its     *)
(* commit is (WholeCommits).  The books of the three contracts are kept by *)
(* the lemmas of StakingProofs and DogetherProofs, which are about single  *)
(* handlers.                                                               *)
(*                                                                         *)
(* In the end the theorems about whole transactions are carried over: what *)
(* DogetherProofs says holds of the state that the messages leave.         *)
(***************************************************************************)
EXTENDS Messages, DogetherProofs, SequenceTheorems

-----------------------------------------------------------------------------
(* What the transaction has not changed yet.                                *)

SameStaking ==
  /\ global_index = committed.global_index
  /\ total_balance = committed.total_balance
  /\ prev_reward_balance = committed.prev_reward_balance
  /\ holders = committed.holders
  /\ claims = committed.claims
  /\ combinations = committed.combinations
  /\ staking_uusd = committed.staking_uusd
  /\ lottery_tickets = committed.lottery_tickets

SameToken ==
  /\ total_supply = committed.total_supply
  /\ balances = committed.balances

SameMoney ==
  /\ pool_uusd = committed.pool_uusd
  /\ aust = committed.aust

SamePool ==
  /\ total_ust_pool = committed.total_ust_pool
  /\ next_draw = committed.next_draw
  /\ SameMoney

SameWiring ==
  /\ staking_address = committed.staking_address
  /\ cw20_address = committed.cw20_address
  /\ minter = committed.minter
  /\ admin = committed.admin
  /\ cw20_token_addr = committed.cw20_token_addr

Same == SameStaking /\ SameToken /\ SamePool /\ SameWiring

\* No message changes these.
SameClock ==
  /\ height = committed.height
  /\ lottery_counter = committed.lottery_counter
  /\ exchange_rate = committed.exchange_rate
  /\ now = committed.now

-----------------------------------------------------------------------------
(* What each handler of the staking contract and the token has done.        *)

RestOfStakingSame ==
  /\ combinations = committed.combinations
  /\ staking_uusd = committed.staking_uusd
  /\ lottery_tickets = committed.lottery_tickets

DidMoveStake(h, balance, total) ==
  /\ Transactions!RewardsComputable(h)
  /\ Fits(balance) /\ Fits(total)
  /\ holders = [committed.holders EXCEPT
                  ![h] = [Transactions!Settled(h) EXCEPT !.balance = balance]]
  /\ total_balance = total
  /\ global_index = committed.global_index
  /\ prev_reward_balance = committed.prev_reward_balance

DidBond(h, amount) ==
  /\ DidMoveStake(h, committed.holders[h].balance + amount,
                  committed.total_balance + amount)
  /\ claims = committed.claims
  /\ RestOfStakingSame

DidUnbond(h, amount) ==
  /\ committed.holders[h].balance >= amount
  /\ DidMoveStake(h, committed.holders[h].balance - amount,
                  committed.total_balance - amount)
  /\ claims = committed.claims \cup
       {[owner |-> h, position |-> Transactions!NextPosition(h),
         amount |-> amount, release_at |-> committed.height + UnbondingPeriod]}
  /\ RestOfStakingSame

DidWithdraw(h, paid) ==
  /\ paid \subseteq Transactions!ClaimsOf(h)
  /\ Transactions!IsPaid(h, {}, paid)
  /\ AmountOf(paid) > 0
  /\ Fits(AmountOf(paid))
  /\ claims = committed.claims \ paid
  /\ global_index = committed.global_index
  /\ total_balance = committed.total_balance
  /\ prev_reward_balance = committed.prev_reward_balance
  /\ holders = committed.holders
  /\ RestOfStakingSame

DidUpdate(funds) ==
  LET balance == committed.staking_uusd + funds
      share == FromRatio(balance - committed.prev_reward_balance,
                         committed.total_balance)
  IN  /\ committed.total_balance > 0
      /\ balance >= committed.prev_reward_balance
      /\ Fits(balance)
      /\ Fits(share)
      /\ prev_reward_balance = balance
      /\ global_index = DecimalSummation(committed.global_index, share)
      /\ Fits(global_index)
      /\ staking_uusd = balance
      /\ total_balance = committed.total_balance
      /\ holders = committed.holders
      /\ claims = committed.claims
      /\ combinations = committed.combinations
      /\ lottery_tickets = committed.lottery_tickets

DidGetTicket(h, combination, price) ==
  LET cost == TicketCost(combination, price)
      cost_with_fees == TicketWithFees(tax, cost)
      rewards == Transactions!QueryAccruedRewards(h)
  IN  /\ combination # << >>
      /\ Transactions!RewardsComputable(h)
      /\ rewards > 0
      /\ Fits(cost) /\ Fits(cost_with_fees)
      /\ rewards >= cost_with_fees
      /\ Transactions!CombinationsAreNew(h, combination)
      /\ committed.prev_reward_balance >= cost_with_fees
      /\ Fits(FromRatio(rewards - cost_with_fees, 1))
      /\ SendCost(tax, cost) <= committed.staking_uusd
      /\ combinations = committed.combinations
                          \cup Transactions!CombinationKeys(h, combination)
      /\ prev_reward_balance = committed.prev_reward_balance - cost_with_fees
      /\ holders = [committed.holders EXCEPT
           ![h].pending_rewards = FromRatio(rewards - cost_with_fees, 1),
           ![h].index = committed.global_index]
      /\ staking_uusd = committed.staking_uusd - SendCost(tax, cost)
      /\ lottery_tickets = committed.lottery_tickets + Len(combination)
      /\ global_index = committed.global_index
      /\ total_balance = committed.total_balance
      /\ claims = committed.claims

DidMint(amount) ==
  /\ Fits(committed.total_supply + amount)
  /\ total_supply = committed.total_supply + amount
  /\ Fits(committed.balances[StakingContract] + amount)
  /\ balances = [committed.balances EXCEPT ![StakingContract] = @ + amount]

DidBurn(sender, amount) ==
  /\ amount > 0
  /\ committed.balances[sender] >= amount
  /\ balances = [committed.balances EXCEPT ![sender] = @ - amount]
  /\ committed.total_supply >= amount
  /\ total_supply = committed.total_supply - amount

-----------------------------------------------------------------------------
(* The contracts know each other, or none of them exists.                   *)

Wired ==
  /\ staking_address = StakingContract
  /\ cw20_address = Cw20Token
  /\ minter = Admin
  /\ admin = Admin
  /\ cw20_token_addr = Cw20Token

CommittedWired ==
  /\ committed.staking_address = StakingContract
  /\ committed.cw20_address = Cw20Token
  /\ committed.minter = Admin
  /\ committed.admin = Admin
  /\ committed.cw20_token_addr = Cw20Token

\* Before the deployment nothing is stored that instantiate will set.
CommittedAbsent ==
  /\ committed.staking_address = Nobody
  /\ committed.cw20_address = Nobody
  /\ committed.minter = Nobody
  /\ committed.admin = Nobody
  /\ committed.cw20_token_addr = Nobody
  /\ committed.global_index = 0
  /\ committed.total_balance = 0
  /\ committed.prev_reward_balance = 0
  /\ committed.total_ust_pool = 0

-----------------------------------------------------------------------------
(* The messages sent inside a transaction.                                  *)

ReplyFrom(id, since) == [type |-> "Reply", id |-> id, since |-> since]

TokenMessageSent == Message("InstantiateToken", Admin, Cw20Token, 0, message_cw20)

StakingMessageSent ==
  Message("InstantiateStaking", Admin, StakingContract, 0,
          [cw20_token_addr |-> Cw20Token])

Instantiated(address) ==
  Event("instantiate_contract", [contract_address |-> address])

DepositSent(amount) == Message("DepositStable", Admin, "market", amount, NoBody)

BondSent(sender, amount) ==
  Message("Bond", Admin, Cw20Token, 0,
          [contract |-> StakingContract, amount |-> amount, recipient |-> sender])

ReceiveSent(sender, amount) ==
  Message("Receive", Cw20Token, StakingContract, 0,
          [sender |-> sender, amount |-> amount])

UnbondSent(sender, amount) ==
  Message("UnbondStake", Admin, StakingContract, 0,
          [address |-> sender, amount |-> amount])

WithdrawSent(sender) ==
  Message("WithdrawStake", Admin, StakingContract, 0,
          [address |-> sender, cap |-> {}])

BurnSent(amount) ==
  Message("Burn", StakingContract, Cw20Token, 0, [amount |-> amount])

WithdrawEvent(sender, amount) ==
  Event("wasm", [recipient |-> sender, withdraw |-> amount])

BurnEvent(amount) ==
  Event("wasm", [from |-> StakingContract, amount |-> amount])

RedeemSent(amount) ==
  Message("RedeemStable", Admin, "market", 0, [amount |-> amount])

BankSent(sender, amount) == Message("BankSend", Admin, sender, amount, NoBody)

UpdateSent(funds) ==
  Message("UpdateGlobalIndex", Admin, StakingContract, funds, NoBody)

-----------------------------------------------------------------------------
(* The accounts of the deposits, with an amount that the pool has booked    *)
(* and the staking contract has not, and one that the token has.            *)

Accounts(booked, minted) ==
  /\ total_ust_pool = total_balance + AmountOf(claims) + booked
  /\ balances[StakingContract] = total_balance + AmountOf(claims) + minted

-----------------------------------------------------------------------------
(* The stages.  A transaction starts with one message.                      *)

Requests ==
  {Deployment} \cup UNION {UserMessages(user) \cup ForeignMessages(user) : user \in Holders}

RequestTypes ==
  {"InstantiatePool", "Pool", "UnPool", "ClaimUnPool", "RedeemEarning",
   "GetTicket", "Burn", "Bond", "Receive", "UnbondStake", "WithdrawStake",
   "UpdateGlobalIndex"}

Started(m) ==
  /\ m \in Requests
  /\ pending = <<m, Done>>
  /\ events = << >>
  /\ Same

\* The deployment.
Undeployed == CommittedAbsent /\ SameStaking /\ SameMoney /\ total_ust_pool = 0
                /\ next_draw = FirstDraw

TokenExists ==
  /\ total_supply = SupplyFromRows(message_cw20.rows)
  /\ Fits(total_supply)
  /\ balances = [a \in Addresses |-> BalanceFromRows(message_cw20.rows, a)]
  /\ minter = Admin

DeployStarted ==
  /\ Undeployed /\ SameToken
  /\ minter = Nobody /\ admin = Nobody /\ cw20_token_addr = Nobody
  /\ pending = <<TokenMessageSent, ReplyFrom(0, 0), Done>>
  /\ events = << >>

TokenInstantiated ==
  /\ Undeployed /\ TokenExists
  /\ admin = Nobody /\ cw20_token_addr = Nobody
  /\ pending = <<ReplyFrom(0, 0), Done>>
  /\ events = <<Instantiated(Cw20Token)>>

TokenKnown ==
  /\ Undeployed /\ TokenExists
  /\ cw20_address = Cw20Token
  /\ admin = Nobody /\ cw20_token_addr = Nobody
  /\ pending = <<StakingMessageSent, ReplyFrom(1, 1), Done>>
  /\ events = <<Instantiated(Cw20Token)>>

StakingInstantiated ==
  /\ Undeployed /\ TokenExists
  /\ cw20_address = Cw20Token
  /\ admin = Admin /\ cw20_token_addr = Cw20Token
  /\ pending = <<ReplyFrom(1, 1), Done>>
  /\ events = <<Instantiated(Cw20Token), Instantiated(StakingContract)>>

DeployDone == Undeployed /\ TokenExists /\ Wired

\* Everything else needs the contracts.
Running == CommittedWired /\ SameWiring

\* Pool.
PoolBooked(sent) ==
  LET deposit == DeductTax(tax, sent)
  IN  /\ Running
      /\ sent > 0
      /\ Fits(committed.total_ust_pool + deposit)
      /\ total_ust_pool = committed.total_ust_pool + deposit
      /\ next_draw = committed.next_draw

PoolAtMarket(sent) ==
  LET deposit == DeductTax(tax, sent)
  IN  /\ deposit > 0
      /\ SendCost(tax, deposit) <= committed.pool_uusd + sent
      /\ AustMinted(deposit) > 0
      /\ pool_uusd = committed.pool_uusd + sent - SendCost(tax, deposit)
      /\ aust = committed.aust + AustMinted(deposit)

PoolDeposits(sender, sent) ==
  LET deposit == DeductTax(tax, sent)
  IN  /\ PoolBooked(sent)
      /\ pool_uusd = committed.pool_uusd + sent /\ aust = committed.aust
      /\ SameStaking /\ SameToken
      /\ Accounts(deposit, 0)
      /\ pending = <<DepositSent(deposit), BondSent(sender, deposit), Done>>
      /\ events = << >>

PoolBonds(sender, sent) ==
  LET deposit == DeductTax(tax, sent)
  IN  /\ PoolBooked(sent) /\ PoolAtMarket(sent)
      /\ SameStaking /\ SameToken
      /\ Accounts(deposit, 0)
      /\ pending = <<BondSent(sender, deposit), Done>>
      /\ events = << >>

PoolReceived(sender, sent) ==
  LET deposit == DeductTax(tax, sent)
  IN  /\ PoolBooked(sent) /\ PoolAtMarket(sent)
      /\ SameStaking /\ DidMint(deposit)
      /\ Accounts(deposit, deposit)
      /\ pending = <<ReceiveSent(sender, deposit), Done>>
      /\ events = << >>

PoolDone(sender, sent) ==
  LET deposit == DeductTax(tax, sent)
  IN  /\ PoolBooked(sent) /\ PoolAtMarket(sent)
      /\ DidBond(sender, deposit) /\ DidMint(deposit)

\* UnPool.
UnPoolAsks(sender, amount) ==
  /\ Running /\ Same
  /\ amount > 0
  /\ pending = <<UnbondSent(sender, amount), Done>>
  /\ events = << >>

UnPoolDone(sender, amount) ==
  /\ Running /\ SameToken /\ SamePool
  /\ amount > 0
  /\ DidUnbond(sender, amount)

\* ClaimUnPool.
ClaimAsks(sender) ==
  /\ Running /\ Same
  /\ pending = <<WithdrawSent(sender), ReplyFrom(2, 0), Done>>
  /\ events = << >>

ClaimBurns(sender, paid) ==
  LET amount == AmountOf(paid)
  IN  /\ Running /\ SameToken /\ SamePool
      /\ DidWithdraw(sender, paid)
      /\ Accounts(amount, amount)
      /\ pending = <<BurnSent(amount), ReplyFrom(2, 0), Done>>
      /\ events = <<WithdrawEvent(sender, amount)>>

ClaimReplies(sender, paid) ==
  LET amount == AmountOf(paid)
  IN  /\ Running /\ SamePool
      /\ DidWithdraw(sender, paid) /\ DidBurn(StakingContract, amount)
      /\ Accounts(amount, 0)
      /\ pending = <<ReplyFrom(2, 0), Done>>
      /\ events = <<WithdrawEvent(sender, amount), BurnEvent(amount)>>

ClaimBooked(sender, paid) ==
  LET amount == AmountOf(paid)
  IN  /\ Running
      /\ DidWithdraw(sender, paid) /\ DidBurn(StakingContract, amount)
      /\ Fits(FromRatio(amount, 1))
      /\ committed.total_ust_pool >= amount
      /\ total_ust_pool = committed.total_ust_pool - amount
      /\ next_draw = committed.next_draw

ClaimRedeems(sender, paid) ==
  LET amount == AmountOf(paid)
  IN  /\ ClaimBooked(sender, paid) /\ SameMoney
      /\ AccountsAgree
      /\ pending = <<RedeemSent(AustToRedeem(amount)),
                     BankSent(sender, NetAmount(tax, amount)), Done>>

ClaimAtMarket(paid) ==
  LET redeemed == AustToRedeem(AmountOf(paid))
  IN  /\ redeemed > 0
      /\ redeemed <= committed.aust
      /\ aust = committed.aust - redeemed

ClaimSends(sender, paid) ==
  LET amount == AmountOf(paid)
  IN  /\ ClaimBooked(sender, paid) /\ ClaimAtMarket(paid)
      /\ pool_uusd = committed.pool_uusd + UusdRedeemed(tax, AustToRedeem(amount))
      /\ AccountsAgree
      /\ pending = <<BankSent(sender, NetAmount(tax, amount)), Done>>

ClaimDone(sender, paid) ==
  LET amount == AmountOf(paid)
      net_amount == NetAmount(tax, amount)
      held == committed.pool_uusd + UusdRedeemed(tax, AustToRedeem(amount))
  IN  /\ ClaimBooked(sender, paid) /\ ClaimAtMarket(paid)
      /\ net_amount > 0
      /\ SendCost(tax, net_amount) <= held
      /\ pool_uusd = held - SendCost(tax, net_amount)

\* RedeemEarning.
Interest == Transactions!AustWorth(Transactions!InterestAccrued)
EarningSent == Transactions!Earning(tax)

EarningDue ==
  /\ Running /\ SameToken
  /\ Transactions!DrawIsDue
  /\ Fits(Transactions!AustValue)
  /\ Transactions!InterestAccrued >= 0
  /\ Interest \in Nat /\ EarningSent \in Nat
  /\ total_ust_pool = committed.total_ust_pool
  /\ next_draw = committed.next_draw + DrawPeriod

EarningAsks ==
  /\ EarningDue
  /\ SameStaking /\ SameMoney
  /\ pending = <<RedeemSent(Interest), UpdateSent(EarningSent), Done>>

EarningAtMarket ==
  /\ Interest > 0
  /\ Interest <= committed.aust
  /\ aust = committed.aust - Interest

EarningUpdates ==
  /\ EarningDue /\ EarningAtMarket
  /\ pool_uusd = committed.pool_uusd + UusdRedeemed(tax, Interest)
  /\ SameStaking
  /\ pending = <<UpdateSent(EarningSent), Done>>

EarningDone ==
  LET held == committed.pool_uusd + UusdRedeemed(tax, Interest)
  IN  /\ EarningDue /\ EarningAtMarket
      /\ EarningSent > 0
      /\ SendCost(tax, EarningSent) <= held
      /\ pool_uusd = held - SendCost(tax, EarningSent)
      /\ DidUpdate(EarningSent)

\* GetTicket and Burn send nothing on.
TicketDone(h, combination, price) ==
  /\ Running /\ SameToken /\ SamePool
  /\ DidGetTicket(h, combination, price)

BurnDone(sender, amount) ==
  /\ Running /\ SameStaking /\ SamePool
  /\ DidBurn(sender, amount)

\* What was done is what one transaction of Dogether does.
Whole ==
  \/ DeployDone
  \/ \E sender \in Holders, sent \in Deposits : PoolDone(sender, sent)
  \/ \E sender \in Holders, amount \in Amounts : UnPoolDone(sender, amount)
  \/ \E sender \in Holders, paid \in SUBSET committed.claims : ClaimDone(sender, paid)
  \/ EarningDone
  \/ \E h \in Holders, combination \in Combinations, price \in Prices :
       TicketDone(h, combination, price)
  \/ \E sender \in Holders, amount \in TokenAmounts : BurnDone(sender, amount)

Finished == pending = <<Done>> /\ Whole /\ AccountsAgree

-----------------------------------------------------------------------------
\* The stage, by the type of the next message m.
Stage(m) ==
  \/ m.type \in RequestTypes /\ Started(m)
  \/ m.type = "InstantiateToken" /\ DeployStarted
  \/ m.type = "Reply" /\ m.id = 0 /\ TokenInstantiated
  \/ m.type = "InstantiateStaking" /\ TokenKnown
  \/ m.type = "Reply" /\ m.id = 1 /\ StakingInstantiated
  \/ /\ m.type = "DepositStable"
     /\ \E sender \in Holders, sent \in Deposits : PoolDeposits(sender, sent)
  \/ /\ m.type = "Bond"
     /\ \E sender \in Holders, sent \in Deposits : PoolBonds(sender, sent)
  \/ /\ m.type = "Receive"
     /\ \E sender \in Holders, sent \in Deposits : PoolReceived(sender, sent)
  \/ /\ m.type = "UnbondStake"
     /\ \E sender \in Holders, amount \in Amounts : UnPoolAsks(sender, amount)
  \/ /\ m.type = "WithdrawStake"
     /\ \E sender \in Holders : ClaimAsks(sender)
  \/ /\ m.type = "Burn"
     /\ \E sender \in Holders, paid \in SUBSET committed.claims : ClaimBurns(sender, paid)
  \/ /\ m.type = "Reply" /\ m.id = 2
     /\ \E sender \in Holders, paid \in SUBSET committed.claims : ClaimReplies(sender, paid)
  \/ /\ m.type = "RedeemStable"
     /\ \/ \E sender \in Holders, paid \in SUBSET committed.claims :
             ClaimRedeems(sender, paid)
        \/ EarningAsks
  \/ /\ m.type = "BankSend"
     /\ \E sender \in Holders, paid \in SUBSET committed.claims : ClaimSends(sender, paid)
  \/ /\ m.type = "UpdateGlobalIndex"
     /\ EarningUpdates
  \/ m.type = "Done" /\ Finished

-----------------------------------------------------------------------------
(* The invariant.                                                           *)

Books ==
  /\ StakingTypeOK /\ StakeConserved /\ RewardsSolvent
  /\ Cw20TypeOK /\ SupplyCoversBalances
  /\ PoolTypeOK

CommittedBooks ==
  /\ Transactions!StakingTypeOK
  /\ Transactions!StakeConserved
  /\ Transactions!RewardsSolvent
  /\ committed.total_supply \in Uint
  /\ committed.balances \in [Addresses -> Uint]
  /\ SumOver(Addresses, committed.balances) <= committed.total_supply
  /\ committed.total_ust_pool \in Uint
  /\ committed.next_draw \in Nat
  /\ committed.pool_uusd \in Nat
  /\ committed.aust \in Nat
  /\ committed.exchange_rate \in Nat /\ committed.exchange_rate >= Unit
  /\ committed.now \in Nat

CommittedAgree ==
  /\ committed.total_ust_pool
       = committed.total_balance + AmountOf(committed.claims)
  /\ committed.balances[StakingContract] = committed.total_ust_pool

CommittedInv ==
  /\ CommittedBooks
  /\ CommittedAgree
  /\ CommittedWired \/ CommittedAbsent

\* Between transactions and at every message of one, failures included: the
\* books of the three contracts are sound, and what the transaction has
\* changed is what the message that started it asked for, up to this stage.
MessagesInv ==
  /\ Books
  /\ CommittedInv
  /\ SameClock
  /\ message_cw20 \in TokenMessages
  /\ IF pending = << >>
       THEN Same /\ events = << >>
       ELSE tax \in Taxes /\ Stage(Head(pending))

-----------------------------------------------------------------------------
(* Short sequences.                                                         *)

\* One or two messages put before the last one.
LEMMA OneBefore ==
  ASSUME NEW a, NEW z
  PROVE  <<a>> \o <<z>> = <<a, z>>
<1> DEFINE S == {a, z}
<1>1. /\ <<a>> \in Seq(S) /\ <<z>> \in Seq(S) /\ <<a, z>> \in Seq(S)
      /\ Len(<<a>>) = 1 /\ Len(<<z>>) = 1 /\ Len(<<a, z>>) = 2
  OBVIOUS
<1>2. /\ (<<a>> \o <<z>>) \in Seq(S)
      /\ Len(<<a>> \o <<z>>) = Len(<<a>>) + Len(<<z>>)
  BY <1>1, ConcatProperties
<1>3. Len(<<a>> \o <<z>>) = 2
  BY <1>1, <1>2
<1>4. \A i \in 1 .. 2 : (<<a>> \o <<z>>)[i] = <<a, z>>[i]
  BY <1>1, ConcatProperties
<1> QED BY <1>1, <1>2, <1>3, <1>4, SeqEqual

\* Two messages.
LEMMA TwoBefore ==
  ASSUME NEW a, NEW b, NEW z
  PROVE  <<a, b>> \o <<z>> = <<a, b, z>>
<1> DEFINE S == {a, b, z}
<1>1. /\ <<a, b>> \in Seq(S) /\ <<z>> \in Seq(S) /\ <<a, b, z>> \in Seq(S)
      /\ Len(<<a, b>>) = 2 /\ Len(<<z>>) = 1 /\ Len(<<a, b, z>>) = 3
  OBVIOUS
<1>2. /\ (<<a, b>> \o <<z>>) \in Seq(S)
      /\ Len(<<a, b>> \o <<z>>) = Len(<<a, b>>) + Len(<<z>>)
  BY <1>1, ConcatProperties
<1>3. Len(<<a, b>> \o <<z>>) = 3
  BY <1>1, <1>2
<1>4. \A i \in 1 .. 3 : (<<a, b>> \o <<z>>)[i] = <<a, b, z>>[i]
  BY <1>1, ConcatProperties
<1> QED BY <1>1, <1>2, <1>3, <1>4, SeqEqual

\* One message before two.
LEMMA OneBeforeTwo ==
  ASSUME NEW a, NEW y, NEW z
  PROVE  <<a>> \o <<y, z>> = <<a, y, z>>
<1> DEFINE S == {a, y, z}
<1>1. /\ <<a>> \in Seq(S) /\ <<y, z>> \in Seq(S) /\ <<a, y, z>> \in Seq(S)
      /\ Len(<<a>>) = 1 /\ Len(<<y, z>>) = 2 /\ Len(<<a, y, z>>) = 3
  OBVIOUS
<1>2. /\ (<<a>> \o <<y, z>>) \in Seq(S)
      /\ Len(<<a>> \o <<y, z>>) = Len(<<a>>) + Len(<<y, z>>)
  BY <1>1, ConcatProperties
<1>3. Len(<<a>> \o <<y, z>>) = 3
  BY <1>1, <1>2
<1>4. \A i \in 1 .. 3 : (<<a>> \o <<y, z>>)[i] = <<a, y, z>>[i]
  BY <1>1, ConcatProperties
<1> QED BY <1>1, <1>2, <1>3, <1>4, SeqEqual

\* What is left when the first message is handled and it sends nothing,
\* one message, or two.
LEMMA NothingSent ==
  ASSUME NEW a, NEW y, NEW z
  PROVE  /\ << >> \o Tail(<<a, z>>) = <<z>>
         /\ << >> \o Tail(<<a, y, z>>) = <<y, z>>
<1>1. Tail(<<a, z>>) = <<z>> /\ Tail(<<a, y, z>>) = <<y, z>>
  OBVIOUS
<1>2. << >> \o <<z>> = <<z>> /\ << >> \o <<y, z>> = <<y, z>>
  OBVIOUS
<1> QED BY <1>1, <1>2

LEMMA OneSent ==
  ASSUME NEW a, NEW b, NEW y, NEW z
  PROVE  /\ <<b>> \o Tail(<<a, z>>) = <<b, z>>
         /\ <<b>> \o Tail(<<a, y, z>>) = <<b, y, z>>
<1>1. Tail(<<a, z>>) = <<z>> /\ Tail(<<a, y, z>>) = <<y, z>>
  OBVIOUS
<1> QED BY <1>1, OneBefore, OneBeforeTwo

LEMMA TwoSent ==
  ASSUME NEW a, NEW b, NEW c, NEW z
  PROVE  <<b, c>> \o Tail(<<a, z>>) = <<b, c, z>>
<1>1. Tail(<<a, z>>) = <<z>>
  OBVIOUS
<1> QED BY <1>1, TwoBefore

\* The events of the transactions: none, one or two.
LEMMA NoEvent ==
  ASSUME NEW e
  PROVE  << >> \o << >> = << >> /\ <<e>> \o << >> = <<e>> /\ << >> \o <<e>> = <<e>>
<1>1. <<e>> \in Seq({e})
  OBVIOUS
<1>2. << >> \o << >> = << >>
  OBVIOUS
<1> QED BY <1>1, <1>2, ConcatEmptySeq

\* A reply whose first event since its message was sent has the type it looks
\* for hears that event.
LEMMA HearsTheFirst ==
  ASSUME NEW reply, NEW type, reply.since \in Nat, Len(events) \in Nat,
         reply.since < Len(events), events[reply.since + 1].type = type
  PROVE  FirstHeard(reply, type) = {events[reply.since + 1]}
<1> DEFINE first == reply.since + 1
           heard == {i \in first .. Len(events) : events[i].type = type}
           firsts == {j \in heard : \A k \in heard : j <= k}
<1>1. first \in heard /\ \A k \in heard : first <= k /\ k \in Int
  OBVIOUS
<1>2. firsts = {first}
  <2> HIDE DEF heard, first
  <2>1. first \in firsts
    BY <1>1
  <2>2. ASSUME NEW j \in firsts PROVE j = first
    <3>1. j \in heard /\ j <= first
      BY <1>1, <2>2
    <3>2. first <= j /\ j \in Int /\ first \in Int
      BY <1>1, <3>1
    <3> QED BY <3>1, <3>2
  <2> QED BY <2>1, <2>2
<1>3. FirstHeard(reply, type) = {events[i] : i \in firsts}
  BY DEF FirstHeard
<1> QED BY <1>2, <1>3

\* The operators of the instance that read no variable are those of Dogether.
LEMMA SameArithmetic ==
  /\ \A n : Transactions!Fits(n) <=> Fits(n)
  /\ \A a, b : Transactions!FromRatio(a, b) = FromRatio(a, b)
  /\ \A a, b : Transactions!DecimalSummation(a, b) = DecimalSummation(a, b)
  /\ \A a, b : Transactions!DecimalSubtraction(a, b) = DecimalSubtraction(a, b)
  /\ \A a, b : Transactions!DecimalMultiplication(a, b) = DecimalMultiplication(a, b)
  /\ \A a, b, c : Transactions!MultiplyRatio(a, b, c) = MultiplyRatio(a, b, c)
  /\ \A a : Transactions!Floor(a) = Floor(a)
  /\ Transactions!Uint = Uint
<1>1. ASSUME NEW n PROVE Transactions!Fits(n) <=> Fits(n)
  BY DEF Transactions!Fits, Fits
<1>2. ASSUME NEW a, NEW b
      PROVE  /\ Transactions!FromRatio(a, b) = FromRatio(a, b)
             /\ Transactions!DecimalSummation(a, b) = DecimalSummation(a, b)
             /\ Transactions!DecimalSubtraction(a, b) = DecimalSubtraction(a, b)
             /\ Transactions!DecimalMultiplication(a, b) = DecimalMultiplication(a, b)
  BY DEF Transactions!FromRatio, FromRatio, Transactions!DecimalSummation,
         DecimalSummation, Transactions!DecimalSubtraction, DecimalSubtraction,
         Transactions!DecimalMultiplication, DecimalMultiplication
<1>3. ASSUME NEW a, NEW b, NEW c
      PROVE  Transactions!MultiplyRatio(a, b, c) = MultiplyRatio(a, b, c)
  BY DEF Transactions!MultiplyRatio, MultiplyRatio
<1>4. ASSUME NEW a PROVE Transactions!Floor(a) = Floor(a)
  BY DEF Transactions!Floor, Floor
<1>5. Transactions!Uint = Uint
  BY DEF Transactions!Uint, Uint
<1> QED BY <1>1, <1>2, <1>3, <1>4, <1>5

\* The tax and what is computed with it.
LEMMA SameTaxation ==
  /\ \A t, n : Transactions!DeductTax(t, n) = DeductTax(t, n)
  /\ \A t, n : Transactions!SendCost(t, n) = SendCost(t, n)
  /\ \A t, n : Transactions!NetAmount(t, n) = NetAmount(t, n)
  /\ \A t, n : Transactions!TicketWithFees(t, n) = TicketWithFees(t, n)
<1>1. ASSUME NEW a, NEW b PROVE Transactions!Lesser(a, b) = Lesser(a, b)
  BY DEF Transactions!Lesser, Lesser
<1>2. ASSUME NEW t, NEW n
      PROVE  Transactions!DeductTax(t, n) = DeductTax(t, n)
  BY <1>1, SameArithmetic DEF Transactions!DeductTax, DeductTax,
     Transactions!ComputeTax, ComputeTax
<1>3. ASSUME NEW t, NEW n
      PROVE  Transactions!SendCost(t, n) = SendCost(t, n)
  BY <1>1 DEF Transactions!SendCost, SendCost, Transactions!NetworkTax, NetworkTax
<1>4. ASSUME NEW t, NEW n
      PROVE  /\ Transactions!NetAmount(t, n) = NetAmount(t, n)
             /\ Transactions!TicketWithFees(t, n) = TicketWithFees(t, n)
  BY <1>2 DEF Transactions!NetAmount, NetAmount, Transactions!TicketWithFees,
     TicketWithFees, Transactions!TicketFee, TicketFee
<1> QED BY <1>2, <1>3, <1>4

\* The sums of the instance.
LEMMA SameSums ==
  /\ \A S, f : Transactions!SumOver(S, f) = SumOver(S, f)
  /\ \A cs : Transactions!AmountOf(cs) = AmountOf(cs)
<1>1. ASSUME NEW T PROVE Transactions!Cardinality(T) = Cardinality(T)
  BY DEF Transactions!Cardinality, Cardinality
<1>2. ASSUME NEW S, NEW f PROVE Transactions!SumOver(S, f) = SumOver(S, f)
  BY <1>1 DEF Transactions!SumOver, Transactions!Tokens, SumOver, Tokens
<1>3. ASSUME NEW cs PROVE Transactions!AmountOf(cs) = AmountOf(cs)
  BY <1>2 DEF Transactions!AmountOf, AmountOf
<1> QED BY <1>2, <1>3

\* What the market would do is the same at every message of a transaction.
LEMMA SameMarket ==
  ASSUME SameClock
  PROVE  /\ \A n : Transactions!AustMinted(n) = AustMinted(n)
         /\ \A t, n : Transactions!UusdRedeemed(t, n) = UusdRedeemed(t, n)
         /\ \A n : Transactions!AustWorth(n) = AustWorth(n)
         /\ \A n : Transactions!AustToRedeem(n) = AustToRedeem(n)
<1>1. ASSUME NEW n
      PROVE  /\ Transactions!AustMinted(n) = AustMinted(n)
             /\ Transactions!AustWorth(n) = AustWorth(n)
             /\ Transactions!AustToRedeem(n) = AustToRedeem(n)
  BY SameArithmetic DEF SameClock, Transactions!AustMinted, AustMinted,
     Transactions!AustWorth, AustWorth, Transactions!AustToRedeem, AustToRedeem
<1>2. ASSUME NEW t, NEW n
      PROVE  Transactions!UusdRedeemed(t, n) = UusdRedeemed(t, n)
  BY SameArithmetic, SameTaxation DEF SameClock, Transactions!UusdRedeemed,
     UusdRedeemed
<1> QED BY <1>1, <1>2

\* Nor are the rewards, until the staking contract handles a message.
LEMMA SameRewards ==
  ASSUME holders = committed.holders, global_index = committed.global_index, NEW h
  PROVE  /\ Transactions!AllRewards(h) = AllRewards(h)
         /\ Transactions!RewardsComputable(h) <=> RewardsComputable(h)
         /\ Transactions!Settled(h) = Settled(h)
         /\ Transactions!QueryAccruedRewards(h) = QueryAccruedRewards(h)
<1>1. \A i, b : Transactions!CalculateDecimalRewards(i, b)
                  = CalculateDecimalRewards(i, b)
  <2> SUFFICES ASSUME NEW i, NEW b
               PROVE  Transactions!CalculateDecimalRewards(i, b)
                        = CalculateDecimalRewards(i, b)
    OBVIOUS
  <2> QED BY SameArithmetic DEF Transactions!CalculateDecimalRewards,
             CalculateDecimalRewards
<1>2. Transactions!AllRewards(h) = AllRewards(h)
  BY <1>1, SameArithmetic DEF Transactions!AllRewards, AllRewards
<1>3. Transactions!RewardsComputable(h) <=> RewardsComputable(h)
  BY <1>1, <1>2, SameArithmetic DEF Transactions!RewardsComputable, RewardsComputable
<1>4. Transactions!Settled(h) = Settled(h)
  BY <1>2 DEF Transactions!Settled, Settled
<1>5. Transactions!QueryAccruedRewards(h) = QueryAccruedRewards(h)
  BY <1>2, SameArithmetic DEF Transactions!QueryAccruedRewards, QueryAccruedRewards
<1> QED BY <1>2, <1>3, <1>4, <1>5

\* The claims of a holder.
LEMMA SameClaims ==
  ASSUME claims = committed.claims, NEW h
  PROVE  /\ Transactions!ClaimsOf(h) = ClaimsOf(h)
         /\ Transactions!NextPosition(h) = NextPosition(h)
<1>1. Transactions!ClaimsOf(h) = ClaimsOf(h)
  BY DEF Transactions!ClaimsOf, ClaimsOf
<1>2. \A S : Transactions!Max(S) = Max(S)
  BY DEF Transactions!Max, Max
<1>3. Transactions!NextPosition(h) = NextPosition(h)
  BY <1>1, <1>2 DEF Transactions!NextPosition, NextPosition
<1> QED BY <1>1, <1>3

\* Which of the claims are paid.
LEMMA SamePaid ==
  ASSUME claims = committed.claims, height = committed.height, NEW h, NEW paid
  PROVE  Transactions!IsPaid(h, {}, paid) <=> IsPaid(h, {}, paid)
<1>1. Transactions!ClaimsOf(h) = ClaimsOf(h)
  BY SameClaims
<1>2. \A c : Transactions!Mature(c) <=> Mature(c)
  BY DEF Transactions!Mature, Mature
<1> QED BY <1>1, <1>2 DEF Transactions!IsPaid, IsPaid

\* The combinations that are registered.
LEMMA SameCombinations ==
  ASSUME combinations = committed.combinations,
         lottery_counter = committed.lottery_counter, NEW h, NEW combination
  PROVE  /\ Transactions!CombinationKeys(h, combination)
              = CombinationKeys(h, combination)
         /\ Transactions!CombinationsAreNew(h, combination)
              <=> CombinationsAreNew(h, combination)
<1>1. Transactions!CombinationKeys(h, combination) = CombinationKeys(h, combination)
  BY DEF Transactions!CombinationKeys, CombinationKeys, Transactions!Range, Range
<1>2. Transactions!IsInjective(combination) <=> IsInjective(combination)
  BY DEF Transactions!IsInjective, IsInjective
<1> QED BY <1>1, <1>2 DEF Transactions!CombinationsAreNew, CombinationsAreNew

-----------------------------------------------------------------------------
(* What is read from the committed state stays until it changes.            *)

\* What is read of the committed state stays until the transaction ends.
LEMMA RewardsStay ==
  ASSUME UNCHANGED committed, NEW h
  PROVE  /\ Transactions!RewardsComputable(h)' <=> Transactions!RewardsComputable(h)
         /\ Transactions!Settled(h)' = Transactions!Settled(h)
         /\ Transactions!QueryAccruedRewards(h)' = Transactions!QueryAccruedRewards(h)
<1>1. Transactions!AllRewards(h)' = Transactions!AllRewards(h)
  BY DEF Transactions!AllRewards, Transactions!CalculateDecimalRewards
<1>2. Transactions!RewardsComputable(h)' <=> Transactions!RewardsComputable(h)
  BY <1>1 DEF Transactions!RewardsComputable, Transactions!CalculateDecimalRewards
<1> QED BY <1>1, <1>2 DEF Transactions!Settled, Transactions!QueryAccruedRewards

LEMMA ClaimsStay ==
  ASSUME UNCHANGED committed, NEW h, NEW paid
  PROVE  /\ Transactions!ClaimsOf(h)' = Transactions!ClaimsOf(h)
         /\ Transactions!NextPosition(h)' = Transactions!NextPosition(h)
         /\ Transactions!IsPaid(h, {}, paid)' <=> Transactions!IsPaid(h, {}, paid)
<1>1. Transactions!ClaimsOf(h)' = Transactions!ClaimsOf(h)
  BY DEF Transactions!ClaimsOf
<1>2. \A c : Transactions!Mature(c)' <=> Transactions!Mature(c)
  BY DEF Transactions!Mature
<1> QED BY <1>1, <1>2 DEF Transactions!NextPosition, Transactions!IsPaid

LEMMA CombinationsStay ==
  ASSUME UNCHANGED committed, NEW h, NEW combination
  PROVE  /\ Transactions!CombinationKeys(h, combination)'
              = Transactions!CombinationKeys(h, combination)
         /\ Transactions!CombinationsAreNew(h, combination)'
              <=> Transactions!CombinationsAreNew(h, combination)
BY DEF Transactions!CombinationKeys, Transactions!CombinationsAreNew

LEMMA EarningStays ==
  ASSUME UNCHANGED <<committed, tax>>
  PROVE  /\ Transactions!DrawIsDue' <=> Transactions!DrawIsDue
         /\ Transactions!AustValue' = Transactions!AustValue
         /\ Transactions!InterestAccrued' = Transactions!InterestAccrued
         /\ Interest' = Interest
         /\ EarningSent' = EarningSent
<1>1. Transactions!AustValue' = Transactions!AustValue
  BY DEF Transactions!AustValue
<1>2. Transactions!InterestAccrued' = Transactions!InterestAccrued
  BY <1>1 DEF Transactions!InterestAccrued
<1>3. Interest' = Interest
  BY <1>2 DEF Interest, Transactions!AustWorth
<1>4. EarningSent' = EarningSent
  BY <1>2 DEF EarningSent, Transactions!Earning, Transactions!EarningsExpected
<1>5. Transactions!DrawIsDue' <=> Transactions!DrawIsDue
  BY DEF Transactions!DrawIsDue, Deployed
<1> QED BY <1>1, <1>2, <1>3, <1>4, <1>5

-----------------------------------------------------------------------------
(* What a handler does from the committed state it has then done.           *)

\* A move of stake.
LEMMA MovesStake ==
  ASSUME SameStaking, UNCHANGED committed, NEW h, NEW balance, NEW total,
         MoveStake(h, balance, total)
  PROVE  DidMoveStake(h, balance, total)'
<1>1. /\ Transactions!RewardsComputable(h)' <=> RewardsComputable(h)
      /\ Transactions!Settled(h)' = Settled(h)
  BY RewardsStay, SameRewards DEF SameStaking
<1> QED BY <1>1 DEF MoveStake, DidMoveStake, SameStaking

LEMMA Bonds ==
  ASSUME SameStaking, UNCHANGED committed, NEW sender, NEW funds, NEW h,
         NEW amount, Bond(sender, funds, h, amount)
  PROVE  DidBond(h, amount)'
<1>1. MoveStake(h, holders[h].balance + amount, total_balance + amount)
      /\ UNCHANGED <<claims, combinations, staking_uusd, height, lottery>>
  BY DEF Bond
<1>2. DidMoveStake(h, committed.holders[h].balance + amount,
                   committed.total_balance + amount)'
  BY <1>1, MovesStake DEF SameStaking
<1> QED BY <1>1, <1>2 DEF DidBond, RestOfStakingSame, SameStaking, lottery

LEMMA Unbonds ==
  ASSUME SameStaking, SameClock, UNCHANGED committed, NEW sender, NEW funds,
         NEW h, NEW amount, UnbondStake(sender, funds, h, amount)
  PROVE  DidUnbond(h, amount)'
<1>1. /\ holders[h].balance >= amount
      /\ MoveStake(h, holders[h].balance - amount, total_balance - amount)
      /\ CreateClaim(h, amount, height + UnbondingPeriod)
      /\ UNCHANGED <<combinations, staking_uusd, height, lottery>>
  BY DEF UnbondStake
<1>2. DidMoveStake(h, committed.holders[h].balance - amount,
                   committed.total_balance - amount)'
  BY <1>1, MovesStake DEF SameStaking
<1>3. Transactions!NextPosition(h)' = NextPosition(h)
  BY ClaimsStay, SameClaims DEF SameStaking
<1>4. (claims = committed.claims \cup
       {[owner |-> h, position |-> Transactions!NextPosition(h),
         amount |-> amount, release_at |-> committed.height + UnbondingPeriod]})'
  BY <1>1, <1>3 DEF CreateClaim, SameStaking, SameClock
<1> QED BY <1>1, <1>2, <1>4 DEF DidUnbond, RestOfStakingSame, SameStaking, lottery

LEMMA Withdraws ==
  ASSUME SameStaking, SameClock, UNCHANGED committed, NEW sender, NEW h,
         NEW paid, WithdrawStake(sender, h, {}, paid)
  PROVE  DidWithdraw(h, paid)'
<1>1. /\ Transactions!ClaimsOf(h)' = ClaimsOf(h)
      /\ Transactions!IsPaid(h, {}, paid)' <=> IsPaid(h, {}, paid)
  BY ClaimsStay, SameClaims, SamePaid DEF SameStaking, SameClock
<1>2. AmountOf(paid)' = AmountOf(paid)
  BY DEF AmountOf
<1> QED BY <1>1, <1>2 DEF WithdrawStake, DidWithdraw, RestOfStakingSame,
                          SameStaking, state, lottery

LEMMA Updates ==
  ASSUME SameStaking, UNCHANGED committed, NEW sender, NEW funds,
         UpdateGlobalIndex(sender, funds)
  PROVE  DidUpdate(funds)'
BY DEF UpdateGlobalIndex, DidUpdate, SameStaking, lottery

LEMMA BuysTicket ==
  ASSUME SameStaking, SameClock, UNCHANGED <<committed, tax>>, NEW h,
         NEW combination, NEW price, GetTicket(h, combination, price, tax)
  PROVE  DidGetTicket(h, combination, price)'
<1>1. /\ Transactions!RewardsComputable(h)' <=> RewardsComputable(h)
      /\ Transactions!QueryAccruedRewards(h)' = QueryAccruedRewards(h)
  BY RewardsStay, SameRewards DEF SameStaking
<1>2. /\ Transactions!CombinationKeys(h, combination)'
           = CombinationKeys(h, combination)
      /\ Transactions!CombinationsAreNew(h, combination)'
           <=> CombinationsAreNew(h, combination)
  BY CombinationsStay, SameCombinations DEF SameStaking, SameClock
<1> QED BY <1>1, <1>2 DEF GetTicket, DidGetTicket, SameStaking

LEMMA Mints ==
  ASSUME SameToken, UNCHANGED committed, NEW sender, NEW amount,
         ExecuteBond(sender, StakingContract, amount)
  PROVE  DidMint(amount)'
BY DEF ExecuteBond, DidMint, SameToken

LEMMA Burns ==
  ASSUME SameToken, UNCHANGED committed, NEW sender, NEW amount,
         ExecuteBurn(sender, amount)
  PROVE  DidBurn(sender, amount)'
BY DEF ExecuteBurn, DidBurn, SameToken

\* What was done stays done.
LEMMA WithdrawnStays ==
  ASSUME NEW h, NEW paid, DidWithdraw(h, paid), UNCHANGED <<committed, stakingVars>>
  PROVE  DidWithdraw(h, paid)'
<1>1. /\ Transactions!ClaimsOf(h)' = Transactions!ClaimsOf(h)
      /\ Transactions!IsPaid(h, {}, paid)' <=> Transactions!IsPaid(h, {}, paid)
  BY ClaimsStay
<1>2. AmountOf(paid)' = AmountOf(paid)
  BY DEF AmountOf
<1> QED BY <1>1, <1>2 DEF DidWithdraw, RestOfStakingSame, stakingVars, state, lottery

-----------------------------------------------------------------------------
(* What a finished transaction commits is a transaction of Dogether.        *)

\* The state worked on becomes the committed one.
Committing ==
  /\ committed'.global_index = global_index
  /\ committed'.total_balance = total_balance
  /\ committed'.prev_reward_balance = prev_reward_balance
  /\ committed'.holders = holders
  /\ committed'.claims = claims
  /\ committed'.combinations = combinations
  /\ committed'.staking_uusd = staking_uusd
  /\ committed'.height = height
  /\ committed'.lottery_counter = lottery_counter
  /\ committed'.lottery_tickets = lottery_tickets
  /\ committed'.total_supply = total_supply
  /\ committed'.balances = balances
  /\ committed'.total_ust_pool = total_ust_pool
  /\ committed'.next_draw = next_draw
  /\ committed'.pool_uusd = pool_uusd
  /\ committed'.aust = aust
  /\ committed'.exchange_rate = exchange_rate
  /\ committed'.now = now
  /\ committed'.staking_address = staking_address
  /\ committed'.cw20_address = cw20_address
  /\ committed'.minter = minter
  /\ committed'.admin = admin
  /\ committed'.cw20_token_addr = cw20_token_addr

\* Commit takes over every variable.
LEMMA CommitIs ==
  ASSUME Commit
  PROVE  Committing
BY DEF Commit, Working, Committing

\* A running transaction has contracts to run on.
LEMMA RunningIsDeployed ==
  ASSUME Running, Committing
  PROVE  Deployed /\ Deployed'
BY MessagesAssumption DEF Running, CommittedWired, SameWiring, Committing, Deployed

\* What a handler has done is, committed, what it does in Dogether.
LEMMA CommitsMoveStake ==
  ASSUME Committing, NEW h, NEW balance, NEW total, DidMoveStake(h, balance, total)
  PROVE  Transactions!MoveStake(h, balance, total)
BY SameArithmetic DEF Committing, DidMoveStake, Transactions!MoveStake

LEMMA CommitsBond ==
  ASSUME Committing, SameClock, NEW h, NEW amount, amount > 0, DidBond(h, amount)
  PROVE  Transactions!Bond(Cw20Token, 0, h, amount)
<1>1. Transactions!MoveStake(h, committed.holders[h].balance + amount,
                             committed.total_balance + amount)
  BY CommitsMoveStake DEF DidBond
<1> QED BY <1>1 DEF DidBond, RestOfStakingSame, SameClock, Committing,
                    Transactions!Bond, Transactions!lottery

LEMMA CommitsUnbond ==
  ASSUME Committing, SameClock, NEW h, NEW amount, amount > 0, DidUnbond(h, amount)
  PROVE  Transactions!UnbondStake(Admin, 0, h, amount)
<1>1. Transactions!MoveStake(h, committed.holders[h].balance - amount,
                             committed.total_balance - amount)
  BY CommitsMoveStake DEF DidUnbond
<1>2. Transactions!CreateClaim(h, amount, committed.height + UnbondingPeriod)
  BY DEF DidUnbond, Committing, Transactions!CreateClaim
<1> QED BY <1>1, <1>2 DEF DidUnbond, RestOfStakingSame, SameClock, Committing,
                          Transactions!UnbondStake, Transactions!lottery

LEMMA CommitsWithdraw ==
  ASSUME Committing, SameClock, NEW h, NEW paid, DidWithdraw(h, paid)
  PROVE  Transactions!WithdrawStake(Admin, h, {}, paid)
BY SameSums, SameArithmetic
   DEF DidWithdraw, RestOfStakingSame, SameClock, Committing,
       Transactions!WithdrawStake, Transactions!lottery, Transactions!state

LEMMA CommitsUpdate ==
  ASSUME Committing, SameClock, NEW funds, DidUpdate(funds)
  PROVE  Transactions!UpdateGlobalIndex(Admin, funds)
BY SameArithmetic
   DEF DidUpdate, SameClock, Committing, Transactions!UpdateGlobalIndex,
       Transactions!lottery

LEMMA CommitsGetTicket ==
  ASSUME Committing, SameClock, NEW h, NEW combination, NEW price,
         DidGetTicket(h, combination, price)
  PROVE  Transactions!GetTicket(h, combination, price, tax)
<1>1. Transactions!TicketCost(combination, price) = TicketCost(combination, price)
  BY DEF Transactions!TicketCost, TicketCost
<1> QED BY <1>1, SameArithmetic, SameTaxation
           DEF DidGetTicket, SameClock, Committing, Transactions!GetTicket

LEMMA CommitsMint ==
  ASSUME Committing, Running, NEW amount, amount > 0, DidMint(amount)
  PROVE  Transactions!ExecuteBond(Admin, StakingContract, amount)
BY RunningIsDeployed, SameArithmetic, WiringAssumption
   DEF DidMint, Committing, Transactions!ExecuteBond

LEMMA CommitsBurn ==
  ASSUME Committing, Running, NEW sender, NEW amount, DidBurn(sender, amount)
  PROVE  Transactions!ExecuteBurn(sender, amount)
BY RunningIsDeployed DEF DidBurn, Committing, Transactions!ExecuteBurn

\* What nothing was done to is unchanged.
LEMMA CommitsSameToken ==
  ASSUME Committing, Running, SameToken
  PROVE  UNCHANGED Transactions!cw20Vars
BY RunningIsDeployed DEF SameToken, Committing, Transactions!cw20Vars

LEMMA CommitsSameStaking ==
  ASSUME Committing, SameClock, SameStaking
  PROVE  UNCHANGED Transactions!stakingVars
BY DEF SameStaking, SameClock, Committing, Transactions!stakingVars,
       Transactions!state, Transactions!lottery

LEMMA CommitsSamePool ==
  ASSUME Committing, Running, SameClock, SamePool
  PROVE  UNCHANGED Transactions!poolVars
BY RunningIsDeployed
   DEF SamePool, SameMoney, SameClock, Committing, Transactions!poolVars,
       Transactions!poolState, Transactions!anchor

\* Each finished transaction is the action of Dogether it started as.
LEMMA CommitsPool ==
  ASSUME Committing, SameClock, NEW sender, NEW sent, PoolDone(sender, sent)
  PROVE  Transactions!Pool(sender, sent, tax)
<1> DEFINE deposit == DeductTax(tax, sent)
<1>1. /\ PoolBooked(sent) /\ PoolAtMarket(sent)
      /\ DidBond(sender, deposit) /\ DidMint(deposit) /\ Running
      /\ deposit > 0 /\ sent > 0
  BY DEF PoolDone, PoolBooked, PoolAtMarket
<1>2. Transactions!Bond(Cw20Token, 0, sender, deposit)
  BY <1>1, CommitsBond
<1>3. Transactions!ExecuteBond(Admin, StakingContract, deposit)
  BY <1>1, CommitsMint
<1>4. /\ Transactions!DeductTax(tax, sent) = deposit
      /\ Transactions!SendCost(tax, deposit) = SendCost(tax, deposit)
      /\ Transactions!AustMinted(deposit) = AustMinted(deposit)
      /\ \A n : Transactions!Fits(n) <=> Fits(n)
  BY SameTaxation, SameMarket, SameArithmetic
<1>5. Deployed /\ Deployed'
  BY <1>1, RunningIsDeployed
<1> HIDE DEF deposit
<1>6. /\ Fits(committed.total_ust_pool + deposit)
      /\ committed'.total_ust_pool = committed.total_ust_pool + deposit
      /\ committed'.next_draw = committed.next_draw
      /\ SendCost(tax, deposit) <= committed.pool_uusd + sent
      /\ AustMinted(deposit) > 0
      /\ committed'.pool_uusd = committed.pool_uusd + sent - SendCost(tax, deposit)
      /\ committed'.aust = committed.aust + AustMinted(deposit)
      /\ committed'.exchange_rate = committed.exchange_rate
      /\ committed'.now = committed.now
  BY <1>1 DEF PoolBooked, PoolAtMarket, Committing, SameClock, deposit
<1> QED BY <1>1, <1>2, <1>3, <1>4, <1>5, <1>6 DEF Transactions!Pool

LEMMA CommitsUnPool ==
  ASSUME Committing, SameClock, NEW sender, NEW amount, UnPoolDone(sender, amount)
  PROVE  Transactions!UnPool(sender, amount)
BY CommitsUnbond, CommitsSameToken, CommitsSamePool
   DEF UnPoolDone, Transactions!UnPool

LEMMA CommitsClaim ==
  ASSUME Committing, SameClock, NEW sender, NEW paid, ClaimDone(sender, paid)
  PROVE  Transactions!ClaimUnPool(sender, paid, tax)
<1> DEFINE amount == AmountOf(paid)
           redeemed == AustToRedeem(amount)
           net_amount == NetAmount(tax, amount)
           held == committed.pool_uusd + UusdRedeemed(tax, redeemed)
<1>1. /\ ClaimBooked(sender, paid) /\ ClaimAtMarket(paid) /\ Running
      /\ DidWithdraw(sender, paid) /\ DidBurn(StakingContract, amount)
  BY DEF ClaimDone, ClaimBooked
<1>2. /\ Transactions!WithdrawStake(Admin, sender, {}, paid)
      /\ Transactions!ExecuteBurn(StakingContract, amount)
  BY <1>1, CommitsWithdraw, CommitsBurn
<1>3. /\ Transactions!AmountOf(paid) = amount
      /\ Transactions!AustToRedeem(amount) = redeemed
      /\ Transactions!NetAmount(tax, amount) = net_amount
      /\ Transactions!UusdRedeemed(tax, redeemed) = UusdRedeemed(tax, redeemed)
      /\ Transactions!SendCost(tax, net_amount) = SendCost(tax, net_amount)
      /\ Transactions!FromRatio(amount, 1) = FromRatio(amount, 1)
      /\ \A n : Transactions!Fits(n) <=> Fits(n)
  BY SameSums, SameTaxation, SameMarket, SameArithmetic
<1>4. Deployed /\ Deployed'
  BY <1>1, RunningIsDeployed
<1>5. /\ Fits(FromRatio(amount, 1))
      /\ committed.total_ust_pool >= amount
      /\ committed'.total_ust_pool = committed.total_ust_pool - amount
      /\ redeemed > 0
      /\ redeemed <= committed.aust
      /\ committed'.aust = committed.aust - redeemed
      /\ net_amount > 0
      /\ SendCost(tax, net_amount) <= held
      /\ committed'.pool_uusd = held - SendCost(tax, net_amount)
      /\ committed'.next_draw = committed.next_draw
      /\ committed'.exchange_rate = committed.exchange_rate
      /\ committed'.now = committed.now
  BY DEF ClaimDone, ClaimBooked, ClaimAtMarket, Committing, SameClock
<1> HIDE DEF amount, redeemed, net_amount
<1> QED BY <1>2, <1>3, <1>4, <1>5 DEF Transactions!ClaimUnPool

LEMMA CommitsEarning ==
  ASSUME Committing, SameClock, EarningDone
  PROVE  Transactions!RedeemEarning(tax)
<1> DEFINE held == committed.pool_uusd + UusdRedeemed(tax, Interest)
<1>1. EarningDue /\ Running /\ SameToken /\ DidUpdate(EarningSent)
  BY DEF EarningDone, EarningDue
<1>2. Transactions!UpdateGlobalIndex(Admin, EarningSent)
  BY <1>1, CommitsUpdate
<1>3. UNCHANGED Transactions!cw20Vars
  BY <1>1, CommitsSameToken
<1>4. /\ Transactions!UusdRedeemed(tax, Interest) = UusdRedeemed(tax, Interest)
      /\ Transactions!SendCost(tax, EarningSent) = SendCost(tax, EarningSent)
      /\ \A n : Transactions!Fits(n) <=> Fits(n)
  BY SameTaxation, SameMarket, SameArithmetic
<1>5. Deployed /\ Deployed'
  BY <1>1, RunningIsDeployed
<1>6. /\ Transactions!DrawIsDue
      /\ Fits(Transactions!AustValue)
      /\ Transactions!InterestAccrued >= 0
      /\ Interest > 0
      /\ Interest <= committed.aust
      /\ EarningSent > 0
      /\ SendCost(tax, EarningSent) <= held
      /\ committed'.aust = committed.aust - Interest
      /\ committed'.pool_uusd = held - SendCost(tax, EarningSent)
      /\ committed'.next_draw = committed.next_draw + DrawPeriod
      /\ committed'.total_ust_pool = committed.total_ust_pool
      /\ committed'.exchange_rate = committed.exchange_rate
      /\ committed'.now = committed.now
  BY DEF EarningDone, EarningDue, EarningAtMarket, Committing, SameClock
<1>7. Interest = Transactions!AustWorth(Transactions!InterestAccrued)
      /\ EarningSent = Transactions!Earning(tax)
  BY DEF Interest, EarningSent
<1> QED BY <1>2, <1>3, <1>4, <1>5, <1>6, <1>7 DEF Transactions!RedeemEarning

LEMMA CommitsTicket ==
  ASSUME Committing, SameClock, NEW h, NEW combination, NEW price,
         TicketDone(h, combination, price)
  PROVE  Transactions!BuyTicket(h, combination, price, tax)
BY CommitsGetTicket, CommitsSameToken, CommitsSamePool
   DEF TicketDone, Transactions!BuyTicket

LEMMA CommitsBurnTokens ==
  ASSUME Committing, SameClock, NEW sender \in Holders, NEW amount,
         BurnDone(sender, amount)
  PROVE  Transactions!BurnTokens(sender, amount)
<1>1. sender # StakingContract
  BY MessagesAssumption
<1> QED BY <1>1, CommitsBurn, CommitsSameStaking, CommitsSamePool
           DEF BurnDone, Transactions!BurnTokens

\* The deployment shows in the addresses only: what it stores is what the
\* instance has had for initial values from the start.
LEMMA CommitsDeployment ==
  ASSUME Committing, SameClock, message_cw20' = message_cw20, DeployDone
  PROVE  UNCHANGED Transactions!dogetherVars
<1>1. ~Deployed /\ Deployed'
  BY MessagesAssumption
     DEF DeployDone, Undeployed, CommittedAbsent, Wired, Committing, Deployed
<1>2. SameStaking
  BY DEF DeployDone, Undeployed
<1>3. UNCHANGED Transactions!stakingVars
  BY <1>2, CommitsSameStaking
<1>4. UNCHANGED Transactions!cw20Vars
  BY <1>1 DEF DeployDone, TokenExists, Committing, Transactions!cw20Vars,
     SupplyFromRows, BalanceFromRows
<1>5. UNCHANGED Transactions!poolVars
  BY <1>1 DEF DeployDone, Undeployed, CommittedAbsent, SameMoney, SameClock,
     Committing, Transactions!poolVars, Transactions!poolState, Transactions!anchor
<1> QED BY <1>3, <1>4, <1>5 DEF Transactions!dogetherVars

\* Whatever is finished: one step of Dogether, or the deployment.
LEMMA WholeCommits ==
  ASSUME Committing, SameClock, message_cw20' = message_cw20, tax \in Taxes, Whole
  PROVE  [Transactions!DogetherNext]_(Transactions!dogetherVars)
<1>1. CASE DeployDone
  BY <1>1, CommitsDeployment
<1>2. ASSUME NEW sender \in Holders, NEW sent \in Deposits, PoolDone(sender, sent)
      PROVE  Transactions!DogetherNext
  BY <1>2, CommitsPool DEF Transactions!DogetherNext
<1>3. ASSUME NEW sender \in Holders, NEW amount \in Amounts, UnPoolDone(sender, amount)
      PROVE  Transactions!DogetherNext
  BY <1>3, CommitsUnPool DEF Transactions!DogetherNext
<1>4. ASSUME NEW sender \in Holders, NEW paid, ClaimDone(sender, paid)
      PROVE  Transactions!DogetherNext
  <2>1. paid \in SUBSET Transactions!ClaimsOf(sender)
    BY <1>4 DEF ClaimDone, ClaimBooked, DidWithdraw
  <2> QED BY <1>4, <2>1, CommitsClaim DEF Transactions!DogetherNext
<1>5. CASE EarningDone
  BY <1>5, CommitsEarning DEF Transactions!DogetherNext
<1>6. ASSUME NEW h \in Holders, NEW combination \in Combinations,
             NEW price \in Prices, TicketDone(h, combination, price)
      PROVE  Transactions!DogetherNext
  BY <1>6, CommitsTicket DEF Transactions!DogetherNext
<1>7. ASSUME NEW sender \in Holders, NEW amount \in TokenAmounts,
             BurnDone(sender, amount)
      PROVE  Transactions!DogetherNext
  <2>1. sender \in Addresses
    BY MessagesAssumption
  <2> QED BY <1>7, <2>1, CommitsBurnTokens DEF Transactions!DogetherNext
<1> QED BY <1>1, <1>2, <1>3, <1>4, <1>5, <1>6, <1>7 DEF Whole

\* Between two transactions the committed state follows the state.
Following ==
  /\ committed'.global_index = global_index'
  /\ committed'.total_balance = total_balance'
  /\ committed'.prev_reward_balance = prev_reward_balance'
  /\ committed'.holders = holders'
  /\ committed'.claims = claims'
  /\ committed'.combinations = combinations'
  /\ committed'.staking_uusd = staking_uusd'
  /\ committed'.height = height'
  /\ committed'.lottery_counter = lottery_counter'
  /\ committed'.lottery_tickets = lottery_tickets'
  /\ committed'.total_supply = total_supply'
  /\ committed'.balances = balances'
  /\ committed'.total_ust_pool = total_ust_pool'
  /\ committed'.next_draw = next_draw'
  /\ committed'.pool_uusd = pool_uusd'
  /\ committed'.aust = aust'
  /\ committed'.exchange_rate = exchange_rate'
  /\ committed'.now = now'
  /\ committed'.staking_address = staking_address'
  /\ committed'.cw20_address = cw20_address'
  /\ committed'.minter = minter'
  /\ committed'.admin = admin'
  /\ committed'.cw20_token_addr = cw20_token_addr'

\* Following is what Environment does to the committed state.
LEMMA FollowsIs ==
  ASSUME committed' = Working'
  PROVE  Following
BY DEF Working, Following

LEMMA FollowingIsSame ==
  ASSUME Following
  PROVE  Same' /\ SameClock'
BY DEF Following, Same, SameStaking, SameToken, SamePool, SameMoney, SameWiring,
       SameClock

LEMMA CommittingIsSame ==
  ASSUME Committing, UNCHANGED contractVars
  PROVE  Same' /\ SameClock'
BY DEF Committing, Same, SameStaking, SameToken, SamePool, SameMoney, SameWiring,
       SameClock, contractVars, dogetherVars, stakingVars, state, lottery,
       cw20Vars, poolVars, poolState, anchor, wiring

\* What happens between two transactions happens in Dogether too.
LEMMA EnvironmentRefines ==
  ASSUME Same, SameClock, Environment
  PROVE  Transactions!DogetherNext
<1>1. Following /\ UNCHANGED <<wiring, message_cw20>>
  BY FollowsIs DEF Environment
<1>2. Deployed' <=> Deployed
  BY <1>1 DEF Following, Same, SameWiring, wiring, Deployed
<1> USE <1>1, <1>2, SameArithmetic
    DEF Following, Same, SameStaking, SameToken, SamePool, SameMoney, SameClock,
        stakingVars, state, lottery, cw20Vars, poolVars, poolState, anchor,
        Transactions!stakingVars, Transactions!state, Transactions!lottery,
        Transactions!cw20Vars, Transactions!poolVars, Transactions!poolState,
        Transactions!anchor
<1>3. ASSUME NEW amount \in Gifts, GiveUusd(amount)
      PROVE  Transactions!GiveUusd(amount)
  BY <1>3 DEF GiveUusd, Transactions!GiveUusd
<1>4. ASSUME NEW amount \in Gifts, GiveAust(amount)
      PROVE  Transactions!GiveAust(amount)
  BY <1>4 DEF GiveAust, Transactions!GiveAust
<1>5. ASSUME NEW amount \in Rewards, GiveToStaking(amount)
      PROVE  Transactions!GiveToStaking(amount)
  BY <1>5 DEF GiveToStaking, GiveRewards, Transactions!GiveToStaking,
              Transactions!GiveRewards
<1>6. ASSUME NEW step \in RateSteps, AccrueInterest(step)
      PROVE  Transactions!AccrueInterest(step)
  BY <1>6 DEF AccrueInterest, Transactions!AccrueInterest
<1>7. ASSUME NEW seconds \in BlockSeconds, Block(seconds)
      PROVE  Transactions!Block(seconds)
  BY <1>7 DEF Block, NextBlock, Transactions!Block, Transactions!NextBlock
<1>8. ASSUME LotteryDraw
      PROVE  Transactions!LotteryDraw
  BY <1>8 DEF LotteryDraw, NextLottery, Transactions!LotteryDraw,
              Transactions!NextLottery
<1> QED BY <1>3, <1>4, <1>5, <1>6, <1>7, <1>8
           DEF Environment, Transactions!DogetherNext

-----------------------------------------------------------------------------
(* The books of the state worked on and those of the committed one.         *)

\* Nothing changed yet, the books are those of the committed state.
LEMMA SameStakingTypes ==
  ASSUME SameStaking, SameClock
  PROVE  StakingTypeOK <=> Transactions!StakingTypeOK
<1>1. Transactions!Holder = Holder /\ Transactions!Claim = Claim
  BY SameArithmetic DEF Transactions!Holder, Holder, Transactions!Claim, Claim
<1>2. Transactions!Uint = Uint
  BY SameArithmetic
<1>3. \A S : Transactions!IsFiniteSet(S) <=> IsFiniteSet(S)
  BY DEF Transactions!IsFiniteSet, IsFiniteSet
<1>4. \A f : Transactions!Range(f) = Range(f)
  BY DEF Transactions!Range, Range
<1> QED BY <1>1, <1>2, <1>3, <1>4
        DEF SameStaking, SameClock, StakingTypeOK, Transactions!StakingTypeOK

LEMMA SameStakingSums ==
  ASSUME SameStaking
  PROVE  /\ StakeConserved <=> Transactions!StakeConserved
         /\ RewardsSolvent <=> Transactions!RewardsSolvent
<1>1. [h \in Holders |-> Transactions!AllRewards(h)] = [h \in Holders |-> AllRewards(h)]
  BY SameRewards DEF SameStaking
<1>2. StakeConserved <=> Transactions!StakeConserved
  BY SameSums DEF SameStaking, StakeConserved, Transactions!StakeConserved
<1>3. RewardsSolvent <=> Transactions!RewardsSolvent
  BY <1>1, SameSums DEF SameStaking, RewardsSolvent, Transactions!RewardsSolvent
<1> QED BY <1>2, <1>3

\* The books of all three contracts.
LEMMA SameBooks == Same /\ SameClock => (Books <=> CommittedBooks)
<1> SUFFICES ASSUME Same, SameClock PROVE Books <=> CommittedBooks
  OBVIOUS
<1>1. SameStaking
  BY DEF Same
<1>2. /\ StakingTypeOK <=> Transactions!StakingTypeOK
      /\ StakeConserved <=> Transactions!StakeConserved
      /\ RewardsSolvent <=> Transactions!RewardsSolvent
  BY <1>1, SameStakingTypes, SameStakingSums
<1> QED BY <1>2 DEF Books, CommittedBooks, Cw20TypeOK, SupplyCoversBalances,
                    PoolTypeOK, Same, SameToken, SamePool, SameMoney, SameClock

\* The committed books are sound as long as nothing is committed.
LEMMA CommittedStays ==
  ASSUME CommittedInv, UNCHANGED committed
  PROVE  CommittedInv'
<1>1. Transactions!StakingTypeOK' <=> Transactions!StakingTypeOK
  BY DEF Transactions!StakingTypeOK
<1>2. Transactions!StakeConserved' <=> Transactions!StakeConserved
  BY DEF Transactions!StakeConserved
<1>3. Transactions!RewardsSolvent' <=> Transactions!RewardsSolvent
  BY DEF Transactions!RewardsSolvent, Transactions!AllRewards,
         Transactions!CalculateDecimalRewards
<1>4. CommittedBooks'
  BY <1>1, <1>2, <1>3 DEF CommittedInv, CommittedBooks
<1>5. CommittedAgree'
  BY DEF CommittedInv, CommittedAgree, AmountOf
<1>6. (CommittedWired \/ CommittedAbsent)'
  BY DEF CommittedInv, CommittedWired, CommittedAbsent
<1> QED BY <1>4, <1>5, <1>6 DEF CommittedInv

-----------------------------------------------------------------------------
(* What keeps the books.                                                    *)

StakingBooks == StakingTypeOK /\ StakeConserved /\ RewardsSolvent
TokenBooks == Cw20TypeOK /\ SupplyCoversBalances

LEMMA BooksAre == Books <=> StakingBooks /\ TokenBooks /\ PoolTypeOK
BY DEF Books, StakingBooks, TokenBooks

\* The books of the staking contract are its invariant.
LEMMA StakingBooksAre == StakingBooks <=> StakingInv
<1>1. StakingTypeOK => (StakeConserved <=> L!TotalIsStaked)
  BY LedgerSumOver DEF StakeConserved, L!TotalIsStaked
<1>2. RewardsSolvent <=> L!OwedIsCovered
  BY LedgerSumOver DEF RewardsSolvent, L!OwedIsCovered
<1>3. StakingTypeOK => L!LedgerTypeOK
  BY HolderNumbers, UintIsNat DEF StakingTypeOK, L!LedgerTypeOK
<1> QED BY <1>1, <1>2, <1>3 DEF StakingBooks, StakingInv, L!LedgerInv

LEMMA StakingBooksBecome == StakingBooks' <=> StakingInv'
BY StakingBooksAre, PTL

\* The books of a contract that is not called.
LEMMA StakingBooksStay ==
  ASSUME StakingBooks, UNCHANGED stakingVars
  PROVE  StakingBooks'
BY DEF StakingBooks, StakingTypeOK, StakeConserved, RewardsSolvent, AllRewards,
       CalculateDecimalRewards, stakingVars, state, lottery

LEMMA TokenBooksStay ==
  ASSUME TokenBooks, UNCHANGED cw20Vars
  PROVE  TokenBooks'
BY DEF TokenBooks, Cw20TypeOK, SupplyCoversBalances, cw20Vars

LEMMA BooksStay ==
  ASSUME Books, UNCHANGED dogetherVars
  PROVE  Books'
<1>1. PoolTypeOK'
  BY DEF Books, PoolTypeOK, dogetherVars, poolVars, poolState, anchor
<1> QED BY <1>1, BooksAre, StakingBooksStay, TokenBooksStay
        DEF Books, StakingBooks, TokenBooks, dogetherVars

\* A step of the reward ledger keeps the staking contract's.
LEMMA LedgerStepKeepsBooks ==
  ASSUME StakingBooks, StakingTypeOK', [L!Next]_(L!ledgerVars)
  PROVE  StakingBooks'
<1>1. StakingInv
  BY StakingBooksAre
<1>2. L!LedgerInv'
  BY <1>1, L!LedgerStepInv, UnitAssumption, MaxUintAssumption, LedgerAccounts
     DEF StakingInv
<1>3. StakingInv'
  BY <1>2 DEF StakingInv
<1> QED BY <1>3, StakingBooksBecome

\* The handlers of the staking contract are steps of the ledger, or none.
LEMMA BondKeepsBooks ==
  ASSUME StakingBooks, NEW sender, NEW funds, NEW h \in Holders,
         NEW amount \in Uint, Bond(sender, funds, h, amount)
  PROVE  StakingBooks'
<1>1. StakingTypeOK' /\ L!Deposit(h, amount)
  BY BondKeeps, StakingBooksAre
<1> QED BY <1>1, LedgerStepKeepsBooks, LedgerUint DEF L!Next

LEMMA UnbondKeepsBooks ==
  ASSUME StakingBooks, NEW sender, NEW funds, NEW h \in Holders,
         NEW amount \in Uint, UnbondStake(sender, funds, h, amount)
  PROVE  StakingBooks'
<1>1. StakingTypeOK' /\ L!Leave(h, amount)
  BY UnbondKeeps, StakingBooksAre
<1> QED BY <1>1, LedgerStepKeepsBooks, LedgerUint DEF L!Next

LEMMA WithdrawKeepsBooks ==
  ASSUME StakingBooks, NEW sender, NEW h \in Holders, NEW cap, NEW paid,
         WithdrawStake(sender, h, cap, paid)
  PROVE  StakingBooks'
<1>1. StakingTypeOK' /\ UNCHANGED L!ledgerVars
  BY WithdrawKeeps, StakingBooksAre
<1> QED BY <1>1, LedgerStepKeepsBooks

LEMMA UpdateKeepsBooks ==
  ASSUME StakingBooks, NEW sender, NEW funds \in Nat,
         UpdateGlobalIndex(sender, funds)
  PROVE  StakingBooks'
<1>1. StakingTypeOK' /\ \E amount \in Uint : L!Distribute(amount)
  BY UpdateKeeps, StakingBooksAre
<1> QED BY <1>1, LedgerStepKeepsBooks, LedgerUint DEF L!Next

LEMMA GetTicketKeepsBooks ==
  ASSUME StakingBooks, NEW h \in Holders, NEW combination \in Combinations,
         NEW price \in Uint, NEW t \in TaxType,
         GetTicket(h, combination, price, t)
  PROVE  StakingBooks'
<1>1. StakingTypeOK' /\ \E cost \in Uint : L!Spend(h, cost)
  BY GetTicketKeeps, StakingBooksAre
<1> QED BY <1>1, LedgerStepKeepsBooks, LedgerUint DEF L!Next

\* Neither coins, nor blocks, nor the draw of the lottery touch them.
LEMMA EnvironmentKeepsStakingBooks ==
  ASSUME StakingBooks, NEW amount \in Uint,
         GiveRewards(amount) \/ NextBlock \/ NextLottery
  PROVE  StakingBooks'
<1>1. StakingTypeOK' /\ UNCHANGED L!ledgerVars
  BY GiveKeeps, ClocksKeep, StakingBooksAre
<1> QED BY <1>1, LedgerStepKeepsBooks

\* The handlers of the token.
LEMMA MintKeepsBooks ==
  ASSUME TokenBooks, NEW sender, NEW contract \in Addresses, NEW amount \in Uint,
         ExecuteBond(sender, contract, amount)
  PROVE  TokenBooks'
BY ExecuteBondType, ExecuteBondCovers, UintIsNat DEF TokenBooks

LEMMA BurnKeepsBooks ==
  ASSUME TokenBooks, NEW sender \in Addresses, NEW amount \in Uint,
         ExecuteBurn(sender, amount)
  PROVE  TokenBooks'
BY ExecuteBurnType, ExecuteBurnCovers, UintIsNat DEF TokenBooks

\* instantiate of the token starts them.
LEMMA InstantiateKeepsBooks == Cw20Init => TokenBooks
BY Cw20InitType, Cw20InitCovered DEF TokenBooks

\* A token that was instantiated.
LEMMA InstantiatedBooks == Cw20Init' => TokenBooks'
BY InstantiateKeepsBooks, PTL

-----------------------------------------------------------------------------
(* What a message is, by its type.                                          *)

\* What a user may mean.
LEMMA UserMessageIs ==
  ASSUME NEW user, NEW m \in UserMessages(user)
  PROVE      \/ \E sent \in Deposits : m = Message("Pool", user, Admin, sent, NoBody)
             \/ \E n \in Amounts : m = Message("UnPool", user, Admin, 0, [amount |-> n])
             \/ m = Message("ClaimUnPool", user, Admin, 0, NoBody)
             \/ m = Message("RedeemEarning", user, Admin, 0, NoBody)
             \/ \E h \in Holders, c \in Combinations :
                  m = Message("GetTicket", user, StakingContract, 0,
                              [recipient |-> h, combination |-> c])
             \/ \E n \in TokenAmounts :
                  m = Message("Burn", user, Cw20Token, 0, [amount |-> n])
<1> DEFINE pools == {Message("Pool", user, Admin, sent, NoBody) : sent \in Deposits}
           unpools == {Message("UnPool", user, Admin, 0, [amount |-> n]) : n \in Amounts}
           others == {Message("ClaimUnPool", user, Admin, 0, NoBody),
                      Message("RedeemEarning", user, Admin, 0, NoBody)}
           tickets == {Message("GetTicket", user, StakingContract, 0,
                               [recipient |-> h, combination |-> c]) :
                         h \in Holders, c \in Combinations}
           burns == {Message("Burn", user, Cw20Token, 0, [amount |-> n]) :
                       n \in TokenAmounts}
<1>1. m \in pools \/ m \in unpools \/ m \in others \/ m \in tickets \/ m \in burns
  <2>1. UserMessages(user) = pools \cup unpools \cup others \cup tickets \cup burns
    BY DEF UserMessages
  <2> HIDE DEF pools, unpools, others, tickets, burns
  <2> QED BY <2>1
<1>2. m \in pools => \E sent \in Deposits : m = Message("Pool", user, Admin, sent, NoBody)
  OBVIOUS
<1>3. m \in unpools =>
        \E n \in Amounts : m = Message("UnPool", user, Admin, 0, [amount |-> n])
  OBVIOUS
<1>4. m \in others => \/ m = Message("ClaimUnPool", user, Admin, 0, NoBody)
                      \/ m = Message("RedeemEarning", user, Admin, 0, NoBody)
  OBVIOUS
<1>5. m \in tickets =>
        \E h \in Holders, c \in Combinations :
          m = Message("GetTicket", user, StakingContract, 0,
                      [recipient |-> h, combination |-> c])
  OBVIOUS
<1>6. m \in burns =>
        \E n \in TokenAmounts : m = Message("Burn", user, Cw20Token, 0, [amount |-> n])
  OBVIOUS
<1> HIDE DEF pools, unpools, others, tickets, burns
<1> QED BY <1>1, <1>2, <1>3, <1>4, <1>5, <1>6

\* What only a contract should have sent.
LEMMA ForeignMessageIs ==
  ASSUME NEW user, NEW m \in ForeignMessages(user)
  PROVE  /\ m.type \in {"Bond", "Receive", "UnbondStake", "WithdrawStake",
                        "UpdateGlobalIndex"}
         /\ m.sender = user
<1> DEFINE bonds == {Message("Bond", user, Cw20Token, 0,
                             [contract |-> StakingContract, amount |-> n,
                              recipient |-> h]) : n \in Amounts, h \in Holders}
           receives == {Message("Receive", user, StakingContract, 0,
                                [sender |-> h, amount |-> n]) :
                          n \in Amounts, h \in Holders}
           unbonds == {Message("UnbondStake", user, StakingContract, 0,
                               [address |-> h, amount |-> n]) :
                         n \in Amounts, h \in Holders}
           withdraws == {Message("WithdrawStake", user, StakingContract, 0,
                                 [address |-> h, cap |-> {}]) : h \in Holders}
           updates == {Message("UpdateGlobalIndex", user, StakingContract, n, NoBody) :
                         n \in Rewards}
<1>1. \/ m \in bonds \/ m \in receives \/ m \in unbonds \/ m \in withdraws
      \/ m \in updates
  <2>1. ForeignMessages(user)
          = bonds \cup receives \cup unbonds \cup withdraws \cup updates
    BY DEF ForeignMessages
  <2> HIDE DEF bonds, receives, unbonds, withdraws, updates
  <2> QED BY <2>1
<1>2. m \in bonds => m.type = "Bond" /\ m.sender = user
  BY DEF Message
<1>3. m \in receives => m.type = "Receive" /\ m.sender = user
  BY DEF Message
<1>4. m \in unbonds => m.type = "UnbondStake" /\ m.sender = user
  BY DEF Message
<1>5. m \in withdraws => m.type = "WithdrawStake" /\ m.sender = user
  BY DEF Message
<1>6. m \in updates => m.type = "UpdateGlobalIndex" /\ m.sender = user
  BY DEF Message
<1> HIDE DEF bonds, receives, unbonds, withdraws, updates
<1> QED BY <1>1, <1>2, <1>3, <1>4, <1>5, <1>6

\* What a message that starts a transaction is, by its type; those meant for a
\* contract's caller come from a user.
Kinds(m) ==
  /\ m.type \in RequestTypes
  /\ m.type = "InstantiatePool" => m = Deployment
  /\ m.type = "Pool" =>
       \E user \in Holders, sent \in Deposits :
         m = Message("Pool", user, Admin, sent, NoBody)
  /\ m.type = "UnPool" =>
       \E user \in Holders, n \in Amounts :
         m = Message("UnPool", user, Admin, 0, [amount |-> n])
  /\ m.type = "ClaimUnPool" =>
       \E user \in Holders : m = Message("ClaimUnPool", user, Admin, 0, NoBody)
  /\ m.type = "GetTicket" =>
       \E user, h \in Holders, c \in Combinations :
         m = Message("GetTicket", user, StakingContract, 0,
                     [recipient |-> h, combination |-> c])
  /\ m.type = "Burn" =>
       \E user \in Holders, n \in TokenAmounts :
         m = Message("Burn", user, Cw20Token, 0, [amount |-> n])
  /\ m.type \in {"Bond", "Receive", "UnbondStake", "WithdrawStake",
                 "UpdateGlobalIndex"} => m.sender \in Holders

\* A request is of one of the kinds.
LEMMA RequestKinds ==
  ASSUME NEW m \in Requests
  PROVE  Kinds(m)
<1> USE DEF Kinds
<1>1. CASE m = Deployment
  BY <1>1 DEF Deployment, Message, RequestTypes
<1>2. ASSUME NEW user \in Holders, m \in UserMessages(user) PROVE Kinds(m)
  <2>1. CASE \E sent \in Deposits : m = Message("Pool", user, Admin, sent, NoBody)
    BY <2>1 DEF Message, RequestTypes
  <2>2. CASE \E n \in Amounts : m = Message("UnPool", user, Admin, 0, [amount |-> n])
    BY <2>2 DEF Message, RequestTypes
  <2>3. CASE \/ m = Message("ClaimUnPool", user, Admin, 0, NoBody)
             \/ m = Message("RedeemEarning", user, Admin, 0, NoBody)
    BY <2>3 DEF Message, RequestTypes
  <2>4. CASE \E h \in Holders, c \in Combinations :
               m = Message("GetTicket", user, StakingContract, 0,
                           [recipient |-> h, combination |-> c])
    BY <2>4 DEF Message, RequestTypes
  <2>5. CASE \E n \in TokenAmounts :
               m = Message("Burn", user, Cw20Token, 0, [amount |-> n])
    BY <2>5 DEF Message, RequestTypes
  <2> QED BY <1>2, <2>1, <2>2, <2>3, <2>4, <2>5, UserMessageIs
<1>3. ASSUME NEW user \in Holders, m \in ForeignMessages(user) PROVE Kinds(m)
  <2>1. /\ m.type \in {"Bond", "Receive", "UnbondStake", "WithdrawStake",
                        "UpdateGlobalIndex"}
        /\ m.sender = user
    BY <1>3, ForeignMessageIs
  <2> QED BY <2>1 DEF RequestTypes
<1> QED BY <1>1, <1>2, <1>3 DEF Requests

-----------------------------------------------------------------------------
(* The handlers.                                                            *)

\* What is pending once the first message is handled.
LEMMA SentAfterOne ==
  ASSUME NEW a, NEW z, pending = <<a, z>>
  PROVE  /\ << >> \o Tail(pending) = <<z>>
         /\ \A b : <<b>> \o Tail(pending) = <<b, z>>
         /\ \A b, c : <<b, c>> \o Tail(pending) = <<b, c, z>>
BY NothingSent, OneSent, TwoSent

\* The same with two messages after the first.
LEMMA SentAfterTwo ==
  ASSUME NEW a, NEW y, NEW z, pending = <<a, y, z>>
  PROVE  /\ << >> \o Tail(pending) = <<y, z>>
         /\ \A b : <<b>> \o Tail(pending) = <<b, y, z>>
<1>1. Tail(pending) = <<y, z>>
  OBVIOUS
<1> QED BY <1>1, NothingSent, OneBeforeTwo

\* What no handler changes.
Kept == UNCHANGED <<committed, message_cw20, tax, height, lottery_counter,
                    exchange_rate, now>>

\* A handler keeps the invariant if it leads to the next stage.
LEMMA Handled ==
  ASSUME MessagesInv, pending # << >>, Kept, Books', pending' # << >>,
         Stage(Head(pending))'
  PROVE  MessagesInv'
<1>1. CommittedInv'
  BY CommittedStays DEF MessagesInv, Kept
<1>2. SameClock'
  BY DEF MessagesInv, Kept, SameClock
<1> QED BY <1>1, <1>2 DEF MessagesInv, Kept

\* The first message of a transaction is all there is, with what follows it.
LEMMA StartedIs ==
  ASSUME MessagesInv, pending # << >>, Head(pending).type \in
           {"InstantiatePool", "Pool", "UnPool", "ClaimUnPool", "RedeemEarning", "GetTicket"}
  PROVE  Started(Head(pending)) /\ Kinds(Head(pending))
<1>1. Started(Head(pending))
  BY DEF MessagesInv, Stage
<1> QED BY <1>1, RequestKinds DEF Started

\* Nothing is deployed yet when instantiate runs: its guard.
LEMMA HandlesInstantiatePool ==
  ASSUME MessagesInv, pending # << >>, InstantiatePool(Head(pending))
  PROVE  MessagesInv'
<1> DEFINE m == Head(pending)
<1>1. Started(m) /\ m = Deployment
  BY StartedIs DEF InstantiatePool, Kinds
<1>2. CommittedAbsent
  BY <1>1, MessagesAssumption
     DEF MessagesInv, CommittedInv, InstantiatePool, Started, Same, SameWiring,
         CommittedWired
<1>3. /\ pending = <<m, Done>> /\ events = << >>
      /\ pending' = <<TokenMessageSent, Reply(0)>> \o Tail(pending)
      /\ events' = events \o << >>
  BY <1>1 DEF Started, InstantiatePool, Emit, TokenMessageSent
<1>4. Reply(0) = ReplyFrom(0, 0)
  BY <1>3 DEF Reply, ReplyFrom
<1>5. /\ pending' = <<TokenMessageSent, ReplyFrom(0, 0), Done>>
      /\ events' = << >>
  BY <1>3, <1>4, SentAfterOne, NoEvent
<1>6. Kept
  BY DEF Kept, InstantiatePool, Emit, stakingVars, lottery, anchor
<1>7. Books'
  <2>1. PoolTypeOK'
    BY ZeroIsUint, PoolInputsAssumption
       DEF InstantiatePool, anchor, MessagesInv, Books, PoolTypeOK
  <2>2. StakingBooks' /\ TokenBooks'
    BY StakingBooksStay, TokenBooksStay, BooksAre DEF InstantiatePool, MessagesInv
  <2> QED BY <2>1, <2>2 DEF Books, StakingBooks, TokenBooks
<1>8. DeployStarted'
  BY <1>1, <1>2, <1>5
     DEF DeployStarted, Undeployed, Started, Same, SameStaking, SameToken, SamePool,
         SameMoney, SameWiring, CommittedAbsent, InstantiatePool, Emit,
         TokenMessageSent,
         stakingVars, state, lottery, cw20Vars, anchor
<1>9. pending' # << >> /\ Stage(Head(pending))'
  BY <1>5, <1>8 DEF Stage, TokenMessageSent, Message
<1> QED BY <1>6, <1>7, <1>9, Handled

\* The token gets its rows and its minter.
LEMMA HandlesInstantiateToken ==
  ASSUME MessagesInv, pending # << >>, InstantiateToken(Head(pending))
  PROVE  MessagesInv'
<1> DEFINE m == Head(pending)
<1>1. DeployStarted
  BY DEF MessagesInv, Stage, RequestTypes, InstantiateToken
<1>2. /\ pending = <<TokenMessageSent, ReplyFrom(0, 0), Done>> /\ events = << >>
      /\ m = TokenMessageSent
  BY <1>1 DEF DeployStarted
<1>3. m.body = message_cw20 /\ m.sender = Admin /\ m.to = Cw20Token
  BY <1>2 DEF TokenMessageSent, Message
<1>4. message_cw20.rows \in InitialRows
  BY MessagesAssumption DEF MessagesInv, TokenMessage
<1>5. /\ pending' = <<ReplyFrom(0, 0), Done>>
      /\ events' = <<Instantiated(Cw20Token)>>
  <2>1. /\ pending' = << >> \o Tail(pending)
        /\ events' = events \o <<Event("instantiate_contract", [contract_address |-> m.to])>>
    BY DEF InstantiateToken, Emit
  <2>2. << >> \o Tail(pending) = <<ReplyFrom(0, 0), Done>>
    BY <1>2, SentAfterTwo
  <2>3. events' = << >> \o <<Instantiated(Cw20Token)>>
    BY <1>2, <1>3, <2>1 DEF Instantiated
  <2> QED BY <2>1, <2>2, <2>3, NoEvent
<1> HIDE DEF m
<1>6. Kept
  BY DEF Kept, InstantiateToken, Emit, stakingVars, lottery, poolVars, anchor
<1>7. /\ total_supply' = SupplyFromRows(message_cw20.rows)
      /\ Fits(total_supply')
      /\ balances' = [a \in Addresses |-> BalanceFromRows(message_cw20.rows, a)]
      /\ minter' = Admin
  BY <1>3 DEF InstantiateToken, m
<1>8. Books'
  <2>1. Cw20Init'
    BY <1>4, <1>7 DEF Cw20Init, Cw20Instantiate
  <2>2. TokenBooks'
    BY <2>1, InstantiatedBooks
  <2>3. PoolTypeOK'
    BY DEF MessagesInv, Books, PoolTypeOK, InstantiateToken, poolVars, poolState, anchor
  <2>4. StakingBooks'
    BY StakingBooksStay, BooksAre DEF InstantiateToken, MessagesInv
  <2> QED BY <2>2, <2>3, <2>4 DEF Books, StakingBooks, TokenBooks
<1>9. TokenInstantiated'
  <2>1. TokenExists'
    BY <1>6, <1>7 DEF TokenExists, Kept
  <2>2. Undeployed'
    BY <1>1, <1>6 DEF DeployStarted, Undeployed, CommittedAbsent, SameStaking, SameMoney,
                  InstantiateToken, Kept, stakingVars, state, lottery, poolVars, poolState, anchor
  <2> QED BY <1>1, <1>5, <2>1, <2>2 DEF DeployStarted, TokenInstantiated, InstantiateToken
<1>10. pending' # << >> /\ Stage(Head(pending))'
  BY <1>5, <1>9 DEF Stage, ReplyFrom
<1> QED BY <1>6, <1>8, <1>10, Handled

\* The reply to the token's instantiation hears the address of the token.
LEMMA HandlesCw20InstanceReply ==
  ASSUME MessagesInv, pending # << >>, Cw20InstanceReply(Head(pending))
  PROVE  MessagesInv'
<1> DEFINE m == Head(pending)
<1>1. TokenInstantiated
  BY DEF MessagesInv, Stage, RequestTypes, Cw20InstanceReply
<1>2. /\ pending = <<ReplyFrom(0, 0), Done>> /\ events = <<Instantiated(Cw20Token)>>
      /\ m = ReplyFrom(0, 0) /\ m.since = 0
  BY <1>1 DEF TokenInstantiated, ReplyFrom
<1>3. FirstHeard(m, "instantiate_contract") = {Instantiated(Cw20Token)}
  <2>1. Len(events) = 1 /\ events[m.since + 1] = Instantiated(Cw20Token)
    BY <1>2
  <2>2. Instantiated(Cw20Token).type = "instantiate_contract"
    BY DEF Instantiated, Event
  <2> HIDE DEF m
  <2> QED BY <1>2, <2>1, <2>2, HearsTheFirst
<1>4. Instantiated(Cw20Token).attributes.contract_address = Cw20Token
  BY DEF Instantiated, Event
<1>5. /\ cw20_address' = Cw20Token
      /\ Emit(<<StakingMessageSent, Reply(1)>>, << >>)
      /\ UNCHANGED <<dogetherVars, staking_address, minter, admin, cw20_token_addr>>
  BY <1>3, <1>4 DEF Cw20InstanceReply, StakingMessageSent
<1>6. Reply(1) = ReplyFrom(1, 1)
  BY <1>2 DEF Reply, ReplyFrom
<1>7. /\ pending' = <<StakingMessageSent, ReplyFrom(1, 1), Done>>
      /\ events' = <<Instantiated(Cw20Token)>>
  BY <1>2, <1>5, <1>6, SentAfterOne, NoEvent DEF Emit
<1> HIDE DEF m
<1>8. Kept
  BY <1>5 DEF Kept, Emit, dogetherVars, stakingVars, lottery, poolVars, anchor
<1>9. Books'
  BY <1>5, BooksStay DEF MessagesInv
<1>10. TokenKnown'
  <2>1. TokenExists' /\ Undeployed'
    BY <1>1, <1>5, <1>8
       DEF TokenInstantiated, TokenExists, Undeployed, CommittedAbsent, SameStaking,
           SameMoney, Kept, dogetherVars, stakingVars, state, lottery, cw20Vars,
           poolVars, poolState, anchor
  <2> QED BY <1>1, <1>5, <1>7, <2>1
          DEF TokenKnown, TokenInstantiated, StakingMessageSent, Message
<1>11. pending' # << >> /\ Stage(Head(pending))'
  BY <1>7, <1>10 DEF Stage, StakingMessageSent, Message
<1> QED BY <1>8, <1>9, <1>11, Handled

\* The staking contract gets its admin and the address of the token.
LEMMA HandlesInstantiateStaking ==
  ASSUME MessagesInv, pending # << >>, InstantiateStaking(Head(pending))
  PROVE  MessagesInv'
<1> DEFINE m == Head(pending)
<1>1. TokenKnown
  BY DEF MessagesInv, Stage, RequestTypes, InstantiateStaking
<1>2. /\ pending = <<StakingMessageSent, ReplyFrom(1, 1), Done>>
      /\ events = <<Instantiated(Cw20Token)>>
      /\ m = StakingMessageSent
  BY <1>1 DEF TokenKnown
<1>3. m.body.cw20_token_addr = Cw20Token /\ m.sender = Admin /\ m.to = StakingContract
  BY <1>2 DEF StakingMessageSent, Message
<1>4. /\ pending' = <<ReplyFrom(1, 1), Done>>
      /\ events' = <<Instantiated(Cw20Token), Instantiated(StakingContract)>>
  <2>1. /\ pending' = << >> \o Tail(pending)
        /\ events' = events \o <<Event("instantiate_contract", [contract_address |-> m.to])>>
    BY DEF InstantiateStaking, Emit
  <2>2. << >> \o Tail(pending) = <<ReplyFrom(1, 1), Done>>
    BY <1>2, SentAfterTwo
  <2>3. events' = <<Instantiated(Cw20Token)>> \o <<Instantiated(StakingContract)>>
    BY <1>2, <1>3, <2>1 DEF Instantiated
  <2> QED BY <2>1, <2>2, <2>3, OneBefore
<1> HIDE DEF m
<1>5. Kept
  BY DEF Kept, InstantiateStaking, Emit, lottery, poolVars, anchor
<1>6. admin' = Admin /\ cw20_token_addr' = Cw20Token
      /\ UNCHANGED <<dogetherVars, staking_address, cw20_address, minter>>
  BY <1>1, <1>3
     DEF InstantiateStaking, m, TokenKnown, Undeployed, SameStaking, CommittedAbsent,
         dogetherVars, stakingVars, state
<1>7. Books'
  BY <1>6, BooksStay DEF MessagesInv
<1>8. StakingInstantiated'
  <2>1. TokenExists' /\ Undeployed'
    BY <1>1, <1>5, <1>6
       DEF TokenKnown, TokenExists, Undeployed, CommittedAbsent, SameStaking,
           SameMoney, Kept, dogetherVars, stakingVars, state, lottery, cw20Vars,
           poolVars, poolState, anchor
  <2> QED BY <1>1, <1>4, <1>6, <2>1 DEF StakingInstantiated, TokenKnown
<1>9. pending' # << >> /\ Stage(Head(pending))'
  BY <1>4, <1>8 DEF Stage, ReplyFrom
<1> QED BY <1>5, <1>7, <1>9, Handled

\* What is instantiated and not yet wired agrees: no initial row is the staking
\* contract's.
LEMMA UndeployedAgrees ==
  ASSUME MessagesInv, Undeployed, TokenExists
  PROVE  AccountsAgree
<1>1. /\ total_ust_pool = 0 /\ total_balance = 0
      /\ claims = committed.claims /\ committed.total_ust_pool = 0
      /\ committed.total_balance = 0
      /\ balances = [a \in Addresses |-> BalanceFromRows(message_cw20.rows, a)]
  BY DEF Undeployed, SameStaking, CommittedAbsent, TokenExists
<1>2. AmountOf(claims) \in Nat
  BY ClaimSums DEF MessagesInv, Books
<1>3. AmountOf(claims) = 0
  BY <1>1, <1>2 DEF MessagesInv, CommittedInv, CommittedAgree
<1>4. balances[StakingContract] = 0
  <2>1. message_cw20.rows \in InitialRows
    BY MessagesAssumption DEF MessagesInv, TokenMessage
  <2>2. {i \in DOMAIN message_cw20.rows :
           message_cw20.rows[i].address = StakingContract} = {}
    BY <2>1, WiringAssumption
  <2> QED BY <1>1, <2>2, WiringAssumption DEF BalanceFromRows
<1> QED BY <1>1, <1>3, <1>4 DEF AccountsAgree

\* The reply to the staking contract's instantiation hears its address and not
\* the token's, which was instantiated before it.
LEMMA HandlesStakingInstanceReply ==
  ASSUME MessagesInv, pending # << >>, StakingInstanceReply(Head(pending))
  PROVE  MessagesInv'
<1> DEFINE m == Head(pending)
<1>1. StakingInstantiated
  BY DEF MessagesInv, Stage, RequestTypes, StakingInstanceReply
<1>2. /\ pending = <<ReplyFrom(1, 1), Done>>
      /\ events = <<Instantiated(Cw20Token), Instantiated(StakingContract)>>
      /\ m = ReplyFrom(1, 1) /\ m.since = 1
  BY <1>1 DEF StakingInstantiated, ReplyFrom
<1>3. FirstHeard(m, "instantiate_contract") = {Instantiated(StakingContract)}
  <2>1. Len(events) = 2 /\ events[m.since + 1] = Instantiated(StakingContract)
    BY <1>2
  <2>2. Instantiated(StakingContract).type = "instantiate_contract"
    BY DEF Instantiated, Event
  <2> HIDE DEF m
  <2> QED BY <1>2, <2>1, <2>2, HearsTheFirst
<1>4. Instantiated(StakingContract).attributes.contract_address = StakingContract
  BY DEF Instantiated, Event
<1>5. /\ staking_address' = StakingContract
      /\ Emit(<< >>, << >>)
      /\ UNCHANGED <<dogetherVars, cw20_address, minter, admin, cw20_token_addr>>
  BY <1>3, <1>4 DEF StakingInstanceReply
<1>6. pending' = <<Done>>
  BY <1>2, <1>5, SentAfterOne DEF Emit
<1> HIDE DEF m
<1>7. Kept
  BY <1>5 DEF Kept, Emit, dogetherVars, stakingVars, lottery, poolVars, anchor
<1>8. Books'
  BY <1>5, BooksStay DEF MessagesInv
<1>9. DeployDone'
  <2>1. TokenExists' /\ Undeployed'
    BY <1>1, <1>5, <1>7
       DEF StakingInstantiated, TokenExists, Undeployed, CommittedAbsent, SameStaking,
           SameMoney, Kept, dogetherVars, stakingVars, state, lottery, cw20Vars,
           poolVars, poolState, anchor
  <2> QED BY <1>1, <1>5, <2>1 DEF DeployDone, Wired, StakingInstantiated, TokenExists
<1>10. AccountsAgree'
  <2>1. AccountsAgree
    BY <1>1, UndeployedAgrees DEF StakingInstantiated
  <2> QED BY <1>5, <2>1 DEF AccountsAgree, AmountOf, dogetherVars, stakingVars, state,
                            cw20Vars, poolVars, poolState
<1>11. pending' # << >> /\ Stage(Head(pending))'
  BY <1>6, <1>9, <1>10 DEF Stage, Finished, Whole, Done
<1> QED BY <1>7, <1>8, <1>11, Handled

-----------------------------------------------------------------------------
(* The pool's handlers.                                                     *)

\* A contract that exists knows the others.
LEMMA ExistsIsRunning ==
  ASSUME MessagesInv, Same,
         cw20_address # Nobody \/ admin # Nobody \/ minter # Nobody
           \/ cw20_token_addr # Nobody
  PROVE  Running /\ Wired
BY DEF MessagesInv, CommittedInv, CommittedWired, CommittedAbsent, Same, SameWiring,
       Running, Wired

\* What is committed agrees.
LEMMA SameAgrees ==
  ASSUME MessagesInv, Same
  PROVE  AccountsAgree
BY DEF MessagesInv, CommittedInv, CommittedAgree, Same, SameStaking, SameToken,
       SamePool, AccountsAgree

\* The values of the books.
LEMMA BookValues ==
  ASSUME Books
  PROVE  /\ total_ust_pool \in Nat /\ total_balance \in Nat /\ AmountOf(claims) \in Nat
         /\ balances[StakingContract] \in Nat
         /\ pool_uusd \in Nat /\ aust \in Nat /\ next_draw \in Nat /\ now \in Nat
         /\ exchange_rate \in Nat
BY UintIsNat, ClaimSums, StakingBalance DEF Books, PoolTypeOK, StakingTypeOK

\* The tax of a transaction that has started.
LEMMA TaxesAreTaxes ==
  ASSUME MessagesInv, pending # << >>
  PROVE  tax \in TaxType
BY InputsAssumption DEF MessagesInv

\* The deposit is booked and neither deposited nor bonded yet.
LEMMA HandlesTryPool ==
  ASSUME MessagesInv, pending # << >>, TryPool(Head(pending))
  PROVE  MessagesInv'
<1> DEFINE m == Head(pending)
<1>1. Started(m) /\ Kinds(m)
  BY StartedIs DEF TryPool
<1>2. PICK sender \in Holders, sent \in Deposits :
        m = Message("Pool", sender, Admin, sent, NoBody)
  BY <1>1 DEF Kinds, TryPool
<1>3. m.funds = sent /\ m.sender = sender
  BY <1>2 DEF Message
<1>4. /\ pending = <<m, Done>> /\ events = << >> /\ Same
      /\ Running /\ cw20_address = Cw20Token /\ staking_address = StakingContract
  BY <1>1, ExistsIsRunning DEF Started, TryPool, Wired
<1> DEFINE deposit == DeductTax(tax, sent)
<1>5. /\ sent > 0
      /\ Fits(total_ust_pool + deposit)
      /\ total_ust_pool' = total_ust_pool + deposit
      /\ pool_uusd' = pool_uusd + sent
      /\ UNCHANGED <<stakingVars, cw20Vars, next_draw, anchor, now, wiring>>
      /\ Emit(<<DepositSent(deposit), BondSent(sender, deposit)>>, << >>)
  BY <1>3, <1>4 DEF TryPool, DepositSent, BondSent
<1>6. deposit \in Nat /\ sent \in Nat
  BY TaxesAreTaxes, DeductTaxType, PoolInputsAssumption, UintIsNat
<1> HIDE DEF m
<1>7. /\ pending' = <<DepositSent(deposit), BondSent(sender, deposit), Done>>
      /\ events' = << >>
  <2> HIDE DEF deposit
  <2> QED BY <1>4, <1>5, SentAfterOne, NoEvent DEF Emit
<1>8. Kept
  BY <1>5 DEF Kept, Emit, stakingVars, lottery, anchor
<1>9. Books'
  <2>1. total_ust_pool' \in Uint /\ pool_uusd' \in Nat
    <3> HIDE DEF deposit
    <3> QED BY <1>5, <1>6, FitsIsUint, BookValues DEF MessagesInv
  <2>2. PoolTypeOK'
    BY <1>5, <2>1 DEF MessagesInv, Books, PoolTypeOK, anchor
  <2>3. StakingBooks' /\ TokenBooks'
    BY <1>5, StakingBooksStay, TokenBooksStay, BooksAre DEF MessagesInv
  <2> QED BY <2>2, <2>3 DEF Books, StakingBooks, TokenBooks
<1>10. PoolDeposits(sender, sent)'
  <2>1. Accounts(deposit, 0)'
    <3>1. AmountOf(claims)' = AmountOf(claims)
      BY <1>5 DEF stakingVars, AmountOf
    <3>2. total_ust_pool' = total_balance' + AmountOf(claims)' + DeductTax(tax, sent)
      <4> HIDE DEF deposit
      <4> QED BY <1>4, <1>5, <1>6, <3>1, SameAgrees, BookValues
              DEF AccountsAgree, MessagesInv, stakingVars, state, deposit
    <3>3. balances'[StakingContract] = total_balance' + AmountOf(claims)' + 0
      BY <1>4, <1>5, <3>1, SameAgrees, BookValues
         DEF AccountsAgree, MessagesInv, stakingVars, state, cw20Vars
    <3> QED BY <1>8, <3>2, <3>3 DEF Accounts, Kept
  <2>2. PoolBooked(sent)'
    BY <1>4, <1>5, <1>8
       DEF PoolBooked, Running, CommittedWired, Same, SameWiring, SamePool, wiring, Kept
  <2>3. (SameStaking /\ SameToken)' /\ (pool_uusd = committed.pool_uusd + sent)'
          /\ (aust = committed.aust)'
    BY <1>4, <1>5, <1>8
       DEF Same, SameStaking, SameToken, SamePool, SameMoney, Kept, stakingVars, state,
           lottery, cw20Vars, anchor
  <2> QED BY <1>7, <1>8, <2>1, <2>2, <2>3
          DEF PoolDeposits, Kept, DepositSent, BondSent, Message
<1>11. pending' # << >> /\ Stage(Head(pending))'
  BY <1>7, <1>10 DEF Stage, DepositSent, Message
<1> QED BY <1>8, <1>9, <1>11, Handled

\* The staking contract is asked, for the sender and no one else.
LEMMA HandlesTryUnPool ==
  ASSUME MessagesInv, pending # << >>, TryUnPool(Head(pending))
  PROVE  MessagesInv'
<1> DEFINE m == Head(pending)
<1>1. Started(m) /\ Kinds(m)
  BY StartedIs DEF TryUnPool
<1>2. PICK sender \in Holders, amount \in Amounts :
        m = Message("UnPool", sender, Admin, 0, [amount |-> amount])
  BY <1>1 DEF Kinds, TryUnPool
<1>3. m.sender = sender /\ m.body.amount = amount
  BY <1>2 DEF Message
<1>4. /\ pending = <<m, Done>> /\ events = << >> /\ Same
      /\ Running /\ staking_address = StakingContract
  BY <1>1, ExistsIsRunning DEF Started, TryUnPool, Wired
<1>5. /\ amount > 0
      /\ UNCHANGED contractVars
      /\ Emit(<<UnbondSent(sender, amount)>>, << >>)
  BY <1>3, <1>4 DEF TryUnPool, UnbondSent
<1> HIDE DEF m
<1>6. pending' = <<UnbondSent(sender, amount), Done>> /\ events' = << >>
  BY <1>4, <1>5, SentAfterOne, NoEvent DEF Emit
<1>7. Kept
  BY <1>5 DEF Kept, Emit, contractVars, dogetherVars, stakingVars, lottery, poolVars, anchor
<1>8. Books'
  BY <1>5, BooksStay DEF MessagesInv, contractVars
<1>9. UnPoolAsks(sender, amount)'
  BY <1>4, <1>5, <1>6, <1>7
     DEF UnPoolAsks, Running, CommittedWired, Same, SameStaking, SameToken, SamePool,
         SameMoney, SameWiring, Kept, contractVars, dogetherVars, stakingVars, state,
         lottery, cw20Vars, poolVars, poolState, anchor, wiring, UnbondSent, Message
<1>10. pending' # << >> /\ Stage(Head(pending))'
  BY <1>6, <1>9 DEF Stage, UnbondSent, Message
<1> QED BY <1>7, <1>8, <1>10, Handled

\* The same, and the reply will follow.
LEMMA HandlesTryClaimUnPool ==
  ASSUME MessagesInv, pending # << >>, TryClaimUnPool(Head(pending))
  PROVE  MessagesInv'
<1> DEFINE m == Head(pending)
<1>1. Started(m) /\ Kinds(m)
  BY StartedIs DEF TryClaimUnPool
<1>2. PICK sender \in Holders : m = Message("ClaimUnPool", sender, Admin, 0, NoBody)
  BY <1>1 DEF Kinds, TryClaimUnPool
<1>3. m.sender = sender
  BY <1>2 DEF Message
<1>4. /\ pending = <<m, Done>> /\ events = << >> /\ Same
      /\ Running /\ staking_address = StakingContract
  BY <1>1, ExistsIsRunning DEF Started, TryClaimUnPool, Wired
<1>5. /\ UNCHANGED contractVars
      /\ Emit(<<WithdrawSent(sender), Reply(2)>>, << >>)
  BY <1>3, <1>4 DEF TryClaimUnPool, WithdrawSent
<1>6. Reply(2) = ReplyFrom(2, 0)
  BY <1>4 DEF Reply, ReplyFrom
<1> HIDE DEF m
<1>7. pending' = <<WithdrawSent(sender), ReplyFrom(2, 0), Done>> /\ events' = << >>
  BY <1>4, <1>5, <1>6, SentAfterOne, NoEvent DEF Emit
<1>8. Kept
  BY <1>5 DEF Kept, Emit, contractVars, dogetherVars, stakingVars, lottery, poolVars, anchor
<1>9. Books'
  BY <1>5, BooksStay DEF MessagesInv, contractVars
<1>10. ClaimAsks(sender)'
  BY <1>4, <1>5, <1>7, <1>8
     DEF ClaimAsks, Running, CommittedWired, Same, SameStaking, SameToken, SamePool,
         SameMoney, SameWiring, Kept, contractVars, dogetherVars, stakingVars, state,
         lottery, cw20Vars, poolVars, poolState, anchor, wiring, WithdrawSent, Message
<1>11. pending' # << >> /\ Stage(Head(pending))'
  BY <1>7, <1>10 DEF Stage, WithdrawSent, Message
<1> QED BY <1>8, <1>9, <1>11, Handled

\* Until the money market answers, the interest is the committed state's.
LEMMA SameEarning ==
  ASSUME Running, Same, SameClock
  PROVE  /\ Transactions!DrawIsDue <=> DrawIsDue
         /\ Transactions!AustValue = AustValue
         /\ Transactions!InterestAccrued = InterestAccrued
         /\ Interest = AustWorth(InterestAccrued)
         /\ EarningSent = Earning(tax)
<1>1. Transactions!AustValue = AustValue
  BY SameArithmetic
     DEF Same, SamePool, SameMoney, SameClock, Transactions!AustValue, AustValue
<1>2. Transactions!InterestAccrued = InterestAccrued
  BY <1>1, SameArithmetic
     DEF Same, SamePool, Transactions!InterestAccrued, InterestAccrued
<1>3. Interest = AustWorth(InterestAccrued)
  BY <1>2, SameMarket DEF Interest
<1>4. EarningSent = Earning(tax)
  BY <1>2, SameTaxation, SameArithmetic
     DEF EarningSent, Same, SamePool, SameMoney, Transactions!Earning, Earning,
         Transactions!EarningsExpected, EarningsExpected
<1>5. Transactions!DrawIsDue <=> DrawIsDue
  BY MessagesAssumption
     DEF Running, CommittedWired, Deployed, Same, SamePool, SameClock,
         Transactions!DrawIsDue, DrawIsDue
<1> QED BY <1>1, <1>2, <1>3, <1>4, <1>5

\* The interest and the earning are numbers before anything is redeemed.
LEMMA HandlesTryRedeemEarning ==
  ASSUME MessagesInv, pending # << >>, TryRedeemEarning(Head(pending))
  PROVE  MessagesInv'
<1> DEFINE m == Head(pending)
<1>1. Started(m)
  BY StartedIs DEF TryRedeemEarning
<1>2. /\ pending = <<m, Done>> /\ events = << >> /\ Same
      /\ Running /\ staking_address = StakingContract
  BY <1>1, ExistsIsRunning DEF Started, TryRedeemEarning, Wired
<1>3. SameClock
  BY DEF MessagesInv
<1>4. /\ Transactions!DrawIsDue <=> DrawIsDue
      /\ Transactions!AustValue = AustValue
      /\ Transactions!InterestAccrued = InterestAccrued
      /\ Interest = AustWorth(InterestAccrued)
      /\ EarningSent = Earning(tax)
  BY <1>2, <1>3, SameEarning
<1>5. /\ Transactions!DrawIsDue
      /\ Fits(Transactions!AustValue)
      /\ Transactions!InterestAccrued >= 0
      /\ next_draw' = next_draw + DrawPeriod
      /\ UNCHANGED <<stakingVars, cw20Vars, total_ust_pool, pool_uusd, anchor, now, wiring>>
      /\ Emit(<<RedeemSent(Interest), UpdateSent(EarningSent)>>, << >>)
  BY <1>2, <1>4 DEF TryRedeemEarning, RedeemSent, UpdateSent
<1>6. Interest \in Nat /\ EarningSent \in Nat
  <2>1. PoolTypeOK
    BY DEF MessagesInv, Books
  <2>2. InterestAccrued \in Nat
    <3>1. InterestAccrued = aust * exchange_rate - total_ust_pool * Unit
      BY <2>1, InterestIs
    <3>2. InterestAccrued \in Int
      BY <3>1, BookValues, UnitAssumption DEF MessagesInv
    <3> QED BY <1>4, <1>5, <3>2
  <2>3. pool_uusd \in Nat
    BY BookValues DEF MessagesInv
  <2> QED BY <1>4, <2>1, <2>2, <2>3, AustWorthBelow, EarningType, TaxesAreTaxes
<1> HIDE DEF m
<1>7. /\ pending' = <<RedeemSent(Interest), UpdateSent(EarningSent), Done>>
      /\ events' = << >>
  BY <1>2, <1>5, SentAfterOne, NoEvent DEF Emit
<1>8. Kept
  BY <1>5 DEF Kept, Emit, stakingVars, lottery, anchor
<1>9. Books'
  <2>1. next_draw' \in Nat
    BY <1>5, BookValues, PoolInputsAssumption DEF MessagesInv
  <2>2. PoolTypeOK'
    BY <1>5, <2>1 DEF MessagesInv, Books, PoolTypeOK, anchor
  <2>3. StakingBooks' /\ TokenBooks'
    BY <1>5, StakingBooksStay, TokenBooksStay, BooksAre DEF MessagesInv
  <2> QED BY <2>2, <2>3 DEF Books, StakingBooks, TokenBooks
<1>10. EarningAsks'
  <2>1. UNCHANGED <<committed, tax>>
    BY <1>8 DEF Kept
  <2>2. /\ Interest' = Interest /\ EarningSent' = EarningSent
        /\ Transactions!DrawIsDue' <=> Transactions!DrawIsDue
        /\ Transactions!AustValue' = Transactions!AustValue
        /\ Transactions!InterestAccrued' = Transactions!InterestAccrued
    BY <2>1, EarningStays
  <2>3. (Running /\ SameToken)'
    BY <1>2, <1>5, <1>8
       DEF Running, CommittedWired, Same, SameToken, SameWiring, Kept, cw20Vars, wiring
  <2>4. EarningDue'
    BY <1>2, <1>5, <1>6, <2>1, <2>2, <2>3 DEF EarningDue, Same, SamePool
  <2>5. (SameStaking /\ SameMoney)'
    BY <1>2, <1>5, <1>8
       DEF Same, SameStaking, SamePool, SameMoney, Kept, stakingVars, state, lottery,
           anchor
  <2>6. pending' = <<RedeemSent(Interest'), UpdateSent(EarningSent'), Done>>
    BY <1>7, <2>2
  <2> QED BY <2>4, <2>5, <2>6 DEF EarningAsks, RedeemSent, UpdateSent, Message
<1>11. pending' # << >> /\ Stage(Head(pending))'
  BY <1>7, <1>10 DEF Stage, RedeemSent, Message
<1> QED BY <1>8, <1>9, <1>11, Handled

-----------------------------------------------------------------------------
(* The messages of Pool.                                                    *)

\* No user is taken for the contract that should have called.
LEMMA NotForeign ==
  ASSUME MessagesInv, pending # << >>, Started(Head(pending)),
         Head(pending).type \in {"Bond", "Receive", "UnbondStake", "WithdrawStake",
                                 "UpdateGlobalIndex"},
         \/ Head(pending).sender = minter
         \/ Head(pending).sender = admin
         \/ Head(pending).sender = cw20_token_addr
  PROVE  FALSE
<1>1. Head(pending).sender \in Holders
  BY RequestKinds DEF Started, Kinds
<1>2. {minter, admin, cw20_token_addr} \subseteq {Admin, Cw20Token, Nobody}
  BY DEF MessagesInv, CommittedInv, CommittedWired, CommittedAbsent, Started, Same,
         SameWiring
<1> QED BY <1>1, <1>2, MessagesAssumption

\* What is deposited is part of what was sent.
LEMMA DepositType ==
  ASSUME NEW t \in TaxType, NEW sent \in Deposits
  PROVE  /\ DeductTax(t, sent) \in Nat /\ DeductTax(t, sent) \in Uint
         /\ sent \in Nat
         /\ SendCost(t, DeductTax(t, sent)) \in Nat
<1>1. sent \in Uint /\ sent \in Nat
  BY PoolInputsAssumption, UintIsNat
<1>2. DeductTax(t, sent) \in Nat /\ DeductTax(t, sent) <= sent
  BY <1>1, DeductTaxType
<1>3. DeductTax(t, sent) \in Uint
  BY <1>1, <1>2, MaxUintAssumption DEF Uint
<1> QED BY <1>1, <1>2, <1>3, SendCostType

\* The market or the bank moved coins, and no contract has run.
LEMMA MoneyKeepsBooks ==
  ASSUME Books, pool_uusd' \in Nat, aust' \in Nat,
         UNCHANGED <<stakingVars, cw20Vars, poolState, exchange_rate, now>>
  PROVE  Books'
<1>1. StakingBooks' /\ TokenBooks'
  BY StakingBooksStay, TokenBooksStay, BooksAre
<1>2. PoolTypeOK'
  BY DEF Books, PoolTypeOK, poolState
<1> QED BY <1>1, <1>2 DEF Books, StakingBooks, TokenBooks

\* The first of the two messages of Pool.
LEMMA HandlesDepositStable ==
  ASSUME MessagesInv, pending # << >>, DepositStable(Head(pending))
  PROVE  MessagesInv'
<1> DEFINE m == Head(pending)
<1>1. PICK sender \in Holders, sent \in Deposits : PoolDeposits(sender, sent)
  BY DEF MessagesInv, Stage, RequestTypes, DepositStable
<1>2. PICK deposit : deposit = DeductTax(tax, sent)
  OBVIOUS
<1>3. /\ pending = <<DepositSent(deposit), BondSent(sender, deposit), Done>>
      /\ events = << >> /\ m = DepositSent(deposit) /\ m.funds = deposit
  BY <1>1, <1>2 DEF PoolDeposits, DepositSent, Message
<1>4. /\ deposit > 0
      /\ SendCost(tax, deposit) <= pool_uusd
      /\ AustMinted(deposit) > 0
      /\ pool_uusd' = pool_uusd - SendCost(tax, deposit)
      /\ aust' = aust + AustMinted(deposit)
      /\ Emit(<< >>, << >>)
      /\ UNCHANGED <<stakingVars, cw20Vars, poolState, exchange_rate, now, wiring>>
  BY <1>3 DEF DepositStable
<1> HIDE DEF m
<1>5. pending' = <<BondSent(sender, deposit), Done>> /\ events' = << >>
  BY <1>3, <1>4, SentAfterTwo, NoEvent DEF Emit
<1>6. Kept
  BY <1>4 DEF Kept, Emit, stakingVars, lottery
<1>7. /\ deposit \in Nat /\ SendCost(tax, deposit) \in Nat /\ AustMinted(deposit) \in Nat
      /\ pool_uusd \in Nat /\ aust \in Nat
  BY <1>2, DepositType, TaxesAreTaxes, AustMintedBounds, BookValues DEF MessagesInv, Books
<1>8. Books'
  BY <1>4, <1>7, MoneyKeepsBooks DEF MessagesInv
<1>9. PoolBonds(sender, sent)'
  <2>1. deposit = DeductTax(tax', sent) /\ AustMinted(deposit)' = AustMinted(deposit)
    BY <1>2, <1>6 DEF Kept, AustMinted
  <2>2. PoolBooked(sent)'
    BY <1>1, <1>4, <1>6
       DEF PoolDeposits, PoolBooked, Running, CommittedWired, SameWiring, wiring, Kept,
           poolState
  <2>3. PoolAtMarket(sent)'
    <3>1. /\ pool_uusd = committed.pool_uusd + sent /\ aust = committed.aust
          /\ committed.pool_uusd \in Nat /\ sent \in Nat
      BY <1>1, DepositType, TaxesAreTaxes
         DEF PoolDeposits, MessagesInv, CommittedInv, CommittedBooks
    <3>2. /\ deposit > 0
          /\ SendCost(tax, deposit) <= committed.pool_uusd + sent
          /\ AustMinted(deposit) > 0
          /\ pool_uusd' = committed.pool_uusd + sent - SendCost(tax, deposit)
          /\ aust' = committed.aust + AustMinted(deposit)
      BY <1>4, <1>7, <3>1
    <3> QED BY <1>6, <2>1, <3>2 DEF PoolAtMarket, Kept, AustMinted
  <2>4. (SameStaking /\ SameToken)' /\ Accounts(deposit, 0)'
    BY <1>1, <1>2, <1>4, <1>6
       DEF PoolDeposits, Accounts, SameStaking, SameToken, Kept, stakingVars, state,
           lottery, cw20Vars, poolState, AmountOf
  <2> QED BY <1>5, <2>1, <2>2, <2>3, <2>4 DEF PoolBonds, Accounts
<1>10. pending' # << >> /\ Stage(Head(pending))'
  BY <1>5, <1>9 DEF Stage, BondSent, Message
<1> QED BY <1>6, <1>8, <1>10, Handled

\* The token mints what was booked, for the pool only.
LEMMA HandlesTokenBond ==
  ASSUME MessagesInv, pending # << >>, TokenBond(Head(pending))
  PROVE  MessagesInv'
<1> DEFINE m == Head(pending)
<1>1. ~Started(m)
  BY NotForeign DEF TokenBond, MayBond
<1>2. PICK sender \in Holders, sent \in Deposits : PoolBonds(sender, sent)
  BY <1>1 DEF MessagesInv, Stage, RequestTypes, TokenBond
<1>3. PICK deposit : deposit = DeductTax(tax, sent)
  OBVIOUS
<1>4. /\ pending = <<BondSent(sender, deposit), Done>> /\ events = << >>
      /\ m = BondSent(sender, deposit)
      /\ m.body.contract = StakingContract /\ m.body.amount = deposit
      /\ m.body.recipient = sender
  BY <1>2, <1>3 DEF PoolBonds, BondSent, Message
<1>5. /\ ExecuteBond(Minter, StakingContract, deposit)
      /\ Emit(<<ReceiveSent(sender, deposit)>>, << >>)
      /\ UNCHANGED <<stakingVars, poolVars, wiring>>
  BY <1>4 DEF TokenBond, ReceiveSent
<1> HIDE DEF m
<1>6. pending' = <<ReceiveSent(sender, deposit), Done>> /\ events' = << >>
  BY <1>4, <1>5, SentAfterOne, NoEvent DEF Emit
<1>7. Kept
  BY <1>5 DEF Kept, Emit, stakingVars, lottery, poolVars, anchor
<1>8. deposit \in Uint /\ deposit \in Nat
  BY <1>3, DepositType, TaxesAreTaxes
<1>9. Books'
  <2>1. TokenBooks'
    BY <1>5, <1>8, MintKeepsBooks, WiringAssumption, BooksAre DEF MessagesInv
  <2>2. StakingBooks' /\ PoolTypeOK'
    BY <1>5, StakingBooksStay, BooksAre
       DEF MessagesInv, Books, PoolTypeOK, poolVars, poolState, anchor
  <2> QED BY <2>1, <2>2 DEF Books, StakingBooks, TokenBooks
<1>10. PoolReceived(sender, sent)'
  <2>1. deposit = DeductTax(tax', sent)
    BY <1>3, <1>7 DEF Kept
  <2>2. (PoolBooked(sent) /\ PoolAtMarket(sent))'
    BY <1>2, <1>5, <1>7
       DEF PoolBonds, PoolBooked, PoolAtMarket, Running, CommittedWired, SameWiring,
           wiring, Kept, poolVars, poolState, anchor, AustMinted
  <2>3. SameStaking'
    BY <1>2, <1>5, <1>7 DEF PoolBonds, SameStaking, Kept, stakingVars, state, lottery
  <2>4. DidMint(deposit)'
    BY <1>2, <1>5, <1>7, Mints DEF PoolBonds, Kept
  <2>5. Accounts(deposit, deposit)'
    <3>1. /\ total_ust_pool = total_balance + AmountOf(claims) + deposit
          /\ balances[StakingContract] = total_balance + AmountOf(claims) + 0
      BY <1>2, <1>3 DEF PoolBonds, Accounts
    <3>2. balances'[StakingContract] = balances[StakingContract] + deposit
      BY <1>5, WiringAssumption DEF ExecuteBond, MessagesInv, Books, Cw20TypeOK
    <3>3. UNCHANGED <<total_ust_pool, total_balance>> /\ AmountOf(claims)' = AmountOf(claims)
      BY <1>5 DEF stakingVars, state, poolVars, poolState, AmountOf
    <3> QED BY <1>8, <3>1, <3>2, <3>3, BookValues DEF Accounts, MessagesInv
  <2> QED BY <1>6, <2>1, <2>2, <2>3, <2>4, <2>5 DEF PoolReceived, Accounts, DidMint
<1>11. pending' # << >> /\ Stage(Head(pending))'
  BY <1>6, <1>10 DEF Stage, ReceiveSent, Message
<1> QED BY <1>7, <1>9, <1>11, Handled

\* The staking contract bonds what was minted, for the token only.
LEMMA HandlesReceive ==
  ASSUME MessagesInv, pending # << >>, HandleReceive(Head(pending))
  PROVE  MessagesInv'
<1> DEFINE m == Head(pending)
<1>1. ~Started(m)
  BY NotForeign DEF HandleReceive
<1>2. PICK sender \in Holders, sent \in Deposits : PoolReceived(sender, sent)
  BY <1>1 DEF MessagesInv, Stage, RequestTypes, HandleReceive
<1>3. PICK deposit : deposit = DeductTax(tax, sent)
  OBVIOUS
<1>4. /\ pending = <<ReceiveSent(sender, deposit), Done>> /\ events = << >>
      /\ m = ReceiveSent(sender, deposit)
      /\ m.body.sender = sender /\ m.body.amount = deposit
  BY <1>2, <1>3 DEF PoolReceived, ReceiveSent, Message
<1>5. /\ Bond(Cw20Token, m.funds, sender, deposit)
      /\ Emit(<< >>, << >>)
      /\ UNCHANGED <<cw20Vars, poolVars, wiring>>
  BY <1>4 DEF HandleReceive
<1> HIDE DEF m
<1>6. pending' = <<Done>>
  BY <1>4, <1>5, SentAfterOne DEF Emit
<1>7. Kept
  BY <1>5 DEF Kept, Emit, Bond, lottery, poolVars, anchor
<1>8. deposit \in Uint /\ deposit \in Nat
  BY <1>3, DepositType, TaxesAreTaxes
<1>9. Books'
  <2>1. StakingBooks'
    BY <1>5, <1>8, BondKeepsBooks, BooksAre DEF MessagesInv
  <2>2. TokenBooks' /\ PoolTypeOK'
    BY <1>5, TokenBooksStay, BooksAre
       DEF MessagesInv, Books, PoolTypeOK, poolVars, poolState, anchor
  <2> QED BY <2>1, <2>2 DEF Books, StakingBooks, TokenBooks
<1>10. PoolDone(sender, sent)'
  <2>1. deposit = DeductTax(tax', sent)
    BY <1>3, <1>7 DEF Kept
  <2>2. (PoolBooked(sent) /\ PoolAtMarket(sent))'
    BY <1>2, <1>5, <1>7
       DEF PoolReceived, PoolBooked, PoolAtMarket, Running, CommittedWired, SameWiring,
           wiring, Kept, poolVars, poolState, anchor, AustMinted
  <2>3. DidBond(sender, deposit)'
    BY <1>2, <1>5, <1>7, Bonds DEF PoolReceived, Kept
  <2>4. DidMint(deposit)'
    BY <1>2, <1>3, <1>5, <1>7 DEF PoolReceived, DidMint, Kept, cw20Vars
  <2> QED BY <2>1, <2>2, <2>3, <2>4 DEF PoolDone, DidBond, DidMoveStake, DidMint
<1>11. AccountsAgree'
  <2>1. /\ total_ust_pool = total_balance + AmountOf(claims) + deposit
        /\ balances[StakingContract] = total_balance + AmountOf(claims) + deposit
    BY <1>2, <1>3 DEF PoolReceived, Accounts
  <2>2. total_balance' = total_balance + deposit /\ AmountOf(claims)' = AmountOf(claims)
    BY <1>5 DEF Bond, MoveStake, AmountOf
  <2>3. UNCHANGED <<total_ust_pool, balances>>
    BY <1>5 DEF cw20Vars, poolVars, poolState
  <2> QED BY <1>8, <2>1, <2>2, <2>3, BookValues DEF AccountsAgree, MessagesInv
<1>12. pending' # << >> /\ Stage(Head(pending))'
  BY <1>6, <1>10, <1>11 DEF Stage, Finished, Whole, Done
<1> QED BY <1>7, <1>9, <1>12, Handled

-----------------------------------------------------------------------------
(* The messages of UnPool and ClaimUnPool.                                  *)

\* The end of UnPool.
LEMMA HandlesUnbound ==
  ASSUME MessagesInv, pending # << >>, HandleUnbound(Head(pending))
  PROVE  MessagesInv'
<1> DEFINE m == Head(pending)
<1>1. ~Started(m)
  BY NotForeign DEF HandleUnbound
<1>2. PICK sender \in Holders, amount \in Amounts : UnPoolAsks(sender, amount)
  BY <1>1 DEF MessagesInv, Stage, RequestTypes, HandleUnbound
<1>3. /\ pending = <<UnbondSent(sender, amount), Done>> /\ events = << >>
      /\ m = UnbondSent(sender, amount)
      /\ m.body.address = sender /\ m.body.amount = amount
      /\ Running /\ Same /\ amount > 0
  BY <1>2 DEF UnPoolAsks, UnbondSent, Message
<1>4. /\ UnbondStake(Admin, m.funds, sender, amount)
      /\ Emit(<< >>, << >>)
      /\ UNCHANGED <<cw20Vars, poolVars, wiring>>
  BY <1>3 DEF HandleUnbound
<1> HIDE DEF m
<1>5. pending' = <<Done>>
  BY <1>3, <1>4, SentAfterOne DEF Emit
<1>6. Kept
  BY <1>4 DEF Kept, Emit, UnbondStake, lottery, poolVars, anchor
<1>7. amount \in Uint /\ amount \in Nat
  BY InputsAssumption, UintIsNat
<1>8. Books'
  <2>1. StakingBooks'
    BY <1>4, <1>7, UnbondKeepsBooks, BooksAre DEF MessagesInv
  <2>2. TokenBooks' /\ PoolTypeOK'
    BY <1>4, TokenBooksStay, BooksAre
       DEF MessagesInv, Books, PoolTypeOK, poolVars, poolState, anchor
  <2> QED BY <2>1, <2>2 DEF Books, StakingBooks, TokenBooks
<1>9. UnPoolDone(sender, amount)'
  <2>1. DidUnbond(sender, amount)'
    BY <1>3, <1>4, <1>6, Unbonds DEF MessagesInv, Same, Kept
  <2>2. (Running /\ SameToken /\ SamePool)'
    BY <1>3, <1>4, <1>6
       DEF Running, CommittedWired, Same, SameToken, SamePool, SameMoney, SameWiring,
           Kept, cw20Vars, poolVars, poolState, anchor, wiring
  <2> QED BY <1>3, <2>1, <2>2 DEF UnPoolDone
<1>10. AccountsAgree'
  <2>1. AmountOf(claims)' = AmountOf(claims) + amount
    <3>1. CreateClaim(sender, amount, height + UnbondingPeriod)
      BY <1>4 DEF UnbondStake
    <3>2. StakingTypeOK /\ height + UnbondingPeriod \in Nat
      BY UnbondingAssumption DEF MessagesInv, Books, StakingTypeOK
    <3>3. AmountOf(claims') = AmountOf(claims) + amount
      BY <1>7, <3>1, <3>2, NewAmount
    <3> QED BY <3>3 DEF AmountOf
  <2>2. total_balance' = total_balance - amount
    BY <1>4 DEF UnbondStake, MoveStake
  <2>3. UNCHANGED <<total_ust_pool, balances>>
    BY <1>4 DEF cw20Vars, poolVars, poolState
  <2>4. AccountsAgree
    BY <1>3, SameAgrees
  <2> QED BY <1>7, <2>1, <2>2, <2>3, <2>4, BookValues DEF AccountsAgree, MessagesInv
<1>11. pending' # << >> /\ Stage(Head(pending))'
  BY <1>5, <1>9, <1>10 DEF Stage, Finished, Whole, Done
<1> QED BY <1>6, <1>8, <1>11, Handled

\* What claims of the committed state are for.
LEMMA CommittedAmount ==
  ASSUME CommittedInv, NEW paid \in SUBSET committed.claims
  PROVE  AmountOf(paid) \in Nat
<1>1. IsFiniteSet(committed.claims)
  BY DEF CommittedInv, CommittedBooks, Transactions!StakingTypeOK,
         Transactions!IsFiniteSet, IsFiniteSet
<1>2. \A c \in committed.claims : c.amount \in Nat
  BY UintIsNat, SameArithmetic
     DEF CommittedInv, CommittedBooks, Transactions!StakingTypeOK, Transactions!Claim
<1>3. IsFiniteSet(paid)
  BY <1>1, FS_Subset
<1> DEFINE f == [c \in paid |-> c.amount]
<1>4. \A c \in paid : f[c] \in Nat
  BY <1>2
<1> HIDE DEF f
<1>5. SumOver(paid, f) \in Nat
  BY <1>3, <1>4, SumType
<1> QED BY <1>5 DEF AmountOf, f

\* The claims leave the staking contract, which asks for the burn.
LEMMA HandlesWithdrawStake ==
  ASSUME MessagesInv, pending # << >>, HandleWithdrawStake(Head(pending))
  PROVE  MessagesInv'
<1> DEFINE m == Head(pending)
<1>1. ~Started(m)
  BY NotForeign DEF HandleWithdrawStake
<1>2. PICK sender \in Holders : ClaimAsks(sender)
  BY <1>1 DEF MessagesInv, Stage, RequestTypes, HandleWithdrawStake
<1>3. /\ pending = <<WithdrawSent(sender), ReplyFrom(2, 0), Done>> /\ events = << >>
      /\ m = WithdrawSent(sender)
      /\ m.body.address = sender /\ m.body.cap = {}
      /\ Running /\ Same /\ cw20_token_addr = Cw20Token
  BY <1>2 DEF ClaimAsks, WithdrawSent, Message, Running, CommittedWired, SameWiring
<1>4. PICK paid \in SUBSET ClaimsOf(sender) :
        /\ WithdrawStake(Admin, sender, {}, paid)
        /\ Emit(<<BurnSent(AmountOf(paid))>>, <<WithdrawEvent(sender, AmountOf(paid))>>)
        /\ UNCHANGED <<cw20Vars, poolVars, wiring>>
  BY <1>3 DEF HandleWithdrawStake, BurnSent, WithdrawEvent
<1> HIDE DEF m
<1> DEFINE amount == AmountOf(paid)
<1>5. /\ pending' = <<BurnSent(amount), ReplyFrom(2, 0), Done>>
      /\ events' = <<WithdrawEvent(sender, amount)>>
  <2> HIDE DEF amount
  <2> QED BY <1>3, <1>4, SentAfterTwo, NoEvent DEF Emit, amount
<1>6. Kept
  BY <1>4 DEF Kept, Emit, WithdrawStake, lottery, poolVars, anchor
<1>7. paid \subseteq claims /\ paid \in SUBSET committed.claims
  BY <1>3 DEF ClaimsOf, Same, SameStaking
<1>8. Books'
  <2>1. StakingBooks'
    BY <1>4, WithdrawKeepsBooks, BooksAre DEF MessagesInv
  <2>2. TokenBooks' /\ PoolTypeOK'
    BY <1>4, TokenBooksStay, BooksAre
       DEF MessagesInv, Books, PoolTypeOK, poolVars, poolState, anchor
  <2> QED BY <2>1, <2>2 DEF Books, StakingBooks, TokenBooks
<1>9. ClaimBurns(sender, paid)'
  <2>1. DidWithdraw(sender, paid)'
    BY <1>3, <1>4, <1>6, Withdraws DEF MessagesInv, Same, Kept
  <2>2. (Running /\ SameToken /\ SamePool)'
    BY <1>3, <1>4, <1>6
       DEF Running, CommittedWired, Same, SameToken, SamePool, SameMoney, SameWiring,
           Kept, cw20Vars, poolVars, poolState, anchor, wiring
  <2>3. Accounts(amount, amount)'
    <3>1. AmountOf(claims) = AmountOf(claims \ paid) + amount
      BY <1>7, PaidAmount DEF MessagesInv, Books
    <3>2. claims' = claims \ paid /\ UNCHANGED total_balance
      BY <1>4 DEF WithdrawStake, state
    <3>3. AmountOf(claims)' = AmountOf(claims \ paid)
      BY <3>2 DEF AmountOf
    <3>4. UNCHANGED <<total_ust_pool, balances>>
      BY <1>4 DEF cw20Vars, poolVars, poolState
    <3>5. AccountsAgree
      BY <1>3, SameAgrees
    <3>6. AmountOf(claims \ paid) \in Nat /\ amount \in Nat
      <4>1. (claims \ paid) \subseteq claims
        OBVIOUS
      <4> QED BY <1>7, <4>1, ClaimSums DEF MessagesInv, Books
    <3> HIDE DEF amount
    <3>7. AmountOf(claims) = AmountOf(claims)' + amount
      BY <3>1, <3>3
    <3>8. /\ total_ust_pool' = total_balance' + AmountOf(claims)' + amount
          /\ balances'[StakingContract] = total_balance' + AmountOf(claims)' + amount
      BY <3>2, <3>3, <3>4, <3>5, <3>6, <3>7, BookValues DEF AccountsAgree, MessagesInv
    <3> QED BY <3>8 DEF Accounts
  <2> QED BY <1>5, <2>1, <2>2, <2>3 DEF ClaimBurns
<1>10. pending' # << >> /\ Stage(Head(pending))'
  BY <1>5, <1>6, <1>7, <1>9 DEF Stage, BurnSent, Message, Kept
<1> QED BY <1>6, <1>8, <1>10, Handled

\* A burn by the staking contract is that of the claims it paid.
LEMMA HandlesClaimBurn ==
  ASSUME MessagesInv, pending # << >>, TokenBurn(Head(pending)),
         NEW sender \in Holders, NEW paid \in SUBSET committed.claims,
         ClaimBurns(sender, paid)
  PROVE  MessagesInv'
<1> DEFINE m == Head(pending)
<1>1. PICK amount : amount = AmountOf(paid)
  OBVIOUS
<1>2. /\ pending = <<BurnSent(amount), ReplyFrom(2, 0), Done>>
      /\ events = <<WithdrawEvent(sender, amount)>>
      /\ m = BurnSent(amount) /\ m.sender = StakingContract /\ m.body.amount = amount
      /\ DidWithdraw(sender, paid)
  BY <1>1 DEF ClaimBurns, BurnSent, Message
<1>3. /\ ExecuteBurn(StakingContract, amount)
      /\ Emit(<< >>, <<BurnEvent(amount)>>)
      /\ UNCHANGED <<stakingVars, poolVars, wiring>>
  BY <1>2 DEF TokenBurn, BurnEvent
<1> HIDE DEF m
<1>4. /\ pending' = <<ReplyFrom(2, 0), Done>>
      /\ events' = <<WithdrawEvent(sender, amount), BurnEvent(amount)>>
  <2>1. events' = <<WithdrawEvent(sender, amount)>> \o <<BurnEvent(amount)>>
    BY <1>2, <1>3 DEF Emit
  <2> QED BY <1>2, <1>3, <2>1, SentAfterTwo, OneBefore DEF Emit
<1>5. Kept
  BY <1>3 DEF Kept, Emit, stakingVars, lottery, poolVars, anchor
<1>6. amount \in Nat /\ amount \in Uint
  <2>1. amount \in Nat
    BY <1>1, CommittedAmount DEF MessagesInv
  <2> QED BY <1>1, <1>2, <2>1, FitsIsUint DEF DidWithdraw
<1>7. Books'
  <2>1. TokenBooks'
    BY <1>3, <1>6, BurnKeepsBooks, WiringAssumption, BooksAre DEF MessagesInv
  <2>2. StakingBooks' /\ PoolTypeOK'
    BY <1>3, StakingBooksStay, BooksAre
       DEF MessagesInv, Books, PoolTypeOK, poolVars, poolState, anchor
  <2> QED BY <2>1, <2>2 DEF Books, StakingBooks, TokenBooks
<1>8. ClaimReplies(sender, paid)'
  <2>1. DidWithdraw(sender, paid)'
    BY <1>2, <1>3, <1>5, WithdrawnStays DEF Kept
  <2>2. DidBurn(StakingContract, amount)'
    BY <1>3, <1>5, Burns DEF ClaimBurns, Kept
  <2>3. (Running /\ SamePool)'
    BY <1>3, <1>5
       DEF ClaimBurns, Running, CommittedWired, SamePool, SameMoney, SameWiring,
           Kept, poolVars, poolState, anchor, wiring
  <2>4. Accounts(amount, 0)'
    <3>1. /\ total_ust_pool = total_balance + AmountOf(claims) + amount
          /\ balances[StakingContract] = total_balance + AmountOf(claims) + amount
      BY <1>1 DEF ClaimBurns, Accounts
    <3>2. balances'[StakingContract] = balances[StakingContract] - amount
      BY <1>3, WiringAssumption DEF ExecuteBurn, MessagesInv, Books, Cw20TypeOK
    <3>3. UNCHANGED <<total_ust_pool, total_balance>> /\ AmountOf(claims)' = AmountOf(claims)
      BY <1>3 DEF stakingVars, state, poolVars, poolState, AmountOf
    <3> QED BY <1>6, <3>1, <3>2, <3>3, BookValues DEF Accounts, MessagesInv
  <2> QED BY <1>1, <1>4, <2>1, <2>2, <2>3, <2>4 DEF ClaimReplies
<1>9. pending' # << >> /\ Stage(Head(pending))'
  BY <1>4, <1>5, <1>8 DEF Stage, ReplyFrom, Kept
<1> QED BY <1>5, <1>7, <1>9, Handled

\* Any other is a user's, of tokens of its own.
LEMMA HandlesUserBurn ==
  ASSUME MessagesInv, pending # << >>, TokenBurn(Head(pending)),
         Started(Head(pending))
  PROVE  MessagesInv'
<1> DEFINE m == Head(pending)
<1>1. PICK sender \in Holders, amount \in TokenAmounts :
        m = Message("Burn", sender, Cw20Token, 0, [amount |-> amount])
  BY RequestKinds DEF Started, Kinds, TokenBurn
<1>2. m.sender = sender /\ m.body.amount = amount
  BY <1>1 DEF Message
<1>3. /\ pending = <<m, Done>> /\ Same /\ Running
  BY ExistsIsRunning DEF Started, TokenBurn
<1>4. /\ ExecuteBurn(sender, amount)
      /\ pending' = << >> \o Tail(pending)
      /\ UNCHANGED <<tax, committed, message_cw20>>
      /\ UNCHANGED <<stakingVars, poolVars, wiring>>
  BY <1>2 DEF TokenBurn, Emit
<1> HIDE DEF m
<1>5. pending' = <<Done>>
  BY <1>3, <1>4, SentAfterOne
<1>6. Kept
  BY <1>4 DEF Kept, stakingVars, lottery, poolVars, anchor
<1>7. /\ amount \in Uint /\ amount \in Nat
      /\ sender \in Addresses /\ sender # StakingContract
  BY TokenInputsAssumption, UintIsNat, MessagesAssumption
<1>8. Books'
  <2>1. TokenBooks'
    BY <1>4, <1>7, BurnKeepsBooks, BooksAre DEF MessagesInv
  <2>2. StakingBooks' /\ PoolTypeOK'
    BY <1>4, StakingBooksStay, BooksAre
       DEF MessagesInv, Books, PoolTypeOK, poolVars, poolState, anchor
  <2> QED BY <2>1, <2>2 DEF Books, StakingBooks, TokenBooks
<1>9. BurnDone(sender, amount)'
  <2>1. DidBurn(sender, amount)'
    BY <1>3, <1>4, <1>6, Burns DEF Same, Kept
  <2>2. (Running /\ SameStaking /\ SamePool)'
    BY <1>3, <1>4, <1>6
       DEF Running, CommittedWired, Same, SameStaking, SamePool, SameMoney, SameWiring,
           Kept, stakingVars, state, lottery, poolVars, poolState, anchor, wiring
  <2> QED BY <2>1, <2>2 DEF BurnDone
<1>10. AccountsAgree'
  <2>1. balances'[StakingContract] = balances[StakingContract]
    BY <1>4, <1>7, WiringAssumption DEF ExecuteBurn, MessagesInv, Books, Cw20TypeOK
  <2>2. UNCHANGED <<total_ust_pool, total_balance>> /\ AmountOf(claims)' = AmountOf(claims)
    BY <1>4 DEF stakingVars, state, poolVars, poolState, AmountOf
  <2>3. AccountsAgree
    BY <1>3, SameAgrees
  <2> QED BY <2>1, <2>2, <2>3 DEF AccountsAgree
<1>11. pending' # << >> /\ Stage(Head(pending))'
  BY <1>5, <1>9, <1>10 DEF Stage, Finished, Whole, Done
<1> QED BY <1>6, <1>8, <1>11, Handled

\* A burn is a user's or that of a claim.
LEMMA HandlesTokenBurn ==
  ASSUME MessagesInv, pending # << >>, TokenBurn(Head(pending))
  PROVE  MessagesInv'
<1>1. \/ Started(Head(pending))
      \/ \E sender \in Holders, paid \in SUBSET committed.claims :
           ClaimBurns(sender, paid)
  BY DEF MessagesInv, Stage, RequestTypes, TokenBurn
<1> QED BY <1>1, HandlesClaimBurn, HandlesUserBurn

\* The reply to the withdrawal hears its event and not the burn's.
LEMMA HandlesWithdrawReply ==
  ASSUME MessagesInv, pending # << >>, WithdrawReply(Head(pending))
  PROVE  MessagesInv'
<1> DEFINE m == Head(pending)
<1>1. PICK sender \in Holders, paid \in SUBSET committed.claims :
        ClaimReplies(sender, paid)
  BY DEF MessagesInv, Stage, RequestTypes, WithdrawReply
<1>2. PICK amount : amount = AmountOf(paid)
  OBVIOUS
<1>3. /\ pending = <<ReplyFrom(2, 0), Done>>
      /\ events = <<WithdrawEvent(sender, amount), BurnEvent(amount)>>
      /\ m = ReplyFrom(2, 0) /\ m.since = 0
      /\ DidWithdraw(sender, paid) /\ DidBurn(StakingContract, amount)
  BY <1>1, <1>2 DEF ClaimReplies, ReplyFrom
<1>4. FirstHeard(m, "wasm") = {WithdrawEvent(sender, amount)}
  <2>1. Len(events) = 2 /\ events[m.since + 1] = WithdrawEvent(sender, amount)
    BY <1>3
  <2>2. WithdrawEvent(sender, amount).type = "wasm"
    BY DEF WithdrawEvent, Event
  <2> HIDE DEF m
  <2> QED BY <1>3, <2>1, <2>2, HearsTheFirst
<1>5. /\ WithdrawEvent(sender, amount).attributes.withdraw = amount
      /\ WithdrawEvent(sender, amount).attributes.recipient = sender
  BY DEF WithdrawEvent, Event
<1>6. PICK redeemed, sent : redeemed = AustToRedeem(amount) /\ sent = NetAmount(tax, amount)
  OBVIOUS
<1>7. /\ Fits(FromRatio(amount, 1))
      /\ total_ust_pool >= amount
      /\ total_ust_pool' = total_ust_pool - amount
      /\ Emit(<<RedeemSent(redeemed), BankSent(sender, sent)>>, << >>)
      /\ UNCHANGED <<stakingVars, cw20Vars, next_draw, pool_uusd, anchor, now, wiring>>
  BY <1>4, <1>5, <1>6 DEF WithdrawReply, OwedAfter, RedeemSent, BankSent
<1> HIDE DEF m
<1>8. pending' = <<RedeemSent(redeemed), BankSent(sender, sent), Done>>
  BY <1>3, <1>7, SentAfterOne DEF Emit
<1>9. Kept
  BY <1>7 DEF Kept, Emit, stakingVars, lottery, anchor
<1>10. amount \in Nat /\ total_ust_pool \in Uint
  BY <1>2, CommittedAmount DEF MessagesInv, Books, PoolTypeOK
<1>11. Books'
  <2>1. total_ust_pool' \in Uint
    BY <1>7, <1>10, MaxUintAssumption DEF Uint
  <2>2. PoolTypeOK'
    BY <1>7, <2>1 DEF MessagesInv, Books, PoolTypeOK, anchor
  <2>3. StakingBooks' /\ TokenBooks'
    BY <1>7, StakingBooksStay, TokenBooksStay, BooksAre DEF MessagesInv
  <2> QED BY <2>2, <2>3 DEF Books, StakingBooks, TokenBooks
<1>12. ClaimRedeems(sender, paid)'
  <2>1. redeemed = AustToRedeem(amount)' /\ sent = NetAmount(tax, amount)'
    BY <1>6, <1>9 DEF Kept, AustToRedeem, AustWorth
  <2>2. DidWithdraw(sender, paid)' /\ DidBurn(StakingContract, amount)'
    <3>1. DidWithdraw(sender, paid)'
      BY <1>3, <1>7, <1>9, WithdrawnStays DEF Kept
    <3>2. DidBurn(StakingContract, amount)'
      BY <1>3, <1>7, <1>9 DEF DidBurn, Kept, cw20Vars
    <3> QED BY <3>1, <3>2
  <2>3. (Running /\ SameMoney)'
    BY <1>1, <1>7, <1>9
       DEF ClaimReplies, Running, CommittedWired, SamePool, SameMoney, SameWiring,
           Kept, anchor, wiring
  <2>4. ClaimBooked(sender, paid)'
    BY <1>1, <1>2, <1>7, <1>9, <2>2, <2>3 DEF ClaimReplies, ClaimBooked, SamePool, Kept
  <2>5. AccountsAgree'
    <3>1. /\ total_ust_pool = total_balance + AmountOf(claims) + amount
          /\ balances[StakingContract] = total_balance + AmountOf(claims) + 0
      BY <1>1, <1>2 DEF ClaimReplies, Accounts
    <3>2. UNCHANGED <<balances, total_balance>> /\ AmountOf(claims)' = AmountOf(claims)
      BY <1>7 DEF stakingVars, state, cw20Vars, AmountOf
    <3> QED BY <1>7, <1>10, <3>1, <3>2, BookValues DEF AccountsAgree, MessagesInv
  <2> QED BY <1>2, <1>8, <2>1, <2>3, <2>4, <2>5 DEF ClaimRedeems, RedeemSent, BankSent, Message
<1>13. pending' # << >> /\ Stage(Head(pending))'
  BY <1>8, <1>9, <1>12 DEF Stage, RedeemSent, Message, Kept
<1> QED BY <1>9, <1>11, <1>13, Handled

-----------------------------------------------------------------------------
(* The money market and the bank.                                           *)

\* What is redeemed for an amount owed.
LEMMA RedeemedTypes ==
  ASSUME Books, NEW amount \in Nat
  PROVE  AustToRedeem(amount) \in Nat
<1>1. FromRatio(amount, 1) = amount * Unit /\ amount * Unit \in Nat
  BY WholeDecimal
<1> QED BY <1>1, AustWorthBelow DEF Books, AustToRedeem

\* The market pays for a claim.
LEMMA HandlesClaimRedeem ==
  ASSUME MessagesInv, pending # << >>, RedeemStable(Head(pending)),
         NEW sender \in Holders, NEW paid \in SUBSET committed.claims,
         ClaimRedeems(sender, paid)
  PROVE  MessagesInv'
<1> DEFINE m == Head(pending)
<1>1. PICK redeemed, sent : /\ redeemed = AustToRedeem(AmountOf(paid))
                            /\ sent = NetAmount(tax, AmountOf(paid))
  OBVIOUS
<1>2. /\ pending = <<RedeemSent(redeemed), BankSent(sender, sent), Done>>
      /\ m = RedeemSent(redeemed) /\ m.body.amount = redeemed
  BY <1>1 DEF ClaimRedeems, RedeemSent, Message
<1>3. PICK got : got = UusdRedeemed(tax, redeemed)
  OBVIOUS
<1>4. /\ redeemed > 0
      /\ redeemed <= aust
      /\ aust' = aust - redeemed
      /\ pool_uusd' = pool_uusd + got
      /\ pending' = << >> \o Tail(pending)
      /\ UNCHANGED <<tax, committed, message_cw20>>
      /\ UNCHANGED <<stakingVars, cw20Vars, poolState, exchange_rate, now, wiring>>
  BY <1>2, <1>3 DEF RedeemStable, Emit
<1> HIDE DEF m
<1>5. pending' = <<BankSent(sender, sent), Done>>
  BY <1>2, <1>4, SentAfterTwo
<1>6. Kept
  BY <1>4 DEF Kept, stakingVars, lottery
<1>7. redeemed \in Nat /\ got \in Nat /\ aust \in Nat /\ pool_uusd \in Nat
  <2>1. redeemed \in Nat
    BY <1>1, RedeemedTypes, CommittedAmount DEF MessagesInv
  <2> QED BY <1>3, <2>1, UusdRedeemedType, TaxesAreTaxes, BookValues DEF MessagesInv, Books
<1>8. Books'
  BY <1>4, <1>7, MoneyKeepsBooks DEF MessagesInv
<1>9. ClaimSends(sender, paid)'
  <2>1. /\ redeemed = AustToRedeem(AmountOf(paid))'
        /\ sent = NetAmount(tax, AmountOf(paid))'
        /\ got = UusdRedeemed(tax, redeemed)'
    BY <1>1, <1>3, <1>6 DEF Kept, AustToRedeem, AustWorth, UusdRedeemed
  <2>2. ClaimBooked(sender, paid)'
    <3>1. DidWithdraw(sender, paid)'
      BY <1>4, <1>6, WithdrawnStays DEF ClaimRedeems, ClaimBooked, Kept
    <3>2. DidBurn(StakingContract, AmountOf(paid))'
      BY <1>4, <1>6 DEF ClaimRedeems, ClaimBooked, DidBurn, Kept, cw20Vars
    <3>3. Running'
      BY <1>4, <1>6
         DEF ClaimRedeems, ClaimBooked, Running, CommittedWired, SameWiring, Kept, wiring
    <3> QED BY <1>4, <1>6, <3>1, <3>2, <3>3
            DEF ClaimRedeems, ClaimBooked, Kept, poolState
  <2>3. ClaimAtMarket(paid)'
    BY <1>4, <1>6, <2>1 DEF ClaimRedeems, SameMoney, ClaimAtMarket, Kept
  <2>4. pool_uusd' = committed'.pool_uusd + UusdRedeemed(tax, AustToRedeem(AmountOf(paid)))'
    <3>1. got = UusdRedeemed(tax, AustToRedeem(AmountOf(paid)))'
      BY <2>1, <1>6 DEF UusdRedeemed
    <3> QED BY <1>4, <1>6, <3>1 DEF ClaimRedeems, SameMoney, Kept
  <2>5. AccountsAgree'
    BY <1>4 DEF ClaimRedeems, AccountsAgree, stakingVars, state, cw20Vars, poolState, AmountOf
  <2>6. pending' = <<BankSent(sender, NetAmount(tax, AmountOf(paid))'), Done>>
    BY <1>5, <2>1
  <2> QED BY <2>2, <2>3, <2>4, <2>5, <2>6 DEF ClaimSends, BankSent, Message
<1>10. pending' # << >> /\ Stage(Head(pending))'
  BY <1>5, <1>6, <1>9 DEF Stage, BankSent, Message, Kept
<1> QED BY <1>6, <1>8, <1>10, Handled

\* The market pays for a draw.
LEMMA HandlesEarningRedeem ==
  ASSUME MessagesInv, pending # << >>, RedeemStable(Head(pending)), EarningAsks
  PROVE  MessagesInv'
<1> DEFINE m == Head(pending)
<1>1. PICK redeemed, sent : redeemed = Interest /\ sent = EarningSent
  OBVIOUS
<1>2. /\ pending = <<RedeemSent(redeemed), UpdateSent(sent), Done>>
      /\ m = RedeemSent(redeemed) /\ m.body.amount = redeemed
  BY <1>1 DEF EarningAsks, RedeemSent, Message
<1>3. PICK got : got = UusdRedeemed(tax, redeemed)
  OBVIOUS
<1>4. /\ redeemed > 0
      /\ redeemed <= aust
      /\ aust' = aust - redeemed
      /\ pool_uusd' = pool_uusd + got
      /\ pending' = << >> \o Tail(pending)
      /\ UNCHANGED <<tax, committed, message_cw20>>
      /\ UNCHANGED <<stakingVars, cw20Vars, poolState, exchange_rate, now, wiring>>
  BY <1>2, <1>3 DEF RedeemStable, Emit
<1> HIDE DEF m
<1>5. pending' = <<UpdateSent(sent), Done>>
  BY <1>2, <1>4, SentAfterTwo
<1>6. Kept
  BY <1>4 DEF Kept, stakingVars, lottery
<1>7. redeemed \in Nat /\ got \in Nat /\ aust \in Nat /\ pool_uusd \in Nat
  BY <1>1, <1>3, UusdRedeemedType, TaxesAreTaxes, BookValues
     DEF MessagesInv, Books, EarningAsks, EarningDue
<1>8. Books'
  BY <1>4, <1>7, MoneyKeepsBooks DEF MessagesInv
<1>9. EarningUpdates'
  <2>1. UNCHANGED <<committed, tax>>
    BY <1>6 DEF Kept
  <2>2. /\ Interest' = redeemed /\ EarningSent' = sent
        /\ Transactions!DrawIsDue' <=> Transactions!DrawIsDue
        /\ Transactions!AustValue' = Transactions!AustValue
        /\ Transactions!InterestAccrued' = Transactions!InterestAccrued
    BY <1>1, <2>1, EarningStays
  <2>3. (Running /\ SameToken /\ SameStaking)'
    BY <1>4, <1>6
       DEF EarningAsks, EarningDue, Running, CommittedWired, SameToken, SameStaking,
           SameWiring, Kept, stakingVars, state, lottery, cw20Vars, wiring
  <2>4. EarningDue'
    BY <1>1, <1>4, <2>1, <2>2, <2>3 DEF EarningAsks, EarningDue, poolState
  <2>5. EarningAtMarket'
    BY <1>4, <2>1, <2>2 DEF EarningAsks, SameMoney, EarningAtMarket
  <2>6. got = UusdRedeemed(tax, Interest)'
    BY <1>3, <1>6, <2>2 DEF UusdRedeemed, Kept
  <2>7. pool_uusd' = committed'.pool_uusd + UusdRedeemed(tax, Interest)'
    BY <1>4, <2>1, <2>6 DEF EarningAsks, SameMoney
  <2>8. pending' = <<UpdateSent(EarningSent'), Done>>
    BY <1>5, <2>2
  <2> QED BY <2>3, <2>4, <2>5, <2>7, <2>8 DEF EarningUpdates, UpdateSent, Message
<1>10. pending' # << >> /\ Stage(Head(pending))'
  BY <1>5, <1>9 DEF Stage, UpdateSent, Message
<1> QED BY <1>6, <1>8, <1>10, Handled

\* Either of them.
LEMMA HandlesRedeemStable ==
  ASSUME MessagesInv, pending # << >>, RedeemStable(Head(pending))
  PROVE  MessagesInv'
<1>1. \/ \E sender \in Holders, paid \in SUBSET committed.claims :
           ClaimRedeems(sender, paid)
      \/ EarningAsks
  BY DEF MessagesInv, Stage, RequestTypes, RedeemStable
<1> QED BY <1>1, HandlesClaimRedeem, HandlesEarningRedeem

\* The end of ClaimUnPool.
LEMMA HandlesBankSend ==
  ASSUME MessagesInv, pending # << >>, BankSend(Head(pending))
  PROVE  MessagesInv'
<1> DEFINE m == Head(pending)
<1>1. PICK sender \in Holders, paid \in SUBSET committed.claims : ClaimSends(sender, paid)
  BY DEF MessagesInv, Stage, RequestTypes, BankSend
<1>2. PICK amount, redeemed, sent, got :
        /\ amount = AmountOf(paid)
        /\ redeemed = AustToRedeem(amount)
        /\ sent = NetAmount(tax, amount)
        /\ got = UusdRedeemed(tax, redeemed)
  OBVIOUS
<1>3. /\ pending = <<BankSent(sender, sent), Done>>
      /\ m = BankSent(sender, sent) /\ m.funds = sent
  BY <1>1, <1>2 DEF ClaimSends, BankSent, Message
<1>4. PICK cost : cost = SendCost(tax, sent)
  OBVIOUS
<1>5. /\ sent > 0
      /\ cost <= pool_uusd
      /\ pool_uusd' = pool_uusd - cost
      /\ pending' = << >> \o Tail(pending)
      /\ UNCHANGED <<tax, committed, message_cw20>>
      /\ UNCHANGED <<stakingVars, cw20Vars, poolState, anchor, now, wiring>>
  BY <1>3, <1>4 DEF BankSend, Emit
<1> HIDE DEF m
<1>6. pending' = <<Done>>
  BY <1>3, <1>5, SentAfterOne
<1>7. Kept
  BY <1>5 DEF Kept, stakingVars, lottery, anchor
<1>8. /\ cost \in Nat /\ aust \in Nat /\ pool_uusd \in Nat
  <2>1. amount \in Nat
    BY <1>2, CommittedAmount DEF MessagesInv
  <2>2. DeductTax(tax, amount) \in Nat
    BY <2>1, DeductTaxType, TaxesAreTaxes
  <2>3. sent \in Nat
    BY <1>2, <2>2, DeductTaxType, TaxesAreTaxes DEF NetAmount
  <2> QED BY <1>4, <2>3, SendCostType, TaxesAreTaxes, BookValues DEF MessagesInv
<1>9. Books'
  BY <1>5, <1>8, MoneyKeepsBooks DEF MessagesInv, anchor
<1>10. ClaimDone(sender, paid)'
  <2>1. /\ amount = AmountOf(paid)' /\ redeemed = AustToRedeem(amount)'
        /\ sent = NetAmount(tax, amount)' /\ got = UusdRedeemed(tax, redeemed)'
        /\ cost = SendCost(tax, sent)'
    BY <1>2, <1>4, <1>7 DEF Kept, AustToRedeem, AustWorth, UusdRedeemed, AmountOf
  <2>2. ClaimBooked(sender, paid)'
    <3>1. DidWithdraw(sender, paid)'
      BY <1>1, <1>5, <1>7, WithdrawnStays DEF ClaimSends, ClaimBooked, Kept
    <3>2. DidBurn(StakingContract, AmountOf(paid))'
      BY <1>1, <1>5, <1>7 DEF ClaimSends, ClaimBooked, DidBurn, Kept, cw20Vars
    <3>3. Running'
      BY <1>1, <1>5, <1>7
         DEF ClaimSends, ClaimBooked, Running, CommittedWired, SameWiring, Kept, wiring
    <3> QED BY <1>1, <1>5, <1>7, <3>1, <3>2, <3>3
            DEF ClaimSends, ClaimBooked, Kept, poolState
  <2>3. ClaimAtMarket(paid)'
    BY <1>1, <1>5, <1>7 DEF ClaimSends, ClaimAtMarket, Kept, AustToRedeem, AustWorth, anchor
  <2>4. pool_uusd = committed.pool_uusd + got
    BY <1>1, <1>2 DEF ClaimSends
  <2>5. /\ NetAmount(tax, AmountOf(paid))' = sent
        /\ SendCost(tax, NetAmount(tax, AmountOf(paid)))' = cost
        /\ UusdRedeemed(tax, AustToRedeem(AmountOf(paid)))' = got
    BY <1>2, <1>4, <1>7, <2>1 DEF UusdRedeemed, Kept
  <2> QED BY <1>5, <1>7, <2>2, <2>3, <2>4, <2>5 DEF ClaimDone, Kept
<1>11. AccountsAgree'
  BY <1>1, <1>5 DEF ClaimSends, AccountsAgree, stakingVars, state, cw20Vars, poolState, AmountOf
<1>12. pending' # << >> /\ Stage(Head(pending))'
  <2>1. (\E s \in Holders, p \in SUBSET committed.claims : ClaimDone(s, p))'
    BY <1>7, <1>10 DEF Kept
  <2> QED BY <1>6, <1>11, <2>1 DEF Stage, Finished, Whole, Done
<1> QED BY <1>7, <1>9, <1>12, Handled

-----------------------------------------------------------------------------
(* Earnings and tickets.                                                    *)

\* The end of RedeemEarning.
LEMMA HandlesUpdateGlobalIndex ==
  ASSUME MessagesInv, pending # << >>, HandleUpdateGlobalIndex(Head(pending))
  PROVE  MessagesInv'
<1> DEFINE m == Head(pending)
<1>1. ~Started(m)
  BY NotForeign DEF HandleUpdateGlobalIndex
<1>2. EarningUpdates
  BY <1>1 DEF MessagesInv, Stage, RequestTypes, HandleUpdateGlobalIndex
<1>3. PICK redeemed, sent, got, cost :
        /\ redeemed = Interest
        /\ sent = EarningSent
        /\ got = UusdRedeemed(tax, redeemed)
        /\ cost = SendCost(tax, sent)
  OBVIOUS
<1>4. /\ pending = <<UpdateSent(sent), Done>>
      /\ m = UpdateSent(sent) /\ m.funds = sent
  BY <1>2, <1>3 DEF EarningUpdates, UpdateSent, Message
<1>5. /\ sent > 0
      /\ cost <= pool_uusd
      /\ pool_uusd' = pool_uusd - cost
      /\ UpdateGlobalIndex(Admin, sent)
      /\ pending' = << >> \o Tail(pending)
      /\ UNCHANGED <<tax, committed, message_cw20>>
      /\ UNCHANGED <<cw20Vars, poolState, anchor, now, wiring>>
  BY <1>3, <1>4 DEF HandleUpdateGlobalIndex, Emit
<1> HIDE DEF m
<1>6. pending' = <<Done>>
  BY <1>4, <1>5, SentAfterOne
<1>7. Kept
  BY <1>5 DEF Kept, UpdateGlobalIndex, lottery, anchor
<1>8. sent \in Nat /\ cost \in Nat /\ pool_uusd \in Nat
  <2>1. sent \in Nat
    BY <1>2, <1>3 DEF EarningUpdates, EarningDue
  <2> QED BY <1>3, <2>1, SendCostType, TaxesAreTaxes, BookValues DEF MessagesInv
<1>9. Books'
  <2>1. StakingBooks'
    BY <1>5, <1>8, UpdateKeepsBooks, BooksAre DEF MessagesInv
  <2>2. TokenBooks'
    BY <1>5, TokenBooksStay, BooksAre DEF MessagesInv
  <2>3. PoolTypeOK'
    BY <1>5, <1>8 DEF MessagesInv, Books, PoolTypeOK, poolState, anchor
  <2> QED BY <2>1, <2>2, <2>3 DEF Books, StakingBooks, TokenBooks
<1>10. EarningDone'
  <2>1. UNCHANGED <<committed, tax>>
    BY <1>7 DEF Kept
  <2>2. /\ Interest' = redeemed /\ EarningSent' = sent
        /\ Transactions!DrawIsDue' <=> Transactions!DrawIsDue
        /\ Transactions!AustValue' = Transactions!AustValue
        /\ Transactions!InterestAccrued' = Transactions!InterestAccrued
    BY <1>3, <2>1, EarningStays
  <2>3. (Running /\ SameToken)'
    BY <1>2, <1>5, <1>7
       DEF EarningUpdates, EarningDue, Running, CommittedWired, SameToken,
           SameWiring, Kept, cw20Vars, wiring
  <2>4. EarningDue'
    BY <1>2, <1>3, <1>5, <2>1, <2>2, <2>3 DEF EarningUpdates, EarningDue, poolState
  <2>5. EarningAtMarket'
    BY <1>2, <1>3, <1>5, <2>1, <2>2 DEF EarningUpdates, EarningAtMarket, anchor
  <2>6. UusdRedeemed(tax, Interest)' = got /\ SendCost(tax, EarningSent)' = cost
    BY <1>3, <1>7, <2>2 DEF UusdRedeemed, Kept
  <2>7. pool_uusd = committed.pool_uusd + got
    BY <1>2, <1>3 DEF EarningUpdates
  <2>8. DidUpdate(sent)'
    BY <1>2, <1>5, <2>1, Updates DEF EarningUpdates
  <2> QED BY <1>5, <2>1, <2>2, <2>4, <2>5, <2>6, <2>7, <2>8 DEF EarningDone, DidUpdate
<1>11. AccountsAgree'
  <2>1. /\ total_ust_pool = committed.total_ust_pool
        /\ total_balance = committed.total_balance
        /\ claims = committed.claims /\ balances = committed.balances
    BY <1>2 DEF EarningUpdates, EarningDue, SameStaking, SameToken
  <2>2. AccountsAgree
    BY <2>1 DEF AccountsAgree, MessagesInv, CommittedInv, CommittedAgree
  <2> QED BY <1>5, <2>2
          DEF AccountsAgree, UpdateGlobalIndex, cw20Vars, poolState, AmountOf
<1>12. pending' # << >> /\ Stage(Head(pending))'
  BY <1>6, <1>10, <1>11 DEF Stage, Finished, Whole, Done
<1> QED BY <1>7, <1>9, <1>12, Handled

\* GetTicket is a transaction of one message.
LEMMA HandlesGetTicket ==
  ASSUME MessagesInv, pending # << >>, HandleGetTicket(Head(pending))
  PROVE  MessagesInv'
<1> DEFINE m == Head(pending)
<1>1. Started(m) /\ Kinds(m)
  BY StartedIs DEF HandleGetTicket
<1>2. PICK user \in Holders, h \in Holders, combination \in Combinations :
        m = Message("GetTicket", user, StakingContract, 0,
                    [recipient |-> h, combination |-> combination])
  BY <1>1 DEF Kinds, HandleGetTicket
<1>3. m.body.recipient = h /\ m.body.combination = combination
  BY <1>2 DEF Message
<1>4. /\ pending = <<m, Done>> /\ Same /\ Running
  BY <1>1, ExistsIsRunning DEF Started, HandleGetTicket
<1>5. PICK price \in Prices :
        /\ GetTicket(h, combination, price, tax)
        /\ pending' = << >> \o Tail(pending)
        /\ UNCHANGED <<tax, committed, message_cw20>>
        /\ UNCHANGED <<cw20Vars, poolVars, wiring>>
  BY <1>3 DEF HandleGetTicket, Emit
<1> HIDE DEF m
<1>6. pending' = <<Done>>
  BY <1>4, <1>5, SentAfterOne
<1>7. Kept
  BY <1>5 DEF Kept, GetTicket, poolVars, anchor
<1>8. Books'
  <2>1. StakingBooks'
    BY <1>5, GetTicketKeepsBooks, InputsAssumption, TaxesAreTaxes, BooksAre DEF MessagesInv
  <2>2. TokenBooks' /\ PoolTypeOK'
    BY <1>5, TokenBooksStay, BooksAre
       DEF MessagesInv, Books, PoolTypeOK, poolVars, poolState, anchor
  <2> QED BY <2>1, <2>2 DEF Books, StakingBooks, TokenBooks
<1>9. TicketDone(h, combination, price)'
  <2>1. DidGetTicket(h, combination, price)'
    BY <1>4, <1>5, <1>7, BuysTicket DEF MessagesInv, Same, Kept
  <2>2. (Running /\ SameToken /\ SamePool)'
    BY <1>4, <1>5, <1>7
       DEF Running, CommittedWired, Same, SameToken, SamePool, SameMoney, SameWiring,
           Kept, cw20Vars, poolVars, poolState, anchor, wiring
  <2> QED BY <2>1, <2>2 DEF TicketDone
<1>10. AccountsAgree'
  <2>1. AccountsAgree
    BY <1>4, SameAgrees
  <2> QED BY <1>5, <2>1
          DEF AccountsAgree, GetTicket, cw20Vars, poolVars, poolState, AmountOf
<1>11. pending' # << >> /\ Stage(Head(pending))'
  BY <1>6, <1>9, <1>10 DEF Stage, Finished, Whole, Done
<1> QED BY <1>7, <1>8, <1>11, Handled

-----------------------------------------------------------------------------
(* The invariant.                                                           *)

\* Nothing is deployed, and nothing owed.
LEMMA MessagesInitInv == MessagesInit => MessagesInv
<1> SUFFICES ASSUME MessagesInit PROVE MessagesInv
  OBVIOUS
<1>1. Same /\ SameClock
  BY DEF MessagesInit, Working, Same, SameStaking, SameToken, SamePool, SameMoney,
         SameWiring, SameClock
<1>2. AmountOf(claims) = 0 /\ total_balance = 0
  BY SumEmpty DEF MessagesInit, StakingInit, AmountOf
<1>3. Books
  <2>1. StakingBooks
    BY StakingInitInv, StakingBooksAre DEF MessagesInit
  <2>2. TokenBooks
    <3>1. \A a \in Addresses : balances[a] = 0
      BY DEF MessagesInit
    <3>2. Tokens(Addresses, balances) = {}
      BY <3>1 DEF Tokens
    <3>3. SumOver(Addresses, balances) = 0
      BY <3>2, FS_EmptySet DEF SumOver
    <3> QED BY <3>3, ZeroIsUint
            DEF MessagesInit, TokenBooks, Cw20TypeOK, SupplyCoversBalances
  <2>3. PoolTypeOK
    BY ZeroIsUint, UnitAssumption DEF MessagesInit, PoolTypeOK
  <2> QED BY <2>1, <2>2, <2>3, BooksAre
<1>4. CommittedInv
  <2>1. CommittedBooks
    BY <1>1, <1>3, SameBooks
  <2>2. CommittedAgree
    BY <1>1, <1>2, WiringAssumption
       DEF MessagesInit, CommittedAgree, Same, SameStaking, SameToken, SamePool
  <2>3. CommittedAbsent
    BY DEF MessagesInit, StakingInit, Working, CommittedAbsent
  <2> QED BY <2>1, <2>2, <2>3 DEF CommittedInv
<1> QED BY <1>1, <1>3, <1>4 DEF MessagesInit, MessagesInv

\* What was compared with the committed state and has not changed.
LEMMA SamesStay ==
  ASSUME UNCHANGED <<contractVars, committed>>
  PROVE  /\ SameStaking' <=> SameStaking
         /\ SameToken' <=> SameToken
         /\ SameMoney' <=> SameMoney
         /\ SamePool' <=> SamePool
         /\ SameWiring' <=> SameWiring
         /\ Same' <=> Same
         /\ Running' <=> Running
         /\ AccountsAgree' <=> AccountsAgree
         /\ \A booked, minted : Accounts(booked, minted)' <=> Accounts(booked, minted)
BY DEF SameStaking, SameToken, SameMoney, SamePool, SameWiring, Same, Running,
       CommittedWired, AccountsAgree, Accounts, AmountOf, contractVars, dogetherVars,
       stakingVars, state, lottery, cw20Vars, poolVars, poolState, anchor, wiring

LEMMA ClockStays ==
  ASSUME SameClock, UNCHANGED <<contractVars, committed>>
  PROVE  SameClock'
BY DEF SameClock, contractVars, dogetherVars, stakingVars, lottery, poolVars, anchor

\* A transaction starts from what is committed.
LEMMA StartsInv ==
  ASSUME MessagesInv, NEW m \in Requests, NEW reported \in Taxes, Start(m, reported)
  PROVE  MessagesInv'
<1>1. /\ pending = << >> /\ pending' = <<m, Done>> /\ tax' = reported
      /\ UNCHANGED <<contractVars, message_cw20, events, committed>>
  BY DEF Start
<1>2. Same /\ SameClock /\ events = << >>
  BY <1>1 DEF MessagesInv
<1>3. Same' /\ SameClock'
  BY <1>1, <1>2, SamesStay, ClockStays
<1>4. Books' /\ CommittedInv'
  BY <1>1, BooksStay, CommittedStays DEF MessagesInv, contractVars
<1>5. Started(m)'
  BY <1>1, <1>2, <1>3 DEF Started
<1>6. m.type \in RequestTypes
  BY RequestKinds DEF Kinds
<1>7. pending' # << >> /\ Stage(Head(pending))'
  BY <1>1, <1>5, <1>6 DEF Stage
<1> QED BY <1>1, <1>3, <1>4, <1>7 DEF MessagesInv

\* Every handler keeps the invariant.
LEMMA HandlesInv ==
  ASSUME MessagesInv, Handle
  PROVE  MessagesInv'
BY HandlesInstantiatePool, HandlesInstantiateToken, HandlesCw20InstanceReply,
   HandlesInstantiateStaking, HandlesStakingInstanceReply, HandlesTryPool,
   HandlesTryUnPool, HandlesTryClaimUnPool, HandlesWithdrawReply,
   HandlesTryRedeemEarning, HandlesTokenBond, HandlesTokenBurn, HandlesReceive,
   HandlesUnbound, HandlesWithdrawStake, HandlesUpdateGlobalIndex,
   HandlesGetTicket, HandlesDepositStable, HandlesRedeemStable, HandlesBankSend
   DEF Handle

\* What is committed is whole.
LEMMA CommitsFinished ==
  ASSUME MessagesInv, Commit
  PROVE  Finished /\ tax \in Taxes
BY DEF MessagesInv, Commit, Stage, RequestTypes, Done

\* A finished transaction leaves the contracts wired.
LEMMA WholeIsWired ==
  ASSUME Whole
  PROVE  Wired
BY DEF Whole, DeployDone, PoolDone, PoolBooked, UnPoolDone, ClaimDone, ClaimBooked,
       EarningDone, EarningDue, TicketDone, BurnDone, Running, CommittedWired,
       SameWiring, Wired

LEMMA SameBooksBecome == (Same' /\ SameClock') => (Books' <=> CommittedBooks')
BY SameBooks, PTL

\* A commit makes sound books the committed ones.
LEMMA CommitsInv ==
  ASSUME MessagesInv, Commit
  PROVE  MessagesInv'
<1>1. Whole /\ AccountsAgree
  BY CommitsFinished DEF Finished
<1>2. Committing
  BY CommitIs
<1>3. /\ pending' = << >> /\ events' = << >>
      /\ UNCHANGED <<contractVars, message_cw20>>
  BY DEF Commit
<1>4. Same' /\ SameClock'
  BY <1>2, <1>3, CommittingIsSame
<1>5. Books'
  BY <1>3, BooksStay DEF MessagesInv, contractVars
<1>6. CommittedInv'
  <2>1. CommittedBooks'
    BY <1>4, <1>5, SameBooksBecome
  <2>2. CommittedAgree'
    BY <1>1, <1>2 DEF AccountsAgree, Committing, CommittedAgree, AmountOf
  <2>3. CommittedWired'
    BY <1>1, <1>2, WholeIsWired DEF Committing, CommittedWired, Wired
  <2> QED BY <2>1, <2>2, <2>3 DEF CommittedInv
<1> QED BY <1>3, <1>4, <1>5, <1>6 DEF MessagesInv

\* An abort returns to the committed books.
LEMMA AbortsInv ==
  ASSUME MessagesInv, Abort
  PROVE  MessagesInv'
<1>1. /\ pending' = << >> /\ events' = << >>
      /\ UNCHANGED <<message_cw20, committed>>
  BY DEF Abort
<1>2. Same'
  BY DEF Abort, Same, SameStaking, SameToken, SamePool, SameMoney, SameWiring
<1>3. SameClock'
  BY DEF Abort, MessagesInv, SameClock
<1>4. CommittedInv'
  BY <1>1, CommittedStays DEF MessagesInv
<1>5. Books'
  BY <1>2, <1>3, <1>4, SameBooksBecome DEF CommittedInv
<1> QED BY <1>1, <1>2, <1>3, <1>4, <1>5 DEF MessagesInv

\* Gifts, interest and blocks leave the books sound.
LEMMA EnvironmentKeepsBooks ==
  ASSUME Books, Environment
  PROVE  Books'
<1> USE PoolInputsAssumption, InputsAssumption
<1>1. StakingBooks /\ TokenBooks /\ PoolTypeOK /\ 0 \in Uint
  BY BooksAre, ZeroIsUint
<1>2. ASSUME NEW amount \in Gifts, GiveUusd(amount) \/ GiveAust(amount)
      PROVE  Books'
  <2>1. amount \in Nat
    BY UintIsNat
  <2> QED BY <1>2, <2>1, MoneyKeepsBooks, BookValues
          DEF GiveUusd, GiveAust, anchor
<1>3. ASSUME NEW amount \in Rewards, GiveToStaking(amount)
      PROVE  Books'
  <2>1. StakingBooks'
    BY <1>1, <1>3, EnvironmentKeepsStakingBooks DEF GiveToStaking
  <2>2. TokenBooks' /\ PoolTypeOK'
    BY <1>1, <1>3, TokenBooksStay
       DEF GiveToStaking, PoolTypeOK, poolVars, poolState, anchor
  <2> QED BY <2>1, <2>2 DEF Books, StakingBooks, TokenBooks
<1>4. ASSUME NEW step \in RateSteps, AccrueInterest(step)
      PROVE  Books'
  <2>1. exchange_rate' \in Nat /\ exchange_rate' >= Unit
    BY <1>1, <1>4, UnitAssumption DEF AccrueInterest, PoolTypeOK
  <2>2. PoolTypeOK'
    BY <1>1, <1>4, <2>1 DEF AccrueInterest, PoolTypeOK, poolState
  <2>3. StakingBooks' /\ TokenBooks'
    BY <1>1, <1>4, StakingBooksStay, TokenBooksStay DEF AccrueInterest
  <2> QED BY <2>2, <2>3 DEF Books, StakingBooks, TokenBooks
<1>5. ASSUME NEW seconds \in BlockSeconds, Block(seconds)
      PROVE  Books'
  <2>1. StakingBooks'
    BY <1>1, <1>5, EnvironmentKeepsStakingBooks DEF Block
  <2>2. TokenBooks' /\ PoolTypeOK'
    BY <1>1, <1>5, TokenBooksStay DEF Block, PoolTypeOK, poolState, anchor
  <2> QED BY <2>1, <2>2 DEF Books, StakingBooks, TokenBooks
<1>6. ASSUME LotteryDraw
      PROVE  Books'
  <2>1. StakingBooks'
    BY <1>1, <1>6, EnvironmentKeepsStakingBooks DEF LotteryDraw
  <2>2. TokenBooks' /\ PoolTypeOK'
    BY <1>1, <1>6, TokenBooksStay
       DEF LotteryDraw, PoolTypeOK, poolVars, poolState, anchor
  <2> QED BY <2>1, <2>2 DEF Books, StakingBooks, TokenBooks
<1> QED BY <1>2, <1>3, <1>4, <1>5, <1>6 DEF Environment

\* They touch no account of the deposits and nothing a deployment sets.
LEMMA EnvironmentLeaves ==
  ASSUME Environment
  PROVE  UNCHANGED <<global_index, total_balance, prev_reward_balance, claims,
                     balances, total_ust_pool, wiring>>
BY DEF Environment, GiveUusd, GiveAust, GiveToStaking, GiveRewards, AccrueInterest,
       Block, NextBlock, LotteryDraw, NextLottery, stakingVars, state, cw20Vars,
       poolVars, poolState

\* Between transactions the committed state follows.
LEMMA EnvironmentInv ==
  ASSUME MessagesInv, Environment
  PROVE  MessagesInv'
<1>1. /\ pending = << >>
      /\ UNCHANGED <<wiring, message_cw20, transaction>>
      /\ Following
  BY FollowsIs DEF Environment
<1>2. Same /\ events = << >>
  BY <1>1 DEF MessagesInv
<1>3. Same' /\ SameClock'
  BY <1>1, FollowingIsSame
<1>4. Books'
  BY EnvironmentKeepsBooks DEF MessagesInv
<1>5. UNCHANGED <<global_index, total_balance, prev_reward_balance, claims,
                  balances, total_ust_pool, wiring>>
  BY EnvironmentLeaves
<1>6. CommittedInv'
  <2>1. CommittedBooks'
    BY <1>3, <1>4, SameBooksBecome
  <2>2. CommittedAgree'
    BY <1>1, <1>2, <1>5
       DEF MessagesInv, CommittedInv, CommittedAgree, Same, SameStaking, SameToken,
           SamePool, Following, AmountOf
  <2>3. (CommittedWired \/ CommittedAbsent)'
    BY <1>1, <1>2, <1>5
       DEF MessagesInv, CommittedInv, CommittedWired, CommittedAbsent, Same,
           SameStaking, SamePool, SameWiring, Following, wiring
  <2> QED BY <2>1, <2>2, <2>3 DEF CommittedInv
<1> QED BY <1>1, <1>2, <1>3, <1>4, <1>6 DEF MessagesInv, transaction

-----------------------------------------------------------------------------
(* A step that changes nothing: every stage is as it was.                   *)

\* Nor does it change what was done.
LEMMA DidStays ==
  ASSUME UNCHANGED <<contractVars, committed, tax>>, NEW h, NEW amount
  PROVE  /\ DidBond(h, amount)' <=> DidBond(h, amount)
         /\ DidUnbond(h, amount)' <=> DidUnbond(h, amount)
         /\ DidMint(amount)' <=> DidMint(amount)
         /\ DidBurn(h, amount)' <=> DidBurn(h, amount)
         /\ DidUpdate(amount)' <=> DidUpdate(amount)
<1> USE DEF contractVars, dogetherVars, stakingVars, state, lottery, cw20Vars
<1>1. /\ Transactions!RewardsComputable(h)' <=> Transactions!RewardsComputable(h)
      /\ Transactions!Settled(h)' = Transactions!Settled(h)
  BY RewardsStay
<1>2. Transactions!NextPosition(h)' = Transactions!NextPosition(h)
  BY ClaimsStay
<1>3. DidBond(h, amount)' <=> DidBond(h, amount)
  BY <1>1 DEF DidBond, DidMoveStake, RestOfStakingSame
<1>4. DidUnbond(h, amount)' <=> DidUnbond(h, amount)
  BY <1>1, <1>2 DEF DidUnbond, DidMoveStake, RestOfStakingSame
<1>5. DidMint(amount)' <=> DidMint(amount)
  BY DEF DidMint
<1>6. DidBurn(h, amount)' <=> DidBurn(h, amount)
  BY DEF DidBurn
<1>7. DidUpdate(amount)' <=> DidUpdate(amount)
  BY DEF DidUpdate
<1> QED BY <1>3, <1>4, <1>5, <1>6, <1>7

LEMMA TicketStays ==
  ASSUME UNCHANGED <<contractVars, committed, tax>>, NEW h, NEW combination, NEW price
  PROVE  TicketDone(h, combination, price)' <=> TicketDone(h, combination, price)
<1>1. /\ Transactions!RewardsComputable(h)' <=> Transactions!RewardsComputable(h)
      /\ Transactions!QueryAccruedRewards(h)' = Transactions!QueryAccruedRewards(h)
      /\ Transactions!CombinationKeys(h, combination)'
           = Transactions!CombinationKeys(h, combination)
      /\ Transactions!CombinationsAreNew(h, combination)'
           <=> Transactions!CombinationsAreNew(h, combination)
  BY RewardsStay, CombinationsStay
<1>2. DidGetTicket(h, combination, price)' <=> DidGetTicket(h, combination, price)
  BY <1>1 DEF DidGetTicket, contractVars, dogetherVars, stakingVars, state, lottery
<1> QED BY <1>2, SamesStay DEF TicketDone

LEMMA DeployStays ==
  ASSUME UNCHANGED <<contractVars, committed, message_cw20, pending, events>>
  PROVE  /\ DeployStarted' <=> DeployStarted
         /\ TokenInstantiated' <=> TokenInstantiated
         /\ TokenKnown' <=> TokenKnown
         /\ StakingInstantiated' <=> StakingInstantiated
         /\ DeployDone' <=> DeployDone
<1> USE DEF contractVars, dogetherVars, stakingVars, state, lottery, cw20Vars,
            poolVars, poolState, wiring
<1>1. Undeployed' <=> Undeployed
  BY SamesStay DEF Undeployed, CommittedAbsent
<1>2. TokenExists' <=> TokenExists
  BY DEF TokenExists
<1> QED BY <1>1, <1>2, SamesStay
        DEF DeployStarted, TokenInstantiated, TokenKnown, StakingInstantiated,
            DeployDone, Wired, TokenMessageSent

LEMMA PoolStays ==
  ASSUME UNCHANGED <<contractVars, committed, pending, events, tax>>,
         NEW sender, NEW sent
  PROVE  /\ PoolDeposits(sender, sent)' <=> PoolDeposits(sender, sent)
         /\ PoolBonds(sender, sent)' <=> PoolBonds(sender, sent)
         /\ PoolReceived(sender, sent)' <=> PoolReceived(sender, sent)
         /\ PoolDone(sender, sent)' <=> PoolDone(sender, sent)
<1> USE DEF contractVars, dogetherVars, poolVars, poolState, anchor
<1>1. PoolBooked(sent)' <=> PoolBooked(sent)
  BY SamesStay DEF PoolBooked
<1>2. PoolAtMarket(sent)' <=> PoolAtMarket(sent)
  BY DEF PoolAtMarket, AustMinted
<1>3. PoolDone(sender, sent)' <=> PoolDone(sender, sent)
  BY <1>1, <1>2, DidStays DEF PoolDone
<1>4. PoolDeposits(sender, sent)' <=> PoolDeposits(sender, sent)
  BY <1>1, SamesStay DEF PoolDeposits
<1>5. PoolBonds(sender, sent)' <=> PoolBonds(sender, sent)
  BY <1>1, <1>2, SamesStay DEF PoolBonds
<1>6. PoolReceived(sender, sent)' <=> PoolReceived(sender, sent)
  BY <1>1, <1>2, SamesStay, DidStays DEF PoolReceived
<1> QED BY <1>3, <1>4, <1>5, <1>6

LEMMA ClaimStays ==
  ASSUME UNCHANGED <<contractVars, committed, pending, events, tax>>,
         NEW sender, NEW paid
  PROVE  /\ ClaimBurns(sender, paid)' <=> ClaimBurns(sender, paid)
         /\ ClaimReplies(sender, paid)' <=> ClaimReplies(sender, paid)
         /\ ClaimRedeems(sender, paid)' <=> ClaimRedeems(sender, paid)
         /\ ClaimSends(sender, paid)' <=> ClaimSends(sender, paid)
         /\ ClaimDone(sender, paid)' <=> ClaimDone(sender, paid)
<1> USE DEF contractVars, dogetherVars, poolVars, poolState, anchor
<1>1. AmountOf(paid)' = AmountOf(paid)
  BY DEF AmountOf
<1>2. DidWithdraw(sender, paid)' <=> DidWithdraw(sender, paid)
  <2>1. /\ Transactions!ClaimsOf(sender)' = Transactions!ClaimsOf(sender)
        /\ Transactions!IsPaid(sender, {}, paid)'
             <=> Transactions!IsPaid(sender, {}, paid)
    BY ClaimsStay
  <2> QED BY <1>1, <2>1
          DEF DidWithdraw, RestOfStakingSame, stakingVars, state, lottery
<1>3. DidBurn(StakingContract, AmountOf(paid))'
        <=> DidBurn(StakingContract, AmountOf(paid))
  BY <1>1 DEF DidBurn, cw20Vars
<1>4. ClaimBooked(sender, paid)' <=> ClaimBooked(sender, paid)
  BY <1>1, <1>2, <1>3, SamesStay DEF ClaimBooked
<1>5. ClaimAtMarket(paid)' <=> ClaimAtMarket(paid)
  BY <1>1 DEF ClaimAtMarket, AustToRedeem, AustWorth
<1>6. ClaimDone(sender, paid)' <=> ClaimDone(sender, paid)
  BY <1>1, <1>4, <1>5
     DEF ClaimDone, UusdRedeemed, AustToRedeem, AustWorth
<1>7. ClaimBurns(sender, paid)' <=> ClaimBurns(sender, paid)
  BY <1>1, <1>2, SamesStay DEF ClaimBurns, Accounts, cw20Vars, stakingVars, state
<1>8. ClaimReplies(sender, paid)' <=> ClaimReplies(sender, paid)
  BY <1>1, <1>2, <1>3, SamesStay DEF ClaimReplies
<1>9. ClaimRedeems(sender, paid)' <=> ClaimRedeems(sender, paid)
  BY <1>1, <1>4, SamesStay DEF ClaimRedeems, AustToRedeem, AustWorth
<1>10. ClaimSends(sender, paid)' <=> ClaimSends(sender, paid)
  BY <1>1, <1>4, <1>5, SamesStay
     DEF ClaimSends, UusdRedeemed, AustToRedeem, AustWorth
<1> QED BY <1>6, <1>7, <1>8, <1>9, <1>10

LEMMA EarningStagesStay ==
  ASSUME UNCHANGED <<contractVars, committed, pending, events, tax>>
  PROVE  /\ EarningAsks' <=> EarningAsks
         /\ EarningUpdates' <=> EarningUpdates
         /\ EarningDone' <=> EarningDone
<1> USE EarningStays DEF contractVars, dogetherVars, poolVars, poolState, anchor
<1>1. EarningDue' <=> EarningDue
  BY SamesStay DEF EarningDue
<1>2. EarningAtMarket' <=> EarningAtMarket
  BY DEF EarningAtMarket
<1>3. EarningDone' <=> EarningDone
  BY <1>1, <1>2, DidStays DEF EarningDone, UusdRedeemed, DidUpdate, stakingVars, state
<1> QED BY <1>1, <1>2, <1>3, SamesStay
        DEF EarningAsks, EarningUpdates, UusdRedeemed

LEMMA WholeStays ==
  ASSUME Whole, UNCHANGED messagesVars
  PROVE  Whole'
<1>1. UNCHANGED <<contractVars, committed, message_cw20, pending, events, tax>>
  BY DEF messagesVars, transaction
<1>2. \A sender, amount : /\ UnPoolDone(sender, amount)' <=> UnPoolDone(sender, amount)
                          /\ BurnDone(sender, amount)' <=> BurnDone(sender, amount)
  BY <1>1, SamesStay, DidStays DEF UnPoolDone, BurnDone
<1> QED BY <1>1, <1>2, DeployStays, PoolStays, ClaimStays, EarningStagesStay,
           TicketStays DEF Whole

\* The stages together.
LEMMA StageStays ==
  ASSUME NEW m, Stage(m), UNCHANGED messagesVars
  PROVE  Stage(m)'
<1>1. UNCHANGED <<contractVars, committed, message_cw20, pending, events, tax>>
  BY DEF messagesVars, transaction
<1>2. Started(m)' <=> Started(m)
  BY <1>1, SamesStay DEF Started
<1>3. \A sender, amount : UnPoolAsks(sender, amount)' <=> UnPoolAsks(sender, amount)
  BY <1>1, SamesStay DEF UnPoolAsks
<1>4. \A sender : ClaimAsks(sender)' <=> ClaimAsks(sender)
  BY <1>1, SamesStay DEF ClaimAsks
<1>5. Finished => Finished'
  BY <1>1, SamesStay, WholeStays DEF Finished
<1> QED BY <1>1, <1>2, <1>3, <1>4, <1>5, DeployStays, PoolStays, ClaimStays,
           EarningStagesStay DEF Stage

\* And so the invariant.
LEMMA StuttersInv ==
  ASSUME MessagesInv, UNCHANGED messagesVars
  PROVE  MessagesInv'
<1>1. UNCHANGED <<contractVars, committed, message_cw20, pending, events, tax>>
  BY DEF messagesVars, transaction
<1>2. SameClock' /\ Books' /\ CommittedInv'
  BY <1>1, ClockStays, BooksStay, CommittedStays DEF MessagesInv, contractVars
<1>3. PICK m : m = Head(pending)
  OBVIOUS
<1>4. pending # << >> => Stage(Head(pending))'
  <2> SUFFICES ASSUME pending # << >> PROVE Stage(Head(pending))'
    OBVIOUS
  <2>1. Stage(m)
    BY <1>3 DEF MessagesInv, Stage
  <2>2. Stage(m)'
    BY <2>1, StageStays
  <2> QED BY <1>1, <1>3, <2>2 DEF Stage
<1> QED BY <1>1, <1>2, <1>4, SamesStay DEF MessagesInv

\* The invariant is inductive.
LEMMA MessagesStepInv == MessagesInv /\ [MessagesNext]_messagesVars => MessagesInv'
<1> SUFFICES ASSUME MessagesInv, [MessagesNext]_messagesVars PROVE MessagesInv'
  OBVIOUS
<1>1. ASSUME NEW reported \in Taxes, Start(Deployment, reported)
      PROVE  MessagesInv'
  BY <1>1, StartsInv DEF Requests
<1>2. ASSUME NEW user \in Holders, NEW reported \in Taxes,
             NEW m \in UserMessages(user) \cup ForeignMessages(user),
             Start(m, reported)
      PROVE  MessagesInv'
  <2>1. m \in Requests
    BY <1>2 DEF Requests
  <2> QED BY <1>2, <2>1, StartsInv
<1> QED BY <1>1, <1>2, StuttersInv, HandlesInv, CommitsInv, AbortsInv, EnvironmentInv
        DEF MessagesNext

-----------------------------------------------------------------------------
(* The accounts in flight, stage by stage.                                  *)

\* How many messages can be pending.
LEMMA ShortDomains ==
  ASSUME NEW a, NEW y, NEW z
  PROVE  /\ DOMAIN <<z>> = {1} /\ DOMAIN <<a, z>> = {1, 2}
         /\ DOMAIN <<a, y, z>> = {1, 2, 3}
OBVIOUS

\* None of the pending messages counts.
LEMMA NotInFlight ==
  ASSUME NEW type, NEW sender,
         \A i \in DOMAIN pending :
           ~ (pending[i].type = type /\ pending[i].sender = sender)
  PROVE  InFlight(type, sender) = 0
<1> DEFINE at == {i \in DOMAIN pending :
                    pending[i].type = type /\ pending[i].sender = sender}
<1>1. at = {}
  OBVIOUS
<1>2. InFlight(type, sender) = SumOver(at, [i \in at |-> pending[i].body.amount])
  BY DEF InFlight
<1> QED BY <1>1, <1>2, SumEmpty

\* The first one counts, or the second.
LEMMA FirstInFlight ==
  ASSUME NEW type, NEW sender, 1 \in DOMAIN pending,
         pending[1].type = type, pending[1].sender = sender,
         \A i \in DOMAIN pending \ {1} : pending[i].type # type,
         pending[1].body.amount \in Nat
  PROVE  InFlight(type, sender) = pending[1].body.amount
<1> DEFINE at == {i \in DOMAIN pending :
                    pending[i].type = type /\ pending[i].sender = sender}
           f == [i \in at |-> pending[i].body.amount]
<1>1. at = {1}
  OBVIOUS
<1>2. InFlight(type, sender) = SumOver(at, f)
  BY DEF InFlight
<1>3. f[1] = pending[1].body.amount
  BY <1>1
<1> HIDE DEF f, at
<1> QED BY <1>1, <1>2, <1>3, SumOfOne

LEMMA SecondInFlight ==
  ASSUME NEW type, NEW sender, 2 \in DOMAIN pending,
         pending[2].type = type, pending[2].sender = sender,
         \A i \in DOMAIN pending \ {2} : pending[i].type # type,
         pending[2].body.amount \in Nat
  PROVE  InFlight(type, sender) = pending[2].body.amount
<1> DEFINE at == {i \in DOMAIN pending :
                    pending[i].type = type /\ pending[i].sender = sender}
           f == [i \in at |-> pending[i].body.amount]
<1>1. at = {2}
  OBVIOUS
<1>2. InFlight(type, sender) = SumOver(at, f)
  BY DEF InFlight
<1>3. f[2] = pending[2].body.amount
  BY <1>1
<1> HIDE DEF f, at
<1> QED BY <1>1, <1>2, <1>3, SumOfOne

\* What a reply that hears every event hears withdrawn.
HeardWithdrawn ==
  {i \in DOMAIN pending : pending[i].type = "Reply" /\ pending[i].id = 2}

\* No reply, or none that hears of a withdrawal.
LEMMA NothingHeard ==
  ASSUME \/ HeardWithdrawn = {}
         \/ events = << >> /\ \A i \in HeardWithdrawn : pending[i].since = 0
  PROVE  Withdrawn = 0
<1> DEFINE heard == UNION {{j \in pending[i].since + 1 .. Len(events) :
                             "withdraw" \in DOMAIN events[j].attributes} :
                             i \in HeardWithdrawn}
<1>1. heard = {}
  OBVIOUS
<1>2. Withdrawn = SumOver(heard, [j \in heard |-> events[j].attributes.withdraw])
  BY DEF Withdrawn, HeardWithdrawn
<1> QED BY <1>1, <1>2, SumEmpty

\* A reply that hears of one.
LEMMA FirstHeardWithdrawn ==
  ASSUME NEW k, HeardWithdrawn = {k}, pending[k].since = 0,
         Len(events) \in Nat, Len(events) > 0,
         "withdraw" \in DOMAIN events[1].attributes,
         \A j \in 2 .. Len(events) : "withdraw" \notin DOMAIN events[j].attributes,
         events[1].attributes.withdraw \in Nat
  PROVE  Withdrawn = events[1].attributes.withdraw
<1> DEFINE heard == UNION {{j \in pending[i].since + 1 .. Len(events) :
                             "withdraw" \in DOMAIN events[j].attributes} :
                             i \in HeardWithdrawn}
           f == [j \in heard |-> events[j].attributes.withdraw]
<1>1. heard = {j \in 1 .. Len(events) : "withdraw" \in DOMAIN events[j].attributes}
  OBVIOUS
<1>2. heard = {1}
  BY <1>1
<1>3. Withdrawn = SumOver(heard, f)
  BY DEF Withdrawn, HeardWithdrawn
<1>4. f[1] = events[1].attributes.withdraw
  BY <1>2
<1> HIDE DEF f, heard
<1> QED BY <1>2, <1>3, <1>4, SumOfOne

\* What is booked and minted too much is on its way.
LEMMA OnItsWay ==
  ASSUME Books, NEW booked \in Nat, NEW minted \in Nat, Accounts(booked, minted),
         NEW withdrawn \in Nat, NEW bonding \in Nat, NEW received \in Nat,
         NEW burning \in Nat,
         Withdrawn = withdrawn, InFlight("Bond", Admin) = bonding,
         InFlight("Receive", Cw20Token) = received,
         InFlight("Burn", StakingContract) = burning,
         booked = withdrawn + bonding + received,
         minted = received + burning
  PROVE  AccountsAgreeInFlight
<1>1. /\ total_ust_pool = total_balance + AmountOf(claims) + withdrawn + bonding
                            + received
      /\ balances[StakingContract]
           = total_balance + AmountOf(claims) + received + burning
  <2> DEFINE staked == total_balance + AmountOf(claims)
  <2>1. staked \in Nat
    BY BookValues
  <2>2. total_ust_pool = staked + booked /\ balances[StakingContract] = staked + minted
    BY DEF Accounts
  <2> HIDE DEF staked
  <2>3. /\ total_ust_pool = staked + withdrawn + bonding + received
        /\ balances[StakingContract] = staked + received + burning
    BY <2>1, <2>2
  <2> QED BY <2>3 DEF staked
<1> QED BY <1>1 DEF AccountsAgreeInFlight

\* What agrees and has nothing on its way.
LEMMA NothingOnItsWay ==
  ASSUME Books, AccountsAgree,
         \A i \in DOMAIN pending :
           /\ ~ (pending[i].type = "Bond" /\ pending[i].sender = Admin)
           /\ ~ (pending[i].type = "Receive" /\ pending[i].sender = Cw20Token)
           /\ ~ (pending[i].type = "Burn" /\ pending[i].sender = StakingContract)
           /\ ~ (pending[i].type = "Reply" /\ pending[i].id = 2 /\ events # << >>)
           /\ (pending[i].type = "Reply" /\ pending[i].id = 2) => pending[i].since = 0
  PROVE  AccountsAgreeInFlight
<1>1. /\ InFlight("Bond", Admin) = 0
      /\ InFlight("Receive", Cw20Token) = 0
      /\ InFlight("Burn", StakingContract) = 0
  BY NotInFlight
<1>2. Withdrawn = 0
  BY NothingHeard DEF HeardWithdrawn
<1>3. Accounts(0, 0)
  BY BookValues DEF AccountsAgree, Accounts
<1> QED BY <1>1, <1>2, <1>3, OnItsWay

\* What is committed agrees, and these accounts are the committed ones.
LEMMA CommittedAgreeing ==
  ASSUME MessagesInv, SameStaking, SameToken,
         total_ust_pool = committed.total_ust_pool
  PROVE  AccountsAgree
BY DEF MessagesInv, CommittedInv, CommittedAgree, AccountsAgree, SameStaking,
       SameToken

\* At the first message and before the contracts know each other nothing is.
LEMMA FirstAgrees ==
  ASSUME MessagesInv, NEW m, Started(m)
  PROVE  AccountsAgreeInFlight
<1>1. AccountsAgree
  BY CommittedAgreeing DEF Started, Same, SamePool
<1>2. Kinds(m)
  BY RequestKinds DEF Started
<1>3. m.type # "Reply"
  BY <1>2 DEF Kinds, RequestTypes
<1>4. /\ ~ (m.type = "Bond" /\ m.sender = Admin)
      /\ ~ (m.type = "Receive" /\ m.sender = Cw20Token)
      /\ ~ (m.type = "Burn" /\ m.sender = StakingContract)
  BY <1>2, MessagesAssumption DEF Kinds, Message
<1>5. pending = <<m, Done>> /\ DOMAIN pending = {1, 2}
  BY ShortDomains DEF Started
<1>6. pending[1] = m /\ pending[2] = Done
  BY <1>5
<1> QED BY <1>1, <1>3, <1>4, <1>5, <1>6, NothingOnItsWay DEF MessagesInv, Done

\* Nor before the deployment is finished.
LEMMA DeployAgrees ==
  ASSUME MessagesInv,
         DeployStarted \/ TokenInstantiated \/ TokenKnown \/ StakingInstantiated
  PROVE  AccountsAgreeInFlight
<1>1. AccountsAgree
  <2>1. CASE DeployStarted
    BY <2>1, CommittedAgreeing DEF DeployStarted, Undeployed, CommittedAbsent
  <2>2. CASE TokenInstantiated \/ TokenKnown \/ StakingInstantiated
    BY <2>2, UndeployedAgrees DEF TokenInstantiated, TokenKnown, StakingInstantiated
  <2> QED BY <2>1, <2>2
<1>2. \/ pending = <<TokenMessageSent, ReplyFrom(0, 0), Done>>
      \/ pending = <<ReplyFrom(0, 0), Done>>
      \/ pending = <<StakingMessageSent, ReplyFrom(1, 1), Done>>
      \/ pending = <<ReplyFrom(1, 1), Done>>
  BY DEF DeployStarted, TokenInstantiated, TokenKnown, StakingInstantiated
<1>3. \A i \in DOMAIN pending :
        /\ pending[i].type \in {"InstantiateToken", "InstantiateStaking", "Reply", "Done"}
        /\ pending[i].type = "Reply" => pending[i].id # 2
  BY <1>2, ShortDomains
     DEF TokenMessageSent, StakingMessageSent, ReplyFrom, Message, Done
<1> QED BY <1>1, <1>3, NothingOnItsWay DEF MessagesInv

\* A deposit is on its way to the token, then to the staking contract.
LEMMA PoolAgrees ==
  ASSUME MessagesInv, pending # << >>, NEW sender \in Holders, NEW sent \in Deposits,
         \/ PoolDeposits(sender, sent)
         \/ PoolBonds(sender, sent)
         \/ PoolReceived(sender, sent)
  PROVE  AccountsAgreeInFlight
<1> DEFINE deposit == DeductTax(tax, sent)
<1>1. deposit \in Nat
  BY DepositType, TaxesAreTaxes
<1>2. /\ BondSent(sender, deposit).type = "Bond"
      /\ BondSent(sender, deposit).sender = Admin
      /\ BondSent(sender, deposit).body.amount = deposit
      /\ ReceiveSent(sender, deposit).type = "Receive"
      /\ ReceiveSent(sender, deposit).sender = Cw20Token
      /\ ReceiveSent(sender, deposit).body.amount = deposit
      /\ DepositSent(deposit).type = "DepositStable"
      /\ Done.type = "Done"
  BY DEF BondSent, ReceiveSent, DepositSent, Message, Done
<1>3. CASE PoolDeposits(sender, sent)
  <2>1. /\ pending = <<DepositSent(deposit), BondSent(sender, deposit), Done>>
        /\ Accounts(deposit, 0)
    BY <1>3 DEF PoolDeposits
  <2> HIDE DEF deposit
  <2>2. /\ DOMAIN pending = {1, 2, 3}
        /\ pending[1] = DepositSent(deposit)
        /\ pending[2] = BondSent(sender, deposit)
        /\ pending[3] = Done
    BY <2>1, ShortDomains
  <2>3. InFlight("Bond", Admin) = deposit
    BY <1>1, <1>2, <2>2, SecondInFlight
  <2>4. InFlight("Receive", Cw20Token) = 0 /\ InFlight("Burn", StakingContract) = 0
    BY <1>2, <2>2, NotInFlight
  <2>5. Withdrawn = 0
    BY <1>2, <2>2, NothingHeard DEF HeardWithdrawn
  <2> QED BY <1>1, <2>1, <2>3, <2>4, <2>5, OnItsWay DEF MessagesInv
<1>4. CASE PoolBonds(sender, sent)
  <2>1. /\ pending = <<BondSent(sender, deposit), Done>>
        /\ Accounts(deposit, 0)
    BY <1>4 DEF PoolBonds
  <2> HIDE DEF deposit
  <2>2. /\ DOMAIN pending = {1, 2}
        /\ pending[1] = BondSent(sender, deposit)
        /\ pending[2] = Done
    BY <2>1, ShortDomains
  <2>3. InFlight("Bond", Admin) = deposit
    BY <1>1, <1>2, <2>2, FirstInFlight
  <2>4. InFlight("Receive", Cw20Token) = 0 /\ InFlight("Burn", StakingContract) = 0
    BY <1>2, <2>2, NotInFlight
  <2>5. Withdrawn = 0
    BY <1>2, <2>2, NothingHeard DEF HeardWithdrawn
  <2> QED BY <1>1, <2>1, <2>3, <2>4, <2>5, OnItsWay DEF MessagesInv
<1>5. CASE PoolReceived(sender, sent)
  <2>1. /\ pending = <<ReceiveSent(sender, deposit), Done>>
        /\ Accounts(deposit, deposit)
    BY <1>5 DEF PoolReceived
  <2> HIDE DEF deposit
  <2>2. /\ DOMAIN pending = {1, 2}
        /\ pending[1] = ReceiveSent(sender, deposit)
        /\ pending[2] = Done
    BY <2>1, ShortDomains
  <2>3. InFlight("Receive", Cw20Token) = deposit
    BY <1>1, <1>2, <2>2, FirstInFlight
  <2>4. InFlight("Bond", Admin) = 0 /\ InFlight("Burn", StakingContract) = 0
    BY <1>2, <2>2, NotInFlight
  <2>5. Withdrawn = 0
    BY <1>2, <2>2, NothingHeard DEF HeardWithdrawn
  <2> QED BY <1>1, <2>1, <2>3, <2>4, <2>5, OnItsWay DEF MessagesInv
<1> QED BY <1>3, <1>4, <1>5

\* What was withdrawn is burnt, and then taken from what the pool owes.
LEMMA ClaimAgrees ==
  ASSUME MessagesInv, NEW sender \in Holders, NEW paid \in SUBSET committed.claims,
         \/ ClaimBurns(sender, paid)
         \/ ClaimReplies(sender, paid)
         \/ ClaimRedeems(sender, paid)
         \/ ClaimSends(sender, paid)
  PROVE  AccountsAgreeInFlight
<1> DEFINE amount == AmountOf(paid)
<1>1. amount \in Nat
  BY CommittedAmount DEF MessagesInv
<1>2. /\ BurnSent(amount).type = "Burn"
      /\ BurnSent(amount).sender = StakingContract
      /\ BurnSent(amount).body.amount = amount
      /\ ReplyFrom(2, 0).type = "Reply" /\ ReplyFrom(2, 0).id = 2
      /\ ReplyFrom(2, 0).since = 0
      /\ Done.type = "Done"
      /\ \A n : RedeemSent(n).type = "RedeemStable"
      /\ \A n : BankSent(sender, n).type = "BankSend"
      /\ "withdraw" \in DOMAIN WithdrawEvent(sender, amount).attributes
      /\ WithdrawEvent(sender, amount).attributes.withdraw = amount
      /\ "withdraw" \notin DOMAIN BurnEvent(amount).attributes
  BY DEF BurnSent, ReplyFrom, RedeemSent, BankSent, Message, Done, WithdrawEvent,
         BurnEvent, Event
<1>3. CASE ClaimBurns(sender, paid)
  <2>1. /\ pending = <<BurnSent(amount), ReplyFrom(2, 0), Done>>
        /\ events = <<WithdrawEvent(sender, amount)>>
        /\ Accounts(amount, amount)
    BY <1>3 DEF ClaimBurns
  <2> HIDE DEF amount
  <2>2. /\ DOMAIN pending = {1, 2, 3}
        /\ pending[1] = BurnSent(amount)
        /\ pending[2] = ReplyFrom(2, 0)
        /\ pending[3] = Done
        /\ Len(events) = 1 /\ events[1] = WithdrawEvent(sender, amount)
    BY <2>1, ShortDomains
  <2>3. InFlight("Burn", StakingContract) = amount
    BY <1>1, <1>2, <2>2, FirstInFlight
  <2>4. InFlight("Bond", Admin) = 0 /\ InFlight("Receive", Cw20Token) = 0
    BY <1>2, <2>2, NotInFlight
  <2>5. Withdrawn = amount
    <3>1. HeardWithdrawn = {2}
      BY <1>2, <2>2 DEF HeardWithdrawn
    <3> QED BY <1>1, <1>2, <2>2, <3>1, FirstHeardWithdrawn
  <2> QED BY <1>1, <2>1, <2>3, <2>4, <2>5, OnItsWay DEF MessagesInv
<1>4. CASE ClaimReplies(sender, paid)
  <2>1. /\ pending = <<ReplyFrom(2, 0), Done>>
        /\ events = <<WithdrawEvent(sender, amount), BurnEvent(amount)>>
        /\ Accounts(amount, 0)
    BY <1>4 DEF ClaimReplies
  <2> HIDE DEF amount
  <2>2. /\ DOMAIN pending = {1, 2}
        /\ pending[1] = ReplyFrom(2, 0)
        /\ pending[2] = Done
        /\ Len(events) = 2 /\ events[1] = WithdrawEvent(sender, amount)
        /\ events[2] = BurnEvent(amount)
    BY <2>1, ShortDomains
  <2>3. /\ InFlight("Burn", StakingContract) = 0
        /\ InFlight("Bond", Admin) = 0 /\ InFlight("Receive", Cw20Token) = 0
    BY <1>2, <2>2, NotInFlight
  <2>4. Withdrawn = amount
    <3>1. HeardWithdrawn = {1}
      BY <1>2, <2>2 DEF HeardWithdrawn
    <3> QED BY <1>1, <1>2, <2>2, <3>1, FirstHeardWithdrawn
  <2> QED BY <1>1, <2>1, <2>3, <2>4, OnItsWay DEF MessagesInv
<1>5. CASE ClaimRedeems(sender, paid) \/ ClaimSends(sender, paid)
  <2>1. AccountsAgree
    BY <1>5 DEF ClaimRedeems, ClaimSends
  <2>2. \A i \in DOMAIN pending :
          pending[i].type \in {"RedeemStable", "BankSend", "Done"}
    BY <1>2, <1>5, ShortDomains DEF ClaimRedeems, ClaimSends
  <2> QED BY <2>1, <2>2, NothingOnItsWay DEF MessagesInv
<1> QED BY <1>3, <1>4, <1>5

\* What UnPool asks and a claim asks for is not taken out yet, and a draw takes
\* nothing of the deposits.
LEMMA OthersAgree ==
  ASSUME MessagesInv,
         \/ \E sender, amount : UnPoolAsks(sender, amount)
         \/ \E sender : ClaimAsks(sender)
         \/ EarningAsks
         \/ EarningUpdates
  PROVE  AccountsAgreeInFlight
<1>1. AccountsAgree
  BY CommittedAgreeing
     DEF UnPoolAsks, ClaimAsks, EarningAsks, EarningUpdates, EarningDue, Same, SamePool
<1>2. \A i \in DOMAIN pending :
        /\ pending[i].type \in {"UnbondStake", "WithdrawStake", "Reply",
                                "RedeemStable", "UpdateGlobalIndex", "Done"}
        /\ pending[i].type = "Reply" => pending[i].since = 0 /\ events = << >>
  BY ShortDomains
     DEF UnPoolAsks, ClaimAsks, EarningAsks, EarningUpdates, UnbondSent, WithdrawSent,
         ReplyFrom, RedeemSent, UpdateSent, Message, Done
<1> QED BY <1>1, <1>2, NothingOnItsWay DEF MessagesInv

\* At every stage.
LEMMA InFlightAgrees == MessagesInv => AccountsAgreeInFlight
<1> SUFFICES ASSUME MessagesInv PROVE AccountsAgreeInFlight
  OBVIOUS
<1>1. CASE pending = << >>
  <2>1. AccountsAgree /\ DOMAIN pending = {}
    BY <1>1, SameAgrees DEF MessagesInv
  <2> QED BY <2>1, NothingOnItsWay DEF MessagesInv
<1>2. CASE pending # << >>
  <2>1. CASE Finished
    <3>1. AccountsAgree /\ DOMAIN pending = {1} /\ pending[1].type = "Done"
      BY <2>1, ShortDomains DEF Finished, Done
    <3> QED BY <3>1, NothingOnItsWay DEF MessagesInv
  <2>2. CASE ~Finished
    BY <1>2, <2>2, FirstAgrees, DeployAgrees, PoolAgrees, ClaimAgrees, OthersAgree
       DEF MessagesInv, Stage
  <2> QED BY <2>1, <2>2
<1> QED BY <1>1, <1>2

-----------------------------------------------------------------------------
(* The payout.                                                              *)

\* What the pool sends for the claims it has booked.
LEMMA PayoutIs ==
  ASSUME MessagesInv, pending # << >>, NEW sender \in Holders,
         NEW paid \in SUBSET committed.claims, ClaimBooked(sender, paid)
  PROVE  /\ committed.claims \ claims = paid
         /\ paid # {}
         /\ \A c \in paid : c.owner = sender
         /\ SendCost(tax, NetAmount(tax, AmountOf(paid))) <= AmountOf(paid)
<1>1. /\ paid \subseteq Transactions!ClaimsOf(sender)
      /\ AmountOf(paid) > 0
      /\ claims = committed.claims \ paid
  BY DEF ClaimBooked, DidWithdraw
<1>2. committed.claims \ claims = paid
  BY <1>1
<1>3. paid # {}
  <2>1. AmountOf({}) = 0
    BY SumEmpty DEF AmountOf
  <2>2. ~ (0 > 0)
    OBVIOUS
  <2> QED BY <1>1, <2>1, <2>2
<1>4. \A c \in paid : c.owner = sender
  BY <1>1 DEF Transactions!ClaimsOf
<1>5. SendCost(tax, NetAmount(tax, AmountOf(paid))) <= AmountOf(paid)
  <2>1. PICK amount : amount = AmountOf(paid)
    OBVIOUS
  <2>2. amount \in Nat /\ tax \in TaxType
    BY <2>1, CommittedAmount, TaxesAreTaxes DEF MessagesInv
  <2>3. DeductTax(tax, amount) \in Nat /\ DeductTax(tax, amount) <= amount
    BY <2>2, DeductTaxType
  <2>4. DeductTax(tax, amount) - SendCost(tax, NetAmount(tax, amount)) \in Nat
    BY <2>2, <2>3, SendKeeps DEF NetAmount
  <2>5. SendCost(tax, NetAmount(tax, amount)) \in Nat
    BY <2>2, <2>3, DeductTaxType, SendCostType DEF NetAmount
  <2> QED BY <2>1, <2>2, <2>3, <2>4, <2>5
<1> QED BY <1>2, <1>3, <1>4, <1>5

\* Which transactions send uusd to an account.
LEMMA PayoutsAreClaims ==
  ASSUME MessagesInv, NEW i \in DOMAIN pending, pending[i].type = "BankSend"
  PROVE  \E sender \in Holders, paid \in SUBSET committed.claims :
           /\ ClaimBooked(sender, paid)
           /\ pending[i] = BankSent(sender, NetAmount(tax, AmountOf(paid)))
<1>1. pending # << >>
  OBVIOUS
<1>2. CASE \E sender \in Holders, paid \in SUBSET committed.claims :
             ClaimRedeems(sender, paid) \/ ClaimSends(sender, paid)
  <2>1. PICK sender \in Holders, paid \in SUBSET committed.claims :
          ClaimRedeems(sender, paid) \/ ClaimSends(sender, paid)
    BY <1>2
  <2>2. ClaimBooked(sender, paid)
    BY <2>1 DEF ClaimRedeems, ClaimSends
  <2>3. pending[i] = BankSent(sender, NetAmount(tax, AmountOf(paid)))
    BY <2>1, ShortDomains DEF ClaimRedeems, ClaimSends, RedeemSent, Message, Done
  <2> QED BY <2>2, <2>3
<1>3. CASE Started(Head(pending))
  <2>1. PICK m : m = Head(pending)
    OBVIOUS
  <2>2. pending = <<m, Done>> /\ m.type \in RequestTypes
    BY <1>3, <2>1, RequestKinds DEF Started, Kinds
  <2> QED BY <2>2, ShortDomains DEF RequestTypes, Done
<1>4. CASE DeployStarted \/ TokenInstantiated \/ TokenKnown \/ StakingInstantiated
  BY <1>4, ShortDomains
     DEF DeployStarted, TokenInstantiated, TokenKnown, StakingInstantiated,
         TokenMessageSent, StakingMessageSent, ReplyFrom, Message, Done
<1>5. CASE \E sender \in Holders, sent \in Deposits :
             \/ PoolDeposits(sender, sent)
             \/ PoolBonds(sender, sent)
             \/ PoolReceived(sender, sent)
  BY <1>5, ShortDomains
     DEF PoolDeposits, PoolBonds, PoolReceived, DepositSent, BondSent, ReceiveSent,
         Message, Done
<1>6. CASE \/ \E sender \in Holders, paid \in SUBSET committed.claims :
                ClaimBurns(sender, paid) \/ ClaimReplies(sender, paid)
           \/ \E sender \in Holders : ClaimAsks(sender)
  BY <1>6, ShortDomains
     DEF ClaimAsks, ClaimBurns, ClaimReplies, WithdrawSent, BurnSent, ReplyFrom,
         Message, Done
<1>7. CASE \/ \E sender, amount : UnPoolAsks(sender, amount)
           \/ EarningAsks
           \/ EarningUpdates
  BY <1>7, ShortDomains
     DEF UnPoolAsks, EarningAsks, EarningUpdates, UnbondSent, RedeemSent, UpdateSent,
         Message, Done
<1>8. CASE Finished
  BY <1>8, ShortDomains DEF Finished, Done
<1> QED BY <1>1, <1>2, <1>3, <1>4, <1>5, <1>6, <1>7, <1>8 DEF MessagesInv, Stage

\* So every payout is owed to the account it goes to.
LEMMA PayoutIsOwed == MessagesInv => PayoutIsForTheClaims
<1> SUFFICES ASSUME MessagesInv, NEW i \in DOMAIN pending,
                    pending[i].type = "BankSend"
             PROVE  LET paid == committed.claims \ claims
                    IN  /\ paid # {}
                        /\ \A c \in paid : c.owner = pending[i].to
                        /\ SendCost(tax, pending[i].funds) <= AmountOf(paid)
  BY DEF PayoutIsForTheClaims
<1>1. PICK sender \in Holders, paid \in SUBSET committed.claims :
        /\ ClaimBooked(sender, paid)
        /\ pending[i] = BankSent(sender, NetAmount(tax, AmountOf(paid)))
  BY PayoutsAreClaims
<1>2. pending # << >>
  OBVIOUS
<1>3. /\ pending[i].to = sender
      /\ pending[i].funds = NetAmount(tax, AmountOf(paid))
  BY <1>1 DEF BankSent, Message
<1> QED BY <1>1, <1>2, <1>3, PayoutIs

-----------------------------------------------------------------------------
(* Who knows whom.                                                          *)

\* The replies come in pairs or not at all.
LEMMA WiredOrNot == MessagesInv => WiredOrAbsent
BY DEF MessagesInv, CommittedInv, CommittedWired, CommittedAbsent, Same, SameWiring,
       WiredOrAbsent, wiring

-----------------------------------------------------------------------------
(* Whole transactions.                                                      *)

\* Nothing is committed and message_cw20 is what it was: no transaction.
LEMMA NothingCommitted ==
  ASSUME UNCHANGED <<committed, message_cw20>>
  PROVE  UNCHANGED Transactions!dogetherVars
BY DEF Transactions!dogetherVars, Transactions!stakingVars, Transactions!state,
       Transactions!lottery, Transactions!cw20Vars, Transactions!poolVars,
       Transactions!poolState, Transactions!anchor, Deployed, SupplyFromRows,
       BalanceFromRows

\* A step is a transaction of Dogether, a step between two, or none.
LEMMA StepIsTransaction ==
  ASSUME MessagesInv, [MessagesNext]_messagesVars
  PROVE  [Transactions!DogetherNext]_(Transactions!dogetherVars)
<1>1. CASE \E m, reported : Start(m, reported)
  BY <1>1, NothingCommitted DEF Start
<1>2. CASE Handle
  <2>1. UNCHANGED <<committed, message_cw20>>
    BY <1>2 DEF Handle, InstantiatePool, InstantiateToken, Cw20InstanceReply,
         InstantiateStaking, StakingInstanceReply, TryPool, TryUnPool,
         TryClaimUnPool, WithdrawReply, TryRedeemEarning, TokenBond, TokenBurn,
         HandleReceive, HandleUnbound, HandleWithdrawStake,
         HandleUpdateGlobalIndex, HandleGetTicket, DepositStable, RedeemStable,
         BankSend, Emit
  <2> QED BY <2>1, NothingCommitted
<1>3. CASE Commit
  <2>1. Finished /\ tax \in Taxes
    BY <1>3, CommitsFinished
  <2>2. Committing
    BY <1>3, CommitIs
  <2>3. message_cw20' = message_cw20 /\ SameClock /\ Whole
    BY <1>3, <2>1 DEF Commit, MessagesInv, Finished
  <2> QED BY <2>1, <2>2, <2>3, WholeCommits
<1>4. CASE Abort
  BY <1>4, NothingCommitted DEF Abort
<1>5. CASE Environment
  <2>1. Same /\ SameClock
    BY <1>5 DEF Environment, MessagesInv
  <2> QED BY <1>5, <2>1, EnvironmentRefines
<1>6. CASE UNCHANGED messagesVars
  BY <1>6, NothingCommitted DEF messagesVars
<1> QED BY <1>1, <1>2, <1>3, <1>4, <1>5, <1>6 DEF MessagesNext

\* Before the deployment the committed state is Dogether's initial one.
LEMMA StartsUndeployed ==
  ASSUME MessagesInit, Fits(SupplyFromRows(message_cw20.rows))
  PROVE  Transactions!DogetherInit
<1>1. ~Deployed
  BY DEF MessagesInit, Working, Deployed
<1>2. committed = Working
  BY DEF MessagesInit
<1>3. Transactions!StakingInit
  BY <1>2, SameArithmetic
     DEF MessagesInit, StakingInit, Working, Transactions!StakingInit,
         Transactions!NoHolder, NoHolder
<1>4. Transactions!Cw20Init
  <2>1. message_cw20.rows \in InitialRows
    BY MessagesAssumption DEF MessagesInit, TokenMessage
  <2>2. Transactions!SupplyFromRows(message_cw20.rows)
          = SupplyFromRows(message_cw20.rows)
    BY SameSums DEF Transactions!SupplyFromRows, SupplyFromRows
  <2>3. ASSUME NEW a
        PROVE  Transactions!BalanceFromRows(message_cw20.rows, a)
                 = BalanceFromRows(message_cw20.rows, a)
    <3>1. \A S : Transactions!Max(S) = Max(S)
      BY DEF Transactions!Max, Max
    <3> QED BY <3>1 DEF Transactions!BalanceFromRows, BalanceFromRows
  <2> QED BY <1>1, <2>1, <2>2, <2>3, SameArithmetic
          DEF Transactions!Cw20Init, Transactions!Cw20Instantiate
<1>5. /\ committed.total_ust_pool = 0 /\ committed.pool_uusd = 0
      /\ committed.aust = 0 /\ committed.exchange_rate = Unit /\ committed.now = 0
  BY <1>2 DEF MessagesInit, Working
<1> QED BY <1>1, <1>3, <1>4, <1>5 DEF Transactions!DogetherInit

\* A token message whose rows overflow the supply never gets a deployment.
NotDeployable ==
  ~Fits(SupplyFromRows(message_cw20.rows)) /\ committed.cw20_address = Nobody

\* The deployment of such a token fails before it is committed.
LEMMA StaysUndeployed ==
  ASSUME MessagesInv, NotDeployable, [MessagesNext]_messagesVars
  PROVE  NotDeployable'
<1>1. message_cw20' = message_cw20
  BY DEF MessagesNext, messagesVars, Start, Commit, Abort, Environment,
         Handle, InstantiatePool, InstantiateToken, Cw20InstanceReply,
         InstantiateStaking, StakingInstanceReply, TryPool, TryUnPool,
         TryClaimUnPool, WithdrawReply, TryRedeemEarning, TokenBond, TokenBurn,
         HandleReceive, HandleUnbound, HandleWithdrawStake,
         HandleUpdateGlobalIndex, HandleGetTicket, DepositStable, RedeemStable,
         BankSend, Emit
<1>2. CommittedAbsent
  BY MessagesAssumption DEF MessagesInv, CommittedInv, CommittedWired, NotDeployable
<1>3. ASSUME Whole PROVE FALSE
  <2>1. CASE DeployDone
    BY <2>1 DEF DeployDone, TokenExists, NotDeployable
  <2>2. CASE Running
    BY <1>2, <2>2, MessagesAssumption DEF Running, CommittedWired, CommittedAbsent
  <2> QED BY <1>3, <2>1, <2>2
          DEF Whole, PoolDone, PoolBooked, UnPoolDone, ClaimDone, ClaimBooked,
              EarningDone, EarningDue, TicketDone, BurnDone
<1>4. ~Commit
  BY <1>3, CommitsFinished DEF Finished
<1>5. CASE Environment
  <2>1. Following /\ UNCHANGED wiring
    BY <1>5, FollowsIs DEF Environment
  <2>2. SameWiring
    BY <1>5 DEF Environment, MessagesInv, Same
  <2> QED BY <1>1, <2>1, <2>2
          DEF Following, SameWiring, wiring, NotDeployable, SupplyFromRows, Fits
<1>6. CASE ~Environment
  <2>1. committed' = committed
    BY <1>4, <1>6
       DEF MessagesNext, messagesVars, Start, Abort,
           Handle, InstantiatePool, InstantiateToken, Cw20InstanceReply,
           InstantiateStaking, StakingInstanceReply, TryPool, TryUnPool,
           TryClaimUnPool, WithdrawReply, TryRedeemEarning, TokenBond, TokenBurn,
           HandleReceive, HandleUnbound, HandleWithdrawStake,
           HandleUpdateGlobalIndex, HandleGetTicket, DepositStable, RedeemStable,
           BankSend, Emit
  <2> QED BY <1>1, <2>1 DEF NotDeployable, SupplyFromRows, Fits
<1> QED BY <1>5, <1>6

-----------------------------------------------------------------------------
(* Results.                                                                 *)

\* contract.rs: wherever a message or a failure leaves a transaction, the books
\* of the three contracts are sound and what has changed is what the message
\* that started it asked for, up to this stage.
THEOREM EveryMessageKeepsTheBooks == MessagesSpec => []MessagesInv
BY MessagesInitInv, MessagesStepInv, PTL DEF MessagesSpec

\* contract.rs of the token: its supply and balances stay within 128 bits, and
\* the supply covers the balances, at every message: whoever sends Bond or Burn,
\* and wherever a transaction that minted or burnt is left.
THEOREM TokenIsSoundInFlight ==
  MessagesSpec => [](Cw20TypeOK /\ SupplyCoversBalances)
<1>1. MessagesInv => Cw20TypeOK /\ SupplyCoversBalances
  BY DEF MessagesInv, Books
<1> QED BY <1>1, EveryMessageKeepsTheBooks, PTL

\* contract.rs: the replies leave every contract with the addresses of the
\* others, or the deployment never was.
THEOREM DeploymentIsWhole == MessagesSpec => []WiredOrAbsent
BY EveryMessageKeepsTheBooks, WiredOrNot, PTL

\* contract.rs: at every message the accounts of the deposits agree up to what
\* is on its way.
THEOREM AccountsAlwaysAgreeInFlight == MessagesSpec => []AccountsAgreeInFlight
BY EveryMessageKeepsTheBooks, InFlightAgrees, PTL

\* contract.rs: the uusd sent is what the transaction took out of the claims
\* of the account it goes to, the tax included.
THEOREM PayoutsAreForClaims == MessagesSpec => []PayoutIsForTheClaims
BY EveryMessageKeepsTheBooks, PayoutIsOwed, PTL

\* contract.rs: message by message, with foreign callers, failures anywhere and
\* the deployment itself, what stays is what whole transactions do.
THEOREM MessagesImplementTransactions ==
  MessagesSpec /\ Fits(SupplyFromRows(message_cw20.rows)) => ImplementsTransactions
<1>1. MessagesInit /\ Fits(SupplyFromRows(message_cw20.rows)) => Transactions!DogetherInit
  BY StartsUndeployed
<1>2. MessagesInv /\ [MessagesNext]_messagesVars
        => [Transactions!DogetherNext]_(Transactions!dogetherVars)
  BY StepIsTransaction
<1> QED BY <1>1, <1>2, EveryMessageKeepsTheBooks, PTL
        DEF MessagesSpec, ImplementsTransactions, Transactions!DogetherSpec

\* contract.rs, contract.rs of the token: rows whose sum does not fit never get
\* a pool: instantiate fails in the middle of the deployment, and all of it.
THEOREM OverflowingTokenIsNeverDeployed ==
  MessagesSpec /\ ~Fits(SupplyFromRows(message_cw20.rows)) => []~Deployed
<1>1. MessagesInit /\ ~Fits(SupplyFromRows(message_cw20.rows)) => NotDeployable
  BY DEF MessagesInit, Working, NotDeployable
<1>2. MessagesInv /\ NotDeployable /\ [MessagesNext]_messagesVars => NotDeployable'
  BY StaysUndeployed
<1>3. NotDeployable => ~Deployed
  BY DEF NotDeployable, Deployed
<1> QED BY <1>1, <1>2, <1>3, EveryMessageKeepsTheBooks, PTL DEF MessagesSpec

-----------------------------------------------------------------------------
(* The promises, message by message.                                        *)
(*                                                                          *)
(* Promised is what was proved about Dogether, for the committed state.     *)

Promised == INSTANCE DogetherProofs WITH
  global_index <- committed.global_index,
  total_balance <- committed.total_balance,
  prev_reward_balance <- committed.prev_reward_balance,
  holders <- committed.holders,
  claims <- committed.claims,
  combinations <- committed.combinations,
  staking_uusd <- committed.staking_uusd,
  height <- committed.height,
  lottery_counter <- committed.lottery_counter,
  lottery_tickets <- committed.lottery_tickets,
  total_supply <- IF Deployed THEN committed.total_supply
                  ELSE SupplyFromRows(message_cw20.rows),
  balances <- IF Deployed THEN committed.balances
              ELSE [a \in Addresses |-> BalanceFromRows(message_cw20.rows, a)],
  total_ust_pool <- committed.total_ust_pool,
  next_draw <- IF Deployed THEN committed.next_draw ELSE FirstDraw,
  pool_uusd <- committed.pool_uusd,
  aust <- committed.aust,
  exchange_rate <- committed.exchange_rate,
  now <- committed.now

\* Transactions and Promised are instances of one module with one substitution:
\* expanded to the variables, to the last operator, their formulas are the same.
LEMMA PromisedInit == Transactions!DogetherInit <=> Promised!DogetherInit
BY DEF Transactions!BalanceFromRows, Transactions!Cw20Init,
       Transactions!Cw20Instantiate, Transactions!DogetherInit,
       Transactions!Fits, Transactions!NoHolder, Transactions!StakingInit,
       Transactions!SumOver, Transactions!SupplyFromRows, Transactions!Tokens,
       Transactions!Cardinality, Transactions!Max, Promised!BalanceFromRows,
       Promised!Cw20Init, Promised!Cw20Instantiate, Promised!DogetherInit,
       Promised!Fits, Promised!NoHolder, Promised!StakingInit,
       Promised!SumOver, Promised!SupplyFromRows, Promised!Tokens,
       Promised!Cardinality, Promised!Max

LEMMA PromisedVars ==
  /\ Transactions!dogetherVars = Promised!dogetherVars
  /\ (Transactions!dogetherVars)' = (Promised!dogetherVars)'
BY DEF Transactions!anchor, Transactions!cw20Vars, Transactions!dogetherVars,
       Transactions!lottery, Transactions!poolState, Transactions!poolVars,
       Transactions!stakingVars, Transactions!state, Promised!anchor,
       Promised!cw20Vars, Promised!dogetherVars, Promised!lottery,
       Promised!poolState, Promised!poolVars, Promised!stakingVars,
       Promised!state

LEMMA PromisedNext == Transactions!DogetherNext <=> Promised!DogetherNext
BY DEF Transactions!AccrueInterest, Transactions!AllRewards,
       Transactions!AmountOf, Transactions!AustMinted,
       Transactions!AustToRedeem, Transactions!AustValue,
       Transactions!AustWorth, Transactions!Block, Transactions!Bond,
       Transactions!BurnTokens, Transactions!BuyTicket,
       Transactions!CalculateDecimalRewards, Transactions!ClaimUnPool,
       Transactions!ClaimsOf, Transactions!CombinationKeys,
       Transactions!CombinationsAreNew, Transactions!ComputeTax,
       Transactions!CreateClaim, Transactions!DecimalMultiplication,
       Transactions!DecimalSubtraction, Transactions!DecimalSummation,
       Transactions!DeductTax, Transactions!DogetherNext,
       Transactions!DrawIsDue, Transactions!Earning,
       Transactions!EarningsExpected, Transactions!ExecuteBond,
       Transactions!ExecuteBurn, Transactions!Fits, Transactions!Floor,
       Transactions!FromRatio, Transactions!GetTicket, Transactions!GiveAust,
       Transactions!GiveRewards, Transactions!GiveToStaking,
       Transactions!GiveUusd, Transactions!InterestAccrued,
       Transactions!IsPaid, Transactions!Lesser, Transactions!LotteryDraw,
       Transactions!Mature, Transactions!MoveStake, Transactions!MultiplyRatio,
       Transactions!NetAmount, Transactions!NetworkTax, Transactions!NextBlock,
       Transactions!NextLottery, Transactions!NextPosition, Transactions!Pool,
       Transactions!QueryAccruedRewards, Transactions!RedeemEarning,
       Transactions!RewardsComputable, Transactions!SendCost,
       Transactions!Settled, Transactions!SumOver, Transactions!SumsFit,
       Transactions!TicketCost,
       Transactions!TicketFee, Transactions!TicketWithFees,
       Transactions!Tokens, Transactions!UnPool, Transactions!UnbondStake,
       Transactions!UpdateGlobalIndex, Transactions!UusdRedeemed,
       Transactions!WithdrawStake, Transactions!anchor, Transactions!cw20Vars,
       Transactions!lottery, Transactions!poolState, Transactions!poolVars,
       Transactions!stakingVars, Transactions!state, Transactions!Cardinality,
       Transactions!Max, Transactions!Range, Transactions!IsInjective,
       Promised!AccrueInterest, Promised!AllRewards, Promised!AmountOf,
       Promised!AustMinted, Promised!AustToRedeem, Promised!AustValue,
       Promised!AustWorth, Promised!Block, Promised!Bond, Promised!BurnTokens,
       Promised!BuyTicket, Promised!CalculateDecimalRewards,
       Promised!ClaimUnPool, Promised!ClaimsOf, Promised!CombinationKeys,
       Promised!CombinationsAreNew, Promised!ComputeTax, Promised!CreateClaim,
       Promised!DecimalMultiplication, Promised!DecimalSubtraction,
       Promised!DecimalSummation, Promised!DeductTax, Promised!DogetherNext,
       Promised!DrawIsDue, Promised!Earning, Promised!EarningsExpected,
       Promised!ExecuteBond, Promised!ExecuteBurn, Promised!Fits,
       Promised!Floor, Promised!FromRatio, Promised!GetTicket,
       Promised!GiveAust, Promised!GiveRewards, Promised!GiveToStaking,
       Promised!GiveUusd, Promised!InterestAccrued, Promised!IsPaid,
       Promised!Lesser, Promised!LotteryDraw, Promised!Mature,
       Promised!MoveStake, Promised!MultiplyRatio, Promised!NetAmount,
       Promised!NetworkTax, Promised!NextBlock, Promised!NextLottery,
       Promised!NextPosition, Promised!Pool, Promised!QueryAccruedRewards,
       Promised!RedeemEarning, Promised!RewardsComputable, Promised!SendCost,
       Promised!Settled, Promised!SumOver, Promised!SumsFit,
       Promised!TicketCost,
       Promised!TicketFee, Promised!TicketWithFees, Promised!Tokens,
       Promised!UnPool, Promised!UnbondStake, Promised!UpdateGlobalIndex,
       Promised!UusdRedeemed, Promised!WithdrawStake, Promised!anchor,
       Promised!cw20Vars, Promised!lottery, Promised!poolState,
       Promised!poolVars, Promised!stakingVars, Promised!state,
       Promised!Cardinality, Promised!Max, Promised!Range, Promised!IsInjective

LEMMA PromisedStep ==
  [Transactions!DogetherNext]_(Transactions!dogetherVars)
    => [Promised!DogetherNext]_(Promised!dogetherVars)
BY PromisedVars, PromisedNext

LEMMA PromisedSpec == ImplementsTransactions => Promised!DogetherSpec
BY PromisedInit, PromisedStep, PTL
   DEF ImplementsTransactions, Transactions!DogetherSpec, Promised!DogetherSpec

\* contract.rs, user.rs, global.rs: what the whole transactions promise is kept
\* by the messages, whatever fails among them and whoever sends them: each
\* deposit stays its user's until it is asked back and is paid whole and once,
\* rewards are shared as if at once, the deposits keep their worth, interest
\* goes to tickets only, and the accounts of the three contracts agree.
THEOREM PromisesAreKept ==
  MessagesSpec /\ Fits(SupplyFromRows(message_cw20.rows)) =>
    /\ Promised!KeepsDeposits
    /\ Promised!PaysLikeLedger
    /\ Promised!PrincipalKept
    /\ Promised!InterestNeverLost
    /\ []Promised!DogetherInv
<1> USE UnitAssumption, MaxUintAssumption, HoldersAssumption,
        UnbondingAssumption, InputsAssumption, AddressesAssumption,
        TokenInputsAssumption, WiringAssumption, PoolInputsAssumption
    DEF Promised!Uint, Uint, Promised!TaxType, TaxType, Promised!Row, Row,
        Promised!Range, Range, Promised!IsFiniteSet, IsFiniteSet
<1>1. Promised!DogetherSpec => Promised!KeepsDeposits
  BY Promised!PoolKeepsDeposits
<1>2. Promised!DogetherSpec => Promised!PaysLikeLedger
  BY Promised!PoolImplementsLedger
<1>3. Promised!DogetherSpec => Promised!PrincipalKept
  BY Promised!PrincipalIsKept
<1>4. Promised!DogetherSpec => Promised!InterestNeverLost
  BY Promised!InterestIsNeverLost
<1>5. Promised!DogetherSpec => []Promised!DogetherInv
  BY Promised!PoolIsSound
<1> QED BY <1>1, <1>2, <1>3, <1>4, <1>5, PromisedSpec,
           MessagesImplementTransactions, PTL

=============================================================================

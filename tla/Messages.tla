------------------------------ MODULE Messages ------------------------------
(***************************************************************************)
(* The contracts one message at a time.  A transaction starts with one     *)
(* message; a handler may send more, which are handled depth first, and    *)
(* may ask for a reply once a message and all it led to are done.  A step  *)
(* handles one message or one reply.  The variables of Dogether are what   *)
(* the running transaction works on; committed is the state it started     *)
(* from, which comes back if any message of it fails.                      *)
(*                                                                         *)
(* Nothing is deployed at first: instantiate, with its two replies, is a   *)
(* transaction too, and who may call whom is state here, not assumption.   *)
(* This module implements Dogether, whose steps are whole transactions.    *)
(***************************************************************************)
EXTENDS Dogether

CONSTANTS
  Nobody,         \* the address in a contract that does not exist yet
  Deployer,       \* who instantiates the pool
  TokenMessages   \* what message_cw20 may be

TokenMessage ==
  [rows : InitialRows, name_bytes : Nat, symbol_bytes : Nat,
   symbol_letters : BOOLEAN, decimals : Nat]

ASSUME MessagesAssumption ==
  /\ Nobody \notin {Admin, Cw20Token, StakingContract, Deployer}
  /\ Holders \cap {Admin, Cw20Token, StakingContract, Nobody} = {}
  /\ Holders \subseteq Addresses
  /\ TokenMessages \subseteq TokenMessage

VARIABLES
  staking_address, cw20_address,   \* the pool's STATE
  minter,                          \* the token's TOKEN_INFO.mint
  admin, cw20_token_addr           \* the staking contract's CONFIG

VARIABLES
  message_cw20,   \* what the deployer instantiates the token with
  pending,        \* messages and replies of the transaction, the next one first
  events,         \* what the transaction has emitted
  tax,            \* the tax the chain reports to it
  committed       \* the state of the contracts before it

wiring == <<staking_address, cw20_address, minter, admin, cw20_token_addr>>
transaction == <<pending, events, tax>>
contractVars == <<dogetherVars, wiring>>
messagesVars == <<contractVars, message_cw20, transaction, committed>>

\* The state of the chain that a transaction changes.
Working ==
  [global_index |-> global_index, total_balance |-> total_balance,
   prev_reward_balance |-> prev_reward_balance, holders |-> holders,
   claims |-> claims, combinations |-> combinations,
   staking_uusd |-> staking_uusd, height |-> height,
   lottery_counter |-> lottery_counter, lottery_tickets |-> lottery_tickets,
   total_supply |-> total_supply, balances |-> balances,
   total_ust_pool |-> total_ust_pool, next_draw |-> next_draw,
   pool_uusd |-> pool_uusd, aust |-> aust, exchange_rate |-> exchange_rate,
   now |-> now,
   staking_address |-> staking_address, cw20_address |-> cw20_address,
   minter |-> minter, admin |-> admin, cw20_token_addr |-> cw20_token_addr]

NoTaxYet == [rate |-> 0, cap |-> 0]

MessagesInit ==
  /\ StakingInit
  /\ total_supply = 0
  /\ balances = [a \in Addresses |-> 0]
  /\ total_ust_pool = 0
  /\ next_draw = 0
  /\ pool_uusd = 0
  /\ aust = 0
  /\ exchange_rate = Unit
  /\ now = 0
  /\ staking_address = Nobody /\ cw20_address = Nobody
  /\ minter = Nobody
  /\ admin = Nobody /\ cw20_token_addr = Nobody
  /\ message_cw20 \in TokenMessages
  /\ pending = << >>
  /\ events = << >>
  /\ tax = NoTaxYet
  /\ committed = Working

-----------------------------------------------------------------------------
(* Messages, events and replies.                                            *)

\* A message, the coins it carries and its parameters.
Message(type, sender, to, funds, body) ==
  [type |-> type, sender |-> sender, to |-> to, funds |-> funds, body |-> body]

NoBody == [nothing |-> TRUE]

\* SubMsg::reply_on_success: after the message it follows, the reply hears
\* the events from here on.
Reply(id) == [type |-> "Reply", id |-> id, since |-> Len(events)]

\* The transaction has handled everything.
Done == [type |-> "Done"]

Event(type, attributes) == [type |-> type, attributes |-> attributes]

\* The chain's order: what a handler sends is handled before what was pending,
\* and its own event comes before those of the messages it sends.
Emit(messages, event) ==
  /\ pending' = messages \o Tail(pending)
  /\ events' = events \o event
  /\ UNCHANGED <<tax, committed, message_cw20>>

\* The first event of a type a reply hears, as a set: empty if there is none.
FirstHeard(reply, type) ==
  LET heard == {i \in reply.since + 1 .. Len(events) : events[i].type = type}
  IN  {events[i] : i \in {j \in heard : \A k \in heard : j <= k}}

-----------------------------------------------------------------------------
(* Instantiation.                                                           *)

\* instantiate of the pool: the addresses are the sender's until the replies.
InstantiatePool(m) ==
  /\ m.type = "InstantiatePool"
  /\ cw20_address = Nobody
  /\ staking_address' = m.sender
  /\ cw20_address' = m.sender
  /\ next_draw' = FirstDraw
  /\ total_ust_pool' = 0
  /\ Emit(<<Message("InstantiateToken", Admin, Cw20Token, 0, message_cw20),
            Reply(0)>>, << >>)
  /\ UNCHANGED <<stakingVars, cw20Vars, pool_uusd, anchor, now,
                 minter, admin, cw20_token_addr>>

\* InstantiateMsg::validate of the token.
ValidTokenMessage(message) ==
  /\ message.name_bytes \in 3 .. 50
  /\ message.symbol_bytes \in 3 .. 12
  /\ message.symbol_letters
  /\ message.decimals <= 18

InstantiateToken(m) ==
  /\ m.type = "InstantiateToken"
  /\ ValidTokenMessage(m.body)
  /\ total_supply' = SupplyFromRows(m.body.rows)
  /\ Fits(total_supply')
  /\ balances' = [a \in Addresses |-> BalanceFromRows(m.body.rows, a)]
  /\ minter' = m.sender
  /\ Emit(<< >>, <<Event("instantiate_contract", [contract_address |-> m.to])>>)
  /\ UNCHANGED <<stakingVars, poolVars, staking_address, cw20_address,
                 admin, cw20_token_addr>>

\* cw20_instance_reply.
Cw20InstanceReply(reply) ==
  /\ reply.type = "Reply" /\ reply.id = 0
  /\ \E event \in FirstHeard(reply, "instantiate_contract") :
       LET contract_address == event.attributes.contract_address
       IN  /\ cw20_address' = contract_address
           /\ Emit(<<Message("InstantiateStaking", Admin, StakingContract, 0,
                             [cw20_token_addr |-> contract_address]),
                     Reply(1)>>, << >>)
  /\ UNCHANGED <<dogetherVars, staking_address, minter, admin, cw20_token_addr>>

\* instantiate of the staking contract: the sender becomes the admin.
InstantiateStaking(m) ==
  /\ m.type = "InstantiateStaking"
  /\ admin' = m.sender
  /\ cw20_token_addr' = m.body.cw20_token_addr
  /\ global_index' = 0
  /\ total_balance' = 0
  /\ prev_reward_balance' = 0
  /\ Emit(<< >>, <<Event("instantiate_contract", [contract_address |-> m.to])>>)
  /\ UNCHANGED <<holders, claims, combinations, staking_uusd, height, lottery,
                 cw20Vars, poolVars, staking_address, cw20_address, minter>>

\* Slip: the address stored where the token's is.
StakingReplyStoresToken(reply) ==
  /\ reply.type = "Reply" /\ reply.id = 1
  /\ \E event \in FirstHeard(reply, "instantiate_contract") :
       cw20_address' = event.attributes.contract_address
  /\ Emit(<< >>, << >>)
  /\ UNCHANGED <<dogetherVars, staking_address, minter, admin, cw20_token_addr>>

\* staking_instance_reply.
StakingInstanceReply(reply) ==
  /\ reply.type = "Reply" /\ reply.id = 1
  /\ \E event \in FirstHeard(reply, "instantiate_contract") :
       staking_address' = event.attributes.contract_address
  /\ Emit(<< >>, << >>)
  /\ UNCHANGED <<dogetherVars, cw20_address, minter, admin, cw20_token_addr>>

-----------------------------------------------------------------------------
(* The pool.                                                                *)

\* try_pool.  The coins sent are the pool's before it runs.
TryPool(m) ==
  LET deposit == DeductTax(tax, m.funds)
  IN  /\ m.type = "Pool" /\ m.to = Admin /\ cw20_address # Nobody
      /\ m.funds > 0
      /\ Fits(total_ust_pool + deposit)
      /\ total_ust_pool' = total_ust_pool + deposit
      /\ pool_uusd' = pool_uusd + m.funds
      /\ Emit(<<Message("DepositStable", Admin, "market", deposit, NoBody),
                Message("Bond", Admin, cw20_address, 0,
                        [contract |-> staking_address, amount |-> deposit,
                         recipient |-> m.sender])>>, << >>)
      /\ UNCHANGED <<stakingVars, cw20Vars, next_draw, anchor, now, wiring>>

\* try_un_pool.
TryUnPool(m) ==
  /\ m.type = "UnPool" /\ m.to = Admin /\ cw20_address # Nobody
  /\ m.body.amount > 0
  /\ Emit(<<Message("UnbondStake", Admin, staking_address, 0,
                    [address |-> m.sender, amount |-> m.body.amount])>>, << >>)
  /\ UNCHANGED contractVars

\* try_claim_un_pool.
TryClaimUnPool(m) ==
  /\ m.type = "ClaimUnPool" /\ m.to = Admin /\ cw20_address # Nobody
  /\ Emit(<<Message("WithdrawStake", Admin, staking_address, 0,
                    [address |-> m.sender, cap |-> {}]),
            Reply(2)>>, << >>)
  /\ UNCHANGED contractVars

\* Slip: what was withdrawn left in the deposits.
OwedAsBefore(amount) == total_ust_pool

OwedAfter(amount) == total_ust_pool - amount

\* withdraw_reply: what the first contract event says was withdrawn, and for
\* whom; an event without the two attributes is a panic.
WithdrawReply(reply) ==
  /\ reply.type = "Reply" /\ reply.id = 2
  /\ \E event \in FirstHeard(reply, "wasm") :
       /\ {"withdraw", "recipient"} \subseteq DOMAIN event.attributes
       /\ LET amount == event.attributes.withdraw
          IN  /\ Fits(FromRatio(amount, 1))
              /\ total_ust_pool >= amount
              /\ total_ust_pool' = OwedAfter(amount)
              /\ Emit(<<Message("RedeemStable", Admin, "market", 0,
                                [amount |-> AustToRedeem(amount)]),
                        Message("BankSend", Admin, event.attributes.recipient,
                                NetAmount(tax, amount), NoBody)>>, << >>)
  /\ UNCHANGED <<stakingVars, cw20Vars, next_draw, pool_uusd, anchor, now, wiring>>

\* try_redeem_earning: the amounts are computed before anything is redeemed.
TryRedeemEarning(m) ==
  /\ m.type = "RedeemEarning" /\ m.to = Admin /\ cw20_address # Nobody
  /\ m.funds = 0
  /\ DrawIsDue
  /\ Fits(AustValue)
  /\ InterestAccrued >= 0
  /\ next_draw' = next_draw + DrawPeriod
  /\ Emit(<<Message("RedeemStable", Admin, "market", 0,
                    [amount |-> AustWorth(InterestAccrued)]),
            Message("UpdateGlobalIndex", Admin, staking_address,
                    Earning(tax), NoBody)>>, << >>)
  /\ UNCHANGED <<stakingVars, cw20Vars, total_ust_pool, pool_uusd, anchor,
                 now, wiring>>

-----------------------------------------------------------------------------
(* The token and the staking contract: their handlers in Cw20 and Staking,  *)
(* with the caller held against the address that is stored.                 *)

\* Slip: anyone may mint.
AnyoneMayBond(sender) == minter # Nobody

MayBond(sender) == sender = minter

TokenBond(m) ==
  /\ m.type = "Bond" /\ m.to = Cw20Token
  /\ MayBond(m.sender)
  /\ ExecuteBond(Minter, m.body.contract, m.body.amount)
  /\ Emit(<<Message("Receive", Cw20Token, m.body.contract, 0,
                    [sender |-> m.body.recipient, amount |-> m.body.amount])>>, << >>)
  /\ UNCHANGED <<stakingVars, poolVars, wiring>>

TokenBurn(m) ==
  /\ m.type = "Burn" /\ m.to = Cw20Token /\ minter # Nobody
  /\ ExecuteBurn(m.sender, m.body.amount)
  /\ Emit(<< >>, <<Event("wasm", [from |-> m.sender, amount |-> m.body.amount])>>)
  /\ UNCHANGED <<stakingVars, poolVars, wiring>>

\* handle_receive.
HandleReceive(m) ==
  /\ m.type = "Receive" /\ m.to = StakingContract
  /\ m.sender = cw20_token_addr
  /\ Bond(Cw20Token, m.funds, m.body.sender, m.body.amount)
  /\ Emit(<< >>, << >>)
  /\ UNCHANGED <<cw20Vars, poolVars, wiring>>

HandleUnbound(m) ==
  /\ m.type = "UnbondStake" /\ m.to = StakingContract
  /\ m.sender = admin
  /\ UnbondStake(Admin, m.funds, m.body.address, m.body.amount)
  /\ Emit(<< >>, << >>)
  /\ UNCHANGED <<cw20Vars, poolVars, wiring>>

HandleWithdrawStake(m) ==
  /\ m.type = "WithdrawStake" /\ m.to = StakingContract
  /\ m.sender = admin
  /\ \E paid \in SUBSET ClaimsOf(m.body.address) :
       /\ WithdrawStake(Admin, m.body.address, m.body.cap, paid)
       /\ Emit(<<Message("Burn", StakingContract, cw20_token_addr, 0,
                         [amount |-> AmountOf(paid)])>>,
               <<Event("wasm", [recipient |-> m.body.address,
                                withdraw |-> AmountOf(paid)])>>)
  /\ UNCHANGED <<cw20Vars, poolVars, wiring>>

\* The coins are the staking contract's before the handler runs.
HandleUpdateGlobalIndex(m) ==
  /\ m.type = "UpdateGlobalIndex" /\ m.to = StakingContract
  /\ m.sender = admin
  /\ m.funds > 0
  /\ SendCost(tax, m.funds) <= pool_uusd
  /\ pool_uusd' = pool_uusd - SendCost(tax, m.funds)
  /\ UpdateGlobalIndex(Admin, m.funds)
  /\ Emit(<< >>, << >>)
  /\ UNCHANGED <<cw20Vars, poolState, anchor, now, wiring>>

\* handle_get_ticket and the Register message to the lottery it sends.
HandleGetTicket(m) ==
  /\ m.type = "GetTicket" /\ m.to = StakingContract /\ admin # Nobody
  /\ \E price \in Prices : GetTicket(m.body.recipient, m.body.combination, price, tax)
  /\ Emit(<< >>, << >>)
  /\ UNCHANGED <<cw20Vars, poolVars, wiring>>

-----------------------------------------------------------------------------
(* External: the money market and the bank.                                 *)

DepositStable(m) ==
  /\ m.type = "DepositStable"
  /\ m.funds > 0
  /\ SendCost(tax, m.funds) <= pool_uusd
  /\ AustMinted(m.funds) > 0
  /\ pool_uusd' = pool_uusd - SendCost(tax, m.funds)
  /\ aust' = aust + AustMinted(m.funds)
  /\ Emit(<< >>, << >>)
  /\ UNCHANGED <<stakingVars, cw20Vars, poolState, exchange_rate, now, wiring>>

RedeemStable(m) ==
  /\ m.type = "RedeemStable"
  /\ m.body.amount > 0
  /\ m.body.amount <= aust
  /\ aust' = aust - m.body.amount
  /\ pool_uusd' = pool_uusd + UusdRedeemed(tax, m.body.amount)
  /\ Emit(<< >>, << >>)
  /\ UNCHANGED <<stakingVars, cw20Vars, poolState, exchange_rate, now, wiring>>

BankSend(m) ==
  /\ m.type = "BankSend"
  /\ m.funds > 0
  /\ SendCost(tax, m.funds) <= pool_uusd
  /\ pool_uusd' = pool_uusd - SendCost(tax, m.funds)
  /\ Emit(<< >>, << >>)
  /\ UNCHANGED <<stakingVars, cw20Vars, poolState, anchor, now, wiring>>

-----------------------------------------------------------------------------
(* Transactions.                                                            *)

\* The messages an account may start a transaction with; those meant for
\* another contract's caller included.
UserMessages(user) ==
  {Message("Pool", user, Admin, sent, NoBody) : sent \in Deposits}
    \cup {Message("UnPool", user, Admin, 0, [amount |-> n]) : n \in Amounts}
    \cup {Message("ClaimUnPool", user, Admin, 0, NoBody),
          Message("RedeemEarning", user, Admin, 0, NoBody)}
    \cup {Message("GetTicket", user, StakingContract, 0,
                  [recipient |-> h, combination |-> c]) :
            h \in Holders, c \in Combinations}
    \cup {Message("Burn", user, Cw20Token, 0, [amount |-> n]) : n \in TokenAmounts}

\* What only the pool or the token should send.
ForeignMessages(user) ==
  {Message("Bond", user, Cw20Token, 0,
           [contract |-> StakingContract, amount |-> n, recipient |-> h]) :
     n \in Amounts, h \in Holders}
    \cup {Message("Receive", user, StakingContract, 0,
                  [sender |-> h, amount |-> n]) : n \in Amounts, h \in Holders}
    \cup {Message("UnbondStake", user, StakingContract, 0,
                  [address |-> h, amount |-> n]) : n \in Amounts, h \in Holders}
    \cup {Message("WithdrawStake", user, StakingContract, 0,
                  [address |-> h, cap |-> {}]) : h \in Holders}
    \cup {Message("UpdateGlobalIndex", user, StakingContract, n, NoBody) :
            n \in Rewards}

\* The message that deploys the contracts.
Deployment == Message("InstantiatePool", Deployer, Admin, 0, NoBody)

Start(m, reported) ==
  /\ pending = << >>
  /\ pending' = <<m, Done>>
  /\ tax' = reported
  /\ UNCHANGED <<contractVars, message_cw20, events, committed>>

Handle ==
  /\ pending # << >>
  /\ LET m == Head(pending)
     IN  \/ InstantiatePool(m)
         \/ InstantiateToken(m)
         \/ Cw20InstanceReply(m)
         \/ InstantiateStaking(m)
         \/ StakingInstanceReply(m)
         \/ TryPool(m)
         \/ TryUnPool(m)
         \/ TryClaimUnPool(m)
         \/ WithdrawReply(m)
         \/ TryRedeemEarning(m)
         \/ TokenBond(m)
         \/ TokenBurn(m)
         \/ HandleReceive(m)
         \/ HandleUnbound(m)
         \/ HandleWithdrawStake(m)
         \/ HandleUpdateGlobalIndex(m)
         \/ HandleGetTicket(m)
         \/ DepositStable(m)
         \/ RedeemStable(m)
         \/ BankSend(m)

\* Everything is handled: the changes stay.
Commit ==
  /\ pending = <<Done>>
  /\ committed' = Working
  /\ pending' = << >>
  /\ events' = << >>
  /\ tax' = NoTaxYet
  /\ UNCHANGED <<contractVars, message_cw20>>

\* A message is refused, or the gas is used up: nothing stays.
Abort ==
  /\ pending # << >>
  /\ pending' = << >>
  /\ events' = << >>
  /\ tax' = NoTaxYet
  /\ global_index' = committed.global_index
  /\ total_balance' = committed.total_balance
  /\ prev_reward_balance' = committed.prev_reward_balance
  /\ holders' = committed.holders
  /\ claims' = committed.claims
  /\ combinations' = committed.combinations
  /\ staking_uusd' = committed.staking_uusd
  /\ lottery_tickets' = committed.lottery_tickets
  /\ total_supply' = committed.total_supply
  /\ balances' = committed.balances
  /\ total_ust_pool' = committed.total_ust_pool
  /\ next_draw' = committed.next_draw
  /\ pool_uusd' = committed.pool_uusd
  /\ aust' = committed.aust
  /\ staking_address' = committed.staking_address
  /\ cw20_address' = committed.cw20_address
  /\ minter' = committed.minter
  /\ admin' = committed.admin
  /\ cw20_token_addr' = committed.cw20_token_addr
  /\ UNCHANGED <<height, lottery_counter, exchange_rate, now, message_cw20, committed>>

\* What happens between transactions.
Deployed == committed.cw20_address # Nobody

Environment ==
  /\ pending = << >>
  /\ \/ /\ Deployed
        /\ \/ \E amount \in Gifts : GiveUusd(amount) \/ GiveAust(amount)
           \/ \E amount \in Rewards : GiveToStaking(amount)
     \/ \E step \in RateSteps : AccrueInterest(step)
     \/ \E seconds \in BlockSeconds : Block(seconds)
     \/ LotteryDraw
  /\ UNCHANGED <<wiring, message_cw20, transaction>>
  /\ committed' = Working'

MessagesNext ==
  \/ \E reported \in Taxes : Start(Deployment, reported)
  \/ \E user \in Holders, reported \in Taxes :
       \E m \in UserMessages(user) \cup ForeignMessages(user) : Start(m, reported)
  \/ Handle
  \/ Commit
  \/ Abort
  \/ Environment

MessagesSpec == MessagesInit /\ [][MessagesNext]_messagesVars

-----------------------------------------------------------------------------
(* Properties.                                                              *)

\* contract.rs: message by message and with failures anywhere, what stays is
\* what whole transactions of Dogether do; before the deployment its initial
\* state, with the token's rows those of the message that will deploy it.
Transactions == INSTANCE Dogether WITH
  global_index <- committed.global_index,
  total_balance <- committed.total_balance,
  prev_reward_balance <- committed.prev_reward_balance,
  holders <- committed.holders,
  claims <- committed.claims,
  combinations <- committed.combinations,
  staking_uusd <- committed.staking_uusd,
  height <- committed.height,
  lottery_counter <- committed.lottery_counter,
  lottery_tickets <- committed.lottery_tickets,
  total_supply <- IF Deployed THEN committed.total_supply
                  ELSE SupplyFromRows(message_cw20.rows),
  balances <- IF Deployed THEN committed.balances
              ELSE [a \in Addresses |-> BalanceFromRows(message_cw20.rows, a)],
  total_ust_pool <- committed.total_ust_pool,
  next_draw <- IF Deployed THEN committed.next_draw ELSE FirstDraw,
  pool_uusd <- committed.pool_uusd,
  aust <- committed.aust,
  exchange_rate <- committed.exchange_rate,
  now <- committed.now

ImplementsTransactions == Transactions!DogetherSpec

\* contract.rs: the two replies leave each contract with the addresses of the
\* others, or the whole deployment never was: no state in which the pool
\* exists and calls an address that is not the right contract's.
WiredOrAbsent ==
  pending = << >> =>
    wiring \in {<<Nobody, Nobody, Nobody, Nobody, Nobody>>,
                <<StakingContract, Cw20Token, Admin, Admin, Cw20Token>>}

\* The amounts of the pending messages of a type that a sender sent.
InFlight(type, sender) ==
  LET at == {i \in DOMAIN pending :
               pending[i].type = type /\ pending[i].sender = sender}
  IN  SumOver(at, [i \in at |-> pending[i].body.amount])

\* What a reply will find withdrawn by the message it follows.
Withdrawn ==
  LET replies == {i \in DOMAIN pending :
                    pending[i].type = "Reply" /\ pending[i].id = 2}
      heard == UNION {{j \in pending[i].since + 1 .. Len(events) :
                         "withdraw" \in DOMAIN events[j].attributes} : i \in replies}
  IN  SumOver(heard, [j \in heard |-> events[j].attributes.withdraw])

\* contract.rs: at every message of every transaction the three accounts of
\* the deposits agree up to what is on its way: no message is lost or handled
\* twice, and each handler books exactly what it passes on.
AccountsAgreeInFlight ==
  /\ total_ust_pool = total_balance + AmountOf(claims) + Withdrawn
                        + InFlight("Bond", Admin) + InFlight("Receive", Cw20Token)
  /\ balances[StakingContract]
       = total_balance + AmountOf(claims)
           + InFlight("Receive", Cw20Token) + InFlight("Burn", StakingContract)

\* contract.rs: the uusd about to be sent goes to the owner of the claims that
\* this transaction took out of the staking contract, and with the tax the
\* sending costs no more than they were for.
PayoutIsForTheClaims ==
  \A i \in DOMAIN pending :
    pending[i].type = "BankSend" =>
      LET paid == committed.claims \ claims
      IN  /\ paid # {}
          /\ \A c \in paid : c.owner = pending[i].to
          /\ SendCost(tax, pending[i].funds) <= AmountOf(paid)

=============================================================================

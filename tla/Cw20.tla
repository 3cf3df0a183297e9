-------------------------------- MODULE Cw20 --------------------------------
(***************************************************************************)
(* cw20-contract-dogether: a cw20 token cut down to two messages.  Bond    *)
(* mints straight into a contract and tells it for whom; Burn destroys     *)
(* tokens of the sender.  There is no transfer.                            *)
(***************************************************************************)
EXTENDS Decimals, Sums, Sequences, FiniteSetsExt

CONSTANTS
  Addresses,       \* addresses that hold tokens or send messages
  Minter,          \* mint.minter: the contract that instantiated this one
  InitialRows,     \* the lists of initial_balances it may be given
  TokenAmounts     \* the amounts of Bond and Burn

Row == [address : Addresses, amount : Uint]

ASSUME AddressesAssumption == IsFiniteSet(Addresses)
ASSUME TokenInputsAssumption ==
  /\ InitialRows \subseteq Seq(Row)
  /\ TokenAmounts \subseteq Uint

VARIABLES
  total_supply,   \* TOKEN_INFO.total_supply
  balances        \* BALANCES

cw20Vars == <<total_supply, balances>>

-----------------------------------------------------------------------------
\* create_accounts: every row adds to the supply, and overwrites the balance
\* an earlier row gave the same address.
SupplyFromRows(rows) ==
  SumOver(DOMAIN rows, [i \in DOMAIN rows |-> rows[i].amount])

BalanceFromRows(rows, a) ==
  LET given == {i \in DOMAIN rows : rows[i].address = a}
  IN  IF given = {} THEN 0 ELSE rows[Max(given)].amount

\* instantiate, with the rows of initial_balances.
Cw20Instantiate(rows) ==
  /\ total_supply = SupplyFromRows(rows)
  /\ Fits(total_supply)
  /\ balances = [a \in Addresses |-> BalanceFromRows(rows, a)]

\* Slip: the supply saved before it is raised.
BondStaleSupply(sender, contract, amount) ==
  /\ amount > 0
  /\ sender = Minter
  /\ balances' = [balances EXCEPT ![contract] = @ + amount]
  /\ UNCHANGED total_supply

\* execute_bond.  The minter has no cap (instantiate stores None).  The message
\* to contract is the Bond of module Staking.
ExecuteBond(sender, contract, amount) ==
  /\ amount > 0
  /\ sender = Minter
  /\ Fits(total_supply + amount)
  /\ total_supply' = total_supply + amount
  /\ Fits(balances[contract] + amount)
  /\ balances' = [balances EXCEPT ![contract] = @ + amount]

\* Slip: the supply checked and the balance not.
BurnOfSupply(sender, amount) ==
  /\ amount > 0
  /\ total_supply >= amount
  /\ balances' = [balances EXCEPT ![sender] = @ - amount]
  /\ total_supply' = total_supply - amount

\* execute_burn.
ExecuteBurn(sender, amount) ==
  /\ amount > 0
  /\ balances[sender] >= amount
  /\ balances' = [balances EXCEPT ![sender] = @ - amount]
  /\ total_supply >= amount
  /\ total_supply' = total_supply - amount

-----------------------------------------------------------------------------
Cw20Init == \E rows \in InitialRows : Cw20Instantiate(rows)

Cw20Next ==
  \/ \E sender, contract \in Addresses, amount \in TokenAmounts :
       ExecuteBond(sender, contract, amount)
  \/ \E sender \in Addresses, amount \in TokenAmounts :
       ExecuteBurn(sender, amount)

Cw20Spec == Cw20Init /\ [][Cw20Next]_cw20Vars

-----------------------------------------------------------------------------
(* Properties.                                                              *)

\* state.rs: supply and balances fit their 128 bits.
Cw20TypeOK ==
  /\ total_supply \in Uint
  /\ balances \in [Addresses -> Uint]

\* contract.rs: the supply covers the balances, so a burn the balance allows
\* is never refused by the subtraction from the supply, even when the initial
\* rows named an address twice.
SupplyCoversBalances == SumOver(Addresses, balances) <= total_supply

=============================================================================

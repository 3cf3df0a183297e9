--------------------------- MODULE DepositLedger ----------------------------
(***************************************************************************)
(* What the pool promises its users, stated the way a reader would: what   *)
(* is deposited stays the depositor's until it has been asked back for a   *)
(* whole unbonding period and is paid.  Nobody's deposit moves but by its  *)
(* owner's own call.  The pool has no such ledger: its state is one total, *)
(* and who owns it is in two other contracts.  Module Dogether implements  *)
(* this one.                                                               *)
(***************************************************************************)
EXTENDS Decimals, Sums

CONSTANTS
  Depositors,
  Delay        \* blocks a deposit asked back waits

VARIABLES
  deposited,   \* the deposit of each depositor
  asked,       \* the deposits asked back: sets of owner, amount and release_at
  owed,        \* all that is deposited or asked back, kept as a counter
  block

depositVars == <<deposited, asked, owed, block>>

Total(requests) == SumOver(requests, [r \in requests |-> r.amount])
Of(d) == {r \in asked : r.owner = d}

DepositInit ==
  /\ deposited = [d \in Depositors |-> 0]
  /\ asked = {}
  /\ owed = 0
  /\ block = 0

Put(d, amount) ==
  /\ amount > 0
  /\ deposited' = [deposited EXCEPT ![d] = @ + amount]
  /\ owed' = owed + amount
  /\ UNCHANGED <<asked, block>>

\* A request of its own for what leaves the deposit, due after the delay.
Ask(d, amount) ==
  /\ amount \in 1 .. deposited[d]
  /\ deposited' = [deposited EXCEPT ![d] = @ - amount]
  /\ \E r \in asked' \ asked :
       /\ asked' = asked \cup {r}
       /\ r.owner = d /\ r.amount = amount /\ r.release_at = block + Delay
  /\ UNCHANGED <<owed, block>>

\* Everything d has asked back that is due, and nothing else.
Pay(d) ==
  LET due == {r \in Of(d) : block >= r.release_at}
  IN  /\ Total(due) > 0
      /\ asked' = asked \ due
      /\ owed' = owed - Total(due)
      /\ UNCHANGED <<deposited, block>>

Tick ==
  /\ block' = block + 1
  /\ UNCHANGED <<deposited, asked, owed>>

DepositNext ==
  \/ \E d \in Depositors, amount \in Uint : Put(d, amount)
  \/ \E d \in Depositors, amount \in Uint : Ask(d, amount)
  \/ \E d \in Depositors : Pay(d)
  \/ Tick

DepositSpec == DepositInit /\ [][DepositNext]_depositVars

=============================================================================

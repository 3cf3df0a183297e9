---------------------------- MODULE RewardLedger ----------------------------
(***************************************************************************)
(* What the staking contract promises its holders, stated the way a reader *)
(* would: rewards are shared out at once, to every account in proportion   *)
(* to its stake, the moment they arrive.  The contract cannot afford the   *)
(* loop over all holders; it keeps a global index and settles lazily.      *)
(* Module Staking implements this one.                                     *)
(***************************************************************************)
EXTENDS Decimals, Sums

CONSTANTS Accounts

ASSUME AccountsAssumption == IsFiniteSet(Accounts)

VARIABLES
  stake,    \* the stake of each account
  total,    \* the stake of all accounts, kept as a counter
  owed,     \* the rewards of each account, a raw decimal
  pot       \* the rewards received and not yet spent

ledgerVars == <<stake, total, owed, pot>>

Init ==
  /\ stake = [a \in Accounts |-> 0]
  /\ total = 0
  /\ owed = [a \in Accounts |-> 0]
  /\ pot = 0

\* Stake moves in or out without anyone's rewards changing.
Deposit(a, amount) ==
  /\ amount > 0
  /\ stake' = [stake EXCEPT ![a] = @ + amount]
  /\ total' = total + amount
  /\ UNCHANGED <<owed, pot>>

Leave(a, amount) ==
  /\ amount > 0
  /\ amount <= stake[a]
  /\ stake' = [stake EXCEPT ![a] = @ - amount]
  /\ total' = total - amount
  /\ UNCHANGED <<owed, pot>>

\* Slip: rounded up.
ShareUp(amount) == FromRatio(amount, total) + 1

\* The share of one unit of stake when amount is distributed, rounded down.
Share(amount) == FromRatio(amount, total)

\* Rewards arrive and every unit of stake earns the same share of them.
Distribute(amount) ==
  /\ total > 0
  /\ owed' = [a \in Accounts |-> owed[a] + stake[a] * Share(amount)]
  /\ pot' = pot + amount
  /\ UNCHANGED <<stake, total>>

\* An account spends whole rewards of its own, and forfeits the fraction.
Spend(a, cost) ==
  /\ cost <= Floor(owed[a])
  /\ owed' = [owed EXCEPT ![a] = (Floor(@) - cost) * Unit]
  /\ pot' = pot - cost
  /\ UNCHANGED <<stake, total>>

Next ==
  \/ \E a \in Accounts, amount \in Uint : Deposit(a, amount)
  \/ \E a \in Accounts, amount \in Uint : Leave(a, amount)
  \/ \E amount \in Uint : Distribute(amount)
  \/ \E a \in Accounts, cost \in Uint : Spend(a, cost)

Spec == Init /\ [][Next]_ledgerVars

-----------------------------------------------------------------------------
LedgerTypeOK ==
  /\ stake \in [Accounts -> Nat]
  /\ total \in Nat
  /\ owed \in [Accounts -> Nat]
  /\ pot \in Nat

\* The counter is the sum of the stakes.
TotalIsStaked == total = SumOver(Accounts, stake)

\* What the accounts may spend, all together, has been received.
OwedIsCovered == SumOver(Accounts, owed) <= pot * Unit

=============================================================================

------------------------- MODULE RewardLedgerProofs -------------------------
(***************************************************************************)
(* The reward ledger keeps its books for any set of accounts and any       *)
(* amounts: the total is the sum of the stakes, and what is owed has been  *)
(* received.                                                               *)
(***************************************************************************)
EXTENDS RewardLedger, ArithmeticTheorems

LedgerInv == LedgerTypeOK /\ TotalIsStaked /\ OwedIsCovered

\* The sums of the ledger are over naturals.
LEMMA LedgerSums ==
  ASSUME LedgerTypeOK
  PROVE  /\ IsFiniteSet(Accounts)
         /\ \A a \in Accounts : stake[a] \in Nat /\ owed[a] \in Nat
         /\ SumOver(Accounts, stake) \in Nat
         /\ SumOver(Accounts, owed) \in Nat
         /\ pot * Unit \in Nat
<1>1. \A a \in Accounts : stake[a] \in Nat /\ owed[a] \in Nat
  BY DEF LedgerTypeOK
<1>2. pot * Unit \in Nat
  BY UnitAssumption DEF LedgerTypeOK
<1> QED BY <1>1, <1>2, AccountsAssumption, SumType

\* Initially every sum is 0.
LEMMA LedgerInitInv == Init => LedgerInv
<1> SUFFICES ASSUME Init PROVE LedgerInv
  OBVIOUS
<1>1. LedgerTypeOK
  BY DEF Init, LedgerTypeOK
<1> DEFINE zero == [a \in Accounts |-> 0]
<1>2. SumOver(Accounts, zero) = 0
  <2>1. Tokens(Accounts, zero) = {}
    BY DEF Tokens
  <2> QED BY <2>1, FS_EmptySet DEF SumOver
<1>3. TotalIsStaked /\ OwedIsCovered
  BY <1>2, UnitAssumption DEF Init, TotalIsStaked, OwedIsCovered
<1> QED BY <1>1, <1>3 DEF LedgerInv

\* A deposit adds as much to the total as to one stake.
LEMMA DepositInv ==
  ASSUME LedgerInv, NEW a \in Accounts, NEW amount \in Uint, Deposit(a, amount)
  PROVE  LedgerInv'
<1>1. amount \in Nat
  BY UintIsNat
<1>2. LedgerTypeOK'
  BY <1>1 DEF LedgerInv, LedgerTypeOK, Deposit
<1>3. /\ stake'[a] = stake[a] + amount
      /\ \A b \in Accounts : b # a => stake'[b] = stake[b]
      /\ \A b \in Accounts : stake[b] \in Nat /\ stake'[b] \in Nat
  BY <1>1, <1>2 DEF Deposit, LedgerInv, LedgerTypeOK
<1>4. SumOver(Accounts, stake') = SumOver(Accounts, stake) - stake[a] + stake'[a]
  BY <1>3, AccountsAssumption, SumUpdate
<1>5. TotalIsStaked'
  BY <1>1, <1>3, <1>4, LedgerSums DEF TotalIsStaked, Deposit, LedgerInv
<1>6. OwedIsCovered'
  BY DEF OwedIsCovered, Deposit, LedgerInv
<1> QED BY <1>2, <1>5, <1>6 DEF LedgerInv

\* Leaving takes as much from the total as from one stake.
LEMMA LeaveInv ==
  ASSUME LedgerInv, NEW a \in Accounts, NEW amount \in Uint, Leave(a, amount)
  PROVE  LedgerInv'
<1>1. amount \in Nat /\ stake[a] \in Nat /\ total \in Nat
  BY UintIsNat DEF LedgerInv, LedgerTypeOK
<1>2. stake[a] <= total
  BY LedgerSums, SumBound DEF LedgerInv, TotalIsStaked
<1>3. total - amount \in Nat /\ stake[a] - amount \in Nat
  BY <1>1, <1>2 DEF Leave
<1>4. LedgerTypeOK'
  BY <1>3 DEF LedgerInv, LedgerTypeOK, Leave
<1>5. /\ stake'[a] = stake[a] - amount
      /\ \A b \in Accounts : b # a => stake'[b] = stake[b]
      /\ \A b \in Accounts : stake[b] \in Nat /\ stake'[b] \in Nat
  BY <1>4 DEF Leave, LedgerInv, LedgerTypeOK
<1>6. SumOver(Accounts, stake') = SumOver(Accounts, stake) - stake[a] + stake'[a]
  BY <1>5, AccountsAssumption, SumUpdate
<1>7. TotalIsStaked'
  BY <1>1, <1>5, <1>6, LedgerSums DEF TotalIsStaked, Leave, LedgerInv
<1>8. OwedIsCovered'
  BY DEF OwedIsCovered, Leave, LedgerInv
<1> QED BY <1>4, <1>7, <1>8 DEF LedgerInv

\* The shares handed out do not add up to more than what arrived.
LEMMA DistributeInv ==
  ASSUME LedgerInv, NEW amount \in Uint, Distribute(amount)
  PROVE  LedgerInv'
<1> DEFINE share == Share(amount)
<1>1. amount \in Nat /\ total \in Nat \ {0} /\ pot \in Nat
  BY UintIsNat DEF LedgerInv, LedgerTypeOK, Distribute
<1>2. share \in Nat /\ share * total <= amount * Unit
  BY <1>1, RatioBelow DEF Share
<1> HIDE DEF share
<1>3. \A a \in Accounts : owed'[a] = owed[a] + share * stake[a]
  BY <1>2, LedgerSums DEF Distribute, LedgerInv, share
<1>4. \A a \in Accounts : share * stake[a] \in Nat
  BY <1>2, LedgerSums DEF LedgerInv
<1>5. owed' = [a \in Accounts |-> owed[a] + stake[a] * share]
  BY DEF Distribute, share
<1>6. LedgerTypeOK'
  <2>1. \A a \in Accounts : owed[a] + stake[a] * share \in Nat
    BY <1>2, LedgerSums DEF LedgerInv
  <2> QED BY <1>1, <1>5, <2>1 DEF LedgerInv, LedgerTypeOK, Distribute
<1>7. SumOver(Accounts, owed')
        = SumOver(Accounts, owed) + share * SumOver(Accounts, stake)
  BY <1>2, <1>3, LedgerSums, SumLinear DEF LedgerInv
<1>8. SumOver(Accounts, owed') <= pot * Unit + amount * Unit
  <2>1. share * SumOver(Accounts, stake) = share * total
    BY DEF LedgerInv, TotalIsStaked
  <2>2. share * total \in Nat /\ amount * Unit \in Nat
    BY <1>1, <1>2, UnitAssumption
  <2> QED BY <1>2, <1>7, <2>1, <2>2, LedgerSums DEF LedgerInv, OwedIsCovered
<1>9. pot' * Unit = pot * Unit + amount * Unit
  BY <1>1, UnitAssumption DEF Distribute
<1> QED BY <1>6, <1>8, <1>9 DEF LedgerInv, TotalIsStaked, OwedIsCovered, Distribute

\* What an account spends leaves its own rewards and the pot.
LEMMA SpendInv ==
  ASSUME LedgerInv, NEW a \in Accounts, NEW cost \in Uint, Spend(a, cost)
  PROVE  LedgerInv'
<1> DEFINE whole == Floor(owed[a])
<1>1. cost \in Nat /\ pot \in Nat /\ owed[a] \in Nat
  BY UintIsNat DEF LedgerInv, LedgerTypeOK
<1>2. whole \in Nat /\ whole * Unit <= owed[a]
  BY <1>1, FloorBelow
<1>3. cost <= whole
  BY DEF Spend
<1>4. owed' = [owed EXCEPT ![a] = (whole - cost) * Unit]
  BY DEF Spend
<1> HIDE DEF whole
<1>5. (whole - cost) * Unit \in Nat /\ cost * Unit \in Nat
      /\ (whole - cost) * Unit = whole * Unit - cost * Unit
  BY <1>1, <1>2, <1>3, UnitAssumption
<1>6. owed[a] <= pot * Unit
  BY LedgerSums, SumBound DEF LedgerInv, OwedIsCovered
<1>7. cost <= pot
  <2>1. cost * Unit <= pot * Unit
    BY <1>1, <1>2, <1>5, <1>6, UnitAssumption
  <2> SUFFICES ASSUME pot + 1 <= cost PROVE FALSE
    BY <1>1
  <2>2. (pot + 1) * Unit <= cost * Unit
    BY <1>1, UnitAssumption
  <2>3. (pot + 1) * Unit = pot * Unit + Unit
    BY <1>1, UnitAssumption
  <2> QED BY <1>1, <1>5, <2>1, <2>2, <2>3, UnitAssumption
<1>8. LedgerTypeOK'
  BY <1>1, <1>4, <1>5, <1>7 DEF LedgerInv, LedgerTypeOK, Spend
<1>9. /\ owed'[a] = (whole - cost) * Unit
      /\ \A b \in Accounts : b # a => owed'[b] = owed[b]
      /\ \A b \in Accounts : owed[b] \in Nat /\ owed'[b] \in Nat
  BY <1>4, <1>8 DEF LedgerInv, LedgerTypeOK
<1>10. SumOver(Accounts, owed') = SumOver(Accounts, owed) - owed[a] + owed'[a]
  BY <1>9, AccountsAssumption, SumUpdate
<1>11. pot' * Unit = pot * Unit - cost * Unit
  BY <1>1, <1>7, UnitAssumption DEF Spend
<1>12. OwedIsCovered'
  <2>1. SumOver(Accounts, owed) <= pot * Unit
    BY DEF LedgerInv, OwedIsCovered
  <2>2. /\ SumOver(Accounts, owed) \in Nat /\ pot * Unit \in Nat
        /\ whole * Unit \in Nat
    BY <1>2, LedgerSums, UnitAssumption DEF LedgerInv
  <2>3. SumOver(Accounts, owed') <= pot * Unit - cost * Unit
    BY <1>1, <1>2, <1>5, <1>9, <1>10, <2>1, <2>2
  <2> QED BY <1>11, <2>3 DEF OwedIsCovered
<1> QED BY <1>8, <1>12 DEF LedgerInv, TotalIsStaked, Spend

\* Every step of the ledger keeps its invariant.
LEMMA LedgerStepInv ==
  LedgerInv /\ [Next]_ledgerVars => LedgerInv'
<1> SUFFICES ASSUME LedgerInv, [Next]_ledgerVars PROVE LedgerInv'
  OBVIOUS
<1>1. CASE UNCHANGED ledgerVars
  BY <1>1 DEF ledgerVars, LedgerInv, LedgerTypeOK, TotalIsStaked, OwedIsCovered
<1>2. CASE Next
  BY <1>2, DepositInv, LeaveInv, DistributeInv, SpendInv DEF Next
<1> QED BY <1>1, <1>2

\* The ledger's total is the sum of the stakes, and it never owes more than it
\* has received and not paid out.
THEOREM LedgerSafety == Spec => [](LedgerTypeOK /\ TotalIsStaked /\ OwedIsCovered)
<1>1. LedgerInv => LedgerTypeOK /\ TotalIsStaked /\ OwedIsCovered
  BY DEF LedgerInv
<1> QED BY <1>1, LedgerInitInv, LedgerStepInv, PTL DEF Spec

=============================================================================

--------------------------- MODULE StakingProofs ----------------------------
(***************************************************************************)
(* The staking contract implements the reward ledger, for any holders, any *)
(* amounts and taxes and any width of the integers.  Its type invariant is *)
(* proved together with the ledger's invariant: that the subtraction from  *)
(* total_balance stays above zero follows from total_balance being the sum *)
(* of the balances, and the ledger's books follow from the types.          *)
(***************************************************************************)
EXTENDS Staking, ArithmeticTheorems

L == INSTANCE RewardLedgerProofs WITH
  Accounts <- Holders,
  stake <- [h \in Holders |-> holders[h].balance],
  total <- total_balance,
  owed <- [h \in Holders |-> AllRewards(h)],
  pot <- prev_reward_balance

StakingInv == StakingTypeOK /\ L!LedgerInv

-----------------------------------------------------------------------------
(* The ledger is instantiated with the arithmetic of this module.           *)

LEMMA LedgerAccounts == L!IsFiniteSet(Holders)
BY HoldersAssumption DEF L!IsFiniteSet, IsFiniteSet

LEMMA LedgerUint == L!Uint = Uint
BY DEF L!Uint, Uint

LEMMA LedgerShare ==
  ASSUME NEW amount
  PROVE  L!Share(amount) = FromRatio(amount, total_balance)
BY DEF L!Share, L!FromRatio, FromRatio

LEMMA LedgerFloor ==
  ASSUME NEW decimal
  PROVE  L!Floor(decimal) = Floor(decimal)
BY DEF L!Floor, Floor

LEMMA LedgerSumOver ==
  ASSUME NEW S, NEW f
  PROVE  L!SumOver(S, f) = SumOver(S, f)
<1>1. ASSUME NEW T PROVE L!Cardinality(T) = Cardinality(T)
  BY DEF L!Cardinality, Cardinality
<1> QED BY <1>1 DEF L!SumOver, L!Tokens, SumOver, Tokens

-----------------------------------------------------------------------------
(* Arithmetic of the handlers.                                              *)

\* The rewards of a holder lose no decimals to rounding, because a balance
\* is a whole number: they are its pending ones plus, for every token, what
\* the index has grown.
LEMMA RewardsExact ==
  ASSUME NEW now \in Nat, NEW since \in Nat, since <= now,
         NEW balance \in Nat, NEW pending \in Nat
  PROVE  /\ DecimalMultiplication(DecimalSubtraction(now, since),
                                  FromRatio(balance, 1)) = balance * (now - since)
         /\ balance * (now - since) \in Nat
         /\ DecimalSummation(balance * (now - since), pending)
              = balance * (now - since) + pending
<1>1. DecimalSubtraction(now, since) = now - since /\ now - since \in Nat
  BY DEF DecimalSubtraction
<1>2. /\ DecimalMultiplication(now - since, FromRatio(balance, 1))
           = balance * (now - since)
      /\ balance * (now - since) \in Nat
  BY <1>1, TimesWhole
<1> QED BY <1>1, <1>2 DEF DecimalSummation

\* What a holder whose index is the global one is owed.
LEMMA SettledRewards ==
  ASSUME NEW now \in Nat, NEW balance \in Nat, NEW pending \in Nat
  PROVE  DecimalSummation(
           DecimalMultiplication(DecimalSubtraction(now, now),
                                 FromRatio(balance, 1)), pending) = pending
<1>1. balance * (now - now) = 0
  OBVIOUS
<1>2. DecimalMultiplication(DecimalSubtraction(now, now),
                            FromRatio(balance, 1)) = balance * (now - now)
  BY RewardsExact
<1> QED BY <1>1, <1>2 DEF DecimalSummation

\* deduct_tax withholds between nothing and the whole amount.
LEMMA TicketFeeType ==
  ASSUME NEW tax \in TaxType, NEW cost \in Nat
  PROVE  /\ TicketFee(tax, cost) \in Nat
         /\ TicketWithFees(tax, cost) \in Nat
<1> DEFINE d == tax.rate + Unit
           q == MultiplyRatio(cost, Unit, d)
<1>1. tax.rate \in Nat /\ tax.cap \in Nat /\ d \in Nat \ {0} /\ Unit \in Nat
  BY UnitAssumption DEF TaxType
<1>2. cost * Unit \in Nat /\ cost * tax.rate \in Nat
  BY <1>1
<1>3. q \in Nat /\ q * d <= cost * Unit
  BY <1>1, <1>2, DivBounds DEF MultiplyRatio
<1>4. q <= cost
  <2>1. cost * d = cost * tax.rate + cost * Unit
    BY <1>1
  <2>2. cost * d \in Nat /\ q * d \in Nat
    BY <1>1, <1>3
  <2>3. q * d <= cost * d
    BY <1>2, <1>3, <2>1, <2>2
  <2> HIDE DEF d, q
  <2>4. d \in Nat /\ d > 0
    BY <1>1
  <2> SUFFICES ASSUME cost + 1 <= q PROVE FALSE
    BY <1>3
  <2>5. (cost + 1) * d <= q * d
    BY <1>3, <2>4
  <2>6. (cost + 1) * d = cost * d + d
    BY <2>4
  <2> QED BY <2>2, <2>3, <2>4, <2>5, <2>6
<1> HIDE DEF q
<1>5. cost - q \in Nat
  BY <1>3, <1>4
<1>6. ComputeTax(tax, cost) \in Nat
  BY <1>1, <1>5 DEF ComputeTax, Lesser, q
<1>7. TicketFee(tax, cost) = ComputeTax(tax, cost)
  BY <1>6 DEF TicketFee, DeductTax
<1> QED BY <1>6, <1>7 DEF TicketWithFees

\* What the chain takes for a transfer is a natural.
LEMMA SendCostType ==
  ASSUME NEW tax \in TaxType, NEW cost \in Nat
  PROVE  SendCost(tax, cost) \in Nat
<1>1. tax.rate \in Nat /\ tax.cap \in Nat /\ cost * tax.rate \in Nat
  BY DEF TaxType
<1>2. (cost * tax.rate) \div Unit \in Nat
  BY <1>1, UnitAssumption, DivBounds
<1> QED BY <1>1, <1>2 DEF SendCost, NetworkTax, Lesser


-----------------------------------------------------------------------------
(* What the type invariant gives.                                           *)

\* Every holder's numbers are naturals, its rewards among them.
LEMMA HolderNumbers ==
  ASSUME StakingTypeOK, NEW h \in Holders
  PROVE  /\ holders[h] \in Holder
         /\ holders[h].balance \in Nat
         /\ holders[h].index \in Nat
         /\ holders[h].pending_rewards \in Nat
         /\ holders[h].index <= global_index
         /\ global_index \in Nat
         /\ CalculateDecimalRewards(holders[h].index, holders[h].balance)
              = holders[h].balance * (global_index - holders[h].index)
         /\ CalculateDecimalRewards(holders[h].index, holders[h].balance) \in Nat
         /\ AllRewards(h)
              = holders[h].balance * (global_index - holders[h].index)
                  + holders[h].pending_rewards
         /\ AllRewards(h) \in Nat
<1>1. holders[h] \in Holder /\ global_index \in Nat
      /\ holders[h].index <= global_index
  BY UintIsNat DEF StakingTypeOK
<1>2. /\ holders[h].balance \in Nat
      /\ holders[h].index \in Nat
      /\ holders[h].pending_rewards \in Nat
  BY <1>1, UintIsNat DEF Holder
<1>3. /\ CalculateDecimalRewards(holders[h].index, holders[h].balance)
           = holders[h].balance * (global_index - holders[h].index)
      /\ holders[h].balance * (global_index - holders[h].index) \in Nat
  BY <1>1, <1>2, RewardsExact DEF CalculateDecimalRewards
<1>4. AllRewards(h) = holders[h].balance * (global_index - holders[h].index)
                        + holders[h].pending_rewards
  <2> DEFINE earned == holders[h].balance * (global_index - holders[h].index)
  <2>1. AllRewards(h) = DecimalSummation(earned, holders[h].pending_rewards)
    BY <1>3 DEF AllRewards
  <2>2. earned \in Nat
    BY <1>3
  <2> HIDE DEF earned
  <2>3. AllRewards(h) = earned + holders[h].pending_rewards
    BY <1>2, <2>1, <2>2 DEF DecimalSummation
  <2> QED BY <2>3 DEF earned
<1> QED BY <1>1, <1>2, <1>3, <1>4

\* The claims of a holder are finitely many, and their amounts add up.
LEMMA ClaimSums ==
  ASSUME StakingTypeOK, NEW cs, cs \subseteq claims
  PROVE  IsFiniteSet(cs) /\ AmountOf(cs) \in Nat
<1>1. IsFiniteSet(cs)
  BY FS_Subset DEF StakingTypeOK
<1>2. \A c \in cs : c.amount \in Nat
  BY UintIsNat DEF StakingTypeOK, Claim
<1>3. \A c \in cs : [d \in cs |-> d.amount][c] \in Nat
  BY <1>2
<1> QED BY <1>1, <1>3, SumType DEF AmountOf

\* A new claim goes after every other one of its owner.
LEMMA NextPositionIsNew ==
  ASSUME StakingTypeOK, NEW h
  PROVE  /\ NextPosition(h) \in Nat
         /\ \A c \in ClaimsOf(h) : c.position < NextPosition(h)
<1> DEFINE positions == {c.position : c \in ClaimsOf(h)}
<1>1. ClaimsOf(h) \subseteq claims
  BY DEF ClaimsOf
<1>2. IsFiniteSet(positions)
  <2> DEFINE place == [c \in ClaimsOf(h) |-> c.position]
  <2>1. place \in Surjection(ClaimsOf(h), positions)
    BY DEF Surjection
  <2>2. IsFiniteSet(ClaimsOf(h))
    BY <1>1, ClaimSums
  <2> HIDE DEF place, positions
  <2> QED BY <2>1, <2>2, FS_Surjection
<1>3. positions \subseteq Nat
  BY <1>1 DEF StakingTypeOK, Claim
<1> DEFINE zero == {0}
           all == zero \cup positions
<1>4. IsFiniteSet(all)
  <2>1. IsFiniteSet(zero)
    BY FS_Singleton
  <2> HIDE DEF zero, positions
  <2> QED BY <1>2, <2>1, FS_Union
<1>5. all # {} /\ all \subseteq Int /\ all \subseteq Nat
  BY <1>3
<1>6. Max(all) \in all /\ \A p \in all : p <= Max(all)
  <2> HIDE DEF all
  <2> QED BY <1>4, <1>5, MaxElement
<1>7. Max(all) \in Nat /\ \A p \in positions : p <= Max(all)
  BY <1>5, <1>6
<1>8. NextPosition(h) = 1 + Max(all)
  BY DEF NextPosition
<1>9. \A c \in ClaimsOf(h) : c.position \in Nat /\ c.position <= Max(all)
  BY <1>3, <1>7
<1> HIDE DEF all
<1> QED BY <1>7, <1>8, <1>9

-----------------------------------------------------------------------------
(* The amounts waiting in claims.                                           *)

LEMMA AmountUnion ==
  ASSUME NEW S, IsFiniteSet(S), NEW T, IsFiniteSet(T), S \cap T = {},
         \A c \in S \cup T : c.amount \in Nat
  PROVE  AmountOf(S \cup T) = AmountOf(S) + AmountOf(T)
<1> DEFINE both == [c \in S \cup T |-> c.amount]
           left == [c \in S |-> c.amount]
           right == [c \in T |-> c.amount]
<1>1. /\ \A c \in S \cup T : both[c] \in Nat
      /\ \A c \in S : both[c] = left[c]
      /\ \A c \in T : both[c] = right[c]
  OBVIOUS
<1>2. SumOver(S \cup T, both) = SumOver(S, both) + SumOver(T, both)
  <2> HIDE DEF both
  <2> QED BY <1>1, SumUnion
<1>3. SumOver(S, both) = SumOver(S, left) /\ SumOver(T, both) = SumOver(T, right)
  <2> HIDE DEF both, left, right
  <2> QED BY <1>1, SumCongruence
<1> QED BY <1>2, <1>3 DEF AmountOf

\* A paid claim takes its amount with it.
LEMMA PaidAmount ==
  ASSUME StakingTypeOK, NEW paid, paid \subseteq claims
  PROVE  AmountOf(claims) = AmountOf(claims \ paid) + AmountOf(paid)
<1>1. \A c \in claims : c.amount \in Nat
  BY UintIsNat DEF StakingTypeOK, Claim
<1>2. /\ IsFiniteSet(claims \ paid) /\ IsFiniteSet(paid)
      /\ claims = (claims \ paid) \cup paid
      /\ (claims \ paid) \cap paid = {}
  BY FS_Subset DEF StakingTypeOK
<1>3. AmountOf((claims \ paid) \cup paid) = AmountOf(claims \ paid) + AmountOf(paid)
  BY <1>1, <1>2, AmountUnion
<1> QED BY <1>2, <1>3

\* One more claim adds its amount.
LEMMA AddedAmount ==
  ASSUME NEW cs, IsFiniteSet(cs), \A c \in cs : c.amount \in Nat,
         NEW new, new.amount \in Nat, new \notin cs
  PROVE  AmountOf(cs \cup {new}) = AmountOf(cs) + new.amount
<1> DEFINE news == {new}
           f == [c \in news |-> c.amount]
<1>1. f[new] = new.amount /\ \A c \in news : f[c] \in Nat
  OBVIOUS
<1>2. IsFiniteSet(news) /\ new \in news /\ news \ {new} = {}
  BY FS_Singleton
<1>3. AmountOf(news) = new.amount
  <2> HIDE DEF f, news
  <2>1. SumOver(news, f) = SumOver(news \ {new}, f) + f[new]
    BY <1>1, <1>2, SumSplit
  <2>2. SumOver({}, f) = 0
    BY SumEmpty
  <2> QED BY <1>1, <1>2, <2>1, <2>2 DEF AmountOf, f
<1>4. cs \cap news = {} /\ \A c \in cs \cup news : c.amount \in Nat
  OBVIOUS
<1> HIDE DEF news
<1>5. AmountOf(cs \cup news) = AmountOf(cs) + AmountOf(news)
  BY <1>2, <1>4, AmountUnion
<1> QED BY <1>3, <1>5 DEF news

\* A new claim adds its amount to all claims and to those of its owner: no
\* claim is there already in its place.
LEMMA NewAmount ==
  ASSUME StakingTypeOK, NEW h \in Holders, NEW amount \in Uint,
         NEW release_at \in Nat, CreateClaim(h, amount, release_at)
  PROVE  /\ AmountOf(claims') = AmountOf(claims) + amount
         /\ AmountOf(ClaimsOf(h)') = AmountOf(ClaimsOf(h)) + amount
<1> DEFINE new == [owner |-> h, position |-> NextPosition(h),
                   amount |-> amount, release_at |-> release_at]
<1>1. new.amount = amount /\ new.owner = h /\ new.position = NextPosition(h)
  OBVIOUS
<1>2. /\ claims' = claims \cup {new}
      /\ ClaimsOf(h)' = ClaimsOf(h) \cup {new}
  BY DEF CreateClaim, ClaimsOf
<1>3. new \notin claims /\ new \notin ClaimsOf(h)
  <2> SUFFICES ASSUME new \in claims PROVE FALSE
    BY DEF ClaimsOf
  <2>1. new \in ClaimsOf(h)
    BY <1>1 DEF ClaimsOf
  <2> QED BY <1>1, <2>1, NextPositionIsNew
<1>4. /\ IsFiniteSet(claims) /\ IsFiniteSet(ClaimsOf(h))
      /\ \A c \in claims : c.amount \in Nat
      /\ \A c \in ClaimsOf(h) : c.amount \in Nat
  <2>1. ClaimsOf(h) \subseteq claims
    BY DEF ClaimsOf
  <2> QED BY <2>1, ClaimSums, UintIsNat DEF StakingTypeOK, Claim
<1>5. amount \in Nat
  BY UintIsNat
<1> HIDE DEF new
<1> QED BY <1>1, <1>2, <1>3, <1>4, <1>5, AddedAmount

-----------------------------------------------------------------------------
(* Bonding and unbonding.                                                   *)

\* Moving stake settles one holder: nobody's rewards change, and one balance
\* does.
LEMMA MoveStakeKeeps ==
  ASSUME StakingTypeOK, NEW h \in Holders,
         NEW balance \in Nat, NEW total \in Nat, MoveStake(h, balance, total)
  PROVE  /\ global_index' \in Uint
         /\ total_balance' \in Uint
         /\ prev_reward_balance' \in Uint
         /\ holders' \in [Holders -> Holder]
         /\ \A g \in Holders : holders'[g].index <= global_index'
         /\ holders'[h].balance = balance
         /\ \A g \in Holders : g # h => holders'[g] = holders[g]
         /\ \A g \in Holders : AllRewards(g)' = AllRewards(g)
<1> DEFINE record == [Settled(h) EXCEPT !.balance = balance]
<1>1. holders' = [holders EXCEPT ![h] = record]
  BY DEF MoveStake
<1>2. AllRewards(h) \in Uint /\ AllRewards(h) \in Nat
  <2>1. Fits(AllRewards(h))
    BY DEF MoveStake, RewardsComputable
  <2> QED BY <2>1, HolderNumbers, FitsIsUint
<1>3. balance \in Uint /\ total \in Uint
  BY FitsIsUint DEF MoveStake
<1>4. /\ holders[h] \in Holder
      /\ global_index \in Uint /\ global_index \in Nat
      /\ prev_reward_balance \in Uint
      /\ holders \in [Holders -> Holder]
  BY HolderNumbers DEF StakingTypeOK
<1>5. /\ record \in Holder
      /\ record.balance = balance
      /\ record.index = global_index
      /\ record.pending_rewards = AllRewards(h)
  <2> DEFINE settled == Settled(h)
  <2>1. /\ settled \in Holder
        /\ settled.index = global_index
        /\ settled.pending_rewards = AllRewards(h)
    BY <1>2, <1>4 DEF Holder, Settled
  <2>2. record = [settled EXCEPT !.balance = balance]
    OBVIOUS
  <2> HIDE DEF settled, record
  <2> QED BY <1>3, <2>1, <2>2 DEF Holder
<1> HIDE DEF record
<1>7. /\ global_index' = global_index
      /\ prev_reward_balance' = prev_reward_balance
      /\ total_balance' = total
  BY DEF MoveStake
<1>8. /\ holders'[h] = record
      /\ \A g \in Holders : g # h => holders'[g] = holders[g]
      /\ holders' \in [Holders -> Holder]
  BY <1>1, <1>4, <1>5
<1>9. \A g \in Holders : holders'[g].index <= global_index'
  BY <1>4, <1>5, <1>7, <1>8, HolderNumbers
<1>10. ASSUME NEW g \in Holders PROVE AllRewards(g)' = AllRewards(g)
  <2>1. CASE g = h
    <3>1. /\ holders'[h].index = global_index
          /\ holders'[h].balance = balance
          /\ holders'[h].pending_rewards = AllRewards(h)
      BY <1>5, <1>8
    <3>2. AllRewards(h)' =
            DecimalSummation(
              DecimalMultiplication(
                DecimalSubtraction(global_index, global_index),
                FromRatio(balance, 1)), AllRewards(h))
      BY <1>7, <3>1 DEF AllRewards, CalculateDecimalRewards
    <3> QED BY <1>2, <1>4, <2>1, <3>2, SettledRewards
  <2>2. CASE g # h
    BY <1>7, <1>8, <2>2 DEF AllRewards, CalculateDecimalRewards
  <2> QED BY <2>1, <2>2
<1> QED BY <1>3, <1>4, <1>5, <1>7, <1>8, <1>9, <1>10

\* Bonding is a deposit of the ledger.
LEMMA BondKeeps ==
  ASSUME StakingInv, NEW sender, NEW funds, NEW h \in Holders,
         NEW amount \in Uint, Bond(sender, funds, h, amount)
  PROVE  StakingTypeOK' /\ L!Deposit(h, amount)
<1> DEFINE balance == holders[h].balance + amount
           total == total_balance + amount
<1>1. /\ StakingTypeOK
      /\ amount \in Nat /\ amount > 0
      /\ holders[h].balance \in Nat /\ total_balance \in Nat
      /\ balance \in Nat /\ total \in Nat
  BY UintIsNat, HolderNumbers DEF StakingInv, Bond, StakingTypeOK
<1>2. MoveStake(h, balance, total)
  BY DEF Bond
<1>3. /\ global_index' \in Uint
      /\ total_balance' \in Uint
      /\ prev_reward_balance' \in Uint
      /\ holders' \in [Holders -> Holder]
      /\ \A g \in Holders : holders'[g].index <= global_index'
      /\ holders'[h].balance = balance
      /\ \A g \in Holders : g # h => holders'[g] = holders[g]
      /\ \A g \in Holders : AllRewards(g)' = AllRewards(g)
  <2> HIDE DEF balance, total
  <2> QED BY <1>1, <1>2, MoveStakeKeeps
<1>4. StakingTypeOK'
  BY <1>1, <1>3 DEF Bond, StakingTypeOK, lottery
<1>5. total_balance' = total /\ prev_reward_balance' = prev_reward_balance
  BY <1>2 DEF MoveStake
<1>6. L!Deposit(h, amount)
  <2>1. [g \in Holders |-> holders'[g].balance]
          = [[g \in Holders |-> holders[g].balance] EXCEPT ![h] = @ + amount]
    BY <1>3
  <2>2. [g \in Holders |-> AllRewards(g)']
          = [g \in Holders |-> AllRewards(g)]
    BY <1>3
  <2> QED BY <1>1, <1>5, <2>1, <2>2 DEF L!Deposit
<1> QED BY <1>4, <1>6

\* A claim created after every other of its owner keeps the claims in order.
LEMMA CreateClaimKeeps ==
  ASSUME StakingTypeOK, NEW h \in Holders, NEW amount \in Uint,
         NEW release_at \in Nat, CreateClaim(h, amount, release_at)
  PROVE  /\ claims' \subseteq Claim
         /\ IsFiniteSet(claims')
         /\ \A c, d \in claims' :
              c.owner = d.owner /\ c.position = d.position => c = d
<1> DEFINE new == [owner |-> h, position |-> NextPosition(h),
                   amount |-> amount, release_at |-> release_at]
           news == {new}
<1>1. new \in Claim /\ new.owner = h /\ new.position = NextPosition(h)
  BY NextPositionIsNew DEF Claim
<1>2. claims' = claims \cup news
  BY DEF CreateClaim
<1>3. IsFiniteSet(news)
  BY FS_Singleton
<1>4. IsFiniteSet(claims')
  <2> HIDE DEF news
  <2> QED BY <1>2, <1>3, FS_Union DEF StakingTypeOK
<1>5. ASSUME NEW c \in claims, c.owner = h
      PROVE  c.position \in Nat /\ c.position < NextPosition(h)
  <2>1. c \in ClaimsOf(h)
    BY <1>5 DEF ClaimsOf
  <2> QED BY <2>1, NextPositionIsNew DEF StakingTypeOK, Claim
<1>6. \A c \in claims : c.owner = h => c.position # NextPosition(h)
  <2>1. NextPosition(h) \in Nat
    BY NextPositionIsNew
  <2> QED BY <1>5, <2>1
<1> HIDE DEF new
<1>7. \A c, d \in claims' :
        c.owner = d.owner /\ c.position = d.position => c = d
  BY <1>1, <1>2, <1>6 DEF StakingTypeOK
<1>8. claims' \subseteq Claim
  BY <1>1, <1>2 DEF StakingTypeOK
<1> QED BY <1>4, <1>7, <1>8

\* No balance exceeds the total.
LEMMA BalanceBelowTotal ==
  ASSUME StakingInv, NEW h \in Holders
  PROVE  holders[h].balance <= total_balance
<1> DEFINE stake == [g \in Holders |-> holders[g].balance]
<1>1. \A g \in Holders : stake[g] \in Nat
  BY HolderNumbers DEF StakingInv
<1>2. total_balance = SumOver(Holders, stake)
  BY LedgerSumOver DEF StakingInv, L!LedgerInv, L!TotalIsStaked
<1>3. stake[h] <= SumOver(Holders, stake)
  <2> HIDE DEF stake
  <2> QED BY <1>1, HoldersAssumption, SumBound
<1> QED BY <1>2, <1>3

\* Unbonding leaves the ledger.
LEMMA UnbondKeeps ==
  ASSUME StakingInv, NEW sender, NEW funds, NEW h \in Holders,
         NEW amount \in Uint, UnbondStake(sender, funds, h, amount)
  PROVE  StakingTypeOK' /\ L!Leave(h, amount)
<1> DEFINE balance == holders[h].balance - amount
           total == total_balance - amount
<1>1. /\ StakingTypeOK
      /\ amount \in Nat /\ amount > 0 /\ amount <= holders[h].balance
      /\ holders[h].balance \in Nat /\ total_balance \in Nat
      /\ balance \in Nat /\ total \in Nat
  BY UintIsNat, HolderNumbers, BalanceBelowTotal
     DEF StakingInv, UnbondStake, StakingTypeOK
<1>2. MoveStake(h, balance, total)
  BY DEF UnbondStake
<1>3. /\ global_index' \in Uint
      /\ total_balance' \in Uint
      /\ prev_reward_balance' \in Uint
      /\ holders' \in [Holders -> Holder]
      /\ \A g \in Holders : holders'[g].index <= global_index'
      /\ holders'[h].balance = balance
      /\ \A g \in Holders : g # h => holders'[g] = holders[g]
      /\ \A g \in Holders : AllRewards(g)' = AllRewards(g)
  <2> HIDE DEF balance, total
  <2> QED BY <1>1, <1>2, MoveStakeKeeps
<1>4. /\ claims' \subseteq Claim
      /\ IsFiniteSet(claims')
      /\ \A c, d \in claims' :
           c.owner = d.owner /\ c.position = d.position => c = d
  <2>1. height + UnbondingPeriod \in Nat
    BY <1>1, UnbondingAssumption DEF StakingTypeOK
  <2>2. CreateClaim(h, amount, height + UnbondingPeriod)
    BY DEF UnbondStake
  <2> QED BY <1>1, <2>1, <2>2, CreateClaimKeeps
<1>5. StakingTypeOK'
  BY <1>1, <1>3, <1>4 DEF UnbondStake, StakingTypeOK, lottery
<1>6. total_balance' = total /\ prev_reward_balance' = prev_reward_balance
  BY <1>2 DEF MoveStake
<1>7. L!Leave(h, amount)
  <2>1. [g \in Holders |-> holders'[g].balance]
          = [[g \in Holders |-> holders[g].balance] EXCEPT ![h] = @ - amount]
    BY <1>3
  <2>2. [g \in Holders |-> AllRewards(g)']
          = [g \in Holders |-> AllRewards(g)]
    BY <1>3
  <2> QED BY <1>1, <1>6, <2>1, <2>2 DEF L!Leave
<1> QED BY <1>5, <1>7

-----------------------------------------------------------------------------
(* Rewards.                                                                 *)

\* UpdateGlobalIndex distributes what the balance has grown by.
LEMMA UpdateKeeps ==
  ASSUME StakingInv, NEW sender, NEW funds \in Nat,
         UpdateGlobalIndex(sender, funds)
  PROVE  /\ StakingTypeOK'
         /\ \E amount \in Uint : L!Distribute(amount)
<1> DEFINE balance == staking_uusd + funds
           claimed == balance - prev_reward_balance
           share == FromRatio(claimed, total_balance)
<1>1. /\ StakingTypeOK
      /\ staking_uusd \in Nat /\ prev_reward_balance \in Nat
      /\ global_index \in Nat
      /\ total_balance \in Nat /\ total_balance > 0
      /\ Fits(balance) /\ balance >= prev_reward_balance
  BY UintIsNat DEF StakingInv, StakingTypeOK, UpdateGlobalIndex
<1>2. balance \in Uint /\ claimed \in Uint /\ claimed \in Nat
  <2>1. balance \in Nat /\ claimed \in Nat /\ claimed <= balance
    BY <1>1
  <2>2. balance \in Uint /\ balance - prev_reward_balance \in Uint
    <3> HIDE DEF balance
    <3> QED BY <1>1, <2>1, FitsIsUint, LessIsUint
  <2> QED BY <2>1, <2>2
<1>3. share \in Nat
  <2> HIDE DEF claimed
  <2> QED BY <1>1, <1>2, RatioBelow
<1>4. /\ prev_reward_balance' = balance
      /\ staking_uusd' = balance
      /\ global_index' = DecimalSummation(global_index, share)
      /\ Fits(global_index')
      /\ UNCHANGED <<total_balance, holders, claims, combinations, height, lottery>>
  BY DEF UpdateGlobalIndex
<1> HIDE DEF share
<1>5. global_index' = global_index + share /\ global_index' \in Nat
  BY <1>1, <1>3, <1>4 DEF DecimalSummation
<1>6. global_index' \in Uint
  BY <1>4, <1>5, FitsIsUint
<1>7. \A h \in Holders : holders'[h].index <= global_index'
  <2> SUFFICES ASSUME NEW h \in Holders PROVE holders'[h].index <= global_index'
    OBVIOUS
  <2>1. holders[h].index \in Nat /\ holders[h].index <= global_index
    BY <1>1, HolderNumbers
  <2> QED BY <1>1, <1>3, <1>4, <1>5, <2>1
<1>8. StakingTypeOK'
  BY <1>1, <1>2, <1>4, <1>6, <1>7 DEF StakingTypeOK, lottery
<1>9. ASSUME NEW h \in Holders
      PROVE  AllRewards(h)' = AllRewards(h) + holders[h].balance * share
  <2>1. /\ holders[h].balance \in Nat
        /\ holders[h].index \in Nat /\ holders[h].index <= global_index
        /\ holders[h].pending_rewards \in Nat
        /\ AllRewards(h) = holders[h].balance * (global_index - holders[h].index)
                             + holders[h].pending_rewards
    BY <1>1, HolderNumbers
  <2>2. /\ holders[h].index <= global_index'
        /\ global_index' - holders[h].index
             = (global_index - holders[h].index) + share
    BY <1>1, <1>3, <1>5, <2>1
  <2>3. AllRewards(h)' = holders[h].balance * (global_index' - holders[h].index)
                           + holders[h].pending_rewards
    <3>1. AllRewards(h)' =
            DecimalSummation(
              DecimalMultiplication(
                DecimalSubtraction(global_index', holders[h].index),
                FromRatio(holders[h].balance, 1)), holders[h].pending_rewards)
      BY <1>4 DEF AllRewards, CalculateDecimalRewards
    <3>2. DecimalMultiplication(
            DecimalSubtraction(global_index', holders[h].index),
            FromRatio(holders[h].balance, 1))
              = holders[h].balance * (global_index' - holders[h].index)
      BY <1>5, <2>1, <2>2, RewardsExact
    <3>3. holders[h].balance * (global_index' - holders[h].index) \in Nat
      BY <1>5, <2>1, <2>2, RewardsExact
    <3> QED BY <2>1, <3>1, <3>2, <3>3 DEF DecimalSummation
  <2> DEFINE grown == global_index - holders[h].index
             b == holders[h].balance
  <2>4. grown \in Nat /\ b \in Nat
    BY <1>1, <2>1
  <2>5. b * (grown + share) = b * grown + b * share
    <3> HIDE DEF grown, b
    <3> QED BY <1>3, <2>4
  <2>6. b * grown \in Nat /\ b * share \in Nat
    <3> HIDE DEF grown, b
    <3> QED BY <1>3, <2>4
  <2> QED BY <2>1, <2>2, <2>3, <2>5, <2>6
<1>10. L!Distribute(claimed)
  <2>1. [h \in Holders |-> AllRewards(h)']
          = [h \in Holders |-> AllRewards(h) + holders[h].balance * share]
    BY <1>9
  <2>2. prev_reward_balance' = prev_reward_balance + claimed
    BY <1>1, <1>4
  <2>3. [h \in Holders |-> holders'[h].balance] = [h \in Holders |-> holders[h].balance]
    BY <1>4
  <2>4. L!Share(claimed) = share
    BY LedgerShare DEF share
  <2> HIDE DEF claimed
  <2> QED BY <1>1, <1>4, <2>1, <2>2, <2>3, <2>4 DEF L!Distribute
<1> QED BY <1>2, <1>8, <1>10

\* GetTicket spends whole rewards of the holder.
LEMMA GetTicketKeeps ==
  ASSUME StakingInv, NEW h \in Holders, NEW combination \in Combinations,
         NEW price \in Uint, NEW tax \in TaxType,
         GetTicket(h, combination, price, tax)
  PROVE  /\ StakingTypeOK'
         /\ \E cost \in Uint : L!Spend(h, cost)
<1> DEFINE cost == TicketCost(combination, price)
           spent == TicketWithFees(tax, cost)
           rewards == QueryAccruedRewards(h)
           left == FromRatio(rewards - spent, 1)
           fields == [holders[h] EXCEPT !.pending_rewards = left,
                                        !.index = global_index]
<1>1. /\ StakingTypeOK
      /\ Len(combination) \in Nat
      /\ Range(combination) \subseteq UNION {Range(s) : s \in Combinations}
      /\ price \in Nat
      /\ holders[h] \in Holder
      /\ global_index \in Uint /\ global_index \in Nat
      /\ prev_reward_balance \in Uint /\ prev_reward_balance \in Nat
      /\ staking_uusd \in Uint /\ staking_uusd \in Nat
  BY InputsAssumption, UintIsNat, HolderNumbers DEF StakingInv, StakingTypeOK
<1>2. cost \in Nat
  BY <1>1 DEF TicketCost
<1>3. spent \in Nat /\ SendCost(tax, cost) \in Nat
  <2> HIDE DEF cost
  <2> QED BY <1>2, TicketFeeType, SendCostType
<1>4. AllRewards(h) \in Nat /\ rewards \in Nat
  BY <1>1, HolderNumbers, FloorBelow DEF QueryAccruedRewards
<1>5. /\ RewardsComputable(h)
      /\ rewards >= spent
      /\ Fits(spent) /\ Fits(left)
      /\ prev_reward_balance >= spent
      /\ SendCost(tax, cost) <= staking_uusd
      /\ combinations' = combinations \cup CombinationKeys(h, combination)
      /\ prev_reward_balance' = prev_reward_balance - spent
      /\ holders' = [holders EXCEPT ![h].pending_rewards = left,
                                    ![h].index = global_index]
      /\ staking_uusd' = staking_uusd - SendCost(tax, cost)
      /\ lottery_tickets' = lottery_tickets + Len(combination)
      /\ UNCHANGED <<global_index, total_balance, claims, height, lottery_counter>>
  BY DEF GetTicket
<1> HIDE DEF spent, cost, rewards
<1>6. left = (rewards - spent) * Unit /\ left \in Nat /\ left \in Uint
  <2>1. rewards - spent \in Nat
    BY <1>3, <1>4, <1>5
  <2>2. left = (rewards - spent) * Unit /\ left \in Nat
    BY <2>1, WholeDecimal
  <2> HIDE DEF left
  <2> QED BY <1>5, <2>2, FitsIsUint
<1> HIDE DEF left
<1>7. /\ fields \in Holder
      /\ fields.balance = holders[h].balance
      /\ fields.index = global_index
      /\ fields.pending_rewards = left
  BY <1>1, <1>6 DEF Holder
<1>8. holders' = [holders EXCEPT ![h] = fields]
  BY <1>1, <1>5 DEF StakingTypeOK, Holder
<1> HIDE DEF fields
<1>9. /\ holders' \in [Holders -> Holder]
      /\ holders'[h] = fields
      /\ \A g \in Holders : g # h => holders'[g] = holders[g]
  BY <1>1, <1>7, <1>8 DEF StakingTypeOK
<1>10. \A g \in Holders : holders'[g].index <= global_index'
  BY <1>1, <1>5, <1>7, <1>9, HolderNumbers
<1>11. combinations' \subseteq Nat \X Holders \X UNION {Range(s) : s \in Combinations}
  BY <1>1, <1>5 DEF StakingTypeOK, CombinationKeys
<1>12. prev_reward_balance' \in Uint /\ staking_uusd' \in Uint
  BY <1>1, <1>3, <1>5, LessIsUint
<1>13. lottery_tickets' \in Nat
  BY <1>1, <1>5 DEF StakingTypeOK
<1>14. StakingTypeOK'
  BY <1>1, <1>5, <1>9, <1>10, <1>11, <1>12, <1>13 DEF StakingTypeOK
<1>15. AllRewards(h)' = left
  <2>1. AllRewards(h)' =
          DecimalSummation(
            DecimalMultiplication(
              DecimalSubtraction(global_index, global_index),
              FromRatio(holders[h].balance, 1)), left)
    BY <1>5, <1>7, <1>9 DEF AllRewards, CalculateDecimalRewards
  <2> QED BY <1>1, <1>6, <2>1, HolderNumbers, SettledRewards
<1>16. \A g \in Holders : g # h => AllRewards(g)' = AllRewards(g)
  BY <1>5, <1>9 DEF AllRewards, CalculateDecimalRewards
<1>17. L!Spend(h, spent)
  <2> DEFINE owed == [g \in Holders |-> AllRewards(g)]
  <2>1. [g \in Holders |-> AllRewards(g)']
          = [owed EXCEPT ![h] = (rewards - spent) * Unit]
    BY <1>6, <1>15, <1>16
  <2>2. L!Floor(owed[h]) = rewards
    BY LedgerFloor DEF rewards, QueryAccruedRewards
  <2>3. [g \in Holders |-> holders'[g].balance] = [g \in Holders |-> holders[g].balance]
    BY <1>7, <1>9
  <2> QED BY <1>3, <1>4, <1>5, <2>1, <2>2, <2>3 DEF L!Spend
<1>18. spent \in Uint
  BY <1>3, <1>5, FitsIsUint
<1> QED BY <1>14, <1>17, <1>18

-----------------------------------------------------------------------------
(* What leaves the ledger alone.                                            *)

\* Paying claims and giving rewards, blocks and draws change neither stakes
\* nor rewards.
LEMMA LedgerUnchanged ==
  ASSUME UNCHANGED <<state, holders>>
  PROVE  UNCHANGED L!ledgerVars
BY DEF L!ledgerVars, state, AllRewards, CalculateDecimalRewards

LEMMA WithdrawKeeps ==
  ASSUME StakingInv, NEW sender, NEW h \in Holders, NEW cap, NEW paid,
         WithdrawStake(sender, h, cap, paid)
  PROVE  StakingTypeOK' /\ UNCHANGED L!ledgerVars
<1>1. claims' \subseteq claims
  BY DEF WithdrawStake
<1>2. IsFiniteSet(claims')
  BY <1>1, FS_Subset DEF StakingInv, StakingTypeOK
<1>3. StakingTypeOK'
  BY <1>1, <1>2 DEF WithdrawStake, StakingInv, StakingTypeOK, state, lottery
<1> QED BY <1>3, LedgerUnchanged DEF WithdrawStake

LEMMA GiveKeeps ==
  ASSUME StakingInv, NEW amount \in Uint, GiveRewards(amount)
  PROVE  StakingTypeOK' /\ UNCHANGED L!ledgerVars
<1>1. staking_uusd + amount \in Nat
  BY UintIsNat DEF StakingInv, StakingTypeOK
<1>2. staking_uusd' \in Uint
  BY <1>1, FitsIsUint DEF GiveRewards
<1>3. StakingTypeOK'
  BY <1>2 DEF GiveRewards, StakingInv, StakingTypeOK, state, lottery
<1> QED BY <1>3, LedgerUnchanged DEF GiveRewards

LEMMA ClocksKeep ==
  ASSUME StakingInv, NextBlock \/ NextLottery
  PROVE  StakingTypeOK' /\ UNCHANGED L!ledgerVars
<1>1. StakingTypeOK'
  BY DEF NextBlock, NextLottery, StakingInv, StakingTypeOK, state, lottery
<1> QED BY <1>1, LedgerUnchanged DEF NextBlock, NextLottery

-----------------------------------------------------------------------------
(* The refinement and the invariant.                                        *)

LEMMA StakingInitInv == StakingInit => StakingInv /\ L!Init
<1> SUFFICES ASSUME StakingInit PROVE StakingInv /\ L!Init
  OBVIOUS
<1>1. StakingTypeOK
  BY ZeroIsUint, FS_EmptySet
     DEF StakingInit, StakingTypeOK, Holder, NoHolder
<1>2. ASSUME NEW h \in Holders PROVE holders[h].balance = 0 /\ AllRewards(h) = 0
  <2>1. /\ holders[h].balance = 0 /\ holders[h].pending_rewards = 0
        /\ holders[h].index = 0 /\ global_index = 0
    BY DEF StakingInit, NoHolder
  <2> QED BY <2>1, SettledRewards DEF AllRewards, CalculateDecimalRewards
<1>3. L!Init
  BY <1>2 DEF L!Init, StakingInit
<1>4. L!LedgerInv
  BY <1>3, L!LedgerInitInv, UnitAssumption, MaxUintAssumption, LedgerAccounts
<1> QED BY <1>1, <1>3, <1>4 DEF StakingInv

\* Every step is a step of the ledger or leaves it alone.
LEMMA StakingStepRefines ==
  ASSUME StakingInv, [StakingNext]_stakingVars
  PROVE  StakingTypeOK' /\ [L!Next]_(L!ledgerVars)
<1>1. ASSUME NEW sender \in Callers, NEW funds \in Rewards, NEW h \in Holders,
             NEW amount \in Amounts, Bond(sender, funds, h, amount)
      PROVE  StakingTypeOK' /\ [L!Next]_(L!ledgerVars)
  <2>1. amount \in Uint
    BY InputsAssumption
  <2> QED BY <1>1, <2>1, BondKeeps, LedgerUint DEF L!Next
<1>2. ASSUME NEW sender \in Callers, NEW funds \in Rewards, NEW h \in Holders,
             NEW amount \in Amounts, UnbondStake(sender, funds, h, amount)
      PROVE  StakingTypeOK' /\ [L!Next]_(L!ledgerVars)
  <2>1. amount \in Uint
    BY InputsAssumption
  <2> QED BY <1>2, <2>1, UnbondKeeps, LedgerUint DEF L!Next
<1>3. ASSUME NEW sender \in Callers, NEW h \in Holders, NEW cap \in Caps,
             NEW paid \in SUBSET ClaimsOf(h), WithdrawStake(sender, h, cap, paid)
      PROVE  StakingTypeOK' /\ [L!Next]_(L!ledgerVars)
  BY <1>3, WithdrawKeeps
<1>4. ASSUME NEW sender \in Callers, NEW funds \in Rewards,
             UpdateGlobalIndex(sender, funds)
      PROVE  StakingTypeOK' /\ [L!Next]_(L!ledgerVars)
  <2>1. funds \in Nat
    BY InputsAssumption, UintIsNat
  <2> QED BY <1>4, <2>1, UpdateKeeps, LedgerUint DEF L!Next
<1>5. ASSUME NEW h \in Holders, NEW combination \in Combinations,
             NEW price \in Prices, NEW tax \in Taxes,
             GetTicket(h, combination, price, tax)
      PROVE  StakingTypeOK' /\ [L!Next]_(L!ledgerVars)
  <2>1. price \in Uint /\ tax \in TaxType
    BY InputsAssumption
  <2> QED BY <1>5, <2>1, GetTicketKeeps, LedgerUint DEF L!Next
<1>6. ASSUME NEW amount \in Rewards, GiveRewards(amount)
      PROVE  StakingTypeOK' /\ [L!Next]_(L!ledgerVars)
  <2>1. amount \in Uint
    BY InputsAssumption
  <2> QED BY <1>6, <2>1, GiveKeeps
<1>7. CASE NextBlock \/ NextLottery
  BY <1>7, ClocksKeep
<1>8. CASE UNCHANGED stakingVars
  <2>1. StakingTypeOK'
    BY <1>8 DEF stakingVars, StakingInv, StakingTypeOK, state, lottery
  <2> QED BY <1>8, <2>1, LedgerUnchanged DEF stakingVars
<1> QED BY <1>1, <1>2, <1>3, <1>4, <1>5, <1>6, <1>7, <1>8 DEF StakingNext

LEMMA StakingStepInv ==
  StakingInv /\ [StakingNext]_stakingVars => StakingInv'
<1> SUFFICES ASSUME StakingInv, [StakingNext]_stakingVars PROVE StakingInv'
  OBVIOUS
<1>1. StakingTypeOK' /\ [L!Next]_(L!ledgerVars)
  BY StakingStepRefines
<1>2. L!LedgerInv'
  BY <1>1, L!LedgerStepInv, UnitAssumption, MaxUintAssumption, LedgerAccounts
     DEF StakingInv
<1> QED BY <1>1, <1>2 DEF StakingInv

LEMMA StakingInvariant == StakingSpec => []StakingInv
<1>1. StakingInit => StakingInv
  BY StakingInitInv
<1> QED BY <1>1, StakingStepInv, PTL DEF StakingSpec

-----------------------------------------------------------------------------
(* Results.                                                                 *)

\* Every stored amount and decimal keeps to its width, no holder's index is
\* ahead of the global one, and the claims keep their order.
THEOREM StakingTypeCorrect == StakingSpec => []StakingTypeOK
<1>1. StakingInv => StakingTypeOK
  BY DEF StakingInv
<1> QED BY <1>1, StakingInvariant, PTL

\* total_balance, the divisor of every distribution, is the sum of the
\* balances.
THEOREM StakeIsConserved == StakingSpec => []StakeConserved
<1>1. StakingInv => StakeConserved
  BY LedgerSumOver DEF StakingInv, L!LedgerInv, L!TotalIsStaked, StakeConserved
<1> QED BY <1>1, StakingInvariant, PTL

\* The rewards of all holders never exceed the rewards counted and not spent.
THEOREM RewardsAreSolvent == StakingSpec => []RewardsSolvent
<1>1. StakingInv => RewardsSolvent
  BY LedgerSumOver DEF StakingInv, L!LedgerInv, L!OwedIsCovered, RewardsSolvent
<1> QED BY <1>1, StakingInvariant, PTL

\* The two instances of the ledger, the theorems' and the property's, are one.
LEMMA OneLedger ==
  /\ L!Init => Ledger!Init
  /\ [L!Next]_(L!ledgerVars) => [Ledger!Next]_(Ledger!ledgerVars)
<1>1. L!Init => Ledger!Init
  BY DEF L!Init, Ledger!Init
<1>2. [L!Next]_(L!ledgerVars) => [Ledger!Next]_(Ledger!ledgerVars)
  <2>1. \A amount : L!Share(amount) = Ledger!Share(amount)
    BY DEF L!Share, L!FromRatio, Ledger!Share, Ledger!FromRatio
  <2>3. L!Uint = Ledger!Uint
    BY DEF L!Uint, Ledger!Uint
  <2>4. ASSUME NEW a, NEW amount
        PROVE  /\ L!Deposit(a, amount) => Ledger!Deposit(a, amount)
               /\ L!Leave(a, amount) => Ledger!Leave(a, amount)
    BY DEF L!Deposit, Ledger!Deposit, L!Leave, Ledger!Leave
  <2>5. ASSUME NEW amount
        PROVE  L!Distribute(amount) => Ledger!Distribute(amount)
    <3>1. L!Share(amount) = Ledger!Share(amount)
      BY <2>1
    <3> QED BY <3>1 DEF L!Distribute, Ledger!Distribute
  <2>6. ASSUME NEW a, NEW cost
        PROVE  L!Spend(a, cost) => Ledger!Spend(a, cost)
    BY DEF L!Spend, Ledger!Spend, L!Floor, Ledger!Floor
  <2>7. L!Next => Ledger!Next
    BY <2>3, <2>4, <2>5, <2>6 DEF L!Next, Ledger!Next
  <2>8. UNCHANGED L!ledgerVars => UNCHANGED Ledger!ledgerVars
    BY DEF L!ledgerVars, Ledger!ledgerVars
  <2> QED BY <2>7, <2>8
<1> QED BY <1>1, <1>2

\* The contract, with its global index and its lazy settling, implements the
\* ledger that shares every reward out at once.
THEOREM StakingImplementsLedger == StakingSpec => PaysLikeLedger
<1>1. StakingInv /\ [StakingNext]_stakingVars => [Ledger!Next]_(Ledger!ledgerVars)
  BY OneLedger, StakingStepRefines
<1>2. StakingInit => Ledger!Init
  BY OneLedger, StakingInitInv
<1> QED BY <1>1, <1>2, StakingInvariant, PTL
        DEF StakingSpec, PaysLikeLedger, Ledger!Spec

\* As long as balances and counted rewards stay below the limit of a Decimal,
\* no holder's rewards overflow: not even after any number of distributions.
THEOREM HoldersAreNotLockedOut == StakingSpec => []NoHolderLockedOut
<1>1. ASSUME StakingInv PROVE NoHolderLockedOut
  <2> DEFINE owed == [g \in Holders |-> AllRewards(g)]
  <2>1. \A g \in Holders : owed[g] \in Nat
    BY <1>1, HolderNumbers DEF StakingInv
  <2>2. SumOver(Holders, owed) \in Nat
    <3> HIDE DEF owed
    <3> QED BY <2>1, HoldersAssumption, SumType
  <2>3. SumOver(Holders, owed) <= prev_reward_balance * Unit
    BY <1>1, LedgerSumOver DEF StakingInv, L!LedgerInv, L!OwedIsCovered
  <2>4. prev_reward_balance * Unit \in Nat
    BY <1>1, UnitAssumption, UintIsNat DEF StakingInv, StakingTypeOK
  <2> SUFFICES ASSUME Fits(prev_reward_balance * Unit), NEW h \in Holders,
                      Fits(FromRatio(holders[h].balance, 1))
               PROVE  RewardsComputable(h)
    BY DEF NoHolderLockedOut
  <2>5. owed[h] <= SumOver(Holders, owed)
    <3> HIDE DEF owed
    <3> QED BY <2>1, HoldersAssumption, SumBound
  <2>6. AllRewards(h) <= prev_reward_balance * Unit /\ AllRewards(h) \in Nat
    <3>1. owed[h] = AllRewards(h)
      OBVIOUS
    <3> HIDE DEF owed
    <3> QED BY <2>1, <2>2, <2>3, <2>4, <2>5, <3>1
  <2>7. CalculateDecimalRewards(holders[h].index, holders[h].balance) \in Nat
        /\ CalculateDecimalRewards(holders[h].index, holders[h].balance)
             <= AllRewards(h)
    BY <1>1, HolderNumbers DEF StakingInv
  <2>8. holders[h].index <= global_index
    BY <1>1 DEF StakingInv, StakingTypeOK
  <2> QED BY <2>4, <2>6, <2>7, <2>8, MaxUintAssumption DEF RewardsComputable, Fits
<1> QED BY <1>1, StakingInvariant, PTL

\* No claim is created that waits less than the unbonding period, and none is
\* paid before it is due.
THEOREM UnbondingTakesItsTime == StakingSpec => UnbondingDelayKept
<1>1. ASSUME StakingInv, [StakingNext]_stakingVars
      PROVE  /\ \A c \in claims \ claims' : c.release_at <= height
             /\ \A c \in claims' \ claims : c.release_at >= height + UnbondingPeriod
  <2>1. ASSUME NEW sender, NEW funds, NEW h, NEW amount,
               UnbondStake(sender, funds, h, amount)
        PROVE  /\ \A c \in claims \ claims' : c.release_at <= height
               /\ \A c \in claims' \ claims :
                    c.release_at >= height + UnbondingPeriod
    <3>1. \A c \in claims' \ claims : c.release_at = height + UnbondingPeriod
      BY <2>1 DEF UnbondStake, CreateClaim
    <3>2. claims \subseteq claims'
      BY <2>1 DEF UnbondStake, CreateClaim
    <3>3. height + UnbondingPeriod \in Nat
      BY <1>1, UnbondingAssumption DEF StakingInv, StakingTypeOK
    <3> QED BY <3>1, <3>2, <3>3
  <2>2. ASSUME NEW sender, NEW h, NEW cap, NEW paid,
               WithdrawStake(sender, h, cap, paid)
        PROVE  /\ \A c \in claims \ claims' : c.release_at <= height
               /\ \A c \in claims' \ claims :
                    c.release_at >= height + UnbondingPeriod
    <3>1. claims \ claims' \subseteq paid /\ claims' \ claims = {}
      BY <2>2 DEF WithdrawStake
    <3>2. \A c \in paid : Mature(c)
      BY <2>2 DEF WithdrawStake, IsPaid
    <3>3. \A c \in claims : c.release_at \in Nat /\ height \in Nat
      BY <1>1 DEF StakingInv, StakingTypeOK, Claim
    <3> QED BY <3>1, <3>2, <3>3 DEF Mature
  <2>3. CASE UNCHANGED claims
    BY <2>3
  <2>4. ASSUME NEW sender, NEW funds, NEW h, NEW amount
        PROVE  /\ Bond(sender, funds, h, amount) => UNCHANGED claims
               /\ UpdateGlobalIndex(sender, funds) => UNCHANGED claims
               /\ GiveRewards(amount) => UNCHANGED claims
    BY DEF Bond, UpdateGlobalIndex, GiveRewards
  <2>5. ASSUME NEW h, NEW combination, NEW price, NEW tax
        PROVE  GetTicket(h, combination, price, tax) => UNCHANGED claims
    BY DEF GetTicket
  <2>6. NextBlock \/ NextLottery \/ UNCHANGED stakingVars => UNCHANGED claims
    BY DEF NextBlock, NextLottery, stakingVars
  <2> QED BY <1>1, <2>1, <2>2, <2>3, <2>4, <2>5, <2>6 DEF StakingNext
<1> QED BY <1>1, StakingInvariant, PTL DEF StakingSpec, UnbondingDelayKept

\* What leaves a holder's balance waits in its claims, to the last token, and
\* a payment of claims touches no balance.
THEOREM StakeIsInOnePlace == StakingSpec => StakeMovesIntoClaims
<1> DEFINE Moves(g) ==
      holders'[g].balance < holders[g].balance
        => holders[g].balance - holders'[g].balance
             = AmountOf(ClaimsOf(g))' - AmountOf(ClaimsOf(g))
<1> HIDE DEF Moves
<1>1. ASSUME StakingInv, [StakingNext]_stakingVars, NEW g \in Holders
      PROVE  Moves(g)
  <2> USE DEF Moves
  <2>1. StakingTypeOK /\ holders[g].balance \in Nat
    BY <1>1, HolderNumbers DEF StakingInv
  <2>2. CASE holders'[g].balance = holders[g].balance
    BY <2>1, <2>2
  <2>3. ASSUME NEW sender, NEW funds, NEW h \in Holders, NEW amount \in Amounts,
               Bond(sender, funds, h, amount)
        PROVE  Moves(g)
    <3>1. amount \in Nat /\ amount \in Uint
      BY InputsAssumption, UintIsNat
    <3>2. holders'[g] = holders[g]
            \/ holders'[g].balance = holders[g].balance + amount
      BY <2>1, <2>3 DEF Bond, MoveStake, StakingTypeOK
    <3> QED BY <2>1, <2>2, <3>1, <3>2
  <2>4. ASSUME NEW sender, NEW funds, NEW h \in Holders, NEW amount \in Amounts,
               UnbondStake(sender, funds, h, amount)
        PROVE  Moves(g)
    <3>1. amount \in Nat /\ amount \in Uint /\ height + UnbondingPeriod \in Nat
      BY <2>1, InputsAssumption, UintIsNat, UnbondingAssumption DEF StakingTypeOK
    <3>2. /\ g = h => holders'[g].balance = holders[g].balance - amount
          /\ g # h => holders'[g] = holders[g]
      BY <2>1, <2>4 DEF UnbondStake, MoveStake, StakingTypeOK
    <3>3. CASE g = h
      <4>1. CreateClaim(g, amount, height + UnbondingPeriod)
        BY <2>4, <3>3 DEF UnbondStake
      <4>2. AmountOf(ClaimsOf(g)') = AmountOf(ClaimsOf(g)) + amount
        BY <2>1, <3>1, <4>1, NewAmount
      <4>3. AmountOf(ClaimsOf(g))' = AmountOf(ClaimsOf(g)')
        BY DEF AmountOf
      <4>4. ClaimsOf(g) \subseteq claims
        BY DEF ClaimsOf
      <4>5. AmountOf(ClaimsOf(g)) \in Nat
        BY <2>1, <4>4, ClaimSums
      <4> QED BY <2>1, <3>1, <3>2, <3>3, <4>2, <4>3, <4>5
    <3> QED BY <2>2, <3>2, <3>3
  <2>5. ASSUME NEW sender, NEW h, NEW cap, NEW paid,
               WithdrawStake(sender, h, cap, paid)
        PROVE  Moves(g)
    BY <2>2, <2>5 DEF WithdrawStake
  <2>6. ASSUME NEW sender, NEW funds, UpdateGlobalIndex(sender, funds)
        PROVE  Moves(g)
    BY <2>2, <2>6 DEF UpdateGlobalIndex
  <2>7. ASSUME NEW h \in Holders, NEW combination, NEW price, NEW tax,
               GetTicket(h, combination, price, tax)
        PROVE  Moves(g)
    <3>1. holders'[g].balance = holders[g].balance
      BY <2>1, <2>7 DEF GetTicket, StakingTypeOK, Holder
    <3> QED BY <2>2, <3>1
  <2>8. ASSUME NEW amount, GiveRewards(amount) PROVE Moves(g)
    BY <2>2, <2>8 DEF GiveRewards
  <2>9. CASE NextBlock \/ NextLottery \/ UNCHANGED stakingVars
    BY <2>2, <2>9 DEF NextBlock, NextLottery, stakingVars
  <2> HIDE DEF Moves
  <2> QED BY <1>1, <2>3, <2>4, <2>5, <2>6, <2>7, <2>8, <2>9 DEF StakingNext
<1>2. StakingInv /\ [StakingNext]_stakingVars
        => [\A h \in Holders :
              holders'[h].balance < holders[h].balance
                => holders[h].balance - holders'[h].balance
                     = AmountOf(ClaimsOf(h))' - AmountOf(ClaimsOf(h))]_stakingVars
  BY <1>1 DEF Moves
<1> QED BY <1>2, StakingInvariant, PTL DEF StakingSpec, StakeMovesIntoClaims

\* The combinations of a list without repetitions get a key each.
LEMMA KeysAreAsMany ==
  ASSUME NEW h, NEW combination \in Combinations,
         CombinationsAreNew(h, combination)
  PROVE  /\ IsFiniteSet(CombinationKeys(h, combination))
         /\ Cardinality(CombinationKeys(h, combination)) = Len(combination)
         /\ Len(combination) \in Nat
<1> DEFINE places == 1 .. Len(combination)
           keys == CombinationKeys(h, combination)
           key == [i \in places |-> <<lottery_counter, h, combination[i]>>]
<1>1. /\ combination \in Seq(Range(combination))
      /\ Len(combination) \in Nat
      /\ DOMAIN combination = places
  BY InputsAssumption
<1>2. Range(combination) = {combination[i] : i \in places}
  BY <1>1 DEF Range
<1>3. key \in Bijection(places, keys)
  <2>1. key \in Surjection(places, keys)
    BY <1>2 DEF Surjection, CombinationKeys
  <2>2. key \in Injection(places, keys)
    BY <1>1, <2>1 DEF Injection, Surjection, IsInjective, CombinationsAreNew
  <2> QED BY <2>1, <2>2 DEF Bijection
<1>4. IsFiniteSet(places) /\ Cardinality(places) = Len(combination)
  BY <1>1, FS_Interval
<1> HIDE DEF places, keys, key
<1>5. IsFiniteSet(keys) /\ Cardinality(keys) = Cardinality(places)
  BY <1>3, <1>4, FS_Bijection DEF ExistsBijection
<1> QED BY <1>1, <1>4, <1>5 DEF keys

\* The tickets the lottery has are the combinations stored, one for one.
TicketInv == IsFiniteSet(combinations) /\ TicketsRegisteredOnce

\* However the lists repeat, within a message or between messages, the lottery
\* gets a combination of a holder once in a draw.
THEOREM TicketsAreRegisteredOnce == StakingSpec => []TicketsRegisteredOnce
<1>1. StakingInit => TicketInv
  BY FS_EmptySet DEF StakingInit, TicketInv, TicketsRegisteredOnce
<1>2. StakingInv /\ TicketInv /\ [StakingNext]_stakingVars => TicketInv'
  <2> SUFFICES ASSUME StakingInv, TicketInv, [StakingNext]_stakingVars
               PROVE  TicketInv'
    OBVIOUS
  <2>1. CASE UNCHANGED <<combinations, lottery_tickets>>
    BY <2>1 DEF TicketInv, TicketsRegisteredOnce
  <2>2. ASSUME NEW h, NEW combination \in Combinations, NEW price, NEW tax,
               GetTicket(h, combination, price, tax)
        PROVE  TicketInv'
    <3> DEFINE keys == CombinationKeys(h, combination)
    <3>1. /\ CombinationsAreNew(h, combination)
          /\ combinations' = combinations \cup keys
          /\ lottery_tickets' = lottery_tickets + Len(combination)
      BY <2>2 DEF GetTicket
    <3>2. keys \cap combinations = {}
      BY <3>1 DEF CombinationsAreNew
    <3>3. /\ IsFiniteSet(keys)
          /\ Cardinality(keys) = Len(combination) /\ Len(combination) \in Nat
      BY <3>1, KeysAreAsMany
    <3> HIDE DEF keys
    <3>4. combinations \cap keys = {}
      BY <3>2
    <3>5. /\ IsFiniteSet(combinations)
          /\ Cardinality(combinations) = lottery_tickets
          /\ lottery_tickets \in Nat
      BY DEF TicketInv, TicketsRegisteredOnce, StakingInv, StakingTypeOK
    <3>6. /\ IsFiniteSet(combinations')
          /\ Cardinality(combinations') = lottery_tickets + Len(combination)
      <4>1. /\ IsFiniteSet(combinations \cup keys)
            /\ Cardinality(combinations \cup keys)
                 = Cardinality(combinations) + Cardinality(keys)
                     - Cardinality(combinations \cap keys)
        BY <3>3, <3>5, FS_Union
      <4>2. Cardinality(combinations \cap keys) = 0
        BY <3>4, FS_EmptySet
      <4> QED BY <3>1, <3>3, <3>5, <4>1, <4>2
    <3> QED BY <3>1, <3>3, <3>5, <3>6 DEF TicketInv, TicketsRegisteredOnce
  <2>3. ASSUME NEW sender, NEW funds, NEW h, NEW amount
        PROVE  /\ Bond(sender, funds, h, amount) => TicketInv'
               /\ UnbondStake(sender, funds, h, amount) => TicketInv'
               /\ UpdateGlobalIndex(sender, funds) => TicketInv'
               /\ GiveRewards(amount) => TicketInv'
    BY <2>1 DEF Bond, UnbondStake, UpdateGlobalIndex, GiveRewards, lottery
  <2>4. ASSUME NEW sender, NEW h, NEW cap, NEW paid,
               WithdrawStake(sender, h, cap, paid)
        PROVE  TicketInv'
    BY <2>1, <2>4 DEF WithdrawStake, lottery
  <2>5. CASE NextBlock \/ NextLottery \/ UNCHANGED stakingVars
    BY <2>1, <2>5 DEF NextBlock, NextLottery, stakingVars, lottery
  <2> QED BY <2>2, <2>3, <2>4, <2>5 DEF StakingNext
<1>3. TicketInv => TicketsRegisteredOnce
  BY DEF TicketInv
<1> QED BY <1>1, <1>2, <1>3, StakingInvariant, PTL DEF StakingSpec

\* Without a tax the staking contract always holds the rewards it has counted:
\* every ticket is paid from rewards that are taken off the count.
THEOREM UntaxedRewardsAreBacked ==
  ASSUME \A tax \in Taxes : tax.rate = 0
  PROVE  StakingSpec => []RewardsBacked
<1>1. StakingInit => RewardsBacked
  BY DEF StakingInit, RewardsBacked
<1>2. StakingInv /\ RewardsBacked /\ [StakingNext]_stakingVars => RewardsBacked'
  <2> SUFFICES ASSUME StakingInv, RewardsBacked, [StakingNext]_stakingVars
               PROVE  RewardsBacked'
    OBVIOUS
  <2>1. prev_reward_balance \in Nat /\ staking_uusd \in Nat
    BY UintIsNat DEF StakingInv, StakingTypeOK
  <2>2. CASE UNCHANGED <<prev_reward_balance, staking_uusd>>
    BY <2>2 DEF RewardsBacked
  <2>3. ASSUME NEW h, NEW combination \in Combinations, NEW price \in Prices,
               NEW tax \in Taxes, GetTicket(h, combination, price, tax)
        PROVE  RewardsBacked'
    <3> DEFINE cost == TicketCost(combination, price)
    <3>1. cost \in Nat
      BY InputsAssumption, UintIsNat DEF TicketCost
    <3>2. tax \in TaxType /\ tax.rate = 0
      BY InputsAssumption
    <3> HIDE DEF cost
    <3>3. SendCost(tax, cost) = cost
      BY <3>1, <3>2, Untaxed
    <3>4. TicketWithFees(tax, cost) \in Nat /\ TicketWithFees(tax, cost) >= cost
      BY <3>1, <3>2, TicketFeeType DEF TicketWithFees
    <3>5. /\ prev_reward_balance' = prev_reward_balance - TicketWithFees(tax, cost)
          /\ staking_uusd' = staking_uusd - SendCost(tax, cost)
      BY <2>3 DEF GetTicket, cost
    <3> QED BY <2>1, <3>1, <3>3, <3>4, <3>5 DEF RewardsBacked
  <2>4. ASSUME NEW sender, NEW funds, UpdateGlobalIndex(sender, funds)
        PROVE  RewardsBacked'
    BY <2>4 DEF UpdateGlobalIndex, RewardsBacked
  <2>5. ASSUME NEW amount \in Rewards, GiveRewards(amount) PROVE RewardsBacked'
    <3>1. amount \in Nat
      BY InputsAssumption, UintIsNat
    <3> QED BY <2>1, <2>5, <3>1 DEF GiveRewards, state, RewardsBacked
  <2>6. ASSUME NEW sender, NEW funds, NEW h, NEW amount
        PROVE  /\ Bond(sender, funds, h, amount) => RewardsBacked'
               /\ UnbondStake(sender, funds, h, amount) => RewardsBacked'
    BY <2>2 DEF Bond, UnbondStake, MoveStake
  <2>7. ASSUME NEW sender, NEW h, NEW cap, NEW paid,
               WithdrawStake(sender, h, cap, paid)
        PROVE  RewardsBacked'
    BY <2>2, <2>7 DEF WithdrawStake, state
  <2>8. CASE NextBlock \/ NextLottery \/ UNCHANGED stakingVars
    BY <2>2, <2>8 DEF NextBlock, NextLottery, stakingVars, state
  <2> QED BY <2>3, <2>4, <2>5, <2>6, <2>7, <2>8 DEF StakingNext
<1> QED BY <1>1, <1>2, StakingInvariant, PTL DEF StakingSpec

-----------------------------------------------------------------------------
(* The loop of claim_tokens.                                                *)

\* f is the result of the loop after each of the first N claims of a list.
IsPass(f, N, list, cap) ==
  f = [n \in 0 .. N |-> IF n = 0 THEN [total |-> 0, paid |-> {}]
                        ELSE Partitioned(f[n - 1], list[n], cap)]

\* The loop comes to its end.
LEMMA PassExists ==
  ASSUME NEW N \in Nat, NEW list, NEW cap
  PROVE  \E f : IsPass(f, N, list, cap)
<1> DEFINE Start == [total |-> 0, paid |-> {}]
           Good == {k \in 0 .. N : \E f : IsPass(f, k, list, cap)}
<1>1. 0 \in Good
  <2> DEFINE f == [n \in 0 .. 0 |-> Start]
  <2>1. IsPass(f, 0, list, cap)
    BY DEF IsPass
  <2> HIDE DEF f
  <2> QED BY <2>1
<1>2. ASSUME NEW k \in 1 .. N, k - 1 \in Good
      PROVE  k \in Good
  <2>1. PICK f : IsPass(f, k - 1, list, cap)
    BY <1>2
  <2> DEFINE g == [n \in 0 .. k |-> IF n = k THEN Partitioned(f[k - 1], list[k], cap)
                                    ELSE f[n]]
  <2> HIDE DEF Start
  <2>2. ASSUME NEW n \in 0 .. k
        PROVE  g[n] = IF n = 0 THEN Start ELSE Partitioned(g[n - 1], list[n], cap)
    <3>1. CASE n = 0
      <4>1. g[0] = f[0] /\ 0 \in 0 .. k - 1
        OBVIOUS
      <4> QED BY <2>1, <3>1, <4>1 DEF IsPass, Start
    <3>2. CASE n = k
      <4>1. n - 1 \in 0 .. k /\ n - 1 # k /\ n # 0
        BY <3>2
      <4> QED BY <3>2, <4>1
    <3>3. CASE n # 0 /\ n # k
      <4>1. n - 1 \in 0 .. k /\ n - 1 # k /\ n \in 0 .. k - 1
        BY <3>3
      <4>2. g[n] = f[n] /\ g[n - 1] = f[n - 1]
        BY <3>3, <4>1
      <4> QED BY <2>1, <3>3, <4>1, <4>2 DEF IsPass
    <3> QED BY <3>1, <3>2, <3>3
  <2>3. g = [n \in 0 .. k |-> g[n]]
    OBVIOUS
  <2> HIDE DEF g
  <2>4. IsPass(g, k, list, cap)
    BY <2>2, <2>3 DEF IsPass, Start
  <2> QED BY <2>4
<1>3. N \in Good
  <2> HIDE DEF Good
  <2>1. N \in 0 .. N
    OBVIOUS
  <2> QED BY <1>1, <1>2, <2>1, PrefixInduction
<1> QED BY <1>3

\* What claim_tokens returns, as the last of its passes.
LEMMA ClaimTokensIs ==
  ASSUME StakingTypeOK, NEW h, NEW cap
  PROVE  \E f : /\ IsPass(f, Cardinality(ClaimsOf(h)), ClaimList(h), cap)
                /\ ClaimTokens(h, cap) = f[Cardinality(ClaimsOf(h))]
<1> DEFINE N == Cardinality(ClaimsOf(h))
           list == ClaimList(h)
           pass == CHOOSE f : f = [n \in 0 .. N |->
                                     IF n = 0 THEN [total |-> 0, paid |-> {}]
                                     ELSE Partitioned(f[n - 1], list[n], cap)]
<1>1. N \in Nat
  <2>1. IsFiniteSet(ClaimsOf(h))
    BY ClaimSums DEF ClaimsOf
  <2> QED BY <2>1, FS_CardinalityType
<1>2. \E f : IsPass(f, N, list, cap)
  <2> HIDE DEF N, list
  <2> QED BY <1>1, PassExists
<1>3. IsPass(pass, N, list, cap)
  <2> HIDE DEF N, list
  <2> QED BY <1>2 DEF pass, IsPass
<1>4. ClaimTokens(h, cap) = pass[N]
  BY Zenon DEF ClaimTokens
<1> HIDE DEF pass
<1> QED BY <1>3, <1>4

\* The list has every claim of the owner once, in the order they were made.
LEMMA ClaimListIs ==
  ASSUME StakingTypeOK, NEW h
  PROVE  LET N == Cardinality(ClaimsOf(h)) IN
         /\ N \in Nat
         /\ ClaimList(h) \in [1 .. N -> ClaimsOf(h)]
         /\ \A i, j \in 1 .. N :
              i < j => ClaimList(h)[i].position < ClaimList(h)[j].position
         /\ \A c \in ClaimsOf(h) : \E i \in 1 .. N : ClaimList(h)[i] = c
<1> DEFINE C == ClaimsOf(h)
           N == Cardinality(C)
           R == {pair \in C \X C : pair[1].position < pair[2].position}
<1>1. IsFiniteSet(C)
  BY ClaimSums DEF ClaimsOf
<1>2. N \in Nat
  BY <1>1, FS_CardinalityType
<1>3. \A c \in C : c.position \in Nat
  BY DEF StakingTypeOK, Claim, ClaimsOf
<1>4. \A c, d \in C : <<c, d>> \in R <=> c.position < d.position
  OBVIOUS
<1>5. \A c, d \in C : c.position = d.position => c = d
  BY DEF StakingTypeOK, ClaimsOf
<1> HIDE DEF R, C
<1>6. \A c \in C : <<c, c>> \notin R
  BY <1>3, <1>4
<1>7. \A c, d, e \in C : <<c, d>> \in R /\ <<d, e>> \in R => <<c, e>> \in R
  BY <1>3, <1>4
<1>8. \A c, d \in C : c = d \/ <<c, d>> \in R \/ <<d, c>> \in R
  <2> SUFFICES ASSUME NEW c \in C, NEW d \in C, c # d
               PROVE  <<c, d>> \in R \/ <<d, c>> \in R
    OBVIOUS
  <2>1. c.position \in Nat /\ d.position \in Nat
    BY <1>3
  <2>2. c.position # d.position
    BY <1>5
  <2>3. c.position < d.position \/ d.position < c.position
    BY <2>1, <2>2
  <2> QED BY <1>4, <2>3
<1>9. PICK s \in [1 .. N -> C] : \A i, j \in 1 .. N : i < j => <<s[i], s[j]>> \in R
  BY <1>1, <1>6, <1>7, <1>8, ListInOrder
<1>10. /\ ClaimList(h) \in [1 .. N -> C]
       /\ \A i, j \in 1 .. N :
            i < j => ClaimList(h)[i].position < ClaimList(h)[j].position
  <2> HIDE DEF N
  <2>1. DOMAIN s = 1 .. N /\ \A i \in 1 .. N : s[i] \in C
    OBVIOUS
  <2>2. \A i, j \in DOMAIN s : i < j => s[i].position < s[j].position
    BY <1>4, <1>9, <2>1
  <2>3. /\ ClaimList(h) \in [1 .. N -> C]
        /\ \A i, j \in DOMAIN ClaimList(h) :
             i < j => ClaimList(h)[i].position < ClaimList(h)[j].position
    BY <2>2 DEF ClaimList, C, N
  <2>4. DOMAIN ClaimList(h) = 1 .. N
    BY <2>3
  <2> QED BY <2>3, <2>4
<1> DEFINE t == ClaimList(h)
<1> HIDE DEF t
<1>11. \A i, j \in 1 .. N : i < j => <<t[i], t[j]>> \in R
  <2> HIDE DEF N
  <2> QED BY <1>4, <1>10 DEF t
<1>12. \A c \in C : \E i \in 1 .. N : t[i] = c
  <2>1. t \in [1 .. Cardinality(C) -> C]
    BY <1>10 DEF t
  <2>2. \A i, j \in 1 .. Cardinality(C) : i < j => <<t[i], t[j]>> \in R
    BY <1>11
  <2>3. /\ \A c \in C : \E i \in 1 .. Cardinality(C) : t[i] = c
        /\ \A i, j \in 1 .. Cardinality(C) : t[i] = t[j] => i = j
    BY ONLY <1>1, <1>6, <2>1, <2>2, ListHasAll
  <2> QED BY <2>3
<1> HIDE DEF N
<1> QED BY <1>2, <1>10, <1>12 DEF C, N, t

\* The claims of a set that come before one in the list.
Earlier(c, cs) == {d \in cs : d.position < c.position}

\* Whether a limit lets a mature claim be paid after the ones in a set.
Affordable(c, cap, amount) ==
  Mature(c) /\ \A limit \in cap : amount + c.amount <= limit

\* What the loop has paid after k claims: of those, the ones IsPaid says.
LEMMA PassPays ==
  ASSUME StakingTypeOK, NEW h, NEW cap,
         NEW f, IsPass(f, Cardinality(ClaimsOf(h)), ClaimList(h), cap)
  PROVE  LET N == Cardinality(ClaimsOf(h))
             list == ClaimList(h)
         IN  \A k \in 0 .. N :
               /\ f[k].paid \subseteq {list[i] : i \in 1 .. k}
               /\ f[k].total = AmountOf(f[k].paid)
               /\ \A i \in 1 .. k :
                    list[i] \in f[k].paid
                      <=> Affordable(list[i], cap, AmountOf(Earlier(list[i], f[k].paid)))
<1> DEFINE C == ClaimsOf(h)
           N == Cardinality(C)
           list == ClaimList(h)
           Correct(k) ==
             /\ f[k].paid \subseteq {list[i] : i \in 1 .. k}
             /\ f[k].total = AmountOf(f[k].paid)
             /\ \A i \in 1 .. k :
                  list[i] \in f[k].paid
                    <=> Affordable(list[i], cap, AmountOf(Earlier(list[i], f[k].paid)))
           Good == {k \in 0 .. N : Correct(k)}
<1>1. /\ N \in Nat
      /\ list \in [1 .. N -> C]
      /\ \A i, j \in 1 .. N : i < j => list[i].position < list[j].position
  BY ClaimListIs
<1>2. /\ C \subseteq claims /\ IsFiniteSet(C)
      /\ \A c \in C : c.position \in Nat /\ c.amount \in Nat
  BY ClaimSums, UintIsNat DEF StakingTypeOK, Claim, ClaimsOf
<1>3. f = [n \in 0 .. N |-> IF n = 0 THEN [total |-> 0, paid |-> {}]
                            ELSE Partitioned(f[n - 1], list[n], cap)]
  BY DEF IsPass
<1> HIDE DEF N, C, list
<1>4. 0 \in Good
  <2>1. 0 \in 0 .. N /\ 1 .. 0 = {}
    BY <1>1
  <2>2. f[0] = [total |-> 0, paid |-> {}]
    BY <1>3, <2>1
  <2>3. f[0].paid = {} /\ f[0].total = 0
    BY <2>2
  <2>4. AmountOf({}) = 0
    BY SumEmpty DEF AmountOf
  <2> QED BY <2>1, <2>3, <2>4
<1>5. ASSUME NEW k \in 1 .. N, k - 1 \in Good
      PROVE  k \in Good
  <2> DEFINE c == list[k]
             sent == f[k - 1]
             P == f[k - 1].paid
             S == f[k].paid
             pays == Affordable(c, cap, sent.total)
  <2>1. k \in Nat \ {0} /\ k <= N /\ k \in 0 .. N /\ k - 1 \in 0 .. N /\ k # 0
    BY <1>1
  <2>2. f[k] = Partitioned(sent, c, cap)
    BY <1>3, <2>1
  <2>3. Correct(k - 1)
    BY <1>5
  <2>4. c \in C
    BY <1>1, <2>1
  <2>5. /\ pays => f[k].total = sent.total + c.amount /\ S = P \cup {c}
        /\ ~ pays => f[k].total = sent.total /\ S = P
    <3> HIDE DEF c, sent
    <3>1. /\ pays => f[k] = [total |-> sent.total + c.amount, paid |-> sent.paid \cup {c}]
          /\ ~ pays => f[k] = sent
      BY <2>2 DEF Partitioned, Affordable
    <3> QED BY <3>1 DEF sent
  <2>6. sent.total = AmountOf(P)
    BY <2>3
  <2>7. P \subseteq {list[i] : i \in 1 .. k - 1}
    BY <2>3
  <2>8. \A i \in 1 .. k - 1 :
          /\ i \in 1 .. N /\ list[i] \in C
          /\ list[i].position < c.position
          /\ list[i].position \in Nat /\ c.position \in Nat
          /\ list[i] # c
    BY <1>1, <1>2, <2>1, <2>4
  <2>9. \A i \in 1 .. k - 1 :
          list[i] \in P <=> Affordable(list[i], cap, AmountOf(Earlier(list[i], P)))
    BY <2>3
  <2> HIDE DEF c, sent, P, S, pays, Correct, Good
  <2>10. c \notin P /\ P \subseteq C /\ \A d \in P : d.position < c.position
    BY <2>7, <2>8
  <2>11. S = P \/ S = P \cup {c}
    BY <2>5
  <2>12. Earlier(c, S) = P
    <3>1. ~ (c.position < c.position)
      BY <1>2, <2>4
    <3> QED BY <2>10, <2>11, <3>1 DEF Earlier
  <2>13. \A i \in 1 .. k - 1 : /\ Earlier(list[i], S) = Earlier(list[i], P)
                               /\ list[i] \in S <=> list[i] \in P
    <3> SUFFICES ASSUME NEW i \in 1 .. k - 1
                 PROVE  /\ Earlier(list[i], S) = Earlier(list[i], P)
                        /\ list[i] \in S <=> list[i] \in P
      OBVIOUS
    <3>1. ~ (c.position < list[i].position) /\ list[i] # c
      BY <2>8
    <3> QED BY <2>11, <3>1 DEF Earlier
  <2>14. c \in S <=> Affordable(c, cap, AmountOf(Earlier(c, S)))
    BY <2>5, <2>6, <2>10, <2>12 DEF pays
  <2>15. \A i \in 1 .. k :
           list[i] \in S <=> Affordable(list[i], cap, AmountOf(Earlier(list[i], S)))
    <3> SUFFICES ASSUME NEW i \in 1 .. k
                 PROVE  list[i] \in S
                          <=> Affordable(list[i], cap, AmountOf(Earlier(list[i], S)))
      OBVIOUS
    <3>1. CASE i = k
      BY <2>14, <3>1 DEF c
    <3>2. CASE i # k
      <4>1. i \in 1 .. k - 1
        BY <2>1, <3>2
      <4> QED BY <2>9, <2>13, <4>1
    <3> QED BY <3>1, <3>2
  <2>16. S \subseteq {list[i] : i \in 1 .. k}
    <3>1. {list[i] : i \in 1 .. k - 1} \subseteq {list[i] : i \in 1 .. k}
      BY <2>1
    <3>2. c \in {list[i] : i \in 1 .. k}
      BY <2>1 DEF c
    <3> QED BY <2>7, <2>11, <3>1, <3>2
  <2>17. f[k].total = AmountOf(S)
    <3>1. CASE pays
      <4>1. IsFiniteSet(P) /\ (\A d \in P : d.amount \in Nat) /\ c.amount \in Nat
        BY <1>2, <2>4, <2>10, FS_Subset
      <4>2. AmountOf(P \cup {c}) = AmountOf(P) + c.amount
        BY <2>10, <4>1, AddedAmount
      <4> QED BY <2>5, <2>6, <3>1, <4>2
    <3>2. CASE ~ pays
      BY <2>5, <2>6, <3>2
    <3> QED BY <3>1, <3>2
  <2>18. Correct(k)
    BY <2>15, <2>16, <2>17 DEF Correct, S
  <2> QED BY <2>1, <2>18 DEF Good
<1>6. \A k \in 0 .. N : k \in Good
  <2> HIDE DEF Good
  <2> QED BY <1>1, <1>4, <1>5, PrefixInduction
<1>7. \A k \in 0 .. N : Correct(k)
  <2> HIDE DEF Correct
  <2> QED BY <1>6
<1> QED BY <1>7 DEF N, C, list

\* Two sets that IsPaid allows are the same: they agree on the first claim of
\* the list, and on each claim if they agree on all before it.
LEMMA PaidIsUnique ==
  ASSUME StakingTypeOK, NEW h, NEW cap,
         NEW A, A \subseteq ClaimsOf(h), IsPaid(h, cap, A),
         NEW B, B \subseteq ClaimsOf(h), IsPaid(h, cap, B)
  PROVE  A = B
<1> DEFINE C == ClaimsOf(h)
           N == Cardinality(C)
           list == ClaimList(h)
           Good == {k \in 0 .. N : \A i \in 1 .. k : list[i] \in A <=> list[i] \in B}
<1>1. /\ N \in Nat
      /\ list \in [1 .. N -> C]
      /\ \A i, j \in 1 .. N : i < j => list[i].position < list[j].position
      /\ \A c \in C : \E i \in 1 .. N : list[i] = c
  BY ClaimListIs
<1>2. \A c \in C : c.position \in Nat
  BY DEF StakingTypeOK, Claim, ClaimsOf
<1>3. A \subseteq C /\ B \subseteq C
  OBVIOUS
<1>4. \A c \in C : /\ c \in A <=> Affordable(c, cap, AmountOf(Earlier(c, A)))
                   /\ c \in B <=> Affordable(c, cap, AmountOf(Earlier(c, B)))
  BY DEF IsPaid, Affordable, Earlier
<1> HIDE DEF N, C, list
<1>5. 0 \in Good
  BY <1>1
<1>6. ASSUME NEW k \in 1 .. N, k - 1 \in Good
      PROVE  k \in Good
  <2>1. \A i \in 1 .. k - 1 : list[i] \in A <=> list[i] \in B
    BY <1>6
  <2>2. k \in Nat \ {0} /\ k \in 0 .. N
    BY <1>1
  <2> DEFINE c == list[k]
  <2>3. c \in C
    BY <1>1
  <2> HIDE DEF Good
  <2>4. \A d \in C : d.position < c.position => (d \in A <=> d \in B)
    <3> SUFFICES ASSUME NEW d \in C, d.position < c.position
                 PROVE  d \in A <=> d \in B
      OBVIOUS
    <3>1. PICK i \in 1 .. N : list[i] = d
      BY <1>1
    <3>2. ~ (k < i) /\ i # k
      <4>1. ~ (c.position < d.position) /\ ~ (d.position < d.position)
        BY <1>2, <2>3
      <4> QED BY <1>1, <3>1, <4>1
    <3>3. i \in 1 .. k - 1
      BY <1>1, <2>2, <3>2
    <3> QED BY <2>1, <3>1, <3>3
  <2>5. Earlier(c, A) = Earlier(c, B)
    BY <1>3, <2>4 DEF Earlier
  <2>6. c \in A <=> c \in B
    BY <1>4, <2>3, <2>5
  <2>7. \A i \in 1 .. k : list[i] \in A <=> list[i] \in B
    <3> SUFFICES ASSUME NEW i \in 1 .. k PROVE list[i] \in A <=> list[i] \in B
      OBVIOUS
    <3>1. CASE i = k
      BY <2>6, <3>1
    <3>2. CASE i # k
      <4>1. i \in 1 .. k - 1
        BY <2>2, <3>2
      <4> QED BY <2>1, <4>1
    <3> QED BY <3>1, <3>2
  <2> QED BY <2>2, <2>7 DEF Good
<1>7. \A i \in 1 .. N : list[i] \in A <=> list[i] \in B
  <2>1. N \in Good
    <3> HIDE DEF Good
    <3>1. N \in 0 .. N
      BY <1>1
    <3> QED BY <1>1, <1>5, <1>6, <3>1, PrefixInduction
  <2> QED BY <2>1
<1> QED BY <1>1, <1>3, <1>7

\* What the loop of claim_tokens pays.
LEMMA OnePassPays ==
  ASSUME StakingTypeOK, NEW h, NEW cap
  PROVE  /\ ClaimTokens(h, cap).paid \subseteq ClaimsOf(h)
         /\ IsPaid(h, cap, ClaimTokens(h, cap).paid)
         /\ ClaimTokens(h, cap).total = AmountOf(ClaimTokens(h, cap).paid)
<1> DEFINE C == ClaimsOf(h)
           N == Cardinality(C)
           list == ClaimList(h)
<1>1. PICK f : IsPass(f, N, list, cap) /\ ClaimTokens(h, cap) = f[N]
  BY ClaimTokensIs
<1>2. /\ N \in Nat /\ list \in [1 .. N -> C]
      /\ \A c \in C : \E i \in 1 .. N : list[i] = c
  BY ClaimListIs
<1>3. \A k \in 0 .. N :
        /\ f[k].paid \subseteq {list[i] : i \in 1 .. k}
        /\ f[k].total = AmountOf(f[k].paid)
        /\ \A i \in 1 .. k :
             list[i] \in f[k].paid
               <=> Affordable(list[i], cap, AmountOf(Earlier(list[i], f[k].paid)))
  BY <1>1, PassPays
<1> HIDE DEF list, N, C
<1>4. N \in 0 .. N
  BY <1>2
<1> DEFINE paid == f[N].paid
<1>5. /\ paid \subseteq C
      /\ f[N].total = AmountOf(paid)
      /\ \A i \in 1 .. N :
           list[i] \in paid <=> Affordable(list[i], cap, AmountOf(Earlier(list[i], paid)))
  BY <1>2, <1>3, <1>4
<1> HIDE DEF paid
<1>6. \A c \in C : c \in paid <=> Affordable(c, cap, AmountOf(Earlier(c, paid)))
  BY <1>2, <1>5
<1>7. IsPaid(h, cap, paid)
  BY <1>6 DEF IsPaid, Affordable, Earlier, C
<1> QED BY <1>1, <1>5, <1>7 DEF paid, C

\* PartitionIsOnePass: claim_tokens decides each claim by what it has paid
\* before it, and of all the sets of claims that could be paid exactly one
\* fits the limit in that way: the one the pass pays, with the sum it sends.
THEOREM ClaimsPaidInOrder == StakingSpec => []PartitionIsOnePass
<1>1. StakingInv => PartitionIsOnePass
  <2> SUFFICES ASSUME StakingTypeOK, NEW h \in Holders, NEW cap \in Caps
               PROVE  /\ {paid \in SUBSET ClaimsOf(h) : IsPaid(h, cap, paid)}
                           = {ClaimTokens(h, cap).paid}
                      /\ ClaimTokens(h, cap).total
                           = AmountOf(ClaimTokens(h, cap).paid)
    BY DEF StakingInv, PartitionIsOnePass
  <2>1. /\ ClaimTokens(h, cap).paid \in SUBSET ClaimsOf(h)
        /\ IsPaid(h, cap, ClaimTokens(h, cap).paid)
        /\ ClaimTokens(h, cap).total = AmountOf(ClaimTokens(h, cap).paid)
    BY OnePassPays
  <2>2. \A paid \in SUBSET ClaimsOf(h) :
          IsPaid(h, cap, paid) => paid = ClaimTokens(h, cap).paid
    BY <2>1, PaidIsUnique
  <2> QED BY <2>1, <2>2
<1> QED BY <1>1, StakingInvariant, PTL

=============================================================================

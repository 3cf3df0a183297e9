--------------------------- MODULE DogetherProofs ---------------------------
(***************************************************************************)
(* The token, and the pool with its two contracts, for any users, amounts, *)
(* taxes and any width of the integers: the supply of the token covers its *)
(* balances, the three accounts of the deposits always agree, no           *)
(* transaction loses more of the deposits than a rounding, and the pool    *)
(* implements the ledger of deposits its users were promised.              *)
(*                                                                         *)
(* The handlers of the other two contracts are the conjuncts of the pool's *)
(* transactions, so their lemmas apply to the amounts the pool computes.   *)
(***************************************************************************)
EXTENDS Dogether, StakingProofs

-----------------------------------------------------------------------------
(* The token.                                                               *)

\* The amounts of initial rows are naturals.
LEMMA RowAmounts ==
  ASSUME NEW rows \in InitialRows, NEW i \in DOMAIN rows
  PROVE  rows[i].amount \in Nat
<1>1. rows \in Seq(Row)
  BY TokenInputsAssumption
<1>2. rows[i] \in Row
  BY <1>1
<1>3. rows[i].amount \in Uint
  BY <1>2 DEF Row
<1> QED BY <1>3, UintIsNat

\* A balance given by the rows is one of their amounts.
LEMMA BalanceFromRowsType ==
  ASSUME NEW rows \in InitialRows, NEW a
  PROVE  /\ BalanceFromRows(rows, a) \in Uint
         /\ BalanceFromRows(rows, a) > 0 =>
              LET given == {i \in DOMAIN rows : rows[i].address = a}
              IN  /\ Max(given) \in DOMAIN rows
                  /\ rows[Max(given)].address = a
                  /\ BalanceFromRows(rows, a) = rows[Max(given)].amount
<1> DEFINE given == {i \in DOMAIN rows : rows[i].address = a}
<1>1. rows \in Seq(Row)
  BY TokenInputsAssumption
<1>2. CASE given = {}
  <2>1. BalanceFromRows(rows, a) = 0
    BY <1>2 DEF BalanceFromRows
  <2> QED BY <2>1, MaxUintAssumption DEF Uint
<1>3. CASE given # {}
  <2>1. DOMAIN rows = 1 .. Len(rows) /\ Len(rows) \in Nat
    BY <1>1
  <2>2. IsFiniteSet(DOMAIN rows)
    BY <2>1, FS_Interval
  <2>3. given \subseteq DOMAIN rows
    OBVIOUS
  <2>4. IsFiniteSet(given) /\ given \subseteq Int
    BY <2>1, <2>2, <2>3, FS_Subset
  <2>5. Max(given) \in given
    <3> HIDE DEF given
    <3> QED BY <1>3, <2>4, MaxElement
  <2>6. BalanceFromRows(rows, a) = rows[Max(given)].amount
    BY <1>3 DEF BalanceFromRows
  <2>7. rows[Max(given)] \in Row
    <3>1. Max(given) \in DOMAIN rows
      BY <2>5
    <3> HIDE DEF given
    <3> QED BY <1>1, <2>1, <3>1
  <2> QED BY <2>5, <2>6, <2>7 DEF Row
<1> QED BY <1>2, <1>3

-----------------------------------------------------------------------------
\* instantiate leaves values that fit.
LEMMA Cw20InitType ==
  Cw20Init => Cw20TypeOK
<1> SUFFICES ASSUME NEW rows \in InitialRows, Cw20Instantiate(rows)
             PROVE  Cw20TypeOK
  BY DEF Cw20Init
<1>1. rows \in Seq(Row)
  BY TokenInputsAssumption
<1>2. IsFiniteSet(DOMAIN rows)
  BY <1>1, FS_Interval
<1>3. \A i \in DOMAIN rows : rows[i].amount \in Nat
  BY RowAmounts
<1>4. SupplyFromRows(rows) \in Nat
  BY <1>2, <1>3, SumType DEF SupplyFromRows
<1>5. total_supply \in Uint
  BY <1>4, FitsIsUint DEF Cw20Instantiate
<1>6. balances \in [Addresses -> Uint]
  BY BalanceFromRowsType DEF Cw20Instantiate
<1> QED BY <1>5, <1>6 DEF Cw20TypeOK

\* Bond and Burn keep values that fit.
LEMMA ExecuteBondType ==
  ASSUME Cw20TypeOK, NEW sender, NEW contract \in Addresses, NEW amount \in Uint,
         ExecuteBond(sender, contract, amount)
  PROVE  Cw20TypeOK'
<1>1. total_supply \in Nat /\ balances[contract] \in Nat /\ amount \in Nat
  BY MaxUintAssumption DEF Cw20TypeOK, Uint
<1>2. total_supply + amount \in Uint /\ balances[contract] + amount \in Uint
  BY <1>1, FitsIsUint DEF ExecuteBond
<1> QED BY <1>2 DEF ExecuteBond, Cw20TypeOK

LEMMA ExecuteBurnType ==
  ASSUME Cw20TypeOK, NEW sender \in Addresses, NEW amount \in Uint,
         ExecuteBurn(sender, amount)
  PROVE  Cw20TypeOK'
<1>1. total_supply \in Uint /\ balances[sender] \in Uint
  BY DEF Cw20TypeOK
<1>2. total_supply - amount \in Uint /\ balances[sender] - amount \in Uint
  BY <1>1, MaxUintAssumption DEF ExecuteBurn, Uint
<1> QED BY <1>2 DEF ExecuteBurn, Cw20TypeOK

\* state.rs: supply and balances always fit their 128 bits.
THEOREM Cw20TypeCorrect == Cw20Spec => []Cw20TypeOK
<1>1. Cw20Init => Cw20TypeOK
  BY Cw20InitType
<1>2. Cw20TypeOK /\ [Cw20Next]_cw20Vars => Cw20TypeOK'
  <2> SUFFICES ASSUME Cw20TypeOK, [Cw20Next]_cw20Vars PROVE Cw20TypeOK'
    OBVIOUS
  <2>1. ASSUME NEW sender \in Addresses, NEW contract \in Addresses,
               NEW amount \in TokenAmounts, ExecuteBond(sender, contract, amount)
        PROVE  Cw20TypeOK'
    BY <2>1, ExecuteBondType, TokenInputsAssumption
  <2>2. ASSUME NEW sender \in Addresses, NEW amount \in TokenAmounts,
               ExecuteBurn(sender, amount)
        PROVE  Cw20TypeOK'
    BY <2>2, ExecuteBurnType, TokenInputsAssumption
  <2>3. CASE UNCHANGED cw20Vars
    BY <2>3 DEF cw20Vars, Cw20TypeOK
  <2> QED BY <2>1, <2>2, <2>3 DEF Cw20Next
<1> QED BY <1>1, <1>2, PTL DEF Cw20Spec

-----------------------------------------------------------------------------
\* The rows' balances are covered by the rows' supply: an address with tokens
\* has them from a row of its own.
LEMMA Cw20InitCovered ==
  Cw20Init => SupplyCoversBalances
<1> SUFFICES ASSUME NEW rows \in InitialRows, Cw20Instantiate(rows)
             PROVE  SupplyCoversBalances
  BY DEF Cw20Init
<1> DEFINE given(a) == {i \in DOMAIN rows : rows[i].address = a}
           row == [a \in Addresses |-> Max(given(a))]
           amounts == [i \in DOMAIN rows |-> rows[i].amount]
<1>1. rows \in Seq(Row)
  BY TokenInputsAssumption
<1>2. IsFiniteSet(DOMAIN rows)
  BY <1>1, FS_Interval
<1>3. \A i \in DOMAIN rows : amounts[i] \in Nat
  BY RowAmounts
<1>4. \A a \in Addresses : balances[a] = BalanceFromRows(rows, a)
  BY DEF Cw20Instantiate
<1>5. \A a \in Addresses : balances[a] \in Nat
  BY <1>4, BalanceFromRowsType, UintIsNat
<1>6. \A a \in Addresses : balances[a] > 0 =>
        /\ row[a] \in DOMAIN rows
        /\ rows[row[a]].address = a
        /\ balances[a] = amounts[row[a]]
  BY <1>4, BalanceFromRowsType
<1>7. SumOver(Addresses, balances) <= SumOver(DOMAIN rows, amounts)
  <2>1. \A a \in Addresses : balances[a] > 0 =>
          row[a] \in DOMAIN rows /\ balances[a] <= amounts[row[a]]
    BY <1>3, <1>6
  <2>2. \A a, b \in Addresses :
          balances[a] > 0 /\ balances[b] > 0 /\ row[a] = row[b] => a = b
    BY <1>6
  <2> HIDE DEF row, amounts
  <2> QED BY <1>2, <1>3, <1>5, <2>1, <2>2, AddressesAssumption, SumMatching
<1> QED BY <1>7 DEF SupplyCoversBalances, Cw20Instantiate, SupplyFromRows

\* Bond and Burn keep it: both move the supply as they move a balance.
LEMMA BalanceSums ==
  ASSUME Cw20TypeOK, Cw20TypeOK'
  PROVE  /\ \A a \in Addresses : balances[a] \in Nat /\ balances'[a] \in Nat
         /\ total_supply \in Nat
         /\ SumOver(Addresses, balances) \in Nat
<1>1. /\ \A a \in Addresses : balances[a] \in Nat /\ balances'[a] \in Nat
      /\ total_supply \in Nat
  BY MaxUintAssumption DEF Cw20TypeOK, Uint
<1> QED BY <1>1, AddressesAssumption, SumType

LEMMA ExecuteBondCovers ==
  ASSUME Cw20TypeOK, Cw20TypeOK', SupplyCoversBalances, NEW sender,
         NEW contract \in Addresses, NEW amount \in Nat,
         ExecuteBond(sender, contract, amount)
  PROVE  SupplyCoversBalances'
<1>1. /\ balances'[contract] = balances[contract] + amount
      /\ \A a \in Addresses : a # contract => balances'[a] = balances[a]
      /\ total_supply' = total_supply + amount
  BY DEF ExecuteBond, Cw20TypeOK
<1>2. SumOver(Addresses, balances')
        = SumOver(Addresses, balances) - balances[contract] + balances'[contract]
  BY <1>1, BalanceSums, AddressesAssumption, SumUpdate
<1> QED BY <1>1, <1>2, BalanceSums DEF SupplyCoversBalances

LEMMA ExecuteBurnCovers ==
  ASSUME Cw20TypeOK, Cw20TypeOK', SupplyCoversBalances,
         NEW sender \in Addresses, NEW amount \in Nat,
         ExecuteBurn(sender, amount)
  PROVE  SupplyCoversBalances'
<1>1. /\ balances'[sender] = balances[sender] - amount
      /\ \A a \in Addresses : a # sender => balances'[a] = balances[a]
      /\ total_supply' = total_supply - amount
  BY DEF ExecuteBurn, Cw20TypeOK
<1>2. SumOver(Addresses, balances')
        = SumOver(Addresses, balances) - balances[sender] + balances'[sender]
  BY <1>1, BalanceSums, AddressesAssumption, SumUpdate
<1> QED BY <1>1, <1>2, BalanceSums DEF SupplyCoversBalances

\* contract.rs: the supply always covers the balances, so the second
\* subtraction of a burn never fails once the first has succeeded.
THEOREM SupplyAlwaysCovers == Cw20Spec => []SupplyCoversBalances
<1>1. Cw20Init => SupplyCoversBalances
  BY Cw20InitCovered
<1>2. Cw20TypeOK /\ Cw20TypeOK' /\ SupplyCoversBalances /\ [Cw20Next]_cw20Vars
        => SupplyCoversBalances'
  <2> SUFFICES ASSUME Cw20TypeOK, Cw20TypeOK', SupplyCoversBalances,
                      [Cw20Next]_cw20Vars
               PROVE  SupplyCoversBalances'
    OBVIOUS
  <2>1. TokenAmounts \subseteq Nat
    BY TokenInputsAssumption, UintIsNat
  <2>2. CASE UNCHANGED cw20Vars
    BY <2>2 DEF cw20Vars, SupplyCoversBalances
  <2> QED BY <2>1, <2>2, ExecuteBondCovers, ExecuteBurnCovers DEF Cw20Next
<1> QED BY <1>1, <1>2, Cw20TypeCorrect, PTL DEF Cw20Spec

-----------------------------------------------------------------------------
(* The books of the pool and the staking contract.                          *)

\* The inductive invariant: the books of the staking contract beside what is
\* checked of the composition.
PoolInv == DogetherInv /\ L!LedgerInv

LEMMA PoolInvGivesStakingInv == PoolInv => StakingInv
BY DEF PoolInv, DogetherInv, StakingInv

-----------------------------------------------------------------------------
(* Arithmetic of the pool.                                                  *)

\* deduct_tax leaves between nothing and the whole amount.
LEMMA DeductTaxType ==
  ASSUME NEW tax \in TaxType, NEW amount \in Nat
  PROVE  DeductTax(tax, amount) \in Nat /\ DeductTax(tax, amount) <= amount
<1>1. TicketFee(tax, amount) \in Nat
  BY TicketFeeType
<1>2. ComputeTax(tax, amount) \in Int /\ ComputeTax(tax, amount) <= amount
  <2> DEFINE d == tax.rate + Unit
  <2>1. tax.cap \in Nat /\ d \in Nat \ {0} /\ amount * Unit \in Nat
    BY UnitAssumption DEF TaxType
  <2>2. MultiplyRatio(amount, Unit, d) \in Nat
    BY <2>1, DivBounds DEF MultiplyRatio
  <2> QED BY <2>1, <2>2 DEF ComputeTax, Lesser
<1> QED BY <1>1, <1>2 DEF TicketFee, DeductTax

\* What a redemption pays is a natural.
LEMMA UusdRedeemedType ==
  ASSUME PoolTypeOK, NEW tax \in TaxType, NEW amount \in Nat
  PROVE  UusdRedeemed(tax, amount) \in Nat
<1>1. amount * exchange_rate \in Nat
  BY DEF PoolTypeOK
<1>2. MultiplyRatio(amount, exchange_rate, Unit) \in Nat
  BY <1>1, UnitAssumption, DivBounds DEF MultiplyRatio
<1> QED BY <1>2, DeductTaxType DEF UusdRedeemed

\* The market mints aUST worth no more than the deposit, and short of it by
\* less than one aUST.
LEMMA AustMintedBounds ==
  ASSUME PoolTypeOK, NEW deposit \in Nat
  PROVE  /\ AustMinted(deposit) \in Nat
         /\ AustMinted(deposit) * exchange_rate <= deposit * Unit
         /\ deposit * Unit < AustMinted(deposit) * exchange_rate + exchange_rate
<1>1. exchange_rate \in Nat \ {0} /\ deposit * Unit \in Nat
  BY UnitAssumption DEF PoolTypeOK
<1> QED BY <1>1, DivBounds DEF AustMinted, MultiplyRatio

\* aUST redeemed for a decimal of uusd is worth no more than it.
LEMMA AustWorthBelow ==
  ASSUME PoolTypeOK, NEW decimal \in Nat
  PROVE  /\ AustWorth(decimal) \in Nat
         /\ AustWorth(decimal) * exchange_rate <= decimal
<1> DEFINE ratio == FromRatio(decimal, exchange_rate)
           whole == AustWorth(decimal)
<1>1. exchange_rate \in Nat \ {0} /\ Unit \in Nat \ {0}
  BY UnitAssumption DEF PoolTypeOK
<1>2. ratio \in Nat /\ ratio * exchange_rate <= decimal * Unit
  BY <1>1, RatioBelow
<1>3. whole \in Nat /\ whole * Unit <= ratio
  BY <1>2, FloorBelow DEF AustWorth
<1> HIDE DEF ratio, whole
<1>4. (whole * Unit) * exchange_rate <= ratio * exchange_rate
  BY <1>1, <1>2, <1>3
<1>5. (whole * Unit) * exchange_rate = (whole * exchange_rate) * Unit
  BY <1>1, <1>3
<1>6. (whole * exchange_rate) * Unit <= decimal * Unit
  <2>1. /\ (whole * exchange_rate) * Unit \in Nat
        /\ ratio * exchange_rate \in Nat /\ decimal * Unit \in Nat
    BY <1>1, <1>2, <1>3
  <2> QED BY <1>2, <1>4, <1>5, <2>1
<1>7. whole * exchange_rate <= decimal
  <2> DEFINE value == whole * exchange_rate
  <2>1. value \in Nat
    BY <1>1, <1>3
  <2>2. value * Unit <= decimal * Unit
    BY <1>6
  <2> HIDE DEF value
  <2> SUFFICES ASSUME decimal + 1 <= value PROVE FALSE
    BY <2>1 DEF value
  <2>3. (decimal + 1) * Unit <= value * Unit
    BY <1>1, <2>1
  <2>4. (decimal + 1) * Unit = decimal * Unit + Unit
    BY <1>1
  <2>5. decimal * Unit \in Nat /\ value * Unit \in Nat
    BY <1>1, <2>1
  <2> QED BY <1>1, <2>2, <2>3, <2>4, <2>5
<1> QED BY <1>3, <1>7 DEF whole

\* What the deposits are worth beyond what is owed, without the conversions.
LEMMA InterestExact ==
  ASSUME NEW held \in Nat, NEW rate \in Nat, NEW pool \in Nat
  PROVE  /\ DecimalMultiplication(FromRatio(held, 1), rate) = held * rate
         /\ DecimalSubtraction(DecimalMultiplication(FromRatio(held, 1), rate),
                               FromRatio(pool, 1)) = held * rate - pool * Unit
<1>1. DecimalMultiplication(rate, FromRatio(held, 1)) = held * rate
  BY TimesWhole
<1>2. FromRatio(held, 1) \in Nat /\ FromRatio(pool, 1) = pool * Unit
  BY WholeDecimal
<1>3. rate * FromRatio(held, 1) = FromRatio(held, 1) * rate
  BY <1>2
<1>4. DecimalMultiplication(FromRatio(held, 1), rate)
        = DecimalMultiplication(rate, FromRatio(held, 1))
  BY <1>3 DEF DecimalMultiplication
<1> QED BY <1>1, <1>2, <1>4 DEF DecimalSubtraction

-----------------------------------------------------------------------------
(* The transactions.                                                        *)

\* The balance of the staking contract is the only one the pool moves.
LEMMA StakingBalance ==
  ASSUME Cw20TypeOK
  PROVE  balances[StakingContract] \in Nat
BY WiringAssumption, UintIsNat DEF Cw20TypeOK

\* Pool raises the four accounts by the deposit less tax.
LEMMA PoolKeeps ==
  ASSUME PoolInv, NEW sender \in Holders, NEW sent \in Uint, NEW tax \in TaxType,
         Pool(sender, sent, tax)
  PROVE  DogetherInv' /\ L!Deposit(sender, DeductTax(tax, sent))
<1> DEFINE deposit == DeductTax(tax, sent)
<1>1. deposit \in Nat /\ deposit <= sent /\ sent \in Nat
  BY UintIsNat, DeductTaxType
<1>2. deposit \in Uint
  <2> HIDE DEF deposit
  <2> QED BY <1>1, MaxUintAssumption DEF Uint
<1>3. AustMinted(deposit) \in Nat /\ SendCost(tax, deposit) \in Nat
  BY <1>1, AustMintedBounds, SendCostType DEF PoolInv, DogetherInv
<1>4. /\ SendCost(tax, deposit) <= pool_uusd + sent
      /\ Fits(total_ust_pool + deposit)
      /\ aust' = aust + AustMinted(deposit)
      /\ pool_uusd' = pool_uusd + sent - SendCost(tax, deposit)
      /\ total_ust_pool' = total_ust_pool + deposit
      /\ ExecuteBond(Admin, StakingContract, deposit)
      /\ Bond(Cw20Token, 0, sender, deposit)
      /\ UNCHANGED <<next_draw, exchange_rate, now>>
  BY DEF Pool
<1> HIDE DEF deposit
<1>5. StakingTypeOK' /\ L!Deposit(sender, deposit)
  BY <1>2, <1>4, BondKeeps, PoolInvGivesStakingInv
<1>6. Cw20TypeOK'
  BY <1>2, <1>4, ExecuteBondType, WiringAssumption DEF PoolInv, DogetherInv
<1>7. PoolTypeOK'
  <2>1. total_ust_pool \in Nat /\ pool_uusd \in Nat /\ aust \in Nat
    BY UintIsNat DEF PoolInv, DogetherInv, PoolTypeOK
  <2>2. total_ust_pool' \in Uint
    BY <1>1, <1>4, <2>1, FitsIsUint
  <2>3. pool_uusd' \in Nat /\ aust' \in Nat
    BY <1>1, <1>3, <1>4, <2>1
  <2> QED BY <1>4, <2>2, <2>3 DEF PoolInv, DogetherInv, PoolTypeOK
<1>8. AccountsAgree'
  <2>1. total_balance' = total_balance + deposit /\ UNCHANGED claims
    BY <1>4 DEF Bond, MoveStake
  <2>2. balances'[StakingContract] = balances[StakingContract] + deposit
    BY <1>4, WiringAssumption DEF ExecuteBond, PoolInv, DogetherInv, Cw20TypeOK
  <2>3. /\ total_balance \in Nat /\ AmountOf(claims) \in Nat
        /\ balances[StakingContract] \in Nat
    BY UintIsNat, ClaimSums, StakingBalance
       DEF PoolInv, DogetherInv, StakingTypeOK
  <2>4. AmountOf(claims)' = AmountOf(claims)
    BY <2>1 DEF AmountOf
  <2> QED BY <1>1, <1>4, <2>1, <2>2, <2>3, <2>4
          DEF PoolInv, DogetherInv, AccountsAgree
<1> QED BY <1>5, <1>6, <1>7, <1>8 DEF DogetherInv, deposit

\* UnPool moves stake into a claim and nothing else.
LEMMA UnPoolKeeps ==
  ASSUME PoolInv, NEW sender \in Holders, NEW amount \in Uint,
         UnPool(sender, amount)
  PROVE  DogetherInv' /\ L!Leave(sender, amount)
<1>1. UnbondStake(Admin, 0, sender, amount) /\ UNCHANGED <<cw20Vars, poolVars>>
  BY DEF UnPool
<1>2. StakingTypeOK' /\ L!Leave(sender, amount)
  BY <1>1, UnbondKeeps, PoolInvGivesStakingInv
<1>3. Cw20TypeOK' /\ PoolTypeOK'
  BY <1>1 DEF PoolInv, DogetherInv, Cw20TypeOK, PoolTypeOK, cw20Vars, poolVars,
              poolState, anchor
<1>4. AccountsAgree'
  <2>1. total_balance' = total_balance - amount
    BY <1>1 DEF UnbondStake, MoveStake
  <2>2. CreateClaim(sender, amount, height + UnbondingPeriod)
        /\ height + UnbondingPeriod \in Nat
    BY <1>1, UnbondingAssumption
       DEF UnbondStake, PoolInv, DogetherInv, StakingTypeOK
  <2>3. AmountOf(claims') = AmountOf(claims) + amount
    BY <2>2, NewAmount DEF PoolInv, DogetherInv
  <2>4. total_balance \in Nat /\ amount \in Nat /\ AmountOf(claims) \in Nat
    BY UintIsNat, ClaimSums DEF PoolInv, DogetherInv, StakingTypeOK
  <2> QED BY <1>1, <2>1, <2>3, <2>4
          DEF PoolInv, DogetherInv, AccountsAgree, cw20Vars, poolVars, poolState
<1> QED BY <1>2, <1>3, <1>4 DEF DogetherInv

\* ClaimUnPool lowers the four accounts by what the claims were for.
LEMMA ClaimUnPoolKeeps ==
  ASSUME PoolInv, NEW sender \in Holders, NEW paid, NEW tax \in TaxType,
         ClaimUnPool(sender, paid, tax)
  PROVE  DogetherInv' /\ UNCHANGED L!ledgerVars
<1> DEFINE amount == AmountOf(paid)
           redeemed == AustToRedeem(amount)
           net_amount == NetAmount(tax, amount)
           held == pool_uusd + UusdRedeemed(tax, redeemed)
<1>1. /\ WithdrawStake(Admin, sender, {}, paid)
      /\ ExecuteBurn(StakingContract, amount)
      /\ total_ust_pool >= amount
      /\ total_ust_pool' = total_ust_pool - amount
      /\ redeemed <= aust
      /\ aust' = aust - redeemed
      /\ SendCost(tax, net_amount) <= held
      /\ pool_uusd' = held - SendCost(tax, net_amount)
      /\ UNCHANGED <<next_draw, exchange_rate, now>>
  BY DEF ClaimUnPool
<1>2. paid \subseteq claims
  BY <1>1 DEF WithdrawStake, ClaimsOf
<1>3. amount \in Nat /\ amount \in Uint
  <2>1. amount \in Nat
    BY <1>2, ClaimSums DEF PoolInv, DogetherInv
  <2> QED BY <1>1, <2>1, FitsIsUint DEF WithdrawStake
<1> HIDE DEF amount
<1>4. redeemed \in Nat
  BY <1>3, WholeDecimal, AustWorthBelow DEF PoolInv, DogetherInv, AustToRedeem
<1>5. net_amount \in Nat
  BY <1>3, DeductTaxType DEF NetAmount
<1> HIDE DEF redeemed, net_amount
<1>6. held \in Nat /\ SendCost(tax, net_amount) \in Nat
  BY <1>4, <1>5, UusdRedeemedType, SendCostType
     DEF PoolInv, DogetherInv, PoolTypeOK
<1> HIDE DEF held
<1>7. StakingTypeOK' /\ UNCHANGED L!ledgerVars
  BY <1>1, WithdrawKeeps, PoolInvGivesStakingInv
<1>8. Cw20TypeOK'
  BY <1>1, <1>3, ExecuteBurnType, WiringAssumption DEF PoolInv, DogetherInv
<1>9. PoolTypeOK'
  <2>1. total_ust_pool \in Uint /\ aust \in Nat
    BY DEF PoolInv, DogetherInv, PoolTypeOK
  <2>2. total_ust_pool' \in Uint
    BY <1>1, <1>3, <2>1, LessIsUint, UintIsNat
  <2>3. pool_uusd' \in Nat /\ aust' \in Nat
    BY <1>1, <1>4, <1>6, <2>1
  <2> QED BY <1>1, <2>2, <2>3 DEF PoolInv, DogetherInv, PoolTypeOK
<1>10. AccountsAgree'
  <2>1. claims' = claims \ paid /\ UNCHANGED total_balance
    BY <1>1 DEF WithdrawStake, state
  <2>2. AmountOf(claims) = AmountOf(claims \ paid) + amount
    BY <1>2, PaidAmount DEF PoolInv, DogetherInv, amount
  <2>3. /\ AmountOf(claims \ paid) \in Nat /\ total_balance \in Nat
        /\ balances[StakingContract] \in Nat
    BY ClaimSums, UintIsNat, StakingBalance
       DEF PoolInv, DogetherInv, StakingTypeOK
  <2>4. balances'[StakingContract] = balances[StakingContract] - amount
    BY <1>1, WiringAssumption DEF ExecuteBurn, PoolInv, DogetherInv, Cw20TypeOK
  <2>5. AmountOf(claims') = AmountOf(claims \ paid)
    BY <2>1
  <2> QED BY <1>1, <1>3, <2>1, <2>2, <2>3, <2>4, <2>5
          DEF PoolInv, DogetherInv, AccountsAgree
<1> QED BY <1>7, <1>8, <1>9, <1>10 DEF DogetherInv

\* What a draw sends is a natural, and no more than the interest it expects
\* and what the pool has.
LEMMA EarningType ==
  ASSUME NEW tax \in TaxType, InterestAccrued \in Nat, pool_uusd \in Nat
  PROVE  /\ Earning(tax) \in Nat
         /\ SendCost(tax, Earning(tax))
              <= DeductTax(tax, Floor(InterestAccrued)) + pool_uusd
<1> DEFINE expected == DeductTax(tax, Floor(InterestAccrued))
<1>1. expected \in Nat
  BY FloorBelow, DeductTaxType
<1>2. EarningsExpected(tax) \in {expected, expected + pool_uusd}
  BY DEF EarningsExpected
<1> HIDE DEF expected
<1>3. EarningsExpected(tax) \in Nat /\ EarningsExpected(tax) <= expected + pool_uusd
  BY <1>1, <1>2
<1>4. Earning(tax) \in Nat
  BY <1>3, DeductTaxType DEF Earning
<1>5. EarningsExpected(tax) - SendCost(tax, Earning(tax)) \in Nat
  BY <1>3, SendKeeps DEF Earning
<1>6. SendCost(tax, Earning(tax)) \in Nat
  BY <1>4, SendCostType
<1> QED BY <1>1, <1>3, <1>4, <1>5, <1>6 DEF expected

\* RedeemEarning touches none of the four accounts of the deposits.
LEMMA RedeemEarningKeeps ==
  ASSUME PoolInv, NEW tax \in TaxType, RedeemEarning(tax)
  PROVE  /\ DogetherInv'
         /\ \E amount \in Uint : L!Distribute(amount)
<1> DEFINE interest_to_withdraw == AustWorth(InterestAccrued)
           earning == Earning(tax)
           held == pool_uusd + UusdRedeemed(tax, interest_to_withdraw)
<1>1. /\ InterestAccrued >= 0
      /\ interest_to_withdraw <= aust
      /\ SendCost(tax, earning) <= held
      /\ aust' = aust - interest_to_withdraw
      /\ pool_uusd' = held - SendCost(tax, earning)
      /\ next_draw' = next_draw + DrawPeriod
      /\ UpdateGlobalIndex(Admin, earning)
      /\ UNCHANGED <<cw20Vars, total_ust_pool, exchange_rate, now>>
  BY DEF RedeemEarning
<1>2. /\ total_ust_pool \in Nat /\ total_ust_pool \in Uint
      /\ pool_uusd \in Nat /\ aust \in Nat
      /\ exchange_rate \in Nat /\ next_draw \in Nat
  BY UintIsNat DEF PoolInv, DogetherInv, PoolTypeOK
<1>3. InterestAccrued \in Nat
  BY <1>1, <1>2, InterestExact, UnitAssumption DEF InterestAccrued, AustValue
<1>4. interest_to_withdraw \in Nat
  BY <1>3, AustWorthBelow DEF PoolInv, DogetherInv
<1>5. earning \in Nat
  BY <1>2, <1>3, EarningType
<1> HIDE DEF interest_to_withdraw
<1> HIDE DEF earning
<1>7. held \in Nat /\ SendCost(tax, earning) \in Nat
  BY <1>2, <1>4, <1>5, UusdRedeemedType, SendCostType DEF PoolInv, DogetherInv
<1> HIDE DEF held
<1>8. StakingTypeOK' /\ \E amount \in Uint : L!Distribute(amount)
  BY <1>1, <1>5, UpdateKeeps, PoolInvGivesStakingInv
<1>9. Cw20TypeOK'
  BY <1>1 DEF PoolInv, DogetherInv, Cw20TypeOK, cw20Vars
<1>10. PoolTypeOK'
  <2>1. pool_uusd' \in Nat /\ aust' \in Nat /\ next_draw' \in Nat
    BY <1>1, <1>2, <1>4, <1>7, PoolInputsAssumption
  <2> QED BY <1>1, <2>1 DEF PoolInv, DogetherInv, PoolTypeOK
<1>11. AccountsAgree'
  <2>1. UNCHANGED <<total_balance, claims>>
    BY <1>1 DEF UpdateGlobalIndex
  <2> QED BY <1>1, <2>1 DEF PoolInv, DogetherInv, AccountsAgree, AmountOf, cw20Vars
<1> QED BY <1>8, <1>9, <1>10, <1>11 DEF DogetherInv

\* A ticket concerns the staking contract alone.
LEMMA BuyTicketKeeps ==
  ASSUME PoolInv, NEW h \in Holders, NEW combination \in Combinations,
         NEW price \in Uint, NEW tax \in TaxType,
         BuyTicket(h, combination, price, tax)
  PROVE  DogetherInv' /\ \E cost \in Uint : L!Spend(h, cost)
<1>1. /\ GetTicket(h, combination, price, tax)
      /\ UNCHANGED <<cw20Vars, poolVars>>
  BY DEF BuyTicket
<1>2. StakingTypeOK' /\ \E cost \in Uint : L!Spend(h, cost)
  BY <1>1, GetTicketKeeps, PoolInvGivesStakingInv
<1>3. Cw20TypeOK' /\ PoolTypeOK'
  BY <1>1 DEF PoolInv, DogetherInv, Cw20TypeOK, PoolTypeOK, cw20Vars, poolVars,
              poolState, anchor
<1>4. UNCHANGED <<total_balance, claims>>
  BY <1>1 DEF GetTicket
<1>5. AccountsAgree'
  BY <1>1, <1>4 DEF PoolInv, DogetherInv, AccountsAgree, AmountOf, cw20Vars,
                    poolVars, poolState
<1> QED BY <1>2, <1>3, <1>5 DEF DogetherInv

\* Tokens an initial holder burns are not the staking contract's.
LEMMA BurnTokensKeeps ==
  ASSUME PoolInv, NEW sender \in Addresses, NEW amount \in Uint,
         BurnTokens(sender, amount)
  PROVE  DogetherInv' /\ UNCHANGED L!ledgerVars
<1>1. /\ sender # StakingContract
      /\ ExecuteBurn(sender, amount)
      /\ UNCHANGED <<stakingVars, poolVars>>
  BY DEF BurnTokens
<1>2. Cw20TypeOK'
  BY <1>1, ExecuteBurnType DEF PoolInv, DogetherInv
<1>3. StakingTypeOK' /\ PoolTypeOK'
  BY <1>1 DEF PoolInv, DogetherInv, StakingTypeOK, PoolTypeOK, stakingVars,
              state, lottery, poolVars, poolState, anchor
<1>4. balances'[StakingContract] = balances[StakingContract]
  BY <1>1, WiringAssumption DEF ExecuteBurn, PoolInv, DogetherInv, Cw20TypeOK
<1>5. AccountsAgree'
  BY <1>1, <1>4 DEF PoolInv, DogetherInv, AccountsAgree, AmountOf, stakingVars,
                    state, poolVars, poolState
<1> QED BY <1>1, <1>2, <1>3, <1>5, LedgerUnchanged DEF DogetherInv, stakingVars

\* What others give, interest, blocks and draws.
LEMMA GiftsKeep ==
  ASSUME PoolInv, NEW amount \in Uint,
         GiveUusd(amount) \/ GiveAust(amount) \/ GiveToStaking(amount)
  PROVE  DogetherInv' /\ UNCHANGED L!ledgerVars
<1>1. amount \in Nat
  BY UintIsNat
<1>2. CASE GiveUusd(amount) \/ GiveAust(amount)
  <2>1. /\ UNCHANGED <<stakingVars, cw20Vars, poolState, exchange_rate, now>>
        /\ pool_uusd' \in {pool_uusd, pool_uusd + amount}
        /\ aust' \in {aust, aust + amount}
    BY <1>2 DEF GiveUusd, GiveAust, anchor
  <2>2. PoolTypeOK'
    BY <1>1, <2>1 DEF PoolInv, DogetherInv, PoolTypeOK, poolState
  <2>3. StakingTypeOK' /\ Cw20TypeOK'
    BY <2>1 DEF PoolInv, DogetherInv, StakingTypeOK, Cw20TypeOK, stakingVars,
                cw20Vars, state, lottery
  <2>4. AccountsAgree'
    BY <2>1 DEF PoolInv, DogetherInv, AccountsAgree, AmountOf, stakingVars,
                cw20Vars, state, poolState
  <2> QED BY <2>1, <2>2, <2>3, <2>4, LedgerUnchanged DEF DogetherInv, stakingVars
<1>3. CASE GiveToStaking(amount)
  <2>1. GiveRewards(amount) /\ UNCHANGED <<cw20Vars, poolVars>>
    BY <1>3 DEF GiveToStaking
  <2>2. StakingTypeOK' /\ UNCHANGED L!ledgerVars
    BY <2>1, GiveKeeps, PoolInvGivesStakingInv
  <2>3. Cw20TypeOK' /\ PoolTypeOK'
    BY <2>1 DEF PoolInv, DogetherInv, Cw20TypeOK, PoolTypeOK, cw20Vars,
                poolVars, poolState, anchor
  <2>4. AccountsAgree'
    BY <2>1 DEF GiveRewards, PoolInv, DogetherInv, AccountsAgree, AmountOf,
                state, cw20Vars, poolVars, poolState
  <2> QED BY <2>2, <2>3, <2>4 DEF DogetherInv
<1> QED BY <1>2, <1>3

LEMMA EnvironmentKeeps ==
  ASSUME PoolInv, NEW step \in Nat, NEW seconds \in Nat,
         AccrueInterest(step) \/ Block(seconds) \/ LotteryDraw
  PROVE  DogetherInv' /\ UNCHANGED L!ledgerVars
<1>1. CASE AccrueInterest(step)
  <2>1. PoolTypeOK'
    BY <1>1, UnitAssumption
       DEF AccrueInterest, PoolInv, DogetherInv, PoolTypeOK, poolState
  <2>2. StakingTypeOK' /\ Cw20TypeOK'
    BY <1>1 DEF AccrueInterest, PoolInv, DogetherInv, StakingTypeOK, Cw20TypeOK,
                stakingVars, cw20Vars, state, lottery
  <2>3. AccountsAgree'
    BY <1>1 DEF AccrueInterest, PoolInv, DogetherInv, AccountsAgree, AmountOf,
                stakingVars, cw20Vars, state, poolState
  <2> QED BY <1>1, <2>1, <2>2, <2>3, LedgerUnchanged
          DEF DogetherInv, AccrueInterest, stakingVars
<1>2. CASE Block(seconds) \/ LotteryDraw
  <2>1. /\ NextBlock \/ NextLottery
        /\ UNCHANGED <<cw20Vars, poolState, pool_uusd, anchor>>
        /\ now' \in {now, now + seconds}
    BY <1>2 DEF Block, LotteryDraw, poolVars
  <2>2. StakingTypeOK' /\ UNCHANGED L!ledgerVars
    BY <2>1, ClocksKeep, PoolInvGivesStakingInv
  <2>3. Cw20TypeOK' /\ PoolTypeOK'
    BY <2>1 DEF PoolInv, DogetherInv, Cw20TypeOK, PoolTypeOK, cw20Vars,
                poolState, anchor
  <2>4. AccountsAgree'
    BY <2>1 DEF NextBlock, NextLottery, PoolInv, DogetherInv, AccountsAgree,
                AmountOf, state, cw20Vars, poolState
  <2> QED BY <2>2, <2>3, <2>4 DEF DogetherInv
<1> QED BY <1>1, <1>2

-----------------------------------------------------------------------------
(* The invariant.                                                           *)

\* Instantiation leaves three empty accounts: no initial row is the staking
\* contract's.
LEMMA PoolInitInv == DogetherInit => PoolInv /\ L!Init
<1> SUFFICES ASSUME DogetherInit PROVE PoolInv /\ L!Init
  OBVIOUS
<1>1. StakingInv /\ L!Init
  BY StakingInitInv DEF DogetherInit
<1>2. Cw20TypeOK
  BY Cw20InitType DEF DogetherInit
<1>3. PoolTypeOK
  BY ZeroIsUint, UnitAssumption, PoolInputsAssumption DEF DogetherInit, PoolTypeOK
<1>4. AccountsAgree
  <2>1. claims = {} /\ total_balance = 0 /\ total_ust_pool = 0
    BY DEF DogetherInit, StakingInit
  <2>2. AmountOf(claims) = 0
    BY <2>1, SumEmpty DEF AmountOf
  <2>3. balances[StakingContract] = 0
    <3>1. PICK rows \in InitialRows : Cw20Instantiate(rows)
      BY DEF DogetherInit, Cw20Init
    <3>2. {i \in DOMAIN rows : rows[i].address = StakingContract} = {}
      BY WiringAssumption
    <3>3. BalanceFromRows(rows, StakingContract) = 0
      BY <3>2 DEF BalanceFromRows
    <3> QED BY <3>1, <3>3, WiringAssumption DEF Cw20Instantiate
  <2> QED BY <2>1, <2>2, <2>3 DEF AccountsAgree
<1> QED BY <1>1, <1>2, <1>3, <1>4 DEF PoolInv, DogetherInv, StakingInv

\* Every transaction keeps the accounts and is a step of the ledger.
LEMMA PoolStepRefines ==
  ASSUME PoolInv, [DogetherNext]_dogetherVars
  PROVE  DogetherInv' /\ [L!Next]_(L!ledgerVars)
<1> USE InputsAssumption, PoolInputsAssumption, LedgerUint
<1>1. ASSUME NEW sender \in Holders, NEW sent \in Deposits, NEW tax \in Taxes,
             Pool(sender, sent, tax)
      PROVE  DogetherInv' /\ [L!Next]_(L!ledgerVars)
  <2>1. DogetherInv' /\ L!Deposit(sender, DeductTax(tax, sent))
    BY <1>1, PoolKeeps
  <2>2. DeductTax(tax, sent) \in Uint
    <3>1. DeductTax(tax, sent) \in Nat /\ DeductTax(tax, sent) <= sent
          /\ sent \in Uint
      BY DeductTaxType, UintIsNat
    <3> QED BY <3>1, MaxUintAssumption DEF Uint
  <2> QED BY <2>1, <2>2 DEF L!Next
<1>2. ASSUME NEW sender \in Holders, NEW amount \in Amounts, UnPool(sender, amount)
      PROVE  DogetherInv' /\ [L!Next]_(L!ledgerVars)
  BY <1>2, UnPoolKeeps DEF L!Next
<1>3. ASSUME NEW sender \in Holders, NEW tax \in Taxes,
             NEW paid \in SUBSET ClaimsOf(sender), ClaimUnPool(sender, paid, tax)
      PROVE  DogetherInv' /\ [L!Next]_(L!ledgerVars)
  BY <1>3, ClaimUnPoolKeeps
<1>4. ASSUME NEW tax \in Taxes, RedeemEarning(tax)
      PROVE  DogetherInv' /\ [L!Next]_(L!ledgerVars)
  BY <1>4, RedeemEarningKeeps DEF L!Next
<1>5. ASSUME NEW h \in Holders, NEW combination \in Combinations,
             NEW price \in Prices, NEW tax \in Taxes,
             BuyTicket(h, combination, price, tax)
      PROVE  DogetherInv' /\ [L!Next]_(L!ledgerVars)
  BY <1>5, BuyTicketKeeps DEF L!Next
<1>6. ASSUME NEW sender \in Addresses, NEW amount \in TokenAmounts,
             BurnTokens(sender, amount)
      PROVE  DogetherInv' /\ [L!Next]_(L!ledgerVars)
  BY <1>6, BurnTokensKeeps, TokenInputsAssumption
<1>7. ASSUME NEW amount \in Uint,
             GiveUusd(amount) \/ GiveAust(amount) \/ GiveToStaking(amount)
      PROVE  DogetherInv' /\ [L!Next]_(L!ledgerVars)
  BY <1>7, GiftsKeep
<1>8. ASSUME NEW step \in Nat, NEW seconds \in Nat,
             AccrueInterest(step) \/ Block(seconds) \/ LotteryDraw
      PROVE  DogetherInv' /\ [L!Next]_(L!ledgerVars)
  BY <1>8, EnvironmentKeeps
<1>9. CASE UNCHANGED dogetherVars
  <2>1. DogetherInv'
    BY <1>9 DEF PoolInv, DogetherInv, StakingTypeOK, Cw20TypeOK, PoolTypeOK,
                AccountsAgree, AmountOf, dogetherVars, stakingVars, state, lottery,
                cw20Vars, poolVars, poolState, anchor
  <2> QED BY <1>9, <2>1, LedgerUnchanged DEF dogetherVars, stakingVars
<1> QED BY <1>1, <1>2, <1>3, <1>4, <1>5, <1>6, <1>7, <1>8, <1>9 DEF DogetherNext

LEMMA PoolStepInv == PoolInv /\ [DogetherNext]_dogetherVars => PoolInv'
<1> SUFFICES ASSUME PoolInv, [DogetherNext]_dogetherVars PROVE PoolInv'
  OBVIOUS
<1>1. DogetherInv' /\ [L!Next]_(L!ledgerVars)
  BY PoolStepRefines
<1>2. L!LedgerInv'
  BY <1>1, L!LedgerStepInv, UnitAssumption, MaxUintAssumption, LedgerAccounts
     DEF PoolInv
<1> QED BY <1>1, <1>2 DEF PoolInv

LEMMA PoolInvariant == DogetherSpec => []PoolInv
<1>1. DogetherInit => PoolInv
  BY PoolInitInv
<1> QED BY <1>1, PoolStepInv, PTL DEF DogetherSpec

-----------------------------------------------------------------------------
(* Results.                                                                 *)

\* contract.rs: what the pool owes is always what is bonded or claimed, and
\* what the staking contract can burn, so no subtraction refuses a claim.
THEOREM AccountsAlwaysAgree == DogetherSpec => []AccountsAgree
<1>1. PoolInv => AccountsAgree
  BY DEF PoolInv, DogetherInv
<1> QED BY <1>1, PoolInvariant, PTL

\* The three contracts' values are always what they can be.
THEOREM PoolIsSound == DogetherSpec => []DogetherInv
<1>1. PoolInv => DogetherInv
  BY DEF PoolInv
<1> QED BY <1>1, PoolInvariant, PTL

\* In the whole system too rewards are shared as if all at once, whatever
\* amounts the pool computes and sends.
THEOREM PoolImplementsLedger == DogetherSpec => PaysLikeLedger
<1>1. PoolInv /\ [DogetherNext]_dogetherVars => [Ledger!Next]_(Ledger!ledgerVars)
  BY OneLedger, PoolStepRefines
<1>2. DogetherInit => Ledger!Init
  BY OneLedger, PoolInitInv
<1> QED BY <1>1, <1>2, PoolInvariant, PTL
        DEF DogetherSpec, PaysLikeLedger, Ledger!Spec

\* try_redeem_earning: the next draw is never more than a period ahead of the
\* clock, once the first has been redeemed.
THEOREM DrawsKeepTheirPeriod == DogetherSpec => []OneDrawPerPeriod
<1>1. DogetherInit => OneDrawPerPeriod
  BY DEF DogetherInit, OneDrawPerPeriod
<1>2. PoolInv /\ OneDrawPerPeriod /\ [DogetherNext]_dogetherVars => OneDrawPerPeriod'
  <2> SUFFICES ASSUME PoolInv, OneDrawPerPeriod, [DogetherNext]_dogetherVars
               PROVE  OneDrawPerPeriod'
    OBVIOUS
  <2>1. next_draw \in Nat /\ now \in Nat /\ DrawPeriod \in Nat
    BY PoolInputsAssumption DEF PoolInv, DogetherInv, PoolTypeOK
  <2>2. ASSUME NEW tax, RedeemEarning(tax)
        PROVE  OneDrawPerPeriod'
    <3>1. now >= next_draw /\ next_draw' = next_draw + DrawPeriod /\ now' = now
      BY <2>2 DEF RedeemEarning, DrawIsDue
    <3> QED BY <2>1, <3>1 DEF OneDrawPerPeriod
  <2>3. ASSUME NEW seconds \in Nat, Block(seconds)
        PROVE  OneDrawPerPeriod'
    <3>1. next_draw' = next_draw /\ now' = now + seconds
      BY <2>3 DEF Block, poolState
    <3> QED BY <2>1, <3>1 DEF OneDrawPerPeriod
  <2>4. CASE UNCHANGED <<next_draw, now>>
    BY <2>4 DEF OneDrawPerPeriod
  <2>5. ASSUME NEW sender, NEW amount, NEW tax, NEW paid
        PROVE  /\ Pool(sender, amount, tax) => UNCHANGED <<next_draw, now>>
               /\ UnPool(sender, amount) => UNCHANGED <<next_draw, now>>
               /\ ClaimUnPool(sender, paid, tax) => UNCHANGED <<next_draw, now>>
               /\ BurnTokens(sender, amount) => UNCHANGED <<next_draw, now>>
    BY DEF Pool, UnPool, ClaimUnPool, BurnTokens, poolVars, poolState
  <2>6. ASSUME NEW h, NEW combination, NEW price, NEW tax, NEW amount
        PROVE  /\ BuyTicket(h, combination, price, tax) => UNCHANGED <<next_draw, now>>
               /\ GiveUusd(amount) => UNCHANGED <<next_draw, now>>
               /\ GiveAust(amount) => UNCHANGED <<next_draw, now>>
               /\ GiveToStaking(amount) => UNCHANGED <<next_draw, now>>
               /\ AccrueInterest(amount) => UNCHANGED <<next_draw, now>>
    BY DEF BuyTicket, GiveUusd, GiveAust, GiveToStaking, AccrueInterest, poolVars,
           poolState
  <2>7. LotteryDraw \/ UNCHANGED dogetherVars => UNCHANGED <<next_draw, now>>
    BY DEF LotteryDraw, dogetherVars, poolVars, poolState
  <2> QED BY <2>2, <2>3, <2>4, <2>5, <2>6, <2>7, PoolInputsAssumption
          DEF DogetherNext
<1> QED BY <1>1, <1>2, PoolInvariant, PTL DEF DogetherSpec

-----------------------------------------------------------------------------
(* The deposits keep their worth.                                           *)

\* What PrincipalKept allows a step.
PrincipalStep ==
  \/ InterestAccrued' >= 0
  \/ InterestAccrued' >= InterestAccrued
  \/ /\ total_ust_pool' > total_ust_pool
     /\ InterestAccrued' > InterestAccrued - exchange_rate

\* The interest, in the pool's own numbers.
LEMMA InterestIs ==
  ASSUME PoolTypeOK
  PROVE  InterestAccrued = aust * exchange_rate - total_ust_pool * Unit
<1>1. aust \in Nat /\ exchange_rate \in Nat /\ total_ust_pool \in Nat
  BY UintIsNat DEF PoolTypeOK
<1> QED BY <1>1, InterestExact DEF InterestAccrued, AustValue

LEMMA InterestBecomes ==
  ASSUME PoolTypeOK'
  PROVE  InterestAccrued' = aust' * exchange_rate' - total_ust_pool' * Unit
<1>1. aust' \in Nat /\ exchange_rate' \in Nat /\ total_ust_pool' \in Nat
  BY UintIsNat DEF PoolTypeOK
<1> QED BY <1>1, InterestExact DEF InterestAccrued, AustValue

\* A deposit loses at most the rounding of the aUST minted for it.
LEMMA PoolLosesRounding ==
  ASSUME PoolTypeOK, PoolTypeOK', NEW sender, NEW sent \in Uint,
         NEW tax \in TaxType, Pool(sender, sent, tax)
  PROVE  PrincipalStep
<1> DEFINE deposit == DeductTax(tax, sent)
           minted == AustMinted(deposit)
<1>1. deposit \in Nat /\ deposit > 0
  BY UintIsNat, DeductTaxType DEF Pool
<1>2. /\ aust' = aust + minted /\ exchange_rate' = exchange_rate
      /\ total_ust_pool' = total_ust_pool + deposit
  BY DEF Pool
<1> HIDE DEF deposit
<1>3. minted \in Nat
      /\ deposit * Unit < minted * exchange_rate + exchange_rate
  BY <1>1, AustMintedBounds
<1> HIDE DEF minted
<1>4. aust \in Nat /\ exchange_rate \in Nat /\ total_ust_pool \in Nat
  BY UintIsNat DEF PoolTypeOK
<1>5. /\ (aust + minted) * exchange_rate
           = aust * exchange_rate + minted * exchange_rate
      /\ (total_ust_pool + deposit) * Unit = total_ust_pool * Unit + deposit * Unit
  BY <1>1, <1>3, <1>4, UnitAssumption
<1>6. /\ aust * exchange_rate \in Nat /\ minted * exchange_rate \in Nat
      /\ total_ust_pool * Unit \in Nat /\ deposit * Unit \in Nat
  BY <1>1, <1>3, <1>4, UnitAssumption
<1>7. InterestAccrued' > InterestAccrued - exchange_rate
  BY <1>2, <1>3, <1>4, <1>5, <1>6, InterestIs, InterestBecomes
<1> QED BY <1>1, <1>2, <1>4, <1>7 DEF PrincipalStep

\* What a claim redeems is worth no more than what stops being owed.
LEMMA ClaimLosesNothing ==
  ASSUME PoolInv, PoolTypeOK', NEW sender, NEW paid, NEW tax,
         ClaimUnPool(sender, paid, tax)
  PROVE  PrincipalStep
<1> DEFINE amount == AmountOf(paid)
           redeemed == AustToRedeem(amount)
<1>1. /\ aust' = aust - redeemed /\ exchange_rate' = exchange_rate
      /\ total_ust_pool' = total_ust_pool - amount
  BY DEF ClaimUnPool
<1>2. amount \in Nat
  <2>1. paid \subseteq claims
    BY DEF ClaimUnPool, WithdrawStake, ClaimsOf
  <2> QED BY <2>1, ClaimSums DEF PoolInv, DogetherInv
<1> HIDE DEF amount
<1>3. redeemed \in Nat /\ redeemed * exchange_rate <= amount * Unit
  BY <1>2, WholeDecimal, AustWorthBelow DEF PoolInv, DogetherInv, AustToRedeem
<1> HIDE DEF redeemed
<1>4. PoolTypeOK /\ aust \in Nat /\ exchange_rate \in Nat /\ total_ust_pool \in Nat
  BY UintIsNat DEF PoolInv, DogetherInv, PoolTypeOK
<1>5. /\ (aust - redeemed) * exchange_rate
           = aust * exchange_rate - redeemed * exchange_rate
      /\ (total_ust_pool - amount) * Unit = total_ust_pool * Unit - amount * Unit
  BY <1>2, <1>3, <1>4, UnitAssumption
<1>6. /\ aust * exchange_rate \in Nat /\ redeemed * exchange_rate \in Nat
      /\ total_ust_pool * Unit \in Nat /\ amount * Unit \in Nat
  BY <1>2, <1>3, <1>4, UnitAssumption
<1>7. InterestAccrued' >= InterestAccrued
  BY <1>1, <1>3, <1>4, <1>5, <1>6, InterestIs, InterestBecomes
<1> QED BY <1>7 DEF PrincipalStep

\* A draw takes interest only.
LEMMA EarningLeavesPrincipal ==
  ASSUME PoolTypeOK, PoolTypeOK', NEW tax, RedeemEarning(tax)
  PROVE  PrincipalStep
<1> DEFINE redeemed == AustWorth(InterestAccrued)
<1>1. /\ InterestAccrued >= 0 /\ aust' = aust - redeemed
      /\ exchange_rate' = exchange_rate /\ total_ust_pool' = total_ust_pool
  BY DEF RedeemEarning
<1>2. aust \in Nat /\ exchange_rate \in Nat /\ total_ust_pool \in Nat
  BY UintIsNat DEF PoolTypeOK
<1>3. aust * exchange_rate \in Nat /\ total_ust_pool * Unit \in Nat
  BY <1>2, UnitAssumption
<1>4. InterestAccrued \in Nat
  BY <1>1, <1>3, InterestIs
<1>5. redeemed \in Nat /\ redeemed * exchange_rate <= InterestAccrued
  BY <1>4, AustWorthBelow
<1> HIDE DEF redeemed
<1>6. (aust - redeemed) * exchange_rate
        = aust * exchange_rate - redeemed * exchange_rate
      /\ redeemed * exchange_rate \in Nat
  BY <1>2, <1>5
<1>7. InterestAccrued' >= 0
  BY <1>1, <1>3, <1>5, <1>6, InterestIs, InterestBecomes
<1> QED BY <1>7 DEF PrincipalStep

\* A better rate or a gift of aUST raises what the pool has.
LEMMA GainsAreKept ==
  ASSUME PoolTypeOK, PoolTypeOK', NEW n \in Nat, AccrueInterest(n) \/ GiveAust(n)
  PROVE  PrincipalStep
<1>1. aust \in Nat /\ exchange_rate \in Nat /\ total_ust_pool \in Nat
  BY UintIsNat DEF PoolTypeOK
<1>2. total_ust_pool' = total_ust_pool
      /\ \/ aust' = aust /\ exchange_rate' = exchange_rate + n
         \/ aust' = aust + n /\ exchange_rate' = exchange_rate
  BY DEF AccrueInterest, GiveAust, poolState
<1>3. /\ aust * (exchange_rate + n) = aust * exchange_rate + aust * n
      /\ (aust + n) * exchange_rate = aust * exchange_rate + n * exchange_rate
  BY <1>1
<1>4. /\ aust * n \in Nat /\ n * exchange_rate \in Nat
      /\ aust * exchange_rate \in Nat /\ total_ust_pool * Unit \in Nat
  BY <1>1, UnitAssumption
<1>5. InterestAccrued' >= InterestAccrued
  BY <1>2, <1>3, <1>4, InterestIs, InterestBecomes
<1> QED BY <1>5 DEF PrincipalStep

\* contract.rs: no transaction takes from the deposits, but for the rounding of
\* the aUST a deposit mints.
THEOREM PrincipalIsKept == DogetherSpec => PrincipalKept
<1>1. PoolInv /\ PoolInv' /\ [DogetherNext]_dogetherVars
        => [PrincipalStep]_dogetherVars
  <2> SUFFICES ASSUME PoolInv, PoolInv', DogetherNext PROVE PrincipalStep
    OBVIOUS
  <2> USE InputsAssumption, PoolInputsAssumption
  <2>1. PoolTypeOK /\ PoolTypeOK'
    BY DEF PoolInv, DogetherInv
  <2>2. ASSUME NEW sender \in Holders, NEW sent \in Deposits, NEW tax \in Taxes,
               Pool(sender, sent, tax)
        PROVE  PrincipalStep
    BY <2>1, <2>2, PoolLosesRounding
  <2>3. ASSUME NEW sender, NEW paid, NEW tax, ClaimUnPool(sender, paid, tax)
        PROVE  PrincipalStep
    BY <2>1, <2>3, ClaimLosesNothing
  <2>4. ASSUME NEW tax, RedeemEarning(tax)
        PROVE  PrincipalStep
    BY <2>1, <2>4, EarningLeavesPrincipal
  <2>5. ASSUME NEW n \in Nat, AccrueInterest(n) \/ GiveAust(n)
        PROVE  PrincipalStep
    BY <2>1, <2>5, GainsAreKept
  <2>6. CASE UNCHANGED <<aust, exchange_rate, total_ust_pool>>
    <3>1. aust \in Nat /\ exchange_rate \in Nat /\ total_ust_pool \in Nat
      BY <2>1, UintIsNat DEF PoolTypeOK
    <3>2. InterestAccrued' = InterestAccrued
      BY <2>1, <2>6, InterestIs, InterestBecomes
    <3>3. InterestAccrued \in Int
      BY <2>1, <3>1, InterestIs, UnitAssumption
    <3> QED BY <3>2, <3>3 DEF PrincipalStep
  <2>7. ASSUME NEW sender, NEW amount, NEW seconds
        PROVE  UnPool(sender, amount) \/ BurnTokens(sender, amount)
               \/ GiveUusd(amount) \/ GiveToStaking(amount) \/ Block(seconds)
               \/ LotteryDraw
               => UNCHANGED <<aust, exchange_rate, total_ust_pool>>
    BY DEF UnPool, BurnTokens, GiveUusd, GiveToStaking, Block, LotteryDraw,
           poolVars, poolState, anchor
  <2>8. ASSUME NEW h, NEW combination, NEW price, NEW tax,
               BuyTicket(h, combination, price, tax)
        PROVE  UNCHANGED <<aust, exchange_rate, total_ust_pool>>
    BY <2>8 DEF BuyTicket, poolVars, poolState, anchor
  <2>9. \A amount \in Gifts : amount \in Nat
    BY UintIsNat
  <2> QED BY <2>2, <2>3, <2>4, <2>5, <2>6, <2>7, <2>8, <2>9 DEF DogetherNext
<1>2. [PrincipalStep]_dogetherVars
        <=> [\/ InterestAccrued' >= 0
             \/ InterestAccrued' >= InterestAccrued
             \/ /\ total_ust_pool' > total_ust_pool
                /\ InterestAccrued' > InterestAccrued - exchange_rate]_dogetherVars
  BY DEF PrincipalStep
<1> QED BY <1>1, <1>2, PoolInvariant, PTL DEF DogetherSpec, PrincipalKept

-----------------------------------------------------------------------------
(* What the money market pays falls short by dust.                          *)

\* The aUST computed for a decimal of uusd is short of it by less than one.
LEMMA AustWorthNear ==
  ASSUME PoolTypeOK, NEW decimal \in Nat
  PROVE  decimal < AustWorth(decimal) * exchange_rate + exchange_rate
<1> DEFINE ratio == FromRatio(decimal, exchange_rate)
           whole == AustWorth(decimal)
<1>1. exchange_rate \in Nat \ {0} /\ Unit \in Nat \ {0}
  BY UnitAssumption DEF PoolTypeOK
<1>2. ratio \in Nat /\ decimal * Unit < ratio * exchange_rate + exchange_rate
  BY <1>1, RatioBelow
<1>3. whole \in Nat /\ ratio < whole * Unit + Unit
  BY <1>2, FloorBelow DEF AustWorth
<1> HIDE DEF ratio, whole
<1>4. /\ whole * exchange_rate \in Nat /\ whole * Unit \in Nat
      /\ ratio * exchange_rate \in Nat /\ decimal * Unit \in Nat
  BY <1>1, <1>2, <1>3
<1>5. ratio + 1 <= (whole + 1) * Unit
  BY <1>1, <1>2, <1>3
<1>6. (ratio + 1) * exchange_rate <= ((whole + 1) * Unit) * exchange_rate
  <2>1. (whole + 1) * Unit \in Nat
    BY <1>1, <1>3
  <2> DEFINE most == (whole + 1) * Unit
  <2>2. ratio + 1 <= most /\ most \in Nat
    BY <1>5, <2>1
  <2> HIDE DEF most
  <2>3. (ratio + 1) * exchange_rate <= most * exchange_rate
    BY <1>1, <1>2, <2>2
  <2> QED BY <2>3 DEF most
<1> DEFINE near == whole * exchange_rate + exchange_rate
<1>7. /\ (ratio + 1) * exchange_rate = ratio * exchange_rate + exchange_rate
      /\ ((whole + 1) * Unit) * exchange_rate = near * Unit
      /\ near \in Nat
  BY <1>1, <1>2, <1>3, <1>4
<1> HIDE DEF near
<1>8. decimal * Unit < near * Unit
  BY <1>1, <1>2, <1>4, <1>6, <1>7
<1>9. decimal < near
  <2>1. ASSUME near <= decimal PROVE FALSE
    <3>1. near * Unit <= decimal * Unit
      BY <1>1, <1>7, <2>1
    <3>2. near * Unit \in Nat
      BY <1>1, <1>7
    <3> QED BY <1>4, <1>8, <3>1, <3>2
  <2> QED BY <1>7, <2>1
<1> QED BY <1>9 DEF near, whole

\* Redeeming what is computed for a decimal pays its whole part, less tax, but
\* for the dust.
LEMMA RedeemedShortByDust ==
  ASSUME PoolTypeOK, NEW tax \in TaxType, NEW decimal \in Nat
  PROVE  /\ Dust \in Nat
         /\ DeductTax(tax, Floor(decimal))
              <= Dust + UusdRedeemed(tax, AustWorth(decimal))
<1> DEFINE whole == Floor(decimal)
           redeemed == AustWorth(decimal)
           worth == redeemed * exchange_rate
           paid == worth \div Unit
           spread == exchange_rate \div Unit
<1>1. exchange_rate \in Nat \ {0} /\ Unit \in Nat \ {0}
  BY UnitAssumption DEF PoolTypeOK
<1>2. whole \in Nat /\ whole * Unit <= decimal /\ decimal < whole * Unit + Unit
  BY FloorBelow
<1>3. redeemed \in Nat /\ worth <= decimal /\ decimal < worth + exchange_rate
  BY AustWorthBelow, AustWorthNear
<1> HIDE DEF redeemed
<1>4. worth \in Nat
  BY <1>1, <1>3
<1>5. paid \in Nat /\ paid * Unit <= worth /\ worth < paid * Unit + Unit
  BY <1>1, <1>4, DivBounds
<1>6. spread \in Nat /\ exchange_rate < spread * Unit + Unit
  BY <1>1, DivBounds
<1>7. UusdRedeemed(tax, AustWorth(decimal)) = DeductTax(tax, paid)
  BY DEF UusdRedeemed, MultiplyRatio, redeemed
<1>8. Dust = 1 + spread
  BY DEF Dust
<1> HIDE DEF whole, worth, paid, spread
<1>9. whole * Unit \in Nat /\ paid * Unit \in Nat /\ spread * Unit \in Nat
  BY <1>1, <1>2, <1>5, <1>6
<1>10. paid <= whole
  <2>1. paid * Unit < whole * Unit + Unit
    BY <1>1, <1>2, <1>3, <1>4, <1>5, <1>9
  <2> QED BY <1>2, <1>5, <2>1, CancelUnit
<1>11. whole <= paid + spread + 1
  <2>1. /\ (paid + spread + 1) * Unit = paid * Unit + spread * Unit + Unit
    BY <1>1, <1>5, <1>6
  <2>2. whole * Unit < paid * Unit + Unit + spread * Unit + Unit
    BY <1>1, <1>2, <1>3, <1>4, <1>5, <1>6, <1>9
  <2>3. whole * Unit < (paid + spread + 1) * Unit + Unit
    BY <1>1, <1>9, <2>1, <2>2
  <2> QED BY <1>2, <1>5, <1>6, <2>3, CancelUnit
<1>12. DeductTax(tax, whole) <= DeductTax(tax, paid) + (whole - paid)
  BY <1>2, <1>5, <1>10, DeductTaxGrowsSlowly
<1>13. DeductTax(tax, whole) \in Nat /\ DeductTax(tax, paid) \in Nat
  BY <1>2, <1>5, DeductTaxType
<1>14. DeductTax(tax, whole) <= Dust + DeductTax(tax, paid)
  BY <1>2, <1>5, <1>6, <1>8, <1>11, <1>12, <1>13
<1> QED BY <1>6, <1>7, <1>8, <1>14 DEF whole

\* contract.rs: to pay a mature claim the pool never needs more than dust of its
\* own beside what the money market pays for it.
THEOREM ClaimsNeedOnlyDust == DogetherSpec => []ClaimNeedsOnlyDust
<1>1. PoolInv => ClaimNeedsOnlyDust
  <2> SUFFICES ASSUME PoolInv, NEW h \in Holders, NEW tax \in Taxes
               PROVE  ClaimCovered(h, tax, Dust)
    BY DEF ClaimNeedsOnlyDust
  <2> DEFINE due == DueAmount(h)
             gross == DeductTax(tax, due)
  <2>1. tax \in TaxType /\ PoolTypeOK /\ StakingTypeOK
    BY InputsAssumption DEF PoolInv, DogetherInv
  <2>2. due \in Nat
    <3>1. {c \in ClaimsOf(h) : Mature(c)} \subseteq claims
      BY DEF ClaimsOf
    <3> QED BY <2>1, <3>1, ClaimSums DEF DueAmount
  <2>3. ClaimCovered(h, tax, Dust)
          <=> SendCost(tax, DeductTax(tax, gross))
                <= Dust + UusdRedeemed(tax, AustWorth(FromRatio(due, 1)))
    BY DEF ClaimCovered, NetAmount, AustToRedeem
  <2> HIDE DEF due
  <2>4. FromRatio(due, 1) \in Nat /\ Floor(FromRatio(due, 1)) = due
    BY <2>2, WholeDecimal, DivExact, UnitAssumption DEF Floor
  <2>5. gross \in Nat
    BY <2>1, <2>2, DeductTaxType
  <2>6. Dust \in Nat
        /\ gross <= Dust + UusdRedeemed(tax, AustWorth(FromRatio(due, 1)))
    BY <2>1, <2>4, RedeemedShortByDust
  <2> HIDE DEF gross
  <2>7. gross - SendCost(tax, DeductTax(tax, gross)) \in Nat
    BY <2>1, <2>5, SendKeeps
  <2>8. SendCost(tax, DeductTax(tax, gross)) \in Nat
    BY <2>1, <2>5, DeductTaxType, SendCostType
  <2>9. UusdRedeemed(tax, AustWorth(FromRatio(due, 1))) \in Nat
    BY <2>1, <2>4, AustWorthBelow, UusdRedeemedType
  <2> QED BY <2>3, <2>5, <2>6, <2>7, <2>8, <2>9
<1> QED BY <1>1, PoolInvariant, PTL

\* contract.rs: neither does a draw, though it sends what it computed.
THEOREM EarningsNeedOnlyDust == DogetherSpec => []EarningNeedsOnlyDust
<1>1. PoolInv => EarningNeedsOnlyDust
  <2> SUFFICES ASSUME PoolInv, InterestAccrued >= 0, NEW tax \in Taxes
               PROVE  EarningCovered(tax, Dust)
    BY DEF EarningNeedsOnlyDust
  <2>1. tax \in TaxType /\ PoolTypeOK
    BY InputsAssumption DEF PoolInv, DogetherInv
  <2>2. pool_uusd \in Nat /\ InterestAccrued \in Nat
    <3>1. aust * exchange_rate \in Nat /\ total_ust_pool * Unit \in Nat
      BY <2>1, UintIsNat, UnitAssumption DEF PoolTypeOK
    <3> QED BY <2>1, <3>1, InterestIs DEF PoolTypeOK
  <2> DEFINE redeemed == UusdRedeemed(tax, AustWorth(InterestAccrued))
             net == DeductTax(tax, Floor(InterestAccrued))
             paid == SendCost(tax, Earning(tax))
  <2>3. paid \in Nat /\ paid <= net + pool_uusd
    BY <2>1, <2>2, EarningType, SendCostType
  <2>4. Dust \in Nat /\ net <= Dust + redeemed
    BY <2>1, <2>2, RedeemedShortByDust
  <2>5. net \in Nat /\ redeemed \in Nat
    BY <2>1, <2>2, FloorBelow, DeductTaxType, AustWorthBelow, UusdRedeemedType
  <2> HIDE DEF redeemed, net, paid
  <2>6. paid <= Dust + pool_uusd + redeemed
    BY <2>2, <2>3, <2>4, <2>5
  <2> QED BY <2>6 DEF EarningCovered, redeemed, paid
<1> QED BY <1>1, PoolInvariant, PTL

-----------------------------------------------------------------------------
(* Nobody is paid out of the interest.                                      *)

\* The surplus, in the pool's and the staking contract's own numbers.
LEMMA SurplusIs ==
  ASSUME PoolTypeOK, StakingTypeOK
  PROVE  /\ Surplus = aust * exchange_rate - total_ust_pool * Unit
                        + (pool_uusd + staking_uusd) * Unit
         /\ Surplus \in Int
         /\ pool_uusd \in Nat /\ staking_uusd \in Nat
<1>1. /\ aust \in Nat /\ exchange_rate \in Nat /\ total_ust_pool \in Nat
      /\ pool_uusd \in Nat /\ staking_uusd \in Nat /\ Unit \in Nat
  BY UintIsNat, UnitAssumption DEF PoolTypeOK, StakingTypeOK
<1>2. InterestAccrued = aust * exchange_rate - total_ust_pool * Unit
  BY InterestIs
<1> QED BY <1>1, <1>2 DEF Surplus

LEMMA SurplusBecomes ==
  ASSUME PoolTypeOK', StakingTypeOK'
  PROVE  Surplus' = aust' * exchange_rate' - total_ust_pool' * Unit
                      + (pool_uusd' + staking_uusd') * Unit
<1>1. InterestAccrued' = aust' * exchange_rate' - total_ust_pool' * Unit
  BY InterestBecomes
<1> QED BY <1>1 DEF Surplus

\* A deposit is staked whole and loses the rounding of the aUST it mints.
LEMMA PoolKeepsSurplus ==
  ASSUME PoolInv, PoolInv', NEW sender, NEW sent \in Uint,
         NEW tax \in TaxType, tax.rate = 0, Pool(sender, sent, tax)
  PROVE  SurplusStep
<1> DEFINE minted == AustMinted(sent)
<1>1. /\ PoolTypeOK /\ StakingTypeOK /\ PoolTypeOK' /\ StakingTypeOK'
  BY DEF PoolInv, DogetherInv
<1>2. sent \in Nat /\ DeductTax(tax, sent) = sent /\ SendCost(tax, sent) = sent
  BY UintIsNat, Untaxed
<1>3. /\ aust \in Nat /\ exchange_rate \in Nat \ {0} /\ total_ust_pool \in Nat
      /\ pool_uusd \in Nat /\ staking_uusd \in Nat /\ Unit \in Nat \ {0}
  BY <1>1, UintIsNat, UnitAssumption DEF PoolTypeOK, StakingTypeOK
<1>4. /\ aust' = aust + minted /\ exchange_rate' = exchange_rate
      /\ total_ust_pool' = total_ust_pool + sent
      /\ pool_uusd' = pool_uusd + sent - sent /\ staking_uusd' = staking_uusd
      /\ sent > 0
  BY <1>2 DEF Pool, Bond
<1>5. /\ minted \in Nat /\ minted * exchange_rate <= sent * Unit
      /\ sent * Unit < minted * exchange_rate + exchange_rate
  BY <1>1, <1>2, AustMintedBounds
<1> HIDE DEF minted
<1>6. /\ (aust + minted) * exchange_rate
           = aust * exchange_rate + minted * exchange_rate
      /\ (total_ust_pool + sent) * Unit = total_ust_pool * Unit + sent * Unit
  BY <1>2, <1>3, <1>5
<1>7. pool_uusd' = pool_uusd
  BY <1>2, <1>3, <1>4
<1> DEFINE worth == aust * exchange_rate
           gained == minted * exchange_rate
           due == total_ust_pool * Unit
           more == sent * Unit
           cash == (pool_uusd + staking_uusd) * Unit
<1>8. /\ worth \in Nat /\ gained \in Nat /\ due \in Nat /\ more \in Nat
      /\ cash \in Nat
  BY <1>2, <1>3, <1>5
<1>9. Surplus = worth - due + cash
  BY <1>1, SurplusIs
<1>10. Surplus' = (worth + gained) - (due + more) + cash
  BY <1>1, <1>4, <1>6, <1>7, SurplusBecomes
<1>11. gained <= more /\ more < gained + exchange_rate
  BY <1>5
<1> HIDE DEF worth, gained, due, more, cash
<1>12. Surplus' <= Surplus /\ Surplus' > Surplus - (Unit + exchange_rate)
  BY <1>3, <1>8, <1>9, <1>10, <1>11
<1>13. SurplusRounding = Unit + exchange_rate
  BY <1>2, <1>3, <1>4 DEF SurplusRounding
<1> QED BY <1>12, <1>13 DEF SurplusStep

\* What is redeemed becomes uusd but for its fraction; how it is then divided
\* between the two contracts, or what stops being owed, is the same on both
\* sides.
LEMMA RedeemKeepsSurplus ==
  ASSUME PoolInv, PoolInv',
         NEW redeemed \in Nat, NEW paid \in Nat, NEW moved \in Nat,
         NEW got, got = MultiplyRatio(redeemed, exchange_rate, Unit),
         aust' = aust - redeemed, exchange_rate' = exchange_rate,
         total_ust_pool' = total_ust_pool - paid,
         pool_uusd' = pool_uusd + got - (paid + moved),
         staking_uusd' = staking_uusd + moved
  PROVE  SurplusStep
<1>1. /\ PoolTypeOK /\ StakingTypeOK /\ PoolTypeOK' /\ StakingTypeOK'
  BY DEF PoolInv, DogetherInv
<1>2. /\ aust \in Nat /\ exchange_rate \in Nat /\ total_ust_pool \in Nat
      /\ pool_uusd \in Nat /\ staking_uusd \in Nat /\ Unit \in Nat \ {0}
  BY <1>1, UintIsNat, UnitAssumption DEF PoolTypeOK, StakingTypeOK
<1> DEFINE worth == aust * exchange_rate
           lost == redeemed * exchange_rate
           due == total_ust_pool * Unit
           less == paid * Unit
           gained == got * Unit
           cash == (pool_uusd + staking_uusd) * Unit
<1>3. lost \in Nat
  BY <1>2
<1>4. got \in Nat /\ gained <= lost /\ lost < gained + Unit
  BY <1>2, <1>3, DivBounds DEF MultiplyRatio
<1>5. /\ worth \in Nat /\ due \in Nat /\ less \in Nat /\ gained \in Nat
      /\ cash \in Nat
  BY <1>2, <1>4
<1>6. /\ (aust - redeemed) * exchange_rate = worth - lost
      /\ (total_ust_pool - paid) * Unit = due - less
  BY <1>2
<1>7. (pool_uusd' + staking_uusd') * Unit = cash + gained - less
  <2>1. pool_uusd' + staking_uusd' = (pool_uusd + staking_uusd) + got - paid
    BY <1>2, <1>4
  <2>2. ((pool_uusd + staking_uusd) + got - paid) * Unit = cash + gained - less
    BY <1>2, <1>4
  <2> QED BY <2>1, <2>2
<1>8. Surplus = worth - due + cash
  BY <1>1, SurplusIs
<1>9. Surplus' = (worth - lost) - (due - less) + (cash + gained - less)
  BY <1>1, <1>6, <1>7, SurplusBecomes
<1> HIDE DEF worth, lost, due, less, gained, cash
<1>10. Surplus' <= Surplus /\ Surplus' > Surplus - Unit
  BY <1>2, <1>3, <1>4, <1>5, <1>8, <1>9
<1>11. SurplusRounding = Unit
  BY <1>2 DEF SurplusRounding
<1> QED BY <1>10, <1>11 DEF SurplusStep

\* A claim is paid what stops being owed.
LEMMA ClaimKeepsSurplus ==
  ASSUME PoolInv, PoolInv', NEW sender, NEW paid, NEW tax \in TaxType,
         tax.rate = 0, ClaimUnPool(sender, paid, tax)
  PROVE  SurplusStep
<1> DEFINE amount == AmountOf(paid)
           redeemed == AustToRedeem(amount)
           got == MultiplyRatio(redeemed, exchange_rate, Unit)
<1>1. /\ aust' = aust - redeemed /\ exchange_rate' = exchange_rate
      /\ total_ust_pool' = total_ust_pool - amount
      /\ pool_uusd' = (pool_uusd + UusdRedeemed(tax, redeemed))
                        - SendCost(tax, NetAmount(tax, amount))
      /\ staking_uusd' = staking_uusd
  <2>1. staking_uusd' = staking_uusd
    BY DEF ClaimUnPool, WithdrawStake
  <2> QED BY <2>1 DEF ClaimUnPool
<1>2. amount \in Nat
  <2>1. paid \subseteq claims
    BY DEF ClaimUnPool, WithdrawStake, ClaimsOf
  <2> QED BY <2>1, ClaimSums DEF PoolInv, DogetherInv
<1> HIDE DEF amount
<1>3. redeemed \in Nat
  BY <1>2, WholeDecimal, AustWorthBelow DEF PoolInv, DogetherInv, AustToRedeem
<1> HIDE DEF redeemed
<1>4. got \in Nat
  <2>1. exchange_rate \in Nat /\ redeemed * exchange_rate \in Nat
    BY <1>3 DEF PoolInv, DogetherInv, PoolTypeOK
  <2> QED BY <2>1, UnitAssumption, DivBounds DEF MultiplyRatio
<1>5. UusdRedeemed(tax, redeemed) = got
  BY <1>4, Untaxed DEF UusdRedeemed
<1>6. SendCost(tax, NetAmount(tax, amount)) = amount
  BY <1>2, Untaxed DEF NetAmount
<1>7. staking_uusd \in Nat /\ pool_uusd \in Nat
  BY UintIsNat DEF PoolInv, DogetherInv, StakingTypeOK, PoolTypeOK
<1> HIDE DEF got
<1>8. /\ pool_uusd' = pool_uusd + got - (amount + 0)
      /\ staking_uusd' = staking_uusd + 0
  BY <1>1, <1>2, <1>4, <1>5, <1>6, <1>7
<1>9. got = MultiplyRatio(redeemed, exchange_rate, Unit) /\ 0 \in Nat
  BY DEF got
<1> QED BY <1>1, <1>2, <1>3, <1>8, <1>9, RedeemKeepsSurplus

\* A draw hands over what it takes.
LEMMA EarningKeepsSurplus ==
  ASSUME PoolInv, PoolInv', NEW tax \in TaxType, tax.rate = 0,
         RedeemEarning(tax)
  PROVE  SurplusStep
<1> DEFINE redeemed == AustWorth(InterestAccrued)
           got == MultiplyRatio(redeemed, exchange_rate, Unit)
           earning == Earning(tax)
<1>1. /\ aust' = aust - redeemed /\ exchange_rate' = exchange_rate
      /\ total_ust_pool' = total_ust_pool
      /\ pool_uusd' = (pool_uusd + UusdRedeemed(tax, redeemed))
                        - SendCost(tax, earning)
      /\ staking_uusd' = staking_uusd + earning
      /\ InterestAccrued >= 0
  <2>1. staking_uusd' = staking_uusd + earning
    BY DEF RedeemEarning, UpdateGlobalIndex
  <2> QED BY <2>1 DEF RedeemEarning
<1>2. /\ aust \in Nat /\ exchange_rate \in Nat /\ total_ust_pool \in Nat
      /\ pool_uusd \in Nat /\ Unit \in Nat \ {0}
  BY UintIsNat, UnitAssumption DEF PoolInv, DogetherInv, PoolTypeOK
<1>3. InterestAccrued \in Nat
  BY <1>1, <1>2, InterestIs DEF PoolInv, DogetherInv
<1>4. redeemed \in Nat
  BY <1>3, AustWorthBelow DEF PoolInv, DogetherInv
<1>5. earning \in Nat
  <2>1. Floor(InterestAccrued) \in Nat
    BY <1>3, FloorBelow
  <2>2. DeductTax(tax, Floor(InterestAccrued)) = Floor(InterestAccrued)
    BY <2>1, Untaxed
  <2>3. EarningsExpected(tax) \in Nat
    BY <1>2, <2>1, <2>2 DEF EarningsExpected
  <2> QED BY <2>3, Untaxed DEF Earning
<1> HIDE DEF redeemed, earning
<1>6. got \in Nat
  <2>1. redeemed * exchange_rate \in Nat
    BY <1>2, <1>4
  <2> QED BY <1>2, <2>1, DivBounds DEF MultiplyRatio
<1>7. /\ UusdRedeemed(tax, redeemed) = got
      /\ SendCost(tax, earning) = earning
  BY <1>5, <1>6, Untaxed DEF UusdRedeemed
<1>8. got = MultiplyRatio(redeemed, exchange_rate, Unit) /\ 0 \in Nat
  OBVIOUS
<1> HIDE DEF got
<1>9. /\ total_ust_pool' = total_ust_pool - 0
      /\ pool_uusd' = pool_uusd + got - (0 + earning)
  BY <1>1, <1>2, <1>5, <1>6, <1>7
<1> QED BY <1>1, <1>4, <1>5, <1>8, <1>9, RedeemKeepsSurplus

\* contract.rs, global.rs: untaxed, no interest is lost but a rounding, and
\* none leaves the two contracts but for tickets.
THEOREM InterestIsNeverLost == DogetherSpec => InterestNeverLost
<1>1. PoolInv /\ PoolInv' /\ [DogetherNext]_dogetherVars
        => [TaxFree => SurplusStep]_dogetherVars
  <2> SUFFICES ASSUME PoolInv, PoolInv', DogetherNext, TaxFree PROVE SurplusStep
    OBVIOUS
  <2> USE InputsAssumption, PoolInputsAssumption
  <2>1. ASSUME NEW sender \in Holders, NEW sent \in Deposits, NEW tax \in Taxes,
               Pool(sender, sent, tax)
        PROVE  SurplusStep
    BY <2>1, PoolKeepsSurplus DEF TaxFree
  <2>2. ASSUME NEW sender, NEW paid, NEW tax \in Taxes,
               ClaimUnPool(sender, paid, tax)
        PROVE  SurplusStep
    BY <2>2, ClaimKeepsSurplus DEF TaxFree
  <2>3. ASSUME NEW tax \in Taxes, RedeemEarning(tax)
        PROVE  SurplusStep
    BY <2>3, EarningKeepsSurplus DEF TaxFree
  <2>4. ASSUME NEW h, NEW combination \in Combinations, NEW price, NEW tax,
               BuyTicket(h, combination, price, tax)
        PROVE  SurplusStep
    <3>1. combination \in Seq(Range(combination)) /\ combination # << >>
      BY <2>4 DEF BuyTicket, GetTicket
    <3>2. Len(combination) \in Nat \ {0}
      BY <3>1
    <3>3. lottery_tickets' = lottery_tickets + Len(combination)
          /\ lottery_tickets \in Nat
      BY <2>4 DEF BuyTicket, GetTicket, PoolInv, DogetherInv, StakingTypeOK
    <3> QED BY <3>2, <3>3 DEF SurplusStep
  <2>5. ASSUME NEW amount \in Gifts, GiveUusd(amount) \/ GiveAust(amount)
        PROVE  SurplusStep
    BY <2>5 DEF SurplusStep, SurplusMayGrow
  <2>6. ASSUME NEW amount \in Rewards, GiveToStaking(amount)
        PROVE  SurplusStep
    BY <2>6 DEF SurplusStep, SurplusMayGrow
  <2>7. ASSUME NEW step \in RateSteps, AccrueInterest(step)
        PROVE  SurplusStep
    BY <2>7 DEF SurplusStep, SurplusMayGrow
  <2>8. CASE UNCHANGED <<aust, exchange_rate, total_ust_pool, pool_uusd, staking_uusd>>
    <3>1. /\ PoolTypeOK /\ StakingTypeOK /\ PoolTypeOK' /\ StakingTypeOK'
      BY DEF PoolInv, DogetherInv
    <3>2. Surplus' = Surplus /\ Surplus \in Int
      BY <2>8, <3>1, SurplusIs, SurplusBecomes
    <3>3. total_ust_pool \in Nat /\ SurplusRounding = Unit
      BY <2>8, <3>1, UintIsNat, UnitAssumption DEF PoolTypeOK, SurplusRounding
    <3> QED BY <3>2, <3>3, UnitAssumption DEF SurplusStep
  <2>9. ASSUME NEW sender, NEW amount, NEW seconds
        PROVE  UnPool(sender, amount) \/ BurnTokens(sender, amount)
               \/ Block(seconds) \/ LotteryDraw
               => UNCHANGED <<aust, exchange_rate, total_ust_pool, pool_uusd,
                              staking_uusd>>
    BY DEF UnPool, UnbondStake, BurnTokens, Block, NextBlock, LotteryDraw,
           NextLottery, stakingVars, poolVars, poolState, anchor
  <2> QED BY <2>1, <2>2, <2>3, <2>4, <2>5, <2>6, <2>7, <2>8, <2>9 DEF DogetherNext
<1> QED BY <1>1, PoolInvariant, PTL DEF DogetherSpec, InterestNeverLost

-----------------------------------------------------------------------------
(* The ledger is instantiated with the sums of this module.                 *)

LEMMA DepositUint == Deposited!Uint = Uint
BY DEF Deposited!Uint, Uint

LEMMA DepositTotal ==
  ASSUME NEW cs
  PROVE  Deposited!Total(cs) = AmountOf(cs)
<1>1. ASSUME NEW T PROVE Deposited!Cardinality(T) = Cardinality(T)
  BY DEF Deposited!Cardinality, Cardinality
<1> QED BY <1>1 DEF Deposited!Total, Deposited!SumOver, Deposited!Tokens,
                    AmountOf, SumOver, Tokens

\* What the ledger sees of a state.
LEMMA DepositView ==
  ASSUME UNCHANGED holders, UNCHANGED claims, UNCHANGED total_ust_pool,
         UNCHANGED height
  PROVE  UNCHANGED Deposited!depositVars
BY DEF Deposited!depositVars

-----------------------------------------------------------------------------
(* One lemma for each transaction that moves deposits.                      *)

LEMMA PoolPuts ==
  ASSUME PoolInv, NEW sender \in Holders, NEW sent \in Uint, NEW tax \in TaxType,
         Pool(sender, sent, tax)
  PROVE  Deposited!DepositNext
<1> DEFINE deposit == DeductTax(tax, sent)
<1>1. L!Deposit(sender, deposit)
  BY PoolKeeps
<1>2. deposit \in Uint
  <2>1. deposit \in Nat /\ deposit <= sent /\ sent \in Uint
    BY UintIsNat, DeductTaxType
  <2> HIDE DEF deposit
  <2> QED BY <2>1, MaxUintAssumption DEF Uint
<1>3. /\ total_ust_pool' = total_ust_pool + deposit
      /\ UNCHANGED <<claims, height>>
  BY DEF Pool, Bond
<1> HIDE DEF deposit
<1>4. Deposited!Put(sender, deposit)
  BY <1>1, <1>3 DEF L!Deposit, Deposited!Put
<1> QED BY <1>2, <1>4, DepositUint DEF Deposited!DepositNext

LEMMA UnPoolIsAsked ==
  ASSUME PoolInv, NEW sender \in Holders, NEW amount \in Uint,
         UnPool(sender, amount)
  PROVE  Deposited!DepositNext
<1> DEFINE new == [owner |-> sender, position |-> NextPosition(sender),
                   amount |-> amount, release_at |-> height + UnbondingPeriod]
<1>1. L!Leave(sender, amount)
  BY UnPoolKeeps
<1>2. /\ claims' = claims \cup {new}
      /\ UNCHANGED <<total_ust_pool, height>>
  BY DEF UnPool, UnbondStake, CreateClaim, poolVars, poolState
<1>3. /\ new.owner = sender /\ new.amount = amount
      /\ new.position = NextPosition(sender)
      /\ new.release_at = height + UnbondingPeriod
  OBVIOUS
<1> HIDE DEF new
<1>4. new \notin claims
  <2> SUFFICES ASSUME new \in claims PROVE FALSE
    OBVIOUS
  <2>1. new \in ClaimsOf(sender)
    BY <1>3 DEF ClaimsOf
  <2> QED BY <1>3, <2>1, NextPositionIsNew DEF PoolInv, DogetherInv
<1>5. amount \in 1 .. holders[sender].balance
  <2>1. holders[sender].balance \in Nat /\ amount \in Nat
    BY UintIsNat DEF PoolInv, DogetherInv, StakingTypeOK, Holder
  <2> QED BY <1>1, <2>1 DEF L!Leave
<1>6. Deposited!Ask(sender, amount)
  BY <1>1, <1>2, <1>3, <1>4, <1>5 DEF L!Leave, Deposited!Ask
<1> QED BY <1>6, DepositUint DEF Deposited!DepositNext

LEMMA ClaimPays ==
  ASSUME NEW sender \in Holders, NEW paid, NEW tax, ClaimUnPool(sender, paid, tax)
  PROVE  Deposited!DepositNext
<1>1. /\ WithdrawStake(Admin, sender, {}, paid)
      /\ total_ust_pool' = total_ust_pool - AmountOf(paid)
  BY DEF ClaimUnPool
<1>2. /\ paid \subseteq ClaimsOf(sender)
      /\ IsPaid(sender, {}, paid)
      /\ AmountOf(paid) > 0
      /\ claims' = claims \ paid
      /\ UNCHANGED <<holders, height>>
  BY <1>1 DEF WithdrawStake
<1> DEFINE due == {r \in Deposited!Of(sender) : height >= r.release_at}
<1>3. paid = due
  BY <1>2 DEF IsPaid, Mature, ClaimsOf, Deposited!Of
<1> HIDE DEF due
<1>4. Deposited!Total(due) = AmountOf(paid)
  BY <1>3, DepositTotal
<1>5. Deposited!Pay(sender)
  BY <1>1, <1>2, <1>3, <1>4 DEF Deposited!Pay, due
<1> QED BY <1>5 DEF Deposited!DepositNext

-----------------------------------------------------------------------------
LEMMA PoolStepDeposits ==
  ASSUME PoolInv, [DogetherNext]_dogetherVars
  PROVE  [Deposited!DepositNext]_(Deposited!depositVars)
<1> USE InputsAssumption, PoolInputsAssumption
<1>1. ASSUME NEW sender \in Holders, NEW sent \in Deposits, NEW tax \in Taxes,
             Pool(sender, sent, tax)
      PROVE  Deposited!DepositNext
  BY <1>1, PoolPuts
<1>2. ASSUME NEW sender \in Holders, NEW amount \in Amounts, UnPool(sender, amount)
      PROVE  Deposited!DepositNext
  BY <1>2, UnPoolIsAsked
<1>3. ASSUME NEW sender \in Holders, NEW tax \in Taxes,
             NEW paid \in SUBSET ClaimsOf(sender), ClaimUnPool(sender, paid, tax)
      PROVE  Deposited!DepositNext
  BY <1>3, ClaimPays
<1>4. ASSUME NEW tax \in Taxes, RedeemEarning(tax)
      PROVE  UNCHANGED Deposited!depositVars
  BY <1>4, DepositView DEF RedeemEarning, UpdateGlobalIndex
<1>5. ASSUME NEW h \in Holders, NEW combination \in Combinations,
             NEW price \in Prices, NEW tax \in Taxes,
             BuyTicket(h, combination, price, tax)
      PROVE  UNCHANGED Deposited!depositVars
  <2>1. [g \in Holders |-> holders[g].balance]'
          = [g \in Holders |-> holders[g].balance]
    BY <1>5 DEF BuyTicket, GetTicket, Settled, PoolInv, DogetherInv, StakingTypeOK,
                Holder
  <2> QED BY <1>5, <2>1 DEF BuyTicket, GetTicket, poolVars, poolState,
                            Deposited!depositVars
<1>6. ASSUME NEW sender, NEW amount, BurnTokens(sender, amount)
      PROVE  UNCHANGED Deposited!depositVars
  BY <1>6, DepositView DEF BurnTokens, stakingVars, poolVars, poolState
<1>7. ASSUME NEW amount,
             GiveUusd(amount) \/ GiveAust(amount) \/ GiveToStaking(amount)
      PROVE  UNCHANGED Deposited!depositVars
  BY <1>7, DepositView
     DEF GiveUusd, GiveAust, GiveToStaking, GiveRewards, stakingVars, poolVars,
         poolState
<1>8. ASSUME NEW step, NEW seconds, AccrueInterest(step) \/ LotteryDraw
      PROVE  UNCHANGED Deposited!depositVars
  BY <1>8, DepositView
     DEF AccrueInterest, LotteryDraw, NextLottery, stakingVars, poolVars, poolState
<1>9. ASSUME NEW seconds, Block(seconds)
      PROVE  Deposited!DepositNext
  <2>1. /\ height' = height + 1
        /\ UNCHANGED <<holders, claims, total_ust_pool>>
    BY <1>9 DEF Block, NextBlock, poolState
  <2>2. Deposited!Tick
    BY <2>1 DEF Deposited!Tick
  <2> QED BY <2>2 DEF Deposited!DepositNext
<1>10. CASE UNCHANGED dogetherVars
  BY <1>10, DepositView DEF dogetherVars, stakingVars, poolVars, poolState
<1> QED BY <1>1, <1>2, <1>3, <1>4, <1>5, <1>6, <1>7, <1>8, <1>9, <1>10
        DEF DogetherNext

\* contract.rs, user.rs, claim.rs: the pool, with its total and its two
\* contracts, implements the ledger of each user's deposit.
THEOREM PoolKeepsDeposits == DogetherSpec => KeepsDeposits
<1>1. PoolInv /\ [DogetherNext]_dogetherVars
        => [Deposited!DepositNext]_(Deposited!depositVars)
  BY PoolStepDeposits
<1>2. DogetherInit => Deposited!DepositInit
  BY DEF DogetherInit, StakingInit, NoHolder, Deposited!DepositInit
<1> QED BY <1>1, <1>2, PoolInvariant, PTL
        DEF DogetherSpec, KeepsDeposits, Deposited!DepositSpec

-----------------------------------------------------------------------------
(* Nothing but money refuses a claim.                                       *)

\* The conditions of a claim in the three contracts, in their order.
ClaimAllowed(h, paid, tax) ==
  LET amount == AmountOf(paid)
      net_amount == NetAmount(tax, amount)
  IN  /\ paid \subseteq ClaimsOf(h) /\ IsPaid(h, {}, paid)
      /\ amount > 0 /\ Fits(amount)
      /\ balances[StakingContract] >= amount /\ total_supply >= amount
      /\ Fits(FromRatio(amount, 1)) /\ total_ust_pool >= amount
      /\ AustToRedeem(amount) \in 1 .. aust
      /\ net_amount > 0
      /\ SendCost(tax, net_amount)
           <= pool_uusd + UusdRedeemed(tax, AustToRedeem(amount))

\* What a claim stores, a value for each variable.
ClaimStored(h, paid, tax) ==
  LET amount == AmountOf(paid)
  IN  /\ claims' = claims \ paid
      /\ balances' = [balances EXCEPT ![StakingContract] = @ - amount]
      /\ total_supply' = total_supply - amount
      /\ total_ust_pool' = total_ust_pool - amount
      /\ aust' = aust - AustToRedeem(amount)
      /\ pool_uusd' = (pool_uusd + UusdRedeemed(tax, AustToRedeem(amount)))
                        - SendCost(tax, NetAmount(tax, amount))
      /\ UNCHANGED <<state, holders, combinations, staking_uusd, height, lottery>>
      /\ UNCHANGED <<next_draw, exchange_rate, now>>

\* There are no other conditions: a claim that is allowed has a next state.
LEMMA AllowedClaimHappens ==
  ASSUME PoolInv, NEW h \in Holders, NEW paid, NEW tax \in Taxes,
         ClaimAllowed(h, paid, tax), ClaimStored(h, paid, tax)
  PROVE  ClaimUnPool(h, paid, tax)
<1> DEFINE amount == AmountOf(paid)
           redeem == AustToRedeem(amount)
           held == pool_uusd + UusdRedeemed(tax, redeem)
           cost == SendCost(tax, NetAmount(tax, amount))
<1>1. WithdrawStake(Admin, h, {}, paid)
  BY DEF ClaimAllowed, ClaimStored, WithdrawStake
<1>2. ExecuteBurn(StakingContract, amount)
  BY DEF ClaimAllowed, ClaimStored, ExecuteBurn
<1>3. /\ Fits(FromRatio(amount, 1)) /\ total_ust_pool >= amount
      /\ total_ust_pool' = total_ust_pool - amount
      /\ redeem \in 1 .. aust /\ aust' = aust - redeem
      /\ NetAmount(tax, amount) > 0
      /\ cost <= held /\ pool_uusd' = held - cost
      /\ UNCHANGED <<next_draw, exchange_rate, now>>
  BY DEF ClaimAllowed, ClaimStored
<1>4. redeem > 0 /\ redeem <= aust
  BY <1>3 DEF PoolInv, DogetherInv, PoolTypeOK
<1> QED BY <1>1, <1>2, <1>3, <1>4 DEF ClaimUnPool

\* The supply of the token covers its balances in the whole system too.
THEOREM PoolKeepsSupply == DogetherSpec => []SupplyCoversBalances
<1>1. DogetherInit => SupplyCoversBalances
  BY Cw20InitCovered DEF DogetherInit
<1>2. PoolInv /\ PoolInv' /\ SupplyCoversBalances /\ [DogetherNext]_dogetherVars
        => SupplyCoversBalances'
  <2> SUFFICES ASSUME PoolInv, PoolInv', SupplyCoversBalances,
                      [DogetherNext]_dogetherVars
               PROVE  SupplyCoversBalances'
    OBVIOUS
  <2>1. /\ Cw20TypeOK /\ Cw20TypeOK' /\ StakingTypeOK
        /\ StakingContract \in Addresses
    BY WiringAssumption DEF PoolInv, DogetherInv
  <2>2. CASE UNCHANGED cw20Vars
    BY <2>2 DEF cw20Vars, SupplyCoversBalances
  <2>3. ASSUME NEW sender, NEW sent \in Deposits, NEW tax \in Taxes,
               Pool(sender, sent, tax)
        PROVE  SupplyCoversBalances'
    <3>1. DeductTax(tax, sent) \in Nat
      BY InputsAssumption, PoolInputsAssumption, UintIsNat, DeductTaxType
    <3>2. ExecuteBond(Admin, StakingContract, DeductTax(tax, sent))
      BY <2>3 DEF Pool
    <3> QED BY <2>1, <3>1, <3>2, ExecuteBondCovers
  <2>4. ASSUME NEW sender, NEW tax, NEW paid \in SUBSET ClaimsOf(sender),
               ClaimUnPool(sender, paid, tax)
        PROVE  SupplyCoversBalances'
    <3>1. AmountOf(paid) \in Nat
      BY <2>1, ClaimSums DEF ClaimsOf
    <3>2. ExecuteBurn(StakingContract, AmountOf(paid))
      BY <2>4 DEF ClaimUnPool
    <3> QED BY <2>1, <3>1, <3>2, ExecuteBurnCovers
  <2>5. ASSUME NEW sender \in Addresses, NEW amount \in TokenAmounts,
               BurnTokens(sender, amount)
        PROVE  SupplyCoversBalances'
    <3>1. amount \in Nat /\ ExecuteBurn(sender, amount)
      BY <2>5, TokenInputsAssumption, UintIsNat DEF BurnTokens
    <3> QED BY <2>1, <3>1, ExecuteBurnCovers
  <2>6. ASSUME NEW sender, NEW amount, NEW tax
        PROVE  /\ UnPool(sender, amount) => UNCHANGED cw20Vars
               /\ RedeemEarning(tax) => UNCHANGED cw20Vars
               /\ GiveUusd(amount) => UNCHANGED cw20Vars
               /\ GiveAust(amount) => UNCHANGED cw20Vars
               /\ GiveToStaking(amount) => UNCHANGED cw20Vars
               /\ AccrueInterest(amount) => UNCHANGED cw20Vars
               /\ Block(amount) => UNCHANGED cw20Vars
    BY DEF UnPool, RedeemEarning, GiveUusd, GiveAust, GiveToStaking, AccrueInterest,
           Block
  <2>7. ASSUME NEW h, NEW combination, NEW price, NEW tax
        PROVE  BuyTicket(h, combination, price, tax) => UNCHANGED cw20Vars
    BY DEF BuyTicket
  <2>8. LotteryDraw \/ UNCHANGED dogetherVars => UNCHANGED cw20Vars
    BY DEF LotteryDraw, dogetherVars
  <2> QED BY <2>2, <2>3, <2>4, <2>5, <2>6, <2>7, <2>8 DEF DogetherNext
<1> QED BY <1>1, <1>2, PoolInvariant, PTL DEF DogetherSpec

\* contract.rs, user.rs: whoever has mature claims is paid all of them as soon
\* as the money is there: the market holds enough aUST and pays enough uusd,
\* and tax leaves something to send.  Every other condition is met, the
\* subtractions from three books and the burn among them.
THEOREM ClaimsNeedOnlyMoney ==
  DogetherSpec =>
    [](Fits(FromRatio(total_ust_pool, 1)) =>
         \A h \in Holders, tax \in Taxes :
           /\ NetAmount(tax, DueAmount(h)) > 0
           /\ AustToRedeem(DueAmount(h)) \in 1 .. aust
           /\ ClaimCovered(h, tax, pool_uusd)
           => ClaimAllowed(h, {c \in ClaimsOf(h) : Mature(c)}, tax))
<1>1. PoolInv /\ SupplyCoversBalances =>
        (Fits(FromRatio(total_ust_pool, 1)) =>
           \A h \in Holders, tax \in Taxes :
             /\ NetAmount(tax, DueAmount(h)) > 0
             /\ AustToRedeem(DueAmount(h)) \in 1 .. aust
             /\ ClaimCovered(h, tax, pool_uusd)
             => ClaimAllowed(h, {c \in ClaimsOf(h) : Mature(c)}, tax))
  <2> DEFINE due(h) == {c \in ClaimsOf(h) : Mature(c)}
  <2> SUFFICES ASSUME PoolInv, SupplyCoversBalances,
                      Fits(FromRatio(total_ust_pool, 1)),
                      NEW h \in Holders, NEW tax \in Taxes,
                      NetAmount(tax, DueAmount(h)) > 0,
                      AustToRedeem(DueAmount(h)) \in 1 .. aust,
                      ClaimCovered(h, tax, pool_uusd)
               PROVE  ClaimAllowed(h, due(h), tax)
    OBVIOUS
  <2> DEFINE amount == DueAmount(h)
  <2>1. /\ StakingTypeOK /\ Cw20TypeOK /\ PoolTypeOK /\ AccountsAgree
        /\ tax \in TaxType /\ StakingContract \in Addresses
    BY InputsAssumption, WiringAssumption DEF PoolInv, DogetherInv
  <2>2. /\ due(h) \subseteq ClaimsOf(h) /\ due(h) \subseteq claims
        /\ amount = AmountOf(due(h))
    BY DEF ClaimsOf, DueAmount
  <2>3. IsPaid(h, {}, due(h))
    BY DEF IsPaid
  <2> HIDE DEF due
  <2>4. amount \in Nat /\ AmountOf(claims \ due(h)) \in Nat
    BY <2>1, <2>2, ClaimSums
  <2>5. AmountOf(claims) = AmountOf(claims \ due(h)) + amount
    BY <2>1, <2>2, PaidAmount
  <2>6. /\ total_balance \in Nat /\ total_ust_pool \in Nat
        /\ Fits(total_ust_pool) /\ pool_uusd \in Nat
    BY <2>1, UintIsNat DEF StakingTypeOK, PoolTypeOK
  <2> HIDE DEF amount
  <2>7. total_ust_pool >= amount /\ balances[StakingContract] = total_ust_pool
    BY <2>1, <2>4, <2>5, <2>6 DEF AccountsAgree
  <2>8. total_supply >= amount
    <3>1. \A a \in Addresses : balances[a] \in Nat
      BY <2>1, UintIsNat DEF Cw20TypeOK
    <3>2. /\ balances[StakingContract] <= SumOver(Addresses, balances)
          /\ SumOver(Addresses, balances) \in Nat
      BY <2>1, <3>1, AddressesAssumption, SumBound, SumType
    <3>3. total_supply \in Nat
      BY <2>1, UintIsNat DEF Cw20TypeOK
    <3> QED BY <2>4, <2>6, <2>7, <3>2, <3>3 DEF SupplyCoversBalances
  <2>9. amount > 0
    <3> SUFFICES ASSUME amount = 0 PROVE FALSE
      BY <2>4
    <3>1. DeductTax(tax, 0) = 0
      BY <2>1, DeductTaxType
    <3> QED BY <3>1 DEF NetAmount, amount
  <2>10. Fits(amount)
    BY <2>4, <2>6, <2>7, MaxUintAssumption DEF Fits
  <2>11. Fits(FromRatio(amount, 1))
    <3>1. /\ FromRatio(amount, 1) = amount * Unit
          /\ FromRatio(total_ust_pool, 1) = total_ust_pool * Unit
      BY <2>4, <2>6, WholeDecimal
    <3>2. /\ amount * Unit \in Nat /\ total_ust_pool * Unit \in Nat
          /\ amount * Unit <= total_ust_pool * Unit
      BY <2>4, <2>6, <2>7, UnitAssumption
    <3> QED BY <3>1, <3>2, MaxUintAssumption DEF Fits
  <2> QED BY <2>2, <2>3, <2>7, <2>8, <2>9, <2>10, <2>11
          DEF ClaimAllowed, ClaimCovered, amount
<1> QED BY <1>1, PoolInvariant, PoolKeepsSupply, PTL

=============================================================================

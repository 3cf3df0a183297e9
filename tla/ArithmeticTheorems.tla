------------------------- MODULE ArithmeticTheorems -------------------------
(***************************************************************************)
(* What the proofs about the contracts need of their arithmetic.           *)
(*                                                                         *)
(* The fixed-point arithmetic: what fits, which operations are exact and   *)
(* which way the others round.  After the facts about division nothing     *)
(* needs the definition of \div.                                           *)
(*                                                                         *)
(* What deduct_tax leaves: the larger of two amounts, the one the rate     *)
(* leaves and the one the cap leaves.  Each is enough for the tax the      *)
(* chain takes on it, and keeps little back that the chain does not take.  *)
(*                                                                         *)
(* SumOver: type, the empty and the one-element sum, splitting off an      *)
(* element, changing one value, disjoint unions, congruence and linearity. *)
(* The inductions are on the subsets of the set (SubsetInduction).         *)
(***************************************************************************)
EXTENDS Taxation, Sums, SetTheorems

\* A natural that fits is a Uint, and every Uint is a natural that fits.
LEMMA FitsIsUint ==
  ASSUME NEW n \in Nat, Fits(n)
  PROVE  n \in Uint
BY MaxUintAssumption DEF Fits, Uint

LEMMA UintIsNat == \A n \in Uint : n \in Nat /\ Fits(n)
BY MaxUintAssumption DEF Uint, Fits

\* 0 is a Uint, and so is what is left of one.
LEMMA ZeroIsUint == 0 \in Uint
BY MaxUintAssumption DEF Uint

LEMMA LessIsUint ==
  ASSUME NEW n \in Uint, NEW k \in Nat, k <= n
  PROVE  n - k \in Uint
BY MaxUintAssumption DEF Uint

-----------------------------------------------------------------------------
\* Division rounds down to a natural.
LEMMA DivBounds ==
  ASSUME NEW n \in Nat, NEW d \in Nat \ {0}
  PROVE  /\ n \div d \in Nat
         /\ (n \div d) * d <= n
         /\ n < (n \div d) * d + d
<1>1. n = d * (n \div d) + (n % d) /\ n % d \in 0 .. d - 1 /\ n \div d \in Int
  OBVIOUS
<1>2. n \div d >= 0
  OBVIOUS
<1>3. d * (n \div d) = (n \div d) * d
  BY <1>1
<1> QED BY <1>1, <1>2, <1>3

\* A multiple of the divisor divides exactly.
LEMMA DivExact ==
  ASSUME NEW k \in Nat, NEW d \in Nat \ {0}
  PROVE  (k * d) \div d = k
<1> DEFINE q == (k * d) \div d
<1>1. k * d \in Nat
  OBVIOUS
<1>2. q \in Nat /\ q * d <= k * d /\ k * d < q * d + d
  BY <1>1, DivBounds
<1> HIDE DEF q
<1>3. CASE q < k
  <2>1. q + 1 <= k
    BY <1>2, <1>3
  <2>2. (q + 1) * d <= k * d
    BY <1>2, <2>1
  <2>3. (q + 1) * d = q * d + d
    BY <1>2
  <2> QED BY <1>1, <1>2, <2>2, <2>3
<1>4. CASE q > k
  <2>1. k + 1 <= q
    BY <1>2, <1>4
  <2>2. (k + 1) * d <= q * d
    BY <1>2, <2>1
  <2>3. (k + 1) * d = k * d + d
    OBVIOUS
  <2> QED BY <1>1, <1>2, <2>2, <2>3
<1> QED BY <1>2, <1>3, <1>4 DEF q

-----------------------------------------------------------------------------
\* The decimal of a whole number.
LEMMA WholeDecimal ==
  ASSUME NEW n \in Nat
  PROVE  FromRatio(n, 1) = n * Unit /\ n * Unit \in Nat
<1>1. n * Unit \in Nat
  BY UnitAssumption
<1>2. ((n * Unit) * 1) \div 1 = n * Unit
  BY <1>1, DivExact
<1> QED BY <1>1, <1>2 DEF FromRatio

\* A decimal times a whole number is exact.
LEMMA TimesWhole ==
  ASSUME NEW d \in Nat, NEW n \in Nat
  PROVE  DecimalMultiplication(d, FromRatio(n, 1)) = n * d /\ n * d \in Nat
<1>1. FromRatio(n, 1) = n * Unit
  BY WholeDecimal
<1>2. (n * Unit) * d = (n * d) * Unit
  BY UnitAssumption
<1>3. n * d \in Nat
  OBVIOUS
<1>4. ((n * d) * Unit) \div Unit = n * d
  BY <1>3, UnitAssumption, DivExact
<1> QED BY <1>1, <1>2, <1>3, <1>4 DEF DecimalMultiplication

\* The whole part of a decimal, as a decimal, is not above it, and less than
\* one short of it.
LEMMA FloorBelow ==
  ASSUME NEW d \in Nat
  PROVE  Floor(d) \in Nat /\ Floor(d) * Unit <= d /\ d < Floor(d) * Unit + Unit
BY UnitAssumption, DivBounds DEF Floor

\* A ratio is rounded down, by less than a part.
LEMMA RatioBelow ==
  ASSUME NEW n \in Nat, NEW d \in Nat \ {0}
  PROVE  /\ FromRatio(n, d) \in Nat
         /\ FromRatio(n, d) * d <= n * Unit
         /\ n * Unit < FromRatio(n, d) * d + d
<1>1. n * Unit \in Nat
  BY UnitAssumption
<1> QED BY <1>1, DivBounds DEF FromRatio

-----------------------------------------------------------------------------
\* What is left of amount by the rate alone.
ByRate(t, amount) == MultiplyRatio(amount, Unit, t.rate + Unit)

\* A bound on a product bounds the factor.
LEMMA CancelUnit ==
  ASSUME NEW a \in Int, NEW b \in Int, a * Unit < b * Unit + Unit
  PROVE  a <= b
<1>1. ASSUME a >= b + 1 PROVE FALSE
  <2>1. a * Unit >= (b + 1) * Unit
    BY <1>1, UnitAssumption
  <2>2. (b + 1) * Unit = b * Unit + Unit /\ a * Unit \in Int /\ b * Unit \in Int
    BY UnitAssumption
  <2> QED BY <2>1, <2>2, UnitAssumption
<1> QED BY <1>1

\* The rate leaves a natural not above the amount, and which one.
LEMMA ByRateBounds ==
  ASSUME NEW t \in TaxType, NEW amount \in Nat
  PROVE  LET q == ByRate(t, amount)
         IN  /\ q \in Nat /\ q <= amount
             /\ q * t.rate + q * Unit <= amount * Unit
             /\ amount * Unit < q * t.rate + q * Unit + t.rate + Unit
<1> DEFINE q == ByRate(t, amount)
<1>1. t.rate \in Nat /\ t.rate + Unit \in Nat \ {0} /\ amount * Unit \in Nat
  BY UnitAssumption DEF TaxType
<1>2. /\ q \in Nat /\ q * (t.rate + Unit) <= amount * Unit
      /\ amount * Unit < q * (t.rate + Unit) + (t.rate + Unit)
  BY <1>1, DivBounds DEF ByRate, MultiplyRatio
<1> HIDE DEF q
<1>3. /\ q * (t.rate + Unit) = q * t.rate + q * Unit
      /\ q * t.rate \in Nat /\ q * Unit \in Nat
  BY <1>1, <1>2, UnitAssumption
<1>4. /\ q * t.rate + q * Unit <= amount * Unit
      /\ amount * Unit < q * t.rate + q * Unit + t.rate + Unit
  BY <1>1, <1>2, <1>3, UnitAssumption
<1>5. q * Unit < amount * Unit + Unit
  BY <1>1, <1>3, <1>4, UnitAssumption
<1>6. q <= amount
  BY <1>2, <1>5, CancelUnit
<1>7. /\ q \in Nat /\ q <= amount
      /\ q * t.rate + q * Unit <= amount * Unit
      /\ amount * Unit < q * t.rate + q * Unit + t.rate + Unit
  BY <1>2, <1>4, <1>6
<1> QED BY <1>7 DEF q

\* deduct_tax leaves the larger of what the rate and the cap leave.
LEMMA DeductTaxIs ==
  ASSUME NEW t \in TaxType, NEW amount \in Nat
  PROVE  LET q == ByRate(t, amount)
         IN  /\ DeductTax(t, amount) \in Nat
             /\ \/ DeductTax(t, amount) = q /\ amount - q <= t.cap
                \/ DeductTax(t, amount) = amount - t.cap /\ q < amount - t.cap
<1>1. ByRate(t, amount) \in Nat /\ ByRate(t, amount) <= amount /\ t.cap \in Nat
  BY ByRateBounds DEF TaxType
<1> QED BY <1>1 DEF DeductTax, ComputeTax, Lesser, ByRate

\* The tax the chain takes on an amount.
LEMMA NetworkTaxIs ==
  ASSUME NEW t \in TaxType, NEW amount \in Nat
  PROVE  \E k \in Nat :
           /\ k * Unit <= amount * t.rate /\ amount * t.rate < k * Unit + Unit
           /\ \/ NetworkTax(t, amount) = k /\ k <= t.cap
              \/ NetworkTax(t, amount) = t.cap /\ t.cap < k
<1> DEFINE k == (amount * t.rate) \div Unit
<1>1. t.rate \in Nat /\ t.cap \in Nat /\ amount * t.rate \in Nat
  BY DEF TaxType
<1>2. k \in Nat /\ k * Unit <= amount * t.rate /\ amount * t.rate < k * Unit + Unit
  BY <1>1, UnitAssumption, DivBounds
<1>3. \/ NetworkTax(t, amount) = k /\ k <= t.cap
      \/ NetworkTax(t, amount) = t.cap /\ t.cap < k
  BY <1>1, <1>2 DEF NetworkTax, Lesser
<1> QED BY <1>2, <1>3

\* What a wallet keeps of amount when it sends deduct_tax of it.
LEMMA SendKeeps ==
  ASSUME NEW t \in TaxType, NEW amount \in Nat
  PROVE  LET kept == amount - SendCost(t, DeductTax(t, amount))
         IN  /\ kept \in Nat
             /\ kept <= 1 + (Unit + t.rate - 1) \div Unit
<1> DEFINE q == ByRate(t, amount)
           net == DeductTax(t, amount)
           charge == NetworkTax(t, net)
           round == (Unit + t.rate - 1) \div Unit
<1>1. /\ t.rate \in Nat /\ t.cap \in Nat /\ Unit \in Nat \ {0}
      /\ amount * Unit \in Nat
  BY UnitAssumption DEF TaxType
<1>2. /\ q \in Nat /\ q <= amount /\ q * t.rate + q * Unit <= amount * Unit
      /\ amount * Unit < q * t.rate + q * Unit + t.rate + Unit
  BY ByRateBounds
<1>3. /\ net \in Nat
      /\ \/ net = q /\ amount - q <= t.cap
         \/ net = amount - t.cap /\ q < amount - t.cap
  BY DeductTaxIs
<1>4. PICK k \in Nat :
        /\ k * Unit <= net * t.rate /\ net * t.rate < k * Unit + Unit
        /\ \/ charge = k /\ k <= t.cap
           \/ charge = t.cap /\ t.cap < k
  BY <1>3, NetworkTaxIs
<1>5. round \in Nat /\ Unit + t.rate - 1 < round * Unit + Unit
  <2>1. Unit + t.rate - 1 \in Nat
    BY <1>1
  <2> QED BY <1>1, <2>1, DivBounds
<1> HIDE DEF q, net, charge, round
<1>6. /\ q * t.rate \in Nat /\ q * Unit \in Nat /\ net * t.rate \in Nat
      /\ net * Unit \in Nat /\ k * Unit \in Nat /\ round * Unit \in Nat
  BY <1>1, <1>2, <1>3, <1>5
<1>7. (amount - q) * Unit = amount * Unit - q * Unit
  BY <1>1, <1>2
<1>8. amount - (net + charge) \in Nat /\ amount - (net + charge) <= 1 + round
  <2>1. CASE net = q /\ amount - q <= t.cap
    <3>1. k * Unit < (amount - q) * Unit + Unit
      BY <1>1, <1>2, <1>4, <1>6, <1>7, <2>1
    <3>2. k <= amount - q
      BY <1>2, <3>1, CancelUnit
    <3>3. charge = k
      BY <1>1, <1>2, <1>4, <2>1, <3>2
    <3>4. (amount - q) * Unit < k * Unit + Unit + t.rate + Unit
      BY <1>1, <1>2, <1>4, <1>6, <1>7, <2>1
    <3>5. /\ (k + round + 1) * Unit = k * Unit + round * Unit + Unit
          /\ (k + round + 1) * Unit \in Nat
      BY <1>1, <1>5
    <3>6. (amount - q) * Unit \in Int
      BY <1>6, <1>7, <1>1
    <3>7. (amount - q) * Unit < (k + round + 1) * Unit + Unit
      BY <1>1, <1>2, <1>4, <1>5, <1>6, <1>7, <2>1, <3>5, <3>6
    <3>8. amount - q <= k + round + 1
      BY <1>2, <1>5, <3>7, CancelUnit
    <3> QED BY <1>2, <1>5, <2>1, <3>2, <3>3, <3>8
  <2>2. CASE net = amount - t.cap /\ q < amount - t.cap
    <3>1. charge = t.cap
      <4>1. (q + 1) * (t.rate + Unit) <= net * (t.rate + Unit)
        BY <1>1, <1>2, <1>3, <2>2
      <4>2. /\ (q + 1) * (t.rate + Unit) = q * t.rate + q * Unit + t.rate + Unit
            /\ net * (t.rate + Unit) = net * t.rate + net * Unit
        BY <1>1, <1>2, <1>3
      <4>3. net * Unit = amount * Unit - t.cap * Unit /\ t.cap * Unit \in Nat
        BY <1>1, <2>2
      <4>4. t.cap * Unit < k * Unit + Unit
        BY <1>1, <1>2, <1>4, <1>6, <4>1, <4>2, <4>3
      <4>5. t.cap <= k
        BY <1>1, <4>4, CancelUnit
      <4> QED BY <1>1, <1>4, <4>5
    <3> QED BY <1>1, <1>3, <1>5, <2>2, <3>1
  <2> QED BY <1>3, <2>1, <2>2
<1>9. SendCost(t, net) = net + charge
  BY DEF SendCost, charge
<1> QED BY <1>8, <1>9 DEF net, round

\* A larger amount leaves no less.
LEMMA DeductTaxGrows ==
  ASSUME NEW t \in TaxType, NEW a \in Nat, NEW b \in Nat, a <= b
  PROVE  DeductTax(t, a) <= DeductTax(t, b)
<1> DEFINE p == ByRate(t, a)
           q == ByRate(t, b)
<1>1. /\ t.rate \in Nat /\ t.cap \in Nat /\ Unit \in Nat \ {0}
      /\ a * Unit <= b * Unit /\ a * Unit \in Nat /\ b * Unit \in Nat
  BY UnitAssumption DEF TaxType
<1>2. /\ p \in Nat /\ p * t.rate + p * Unit <= a * Unit
      /\ \/ DeductTax(t, a) = p /\ a - p <= t.cap
         \/ DeductTax(t, a) = a - t.cap /\ p < a - t.cap
  BY ByRateBounds, DeductTaxIs
<1>3. /\ q \in Nat /\ b * Unit < q * t.rate + q * Unit + t.rate + Unit
      /\ \/ DeductTax(t, b) = q /\ b - q <= t.cap
         \/ DeductTax(t, b) = b - t.cap /\ q < b - t.cap
  BY ByRateBounds, DeductTaxIs
<1> HIDE DEF p, q
<1>4. p <= q
  <2>1. ASSUME p >= q + 1 PROVE FALSE
    <3>1. (q + 1) * (t.rate + Unit) <= p * (t.rate + Unit)
      BY <1>1, <1>2, <1>3, <2>1
    <3>2. /\ (q + 1) * (t.rate + Unit) = q * t.rate + q * Unit + t.rate + Unit
          /\ p * (t.rate + Unit) = p * t.rate + p * Unit
          /\ q * t.rate \in Nat /\ q * Unit \in Nat
          /\ p * t.rate \in Nat /\ p * Unit \in Nat
      BY <1>1, <1>2, <1>3
    <3> QED BY <1>1, <1>2, <1>3, <3>1, <3>2
  <2> QED BY <1>2, <1>3, <2>1
<1> QED BY <1>1, <1>2, <1>3, <1>4

\* Of what is added to an amount, no more than all of it is left.
LEMMA DeductTaxGrowsSlowly ==
  ASSUME NEW t \in TaxType, NEW a \in Nat, NEW b \in Nat, a <= b
  PROVE  DeductTax(t, b) <= DeductTax(t, a) + (b - a)
<1> DEFINE p == ByRate(t, a)
           q == ByRate(t, b)
           d == b - a
<1>1. /\ t.rate \in Nat /\ t.cap \in Nat /\ Unit \in Nat \ {0}
      /\ a * Unit \in Nat /\ b * Unit \in Nat
      /\ d \in Nat /\ d * Unit \in Nat /\ b * Unit = a * Unit + d * Unit
  BY UnitAssumption DEF TaxType
<1>2. /\ p \in Nat /\ a * Unit < p * t.rate + p * Unit + t.rate + Unit
      /\ \/ DeductTax(t, a) = p /\ a - p <= t.cap
         \/ DeductTax(t, a) = a - t.cap /\ p < a - t.cap
  BY ByRateBounds, DeductTaxIs
<1>3. /\ q \in Nat /\ q * t.rate + q * Unit <= b * Unit
      /\ \/ DeductTax(t, b) = q /\ b - q <= t.cap
         \/ DeductTax(t, b) = b - t.cap /\ q < b - t.cap
  BY ByRateBounds, DeductTaxIs
<1>4. b = a + d
  OBVIOUS
<1> HIDE DEF p, q, d
<1>5. q <= p + d
  <2>1. ASSUME q >= p + d + 1 PROVE FALSE
    <3>1. (p + d + 1) * (t.rate + Unit) <= q * (t.rate + Unit)
      BY <1>1, <1>2, <1>3, <2>1
    <3>2. /\ (p + d + 1) * (t.rate + Unit)
               = (p + d + 1) * t.rate + (p + d + 1) * Unit
          /\ (p + d + 1) * t.rate = p * t.rate + d * t.rate + t.rate
          /\ (p + d + 1) * Unit = p * Unit + d * Unit + Unit
          /\ q * (t.rate + Unit) = q * t.rate + q * Unit
      BY <1>1, <1>2, <1>3
    <3>3. /\ d * t.rate \in Nat /\ q * t.rate \in Nat /\ q * Unit \in Nat
          /\ p * t.rate \in Nat /\ p * Unit \in Nat
      BY <1>1, <1>2, <1>3
    <3>4. p * t.rate + p * Unit + d * t.rate + d * Unit + t.rate + Unit
            <= q * t.rate + q * Unit
      BY <1>1, <3>1, <3>2, <3>3
    <3> DEFINE aU == a * Unit
               bU == b * Unit
               dU == d * Unit
               dr == d * t.rate
               left == p * t.rate + p * Unit
               right == q * t.rate + q * Unit
    <3>5. /\ aU \in Nat /\ bU \in Nat /\ dU \in Nat /\ dr \in Nat
          /\ left \in Nat /\ right \in Nat
      BY <1>1, <3>3
    <3>6. /\ aU < left + t.rate + Unit
          /\ left + dr + dU + t.rate + Unit <= right
          /\ right <= bU /\ bU = aU + dU
      BY <1>1, <1>2, <1>3, <3>3, <3>4
    <3> HIDE DEF aU, bU, dU, dr, left, right
    <3> QED BY <1>1, <3>5, <3>6
  <2> QED BY <1>1, <1>2, <1>3, <2>1
<1>6. DeductTax(t, b) <= DeductTax(t, a) + d
  BY <1>1, <1>2, <1>3, <1>4, <1>5
<1> QED BY <1>6 DEF d

\* Without a rate nothing is withheld and nothing taken.
LEMMA Untaxed ==
  ASSUME NEW t \in TaxType, t.rate = 0, NEW amount \in Nat
  PROVE  DeductTax(t, amount) = amount /\ SendCost(t, amount) = amount
<1>1. t.cap \in Nat /\ Unit \in Nat \ {0} /\ t.rate + Unit = Unit
  BY UnitAssumption DEF TaxType
<1>2. MultiplyRatio(amount, Unit, t.rate + Unit) = amount
  BY <1>1, DivExact DEF MultiplyRatio
<1>3. amount * t.rate = 0 * Unit /\ (0 * Unit) \div Unit = 0
  BY <1>1, DivExact
<1> QED BY <1>1, <1>2, <1>3
        DEF DeductTax, ComputeTax, SendCost, NetworkTax, Lesser

-----------------------------------------------------------------------------
(* Sums.                                                                    *)

\* The tokens of one element.
LEMMA OneElementTokens ==
  ASSUME NEW x, NEW n \in Nat
  PROVE  /\ IsFiniteSet({x} \X (1 .. n))
         /\ Cardinality({x} \X (1 .. n)) = n
<1> DEFINE A == {x}
           B == 1 .. n
<1>1. IsFiniteSet(A) /\ Cardinality(A) = 1
  BY FS_Singleton
<1>2. IsFiniteSet(B) /\ Cardinality(B) = n
  BY FS_Interval
<1>3. IsFiniteSet(A \X B) /\ Cardinality(A \X B) = 1 * n
  <2> HIDE DEF A, B
  <2> QED BY <1>1, <1>2, FS_Product
<1> QED BY <1>3

\* Tokens of a set are those of one of its elements and those of the others.
LEMMA TokensSplit ==
  ASSUME NEW S, NEW f, NEW x \in S
  PROVE  /\ Tokens(S, f) = Tokens(S \ {x}, f) \cup ({x} \X (1 .. f[x]))
         /\ Tokens(S \ {x}, f) \cap ({x} \X (1 .. f[x])) = {}
BY DEF Tokens

\* The empty sum is 0.
THEOREM SumEmpty ==
  ASSUME NEW f
  PROVE  SumOver({}, f) = 0
<1>1. Tokens({}, f) = {}
  BY DEF Tokens
<1> QED BY <1>1, FS_EmptySet DEF SumOver

\* The tokens of a finite set are finitely many.
LEMMA TokensFinite ==
  ASSUME NEW S, IsFiniteSet(S), NEW f, \A x \in S : f[x] \in Nat
  PROVE  IsFiniteSet(Tokens(S, f))
<1> DEFINE Bad == {T \in SUBSET S : ~ IsFiniteSet(Tokens(T, f))}
<1>1. {} \notin Bad
  <2>1. Tokens({}, f) = {}
    BY DEF Tokens
  <2> QED BY <2>1, FS_EmptySet
<1>2. ASSUME NEW T \in Bad, NEW x \in T
      PROVE  T \ {x} \in Bad
  <2> SUFFICES ASSUME IsFiniteSet(Tokens(T \ {x}, f)) PROVE FALSE
    OBVIOUS
  <2>1. IsFiniteSet({x} \X (1 .. f[x]))
    <3>1. f[x] \in Nat
      OBVIOUS
    <3> QED BY <3>1, OneElementTokens
  <2> DEFINE A == Tokens(T \ {x}, f)
             B == {x} \X (1 .. f[x])
  <2>2. Tokens(T, f) = A \cup B
    BY TokensSplit
  <2>3. IsFiniteSet(A) /\ IsFiniteSet(B)
    BY <2>1
  <2>4. IsFiniteSet(A \cup B)
    <3> HIDE DEF A, B
    <3> QED BY <2>3, FS_Union
  <2> QED BY <2>2, <2>4
<1>3. Bad = {}
  <2> HIDE DEF Bad
  <2>1. Bad \subseteq SUBSET S
    BY DEF Bad
  <2> QED BY <1>1, <1>2, <2>1, SubsetInduction
<1> QED BY <1>3

\* A sum of naturals is a natural.
THEOREM SumType ==
  ASSUME NEW S, IsFiniteSet(S), NEW f, \A x \in S : f[x] \in Nat
  PROVE  SumOver(S, f) \in Nat
BY TokensFinite, FS_CardinalityType DEF SumOver

\* A sum is one of its terms and the sum of the others.
THEOREM SumSplit ==
  ASSUME NEW S, IsFiniteSet(S), NEW f, \A y \in S : f[y] \in Nat,
         NEW x \in S
  PROVE  SumOver(S, f) = SumOver(S \ {x}, f) + f[x]
<1> DEFINE A == Tokens(S \ {x}, f)
           B == {x} \X (1 .. f[x])
<1>1. IsFiniteSet(S \ {x})
  BY FS_RemoveElement
<1>2. IsFiniteSet(A)
  BY <1>1, TokensFinite
<1>3. IsFiniteSet(B) /\ Cardinality(B) = f[x]
  BY OneElementTokens
<1>4. Cardinality(A \cap B) = 0
  BY TokensSplit, FS_EmptySet
<1>5. Tokens(S, f) = A \cup B
  BY TokensSplit
<1>6. Cardinality(A) \in Nat
  BY <1>2, FS_CardinalityType
<1>7. Cardinality(A \cup B) = Cardinality(A) + f[x]
  <2> HIDE DEF A, B
  <2>1. Cardinality(A \cup B)
          = Cardinality(A) + Cardinality(B) - Cardinality(A \cap B)
    BY <1>2, <1>3, FS_Union
  <2>2. f[x] \in Nat
    OBVIOUS
  <2> QED BY <1>3, <1>4, <1>6, <2>1, <2>2
<1> QED BY <1>5, <1>7 DEF SumOver

\* The sum over one element is its value.
THEOREM SumOfOne ==
  ASSUME NEW x, NEW f, f[x] \in Nat
  PROVE  SumOver({x}, f) = f[x]
<1>1. IsFiniteSet({x}) /\ {x} \ {x} = {}
  BY FS_Singleton
<1>2. \A y \in {x} : f[y] \in Nat
  OBVIOUS
<1>3. SumOver({x}, f) = SumOver({x} \ {x}, f) + f[x]
  BY <1>1, <1>2, SumSplit
<1>4. SumOver({x} \ {x}, f) = 0
  BY <1>1, SumEmpty
<1> QED BY <1>3, <1>4

\* No term exceeds the sum.
THEOREM SumBound ==
  ASSUME NEW S, IsFiniteSet(S), NEW f, \A y \in S : f[y] \in Nat,
         NEW x \in S
  PROVE  f[x] <= SumOver(S, f)
<1>1. IsFiniteSet(S \ {x})
  BY FS_RemoveElement
<1>2. SumOver(S \ {x}, f) \in Nat
  BY <1>1, SumType
<1> QED BY <1>2, SumSplit

\* A sum depends on the values its terms have in the set only.
THEOREM SumCongruence ==
  ASSUME NEW S, NEW f, NEW g, \A x \in S : f[x] = g[x]
  PROVE  SumOver(S, f) = SumOver(S, g)
<1>1. Tokens(S, f) = Tokens(S, g)
  BY DEF Tokens
<1> QED BY <1>1 DEF SumOver

\* Changing one term changes the sum by as much.
THEOREM SumUpdate ==
  ASSUME NEW S, IsFiniteSet(S),
         NEW f, \A y \in S : f[y] \in Nat,
         NEW g, \A y \in S : g[y] \in Nat,
         NEW x \in S,
         \A y \in S : y # x => g[y] = f[y]
  PROVE  SumOver(S, g) = SumOver(S, f) - f[x] + g[x]
<1>1. SumOver(S \ {x}, f) = SumOver(S \ {x}, g)
  BY SumCongruence
<1>2. IsFiniteSet(S \ {x})
  BY FS_RemoveElement
<1>3. SumOver(S \ {x}, f) \in Nat
  BY <1>2, SumType
<1>4. /\ SumOver(S, f) = SumOver(S \ {x}, f) + f[x]
      /\ SumOver(S, g) = SumOver(S \ {x}, g) + g[x]
  BY SumSplit
<1> QED BY <1>1, <1>3, <1>4

\* The sum over a disjoint union is the sum of the sums.
THEOREM SumUnion ==
  ASSUME NEW S, IsFiniteSet(S), NEW T, IsFiniteSet(T), S \cap T = {},
         NEW f, \A x \in S \cup T : f[x] \in Nat
  PROVE  SumOver(S \cup T, f) = SumOver(S, f) + SumOver(T, f)
<1>1. /\ Tokens(S \cup T, f) = Tokens(S, f) \cup Tokens(T, f)
      /\ Tokens(S, f) \cap Tokens(T, f) = {}
  BY DEF Tokens
<1>2. IsFiniteSet(Tokens(S, f)) /\ IsFiniteSet(Tokens(T, f))
  BY TokensFinite
<1>3. Cardinality(Tokens(S, f) \cap Tokens(T, f)) = 0
  BY <1>1, FS_EmptySet
<1>4. /\ Cardinality(Tokens(S, f)) \in Nat
      /\ Cardinality(Tokens(T, f)) \in Nat
  BY <1>2, FS_CardinalityType
<1> DEFINE A == Tokens(S, f)
           B == Tokens(T, f)
<1>5. Cardinality(A \cup B) = Cardinality(A) + Cardinality(B)
  <2> HIDE DEF A, B
  <2>1. Cardinality(A \cup B)
          = Cardinality(A) + Cardinality(B) - Cardinality(A \cap B)
    BY <1>2, FS_Union DEF A, B
  <2> QED BY <1>3, <1>4, <2>1 DEF A, B
<1> QED BY <1>1, <1>5 DEF SumOver

\* A sum of terms f + k * g is the sum of the f and k times that of the g.
THEOREM SumLinear ==
  ASSUME NEW S, IsFiniteSet(S), NEW k \in Nat,
         NEW f, \A x \in S : f[x] \in Nat,
         NEW g, \A x \in S : g[x] \in Nat,
         NEW h, \A x \in S : h[x] = f[x] + k * g[x]
  PROVE  SumOver(S, h) = SumOver(S, f) + k * SumOver(S, g)
<1> DEFINE Holds(T) == SumOver(T, h) = SumOver(T, f) + k * SumOver(T, g)
           Bad == {T \in SUBSET S : ~ Holds(T)}
<1>1. {} \notin Bad
  BY SumEmpty
<1>2. ASSUME NEW T \in Bad, NEW x \in T
      PROVE  T \ {x} \in Bad
  <2> SUFFICES ASSUME Holds(T \ {x}) PROVE Holds(T)
    OBVIOUS
  <2>1. IsFiniteSet(T) /\ IsFiniteSet(T \ {x})
    BY FS_Subset, FS_RemoveElement
  <2>2. \A y \in T : h[y] \in Nat
    OBVIOUS
  <2>3. /\ SumOver(T, f) = SumOver(T \ {x}, f) + f[x]
        /\ SumOver(T, g) = SumOver(T \ {x}, g) + g[x]
        /\ SumOver(T, h) = SumOver(T \ {x}, h) + h[x]
    BY <2>1, <2>2, SumSplit
  <2>4. /\ SumOver(T \ {x}, f) \in Nat
        /\ SumOver(T \ {x}, g) \in Nat
    BY <2>1, SumType
  <2>5. f[x] \in Nat /\ g[x] \in Nat /\ h[x] = f[x] + k * g[x]
    OBVIOUS
  <2>6. k * (SumOver(T \ {x}, g) + g[x])
          = k * SumOver(T \ {x}, g) + k * g[x]
    BY <2>4, <2>5
  <2>7. k * SumOver(T \ {x}, g) \in Nat /\ k * g[x] \in Nat
    BY <2>4, <2>5
  <2> QED BY <2>3, <2>4, <2>5, <2>6, <2>7
<1>3. Bad = {}
  <2> HIDE DEF Bad
  <2>1. Bad \subseteq SUBSET S
    BY DEF Bad
  <2> QED BY <1>1, <1>2, <2>1, SubsetInduction
<1> QED BY <1>3

\* A sum is at most another if its non-zero terms can be matched, each to a
\* term of the other that is as large, and no two to the same one.
THEOREM SumMatching ==
  ASSUME NEW S, IsFiniteSet(S), NEW f, \A x \in S : f[x] \in Nat,
         NEW T, IsFiniteSet(T), NEW g, \A y \in T : g[y] \in Nat,
         NEW m,
         \A x \in S : f[x] > 0 => m[x] \in T /\ f[x] <= g[m[x]],
         \A x, y \in S : f[x] > 0 /\ f[y] > 0 /\ m[x] = m[y] => x = y
  PROVE  SumOver(S, f) <= SumOver(T, g)
<1> DEFINE A == Tokens(S, f)
           B == Tokens(T, g)
           match == [t \in A |-> <<m[t[1]], t[2]>>]
<1>1. \A t \in A : /\ t[1] \in S /\ t[2] \in 1 .. f[t[1]]
                   /\ t = <<t[1], t[2]>>
                   /\ f[t[1]] > 0
  BY DEF Tokens
<1>2. ASSUME NEW t \in A
      PROVE  match[t] \in B
  <2>1. m[t[1]] \in T /\ t[2] \in 1 .. g[m[t[1]]]
    <3>1. t[1] \in S /\ t[2] \in 1 .. f[t[1]] /\ f[t[1]] > 0
      BY <1>1
    <3>2. m[t[1]] \in T /\ f[t[1]] <= g[m[t[1]]]
      BY <3>1
    <3>3. f[t[1]] \in Nat /\ g[m[t[1]]] \in Nat
      BY <3>1, <3>2
    <3> QED BY <3>1, <3>2, <3>3
  <2>2. <<m[t[1]], t[2]>> \in {m[t[1]]} \X (1 .. g[m[t[1]]])
    BY <2>1
  <2> QED BY <2>1, <2>2 DEF Tokens
<1>3. ASSUME NEW t \in A, NEW u \in A, match[t] = match[u]
      PROVE  t = u
  <2>1. m[t[1]] = m[u[1]] /\ t[2] = u[2]
    BY <1>3
  <2>2. t[1] = u[1]
    BY <1>1, <2>1
  <2> QED BY <1>1, <2>1, <2>2
<1>4. match \in Injection(A, B)
  BY <1>2, <1>3 DEF Injection, IsInjective
<1>5. IsFiniteSet(B)
  BY TokensFinite
<1>6. Cardinality(A) <= Cardinality(B)
  BY <1>4, <1>5, FS_Injection
<1> QED BY <1>6 DEF SumOver

=============================================================================

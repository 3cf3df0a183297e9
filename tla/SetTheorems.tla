---------------------------- MODULE SetTheorems -----------------------------
(***************************************************************************)
(* What the proofs need of finite sets: induction on their subsets and on  *)
(* the naturals up to a bound, the largest element, and that the elements  *)
(* of a set with a strict total order can be listed in that order.         *)
(*                                                                         *)
(* The library's induction theorems take a predicate as a parameter, so    *)
(* the inductions here are on a set, of counterexamples or of the numbers  *)
(* that are good; they go through theorem WFMin on strict inclusion.       *)
(***************************************************************************)
EXTENDS Integers, FiniteSetsExt, FiniteSetTheorems,
        WellFoundedInduction, TLAPS

\* Induction on the subsets of a finite set S, for a property given as the
\* set Bad of its counterexamples: Bad is empty if {} is not in it and if
\* every set in it stays in it when an element is removed.
LEMMA SubsetInduction ==
  ASSUME NEW S, IsFiniteSet(S),
         NEW Bad, Bad \subseteq SUBSET S,
         {} \notin Bad,
         \A T \in Bad : \A x \in T : (T \ {x}) \in Bad
  PROVE  Bad = {}
<1> SUFFICES ASSUME Bad # {} PROVE FALSE
  OBVIOUS
<1>1. FiniteSubsetsOf(S) = SUBSET S
  BY FS_FiniteSubsetsOfFinite
<1>2. IsWellFoundedOn(StrictSubsetOrdering(S), FiniteSubsetsOf(S))
  BY FS_StrictSubsetOrderingWellFounded
<1>3. PICK T \in Bad : \A U \in Bad : ~ (<<U, T>> \in StrictSubsetOrdering(S))
  BY <1>1, <1>2, WFMin
<1>4. PICK x \in T : TRUE
  OBVIOUS
<1>5. /\ (T \ {x}) \in Bad
      /\ T \ {x} # T
  OBVIOUS
<1>6. <<T \ {x}, T>> \in StrictSubsetOrdering(S)
  BY <1>5 DEF StrictSubsetOrdering
<1> QED BY <1>3, <1>5, <1>6

\* Induction on the naturals up to n, for a property given as the set Good of
\* those that have it.
LEMMA PrefixInduction ==
  ASSUME NEW n \in Nat, NEW Good,
         0 \in Good,
         \A k \in 1 .. n : k - 1 \in Good => k \in Good
  PROVE  \A k \in 0 .. n : k \in Good
<1> DEFINE Bad == {T \in SUBSET (1 .. n) : Cardinality(T) \notin Good}
<1>1. IsFiniteSet(1 .. n)
  BY FS_Interval
<1>2. {} \notin Bad
  BY FS_EmptySet
<1>3. ASSUME NEW T \in Bad, NEW x \in T
      PROVE  T \ {x} \in Bad
  <2>1. IsFiniteSet(T) /\ Cardinality(T) <= Cardinality(1 .. n)
    BY <1>1, FS_Subset
  <2>2. Cardinality(1 .. n) = n
    BY FS_Interval
  <2>3. Cardinality(T) \in Nat /\ Cardinality(T) # 0
    BY <2>1, FS_CardinalityType, FS_EmptySet
  <2>4. Cardinality(T \ {x}) = Cardinality(T) - 1
    BY <2>1, FS_RemoveElement
  <2>5. Cardinality(T) \in 1 .. n
    BY <2>1, <2>2, <2>3
  <2>6. Cardinality(T) - 1 \notin Good
    BY <2>5
  <2> QED BY <2>4, <2>6
<1>4. Bad = {}
  <2> HIDE DEF Bad
  <2>1. Bad \subseteq SUBSET (1 .. n)
    BY DEF Bad
  <2> QED BY <1>1, <1>2, <1>3, <2>1, SubsetInduction
<1> SUFFICES ASSUME NEW k \in 0 .. n PROVE k \in Good
  OBVIOUS
<1>5. Cardinality(1 .. k) = k /\ 1 .. k \in SUBSET (1 .. n)
  BY FS_Interval
<1> QED BY <1>4, <1>5

\* A set of naturals that is not empty has a least element.
LEMMA LeastElement ==
  ASSUME NEW S, S \subseteq Nat, NEW m \in S
  PROVE  \E x \in S : \A y \in S : x <= y
<1> SUFFICES ASSUME \A x \in S : \E y \in S : y < x PROVE FALSE
  OBVIOUS
<1> DEFINE Good == {k \in Nat : \A y \in S : y > k}
<1>1. 0 \in Good
  <2> SUFFICES ASSUME NEW y \in S, ~ (y > 0) PROVE FALSE
    OBVIOUS
  <2>1. y = 0
    OBVIOUS
  <2> QED BY <2>1
<1>2. ASSUME NEW k \in 1 .. m, k - 1 \in Good
      PROVE  k \in Good
  <2> SUFFICES ASSUME NEW y \in S, ~ (y > k) PROVE FALSE
    OBVIOUS
  <2>1. \A z \in S : z >= k
    BY <1>2
  <2>2. y = k
    BY <2>1
  <2>3. PICK z \in S : z < y
    OBVIOUS
  <2> QED BY <2>1, <2>2, <2>3
<1>3. m \in Good
  <2> HIDE DEF Good
  <2>1. m \in Nat /\ m \in 0 .. m
    OBVIOUS
  <2> QED BY <1>1, <1>2, <2>1, PrefixInduction
<1> QED BY <1>3

\* A finite set of integers that is not empty has a largest element.
THEOREM MaxElement ==
  ASSUME NEW S, IsFiniteSet(S), S # {}, S \subseteq Int
  PROVE  Max(S) \in S /\ \A y \in S : y <= Max(S)
<1> DEFINE Bounded(T) == \E x \in T : \A y \in T : x >= y
           Bad == {T \in SUBSET S : T # {} /\ ~ Bounded(T)}
<1>1. {} \notin Bad
  OBVIOUS
<1>2. ASSUME NEW T \in Bad, NEW x \in T
      PROVE  T \ {x} \in Bad
  <2>1. ~ Bounded(T)
    OBVIOUS
  <2>2. T \ {x} # {}
    <3> SUFFICES ASSUME T \ {x} = {} PROVE FALSE
      OBVIOUS
    <3>1. \A y \in T : x >= y
      OBVIOUS
    <3> QED BY <2>1, <3>1
  <2>3. ASSUME NEW z \in T \ {x}, \A y \in T \ {x} : z >= y
        PROVE  FALSE
    <3>1. x \in Int /\ z \in Int /\ z \in T
      OBVIOUS
    <3>2. CASE x >= z
      <4>1. \A y \in T : x >= y
        BY <2>3, <3>1, <3>2
      <4> QED BY <2>1, <4>1
    <3>3. CASE z >= x
      <4>1. \A y \in T : z >= y
        BY <2>3, <3>1, <3>3
      <4> QED BY <2>1, <3>1, <4>1
    <3> QED BY <3>1, <3>2, <3>3
  <2> QED BY <2>2, <2>3
<1>3. Bad = {}
  <2> HIDE DEF Bad
  <2>1. Bad \subseteq SUBSET S
    BY DEF Bad
  <2> QED BY <1>1, <1>2, <2>1, SubsetInduction
<1>4. Bounded(S)
  BY <1>3
<1>5. Max(S) \in S /\ \A y \in S : Max(S) >= y
  BY <1>4 DEF Max
<1>6. \A y \in S : y \in Int /\ Max(S) \in Int
  BY <1>5
<1> QED BY <1>5, <1>6

-----------------------------------------------------------------------------
(* Lists in order.  R is the order, as a set of pairs.                      *)

\* Those that come before x.
Before(x, S, R) == {y \in S : <<y, x>> \in R}

\* The further on, the more come before.
LEMMA BeforeGrows ==
  ASSUME NEW S, IsFiniteSet(S), NEW R,
         \A x \in S : <<x, x>> \notin R,
         \A x, y, z \in S : <<x, y>> \in R /\ <<y, z>> \in R => <<x, z>> \in R,
         NEW x \in S, NEW y \in S, <<x, y>> \in R
  PROVE  Cardinality(Before(x, S, R)) < Cardinality(Before(y, S, R))
<1> DEFINE A == Before(x, S, R)
           B == Before(y, S, R)
<1>1. IsFiniteSet(A) /\ IsFiniteSet(B)
  BY FS_Subset DEF Before
<1>2. x \notin A
  BY DEF Before
<1>3. A \cup {x} \subseteq B
  BY DEF Before
<1> HIDE DEF A, B
<1>4. IsFiniteSet(A \cup {x}) /\ Cardinality(A \cup {x}) = Cardinality(A) + 1
  BY <1>1, <1>2, FS_AddElement
<1>5. Cardinality(A \cup {x}) <= Cardinality(B)
  BY <1>1, <1>3, FS_Subset
<1>6. Cardinality(A) \in Nat /\ Cardinality(B) \in Nat
  BY <1>1, FS_CardinalityType
<1>7. Cardinality(A) < Cardinality(B)
  BY <1>4, <1>5, <1>6
<1> QED BY <1>7 DEF A, B

\* A finite set with a strict total order can be listed in that order: the
\* place of an element is one more than the number of those before it.
THEOREM ListInOrder ==
  ASSUME NEW S, IsFiniteSet(S), NEW R,
         \A x \in S : <<x, x>> \notin R,
         \A x, y, z \in S : <<x, y>> \in R /\ <<y, z>> \in R => <<x, z>> \in R,
         \A x, y \in S : x = y \/ <<x, y>> \in R \/ <<y, x>> \in R
  PROVE  \E s \in [1 .. Cardinality(S) -> S] :
           \A i, j \in 1 .. Cardinality(S) : i < j => <<s[i], s[j]>> \in R
<1> DEFINE n == Cardinality(S)
           place == [x \in S |-> Cardinality(Before(x, S, R)) + 1]
<1>1. n \in Nat
  BY FS_CardinalityType
<1>2. ASSUME NEW x \in S
      PROVE  place[x] \in 1 .. n
  <2> DEFINE A == Before(x, S, R)
  <2>1. A \in SUBSET S /\ A # S /\ x \notin A
    BY DEF Before
  <2> HIDE DEF A
  <2>2. IsFiniteSet(A) /\ Cardinality(A) <= n /\ Cardinality(A) # n
    BY <2>1, FS_Subset
  <2>3. Cardinality(A) \in Nat
    BY <2>2, FS_CardinalityType
  <2>4. Cardinality(A) + 1 \in 1 .. n
    <3> HIDE DEF n
    <3> QED BY <1>1, <2>2, <2>3
  <2> QED BY <2>4 DEF A
<1>3. ASSUME NEW x \in S, NEW y \in S, <<x, y>> \in R
      PROVE  place[x] < place[y]
  <2>1. Cardinality(Before(x, S, R)) < Cardinality(Before(y, S, R))
    BY <1>3, BeforeGrows
  <2>2. Cardinality(Before(x, S, R)) \in Nat /\ Cardinality(Before(y, S, R)) \in Nat
    <3>1. IsFiniteSet(Before(x, S, R)) /\ IsFiniteSet(Before(y, S, R))
      BY FS_Subset DEF Before
    <3> QED BY <3>1, FS_CardinalityType
  <2> QED BY <2>1, <2>2
<1>4. place \in [S -> 1 .. n]
  BY <1>2
<1> HIDE DEF place
<1>5. place \in Surjection(S, 1 .. n)
  <2>1. place \in Injection(S, 1 .. n)
    <3>1. ASSUME NEW x \in S, NEW y \in S, place[x] = place[y]
          PROVE  x = y
      <4>1. place[x] \in Int /\ place[y] \in Int
        BY <1>2
      <4>2. ~ (place[x] < place[y]) /\ ~ (place[y] < place[x])
        BY <3>1, <4>1
      <4> QED BY <1>3, <4>2
    <3> QED BY <1>4, <3>1 DEF Injection, IsInjective
  <2>2. IsFiniteSet(1 .. n) /\ Cardinality(1 .. n) = n
    BY <1>1, FS_Interval
  <2> QED BY <2>1, <2>2, FS_Injection
<1>6. \A i \in 1 .. n : \E x \in S : place[x] = i
  BY <1>5 DEF Surjection
<1> DEFINE s == [i \in 1 .. n |-> CHOOSE x \in S : place[x] = i]
<1>7. \A i \in 1 .. n : s[i] \in S /\ place[s[i]] = i
  BY <1>6
<1>8. ASSUME NEW i \in 1 .. n, NEW j \in 1 .. n, i < j
      PROVE  <<s[i], s[j]>> \in R
  <2>1. s[i] \in S /\ s[j] \in S /\ place[s[i]] = i /\ place[s[j]] = j
    BY <1>7
  <2> HIDE DEF s
  <2>2. s[i] # s[j]
    BY <1>8, <2>1
  <2>3. <<s[j], s[i]>> \notin R
    <3> SUFFICES ASSUME <<s[j], s[i]>> \in R PROVE FALSE
      OBVIOUS
    <3>1. j < i
      BY <1>3, <2>1
    <3>2. i \in Int /\ j \in Int
      BY <1>1
    <3> QED BY <1>8, <3>1, <3>2
  <2> QED BY <2>1, <2>2, <2>3
<1>9. s \in [1 .. n -> S]
  BY <1>7
<1> HIDE DEF s
<1> QED BY <1>8, <1>9

\* Any list in order has every element of the set, once.
THEOREM ListHasAll ==
  ASSUME NEW S, IsFiniteSet(S), NEW R,
         \A x \in S : <<x, x>> \notin R,
         NEW s \in [1 .. Cardinality(S) -> S],
         \A i, j \in 1 .. Cardinality(S) : i < j => <<s[i], s[j]>> \in R
  PROVE  /\ \A x \in S : \E i \in 1 .. Cardinality(S) : s[i] = x
         /\ \A i, j \in 1 .. Cardinality(S) : s[i] = s[j] => i = j
<1> DEFINE n == Cardinality(S)
<1>1. n \in Nat
  BY FS_CardinalityType
<1>2. ASSUME NEW i \in 1 .. n, NEW j \in 1 .. n, s[i] = s[j]
      PROVE  i = j
  <2>1. s[i] \in S /\ i \in Int /\ j \in Int
    OBVIOUS
  <2>2. ~ (i < j) /\ ~ (j < i)
    BY <1>2, <2>1
  <2> QED BY <2>1, <2>2
<1>3. s \in Injection(1 .. n, S)
  BY <1>2 DEF Injection, IsInjective
<1>4. Cardinality(1 .. n) = n
  BY <1>1, FS_Interval
<1>5. s \in Surjection(1 .. n, S)
  <2> HIDE DEF n
  <2> QED BY <1>3, <1>4, FS_Injection DEF n
<1> QED BY <1>2, <1>5 DEF Surjection

=============================================================================

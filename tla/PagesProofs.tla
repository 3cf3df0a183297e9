---------------------------- MODULE PagesProofs -----------------------------
(***************************************************************************)
(* Machine-checked theorems about Pages, for every set of keys, every mix  *)
(* of limits and every interleaving of pages and stores.                   *)
(*                                                                         *)
(* The order of the store is lexicographic (Below); a key extended by zero *)
(* bytes has exactly the keys after it above it (AfterFrom), which is why  *)
(* the pages fit together.  The invariant says that a key that was there   *)
(* from the start and has not been given is in the range of the next page. *)
(***************************************************************************)
EXTENDS Pages, SetTheorems, SequenceTheorems

-----------------------------------------------------------------------------
(* The order of the keys.                                                   *)

Bytes == 0 .. 255

LEMMA BytesAreNaturals == Bytes \subseteq Nat
BY DEF Bytes

\* The byte of a key at a place, plus one, and zero after its end.
At(k, i) == IF i \in 1 .. Len(k) THEN k[i] + 1 ELSE 0

LEMMA AtIs ==
  ASSUME NEW k \in Seq(Bytes), NEW i \in Nat \ {0}
  PROVE  /\ Len(k) \in Nat
         /\ i <= Len(k) => k[i] \in Bytes /\ At(k, i) = k[i] + 1 /\ At(k, i) > 0
         /\ i > Len(k) => At(k, i) = 0
         /\ At(k, i) \in Nat
<1>1. Len(k) \in Nat /\ k \in [1 .. Len(k) -> Bytes]
  BY LenProperties
<1>2. CASE i <= Len(k)
  <2>1. i \in 1 .. Len(k)
    BY <1>1, <1>2
  <2>2. k[i] \in Bytes /\ k[i] \in Nat
    BY <1>1, <2>1, BytesAreNaturals
  <2> QED BY <1>1, <1>2, <2>1, <2>2 DEF At
<1>3. CASE i > Len(k)
  BY <1>1, <1>3 DEF At
<1> QED BY <1>1, <1>2, <1>3

\* One key is below another if it is less at the first place they differ.
Less(k, l, i) == At(k, i) < At(l, i) /\ \A j \in 1 .. i - 1 : At(k, j) = At(l, j)

LEMMA BelowIs ==
  ASSUME NEW k \in Seq(Bytes), NEW l \in Seq(Bytes)
  PROVE  Below(k, l) <=> \E i \in 1 .. Len(l) : Less(k, l, i)
<1>1. /\ Len(k) \in Nat /\ DOMAIN k = 1 .. Len(k) /\ k \in [1 .. Len(k) -> Bytes]
      /\ Len(l) \in Nat /\ DOMAIN l = 1 .. Len(l) /\ l \in [1 .. Len(l) -> Bytes]
  BY LenProperties
<1>2. ASSUME NEW n \in Nat, n <= Len(k), n <= Len(l)
      PROVE  SubSeq(k, 1, n) = SubSeq(l, 1, n) <=> \A j \in 1 .. n : k[j] = l[j]
  <2>1. /\ SubSeq(k, 1, n) \in Seq(Bytes) /\ Len(SubSeq(k, 1, n)) = n
        /\ SubSeq(l, 1, n) \in Seq(Bytes) /\ Len(SubSeq(l, 1, n)) = n
        /\ \A j \in 1 .. n : SubSeq(k, 1, n)[j] = k[j] /\ SubSeq(l, 1, n)[j] = l[j]
    BY <1>1, <1>2, SubSeqProperties
  <2>2. ASSUME \A j \in 1 .. n : k[j] = l[j]
        PROVE  SubSeq(k, 1, n) = SubSeq(l, 1, n)
    BY <2>1, <2>2, SeqEqual
  <2>3. ASSUME SubSeq(k, 1, n) = SubSeq(l, 1, n)
        PROVE  \A j \in 1 .. n : k[j] = l[j]
    BY <2>1, <2>3
  <2> QED BY <2>2, <2>3
<1>3. ASSUME IsStrictPrefix(k, l)
      PROVE  \E i \in 1 .. Len(l) : Less(k, l, i)
  <2>1. Len(k) <= Len(l) /\ SubSeq(k, 1, Len(k)) = SubSeq(l, 1, Len(k)) /\ k # l
    BY <1>3 DEF IsStrictPrefix, IsPrefix
  <2>2. \A j \in 1 .. Len(k) : k[j] = l[j]
    BY <1>1, <1>2, <2>1
  <2>3. Len(k) # Len(l)
    BY <2>1, <2>2, SeqEqual
  <2>4. Len(k) + 1 \in 1 .. Len(l)
    <3>1. Len(k) \in Nat /\ Len(l) \in Nat
      BY <1>1
    <3> QED BY <2>1, <2>3, <3>1
  <2>5. Less(k, l, Len(k) + 1)
    <3>1. Len(k) \in Nat /\ Len(l) \in Nat /\ Len(k) + 1 <= Len(l)
      BY <1>1, <2>4
    <3>2. At(k, Len(k) + 1) = 0 /\ At(l, Len(k) + 1) > 0
      BY <3>1, AtIs
    <3>3. \A j \in 1 .. (Len(k) + 1) - 1 : At(k, j) = At(l, j)
      BY <2>2, <3>1 DEF At
    <3> QED BY <3>2, <3>3 DEF Less
  <2> QED BY <2>4, <2>5
<1>4. ASSUME NEW i \in DOMAIN k \cap DOMAIN l,
             SubSeq(k, 1, i - 1) = SubSeq(l, 1, i - 1), k[i] < l[i]
      PROVE  \E n \in 1 .. Len(l) : Less(k, l, n)
  <2>1. \A j \in 1 .. i - 1 : k[j] = l[j]
    BY <1>1, <1>2, <1>4
  <2>2. /\ i \in Nat \ {0} /\ i <= Len(k) /\ i <= Len(l)
        /\ i \in 1 .. Len(k) /\ i \in 1 .. Len(l)
    BY <1>1, <1>4
  <2>3. k[i] \in Nat /\ l[i] \in Nat
    BY <1>1, <2>2, BytesAreNaturals
  <2>4. At(k, i) < At(l, i)
    BY <1>4, <2>2, <2>3 DEF At
  <2>5. \A j \in 1 .. i - 1 : At(k, j) = At(l, j)
    <3>1. \A j \in 1 .. i - 1 : j \in 1 .. Len(k) /\ j \in 1 .. Len(l)
      BY <1>1, <2>2
    <3> QED BY <2>1, <3>1 DEF At
  <2> QED BY <2>2, <2>4, <2>5 DEF Less
<1>5. ASSUME NEW i \in 1 .. Len(l), Less(k, l, i)
      PROVE  Below(k, l)
  <2>1. \A j \in 1 .. i - 1 : j <= Len(k) /\ k[j] = l[j]
    <3> SUFFICES ASSUME NEW j \in 1 .. i - 1
                 PROVE  j <= Len(k) /\ k[j] = l[j]
      OBVIOUS
    <3>1. j \in Nat \ {0} /\ j <= Len(l)
      BY <1>1
    <3>2. At(k, j) = At(l, j)
      BY <1>5 DEF Less
    <3>3. At(l, j) = l[j] + 1 /\ At(l, j) > 0 /\ l[j] \in Nat
      BY <3>1, AtIs, BytesAreNaturals
    <3>4. j <= Len(k)
      <4> SUFFICES ASSUME j > Len(k) PROVE FALSE
        BY <1>1, <3>1
      <4>1. At(k, j) = 0
        BY <3>1, AtIs
      <4> QED BY <3>2, <3>3, <4>1
    <3>5. At(k, j) = k[j] + 1 /\ k[j] \in Nat
      BY <3>1, <3>4, AtIs, BytesAreNaturals
    <3>6. k[j] = l[j]
      BY <3>2, <3>3, <3>5
    <3> QED BY <3>4, <3>6
  <2>2. i - 1 <= Len(k)
    <3>1. CASE i = 1
      BY <1>1, <3>1
    <3>2. CASE i # 1
      <4>1. i - 1 \in 1 .. i - 1
        BY <1>1, <3>2
      <4> QED BY <2>1, <4>1
    <3> QED BY <3>1, <3>2
  <2>3. SubSeq(k, 1, i - 1) = SubSeq(l, 1, i - 1)
    BY <1>1, <1>2, <2>1, <2>2
  <2>4. CASE i <= Len(k)
    <3>1. i \in DOMAIN k \cap DOMAIN l /\ i \in 1 .. Len(k)
      BY <1>1, <2>4
    <3>2. k[i] \in Nat /\ l[i] \in Nat
      BY <1>1, <3>1, BytesAreNaturals
    <3>3. k[i] < l[i]
      BY <1>5, <3>1, <3>2 DEF Less, At
    <3> QED BY <2>3, <3>1, <3>3 DEF Below
  <2>5. CASE i > Len(k)
    <3>1. i - 1 = Len(k)
      BY <1>1, <2>2, <2>5
    <3>2. k # l
      BY <1>1, <2>5
    <3>3. IsStrictPrefix(k, l)
      BY <1>1, <2>3, <3>1, <3>2 DEF IsStrictPrefix, IsPrefix
    <3> QED BY <3>3 DEF Below
  <2> QED BY <1>1, <2>4, <2>5
<1> QED BY <1>3, <1>4, <1>5 DEF Below

LEMMA BelowIrreflexive ==
  ASSUME NEW k \in Seq(Bytes)
  PROVE  ~ Below(k, k)
<1>1. ASSUME NEW i \in 1 .. Len(k)
      PROVE  ~ Less(k, k, i)
  <2>1. i \in Nat \ {0}
    BY LenProperties
  <2>2. At(k, i) \in Nat
    BY <2>1, AtIs
  <2> QED BY <2>2 DEF Less
<1> QED BY <1>1, BelowIs

LEMMA BelowTransitive ==
  ASSUME NEW k \in Seq(Bytes), NEW l \in Seq(Bytes), NEW m \in Seq(Bytes),
         Below(k, l), Below(l, m)
  PROVE  Below(k, m)
<1>1. PICK i \in 1 .. Len(l) : Less(k, l, i)
  BY BelowIs
<1>2. PICK j \in 1 .. Len(m) : Less(l, m, j)
  BY BelowIs
<1>3. Len(l) \in Nat /\ Len(m) \in Nat /\ i \in Nat \ {0} /\ j \in Nat \ {0}
  BY LenProperties
<1>4. \A n \in Nat \ {0} : At(k, n) \in Nat /\ At(l, n) \in Nat /\ At(m, n) \in Nat
  BY AtIs
<1>5. CASE i < j
  <2>1. Less(k, m, i)
    BY <1>1, <1>2, <1>3, <1>4, <1>5 DEF Less
  <2>2. i \in 1 .. Len(m)
    BY <1>3, <1>5
  <2> QED BY <2>1, <2>2, BelowIs
<1>6. CASE j <= i
  <2>1. Less(k, m, j)
    <3>1. \A n \in 1 .. j - 1 : At(k, n) = At(m, n)
      BY <1>1, <1>2, <1>3, <1>6 DEF Less
    <3>2. CASE i = j
      <4>1. At(k, j) < At(l, j) /\ At(l, j) < At(m, j)
        BY <1>1, <1>2, <3>2 DEF Less
      <4>2. At(k, j) < At(m, j)
        BY <1>3, <1>4, <4>1
      <4> QED BY <3>1, <4>2 DEF Less
    <3>3. CASE j < i
      <4>1. At(k, j) = At(l, j)
        BY <1>1, <1>3, <3>3 DEF Less
      <4> QED BY <1>2, <3>1, <4>1 DEF Less
    <3> QED BY <1>3, <1>6, <3>2, <3>3
  <2> QED BY <2>1, BelowIs
<1> QED BY <1>3, <1>5, <1>6

LEMMA BelowTotal ==
  ASSUME NEW k \in Seq(Bytes), NEW l \in Seq(Bytes), k # l
  PROVE  Below(k, l) \/ Below(l, k)
<1> DEFINE Differ == {i \in Nat \ {0} : At(k, i) # At(l, i)}
<1>1. Len(k) \in Nat /\ Len(l) \in Nat
  BY LenProperties
<1>2. Differ # {}
  <2>1. CASE Len(k) = Len(l)
    <3>1. PICK i \in 1 .. Len(k) : k[i] # l[i]
      BY <2>1, SeqEqual
    <3>2. i \in Nat \ {0} /\ i <= Len(k) /\ i <= Len(l)
      BY <1>1, <2>1
    <3>3. /\ At(k, i) = k[i] + 1 /\ At(l, i) = l[i] + 1
          /\ k[i] \in Nat /\ l[i] \in Nat
      BY <3>2, AtIs, BytesAreNaturals
    <3>4. At(k, i) # At(l, i)
      BY <3>1, <3>3
    <3> QED BY <3>2, <3>4
  <2>2. CASE Len(k) < Len(l)
    <3>1. Len(l) \in Nat \ {0}
      BY <1>1, <2>2
    <3>2. At(k, Len(l)) = 0 /\ At(l, Len(l)) > 0
      BY <1>1, <2>2, <3>1, AtIs
    <3>3. At(k, Len(l)) # At(l, Len(l))
      BY <3>2
    <3> QED BY <3>1, <3>3
  <2>3. CASE Len(l) < Len(k)
    <3>1. Len(k) \in Nat \ {0}
      BY <1>1, <2>3
    <3>2. At(l, Len(k)) = 0 /\ At(k, Len(k)) > 0
      BY <1>1, <2>3, <3>1, AtIs
    <3>3. At(l, Len(k)) # At(k, Len(k))
      BY <3>2
    <3> QED BY <3>1, <3>3
  <2> QED BY <1>1, <2>1, <2>2, <2>3
<1>3. PICK i \in Differ : \A j \in Differ : i <= j
  <2> HIDE DEF Differ
  <2>1. Differ \subseteq Nat
    BY DEF Differ
  <2> QED BY <1>2, <2>1, LeastElement
<1>4. i \in Nat \ {0} /\ At(k, i) # At(l, i) /\ At(k, i) \in Nat /\ At(l, i) \in Nat
  BY AtIs
<1>5. \A j \in 1 .. i - 1 : At(k, j) = At(l, j)
  <2> SUFFICES ASSUME NEW j \in 1 .. i - 1, At(k, j) # At(l, j) PROVE FALSE
    OBVIOUS
  <2>1. j \in Differ
    BY <1>4
  <2> QED BY <1>3, <1>4, <2>1
<1> HIDE DEF Differ
<1>6. CASE At(k, i) < At(l, i)
  <2>1. i \in 1 .. Len(l)
    <3> SUFFICES ASSUME i > Len(l) PROVE FALSE
      BY <1>1, <1>4
    <3>1. At(l, i) = 0 /\ At(k, i) \in Nat
      BY <1>4, AtIs
    <3> QED BY <1>6, <3>1
  <2> QED BY <1>5, <1>6, <2>1, BelowIs DEF Less
<1>7. CASE At(l, i) < At(k, i)
  <2>1. i \in 1 .. Len(k)
    <3> SUFFICES ASSUME i > Len(k) PROVE FALSE
      BY <1>1, <1>4
    <3>1. At(k, i) = 0 /\ At(l, i) \in Nat
      BY <1>4, AtIs
    <3> QED BY <1>7, <3>1
  <2> QED BY <1>5, <1>7, <2>1, BelowIs DEF Less
<1> QED BY <1>4, <1>6, <1>7

-----------------------------------------------------------------------------
(* Where a page begins.                                                     *)

LEMMA KeysAreSequences ==
  StorableKeys \subseteq Seq(Bytes) /\ IsFiniteSet(StorableKeys)
<1>1. StorableKeys \subseteq HolderKeys \cup AccountKeys
  BY DEF StorableKeys
<1> QED BY <1>1, KeysAssumption, FS_Subset DEF Bytes

\* A key with a zero byte after it.
LEMMA ZeroAppended ==
  ASSUME NEW k \in Seq(Bytes)
  PROVE  /\ Append(k, 0) \in Seq(Bytes)
         /\ Len(Append(k, 0)) = Len(k) + 1
         /\ Below(k, Append(k, 0))
         /\ \A i \in 1 .. Len(k) : At(Append(k, 0), i) = At(k, i)
         /\ At(Append(k, 0), Len(k) + 1) = 1
<1> DEFINE f == Append(k, 0)
<1>1. 0 \in Bytes
  BY DEF Bytes
<1>2. /\ f \in Seq(Bytes) /\ Len(f) = Len(k) + 1
      /\ \A i \in 1 .. Len(k) : f[i] = k[i]
      /\ f[Len(k) + 1] = 0
  BY <1>1, AppendProperties
<1>3. Len(k) \in Nat
  BY LenProperties
<1> HIDE DEF f
<1>4. \A i \in 1 .. Len(k) : At(f, i) = At(k, i)
  BY <1>2, <1>3 DEF At
<1>5. At(f, Len(k) + 1) = 1 /\ At(k, Len(k) + 1) = 0
  BY <1>2, <1>3 DEF At
<1>6. Less(k, f, Len(k) + 1) /\ Len(k) + 1 \in 1 .. Len(f)
  BY <1>2, <1>3, <1>4, <1>5 DEF Less
<1>7. Below(k, f)
  BY <1>2, <1>6, BelowIs
<1> QED BY <1>2, <1>4, <1>5, <1>7 DEF f

\* The bytes of the key a page begins at.
LEMMA FromIs ==
  ASSUME query \in {"Holders", "AllAccounts"}, NEW key \in StorableKeys
  PROVE  /\ From(key) \in Seq(Bytes)
         /\ Below(key, From(key))
         /\ \A i \in 1 .. Len(key) : At(From(key), i) = At(key, i)
         /\ At(From(key), Len(key) + 1) = 1
<1>1. key \in Seq(Bytes) /\ Len(key) \in Nat
  BY KeysAreSequences, LenProperties
<1>2. CASE query = "AllAccounts"
  <2>1. From(key) = Append(key, 0)
    BY <1>2 DEF From, RangeStart
  <2> QED BY <1>1, <2>1, ZeroAppended
<1>3. CASE query = "Holders"
  <2> DEFINE a == Append(key, 0)
  <2>1. From(key) = Append(a, 0)
    BY <1>3 DEF From, RangeStart
  <2>2. /\ a \in Seq(Bytes) /\ Len(a) = Len(key) + 1 /\ Below(key, a)
        /\ \A i \in 1 .. Len(key) : At(a, i) = At(key, i)
        /\ At(a, Len(key) + 1) = 1
    BY <1>1, ZeroAppended
  <2> HIDE DEF a
  <2>3. /\ Append(a, 0) \in Seq(Bytes) /\ Below(a, Append(a, 0))
        /\ \A i \in 1 .. Len(a) : At(Append(a, 0), i) = At(a, i)
    BY <2>2, ZeroAppended
  <2>4. Below(key, Append(a, 0))
    BY <1>1, <2>2, <2>3, BelowTransitive
  <2>5. \A i \in 1 .. Len(key) + 1 : i \in 1 .. Len(a)
    BY <1>1, <2>2
  <2>6. Len(key) + 1 \in 1 .. Len(a)
    BY <1>1, <2>2
  <2> QED BY <1>1, <2>1, <2>2, <2>3, <2>4, <2>5, <2>6
<1> QED BY <1>2, <1>3

\* A key after the last one differs from it before its end, or has a byte
\* that is not zero there.
LEMMA AboveFrom ==
  ASSUME query \in {"Holders", "AllAccounts"},
         NEW key \in StorableKeys, NEW k \in StorableKeys,
         NEW i \in 1 .. Len(k), Less(key, k, i)
  PROVE  i <= Len(key) + 1 /\ At(From(key), i) < At(k, i)
<1>1. /\ key \in Seq(Bytes) /\ k \in Seq(Bytes)
      /\ Len(key) \in Nat /\ Len(k) \in Nat
  BY KeysAreSequences, LenProperties
<1>2. i \in Nat \ {0} /\ i <= Len(k)
  BY <1>1
<1>3. CASE i <= Len(key)
  <2>1. i \in 1 .. Len(key)
    BY <1>1, <1>2, <1>3
  <2>2. At(From(key), i) = At(key, i)
    BY <2>1, FromIs
  <2> QED BY <1>1, <1>2, <1>3, <2>2 DEF Less
<1>4. CASE i > Len(key)
  <2>1. i = Len(key) + 1
    <3> SUFFICES ASSUME i > Len(key) + 1 PROVE FALSE
      BY <1>1, <1>2, <1>4
    <3>1. Len(key) + 1 \in 1 .. i - 1 /\ Len(key) + 1 \in Nat \ {0}
      BY <1>1, <1>2
    <3>2. At(key, Len(key) + 1) = At(k, Len(key) + 1)
      BY <3>1 DEF Less
    <3>3. At(key, Len(key) + 1) = 0
      BY <1>1, <3>1, AtIs
    <3>4. At(k, Len(key) + 1) > 0
      BY <1>1, <1>2, <3>1, AtIs
    <3> QED BY <3>2, <3>3, <3>4
  <2>2. CASE query = "Holders"
    <3>1. Len(key) = Len(k)
      BY <2>2, KeysAssumption DEF StorableKeys
    <3> QED BY <1>1, <1>2, <1>4, <3>1
  <2>3. CASE query = "AllAccounts"
    <3>1. 0 \notin Range(k)
      BY <2>3, KeysAssumption DEF StorableKeys
    <3>2. k[i] # 0
      <4>1. i \in DOMAIN k
        BY <1>1, LenProperties
      <4> QED BY <3>1, <4>1 DEF Range
    <3>3. k[i] \in Nat /\ At(k, i) = k[i] + 1
      BY <1>1, <1>2, AtIs, BytesAreNaturals
    <3>4. At(k, i) > 1
      BY <3>2, <3>3
    <3>5. At(From(key), i) = 1
      BY <2>1, FromIs
    <3> QED BY <1>1, <2>1, <3>4, <3>5
  <2> QED BY <2>2, <2>3
<1> QED BY <1>1, <1>2, <1>3, <1>4

\* The page that goes on from a key has exactly the keys after it: nothing
\* lies between a key and the bound that the zero bytes make of it.
LEMMA AfterFrom ==
  ASSUME query \in {"Holders", "AllAccounts"},
         NEW key \in StorableKeys, NEW k \in StorableKeys
  PROVE  ~ Below(k, From(key)) <=> Below(key, k)
<1> DEFINE f == From(key)
<1>1. key \in Seq(Bytes) /\ k \in Seq(Bytes) /\ Len(key) \in Nat
  BY KeysAreSequences, LenProperties
<1>2. /\ f \in Seq(Bytes) /\ Below(key, f)
      /\ \A i \in 1 .. Len(key) : At(f, i) = At(key, i)
  BY FromIs
<1>3. ASSUME Below(key, k), Below(k, f)
      PROVE  FALSE
  <2>1. PICK i \in 1 .. Len(k) : Less(key, k, i)
    BY <1>1, <1>3, BelowIs
  <2>2. PICK j \in 1 .. Len(f) : Less(k, f, j)
    BY <1>1, <1>2, <1>3, BelowIs
  <2>3. i <= Len(key) + 1 /\ At(f, i) < At(k, i)
    BY <2>1, AboveFrom
  <2> HIDE DEF f
  <2>4. i \in Nat \ {0} /\ j \in Nat \ {0}
    BY <1>1, <1>2, LenProperties
  <2>5. /\ At(f, i) \in Nat /\ At(k, i) \in Nat
        /\ At(f, j) \in Nat /\ At(k, j) \in Nat
    BY <1>1, <1>2, <2>4, AtIs
  <2>6. CASE j < i
    <3>1. At(key, j) = At(k, j)
      BY <2>1, <2>4, <2>6 DEF Less
    <3>2. At(f, j) = At(key, j)
      BY <1>1, <1>2, <2>3, <2>4, <2>6
    <3> QED BY <2>2, <2>5, <3>1, <3>2 DEF Less
  <2>7. CASE i = j
    BY <2>2, <2>3, <2>5, <2>7 DEF Less
  <2>8. CASE i < j
    <3>1. At(k, i) = At(f, i)
      BY <2>2, <2>4, <2>8 DEF Less
    <3> QED BY <2>3, <2>5, <3>1
  <2> QED BY <2>4, <2>6, <2>7, <2>8
<1>4. ASSUME ~ Below(k, f), ~ Below(key, k)
      PROVE  FALSE
  <2>1. k = key \/ Below(k, key)
    BY <1>1, <1>4, BelowTotal
  <2> HIDE DEF f
  <2> QED BY <1>1, <1>2, <1>4, <2>1, BelowTransitive
<1> QED BY <1>3, <1>4

-----------------------------------------------------------------------------
(* What a page holds.                                                       *)

\* A finite set of keys has a list in the order of the store.
LEMMA InOrderIs ==
  ASSUME NEW K, K \subseteq Seq(Bytes), IsFiniteSet(K)
  PROVE  /\ InOrder(K) \in Seq(K)
         /\ \A i, j \in 1 .. Len(InOrder(K)) :
              i < j => Below(InOrder(K)[i], InOrder(K)[j])
         /\ \A k \in K : \E i \in 1 .. Len(InOrder(K)) : InOrder(K)[i] = k
<1> DEFINE n == Cardinality(K)
           R == {pair \in K \X K : Below(pair[1], pair[2])}
           Sorted(s) == \A i, j \in 1 .. n : i < j => Below(s[i], s[j])
<1>1. n \in Nat
  BY FS_CardinalityType
<1>2. \A k, l \in K : <<k, l>> \in R <=> Below(k, l)
  OBVIOUS
<1> HIDE DEF R
<1>3. \A k \in K : <<k, k>> \notin R
  BY <1>2, BelowIrreflexive
<1>4. \A k, l, m \in K : <<k, l>> \in R /\ <<l, m>> \in R => <<k, m>> \in R
  BY <1>2, BelowTransitive
<1>5. \A k, l \in K : k = l \/ <<k, l>> \in R \/ <<l, k>> \in R
  BY <1>2, BelowTotal
<1>6. PICK s \in [1 .. n -> K] : \A i, j \in 1 .. n : i < j => <<s[i], s[j]>> \in R
  BY <1>3, <1>4, <1>5, ListInOrder
<1>7. Sorted(s)
  BY <1>2, <1>6
<1>8. s \in SetToSeqs(K)
  <2>1. \A i, j \in 1 .. n : s[i] = s[j] => i = j
    BY <1>3, <1>6, ListHasAll
  <2> QED BY <2>1 DEF SetToSeqs
<1>9. /\ InOrder(K) \in SetToSeqs(K)
      /\ \A i, j \in DOMAIN InOrder(K) : i < j => Below(InOrder(K)[i], InOrder(K)[j])
  <2>1. DOMAIN s = 1 .. n
    OBVIOUS
  <2>2. \A i, j \in DOMAIN s : i < j => Below(s[i], s[j])
    BY <1>7, <2>1
  <2> QED BY <1>8, <2>2 DEF InOrder
<1> DEFINE t == InOrder(K)
<1>10. t \in [1 .. n -> K] /\ Sorted(t)
  BY <1>9 DEF SetToSeqs
<1> HIDE DEF t
<1>11. t \in Seq(K) /\ Len(t) = n
  BY <1>1, <1>10
<1>12. \A i, j \in 1 .. n : i < j => <<t[i], t[j]>> \in R
  BY <1>2, <1>10
<1>13. \A k \in K : \E i \in 1 .. n : t[i] = k
  <2>1. t \in [1 .. Cardinality(K) -> K]
    BY <1>10
  <2>2. \A i, j \in 1 .. Cardinality(K) : i < j => <<t[i], t[j]>> \in R
    BY <1>12
  <2>3. /\ \A k \in K : \E i \in 1 .. Cardinality(K) : t[i] = k
        /\ \A i, j \in 1 .. Cardinality(K) : t[i] = t[j] => i = j
    BY ONLY IsFiniteSet(K), <1>3, <2>1, <2>2, ListHasAll
  <2> QED BY <2>3
<1> HIDE DEF n
<1> QED BY <1>10, <1>11, <1>13 DEF t

LEMMA MinIs ==
  ASSUME NEW S, S \subseteq Nat, S # {}
  PROVE  Min(S) \in S /\ \A x \in S : Min(S) <= x
<1>1. PICK m \in S : \A x \in S : m <= x
  BY LeastElement
<1> QED BY <1>1 DEF Min

\* No limit makes a page that must be empty.
LEMMA PageLimitIs ==
  ASSUME NEW limit \in RequestedLimits
  PROVE  PageLimit(limit) \in Nat
<1> DEFINE S == (IF limit = {} THEN {DefaultLimit} ELSE limit) \cup {MaxLimit}
<1>1. S \subseteq Nat /\ S # {}
  BY LimitsAssumption
<1>2. PageLimit(limit) = Min(S)
  BY DEF PageLimit
<1> HIDE DEF S
<1> QED BY <1>1, <1>2, MinIs

\* A page is the beginning of the keys in the range: in order, empty only if
\* there are none or none is asked for, and the keys it does not hold come
\* after its last.
LEMMA PageIs ==
  ASSUME query \in {"Holders", "AllAccounts"}, stored \subseteq StorableKeys,
         NEW limit \in RequestedLimits
  PROVE  /\ Page(limit) \in Seq({k \in stored : InRange(k)})
         /\ \A i, j \in 1 .. Len(Page(limit)) :
              i < j => Below(Page(limit)[i], Page(limit)[j])
         /\ \A k \in stored : InRange(k) =>
              \/ k \in Range(Page(limit))
              \/ Page(limit) # << >> /\ Below(Last(Page(limit)), k)
              \/ Page(limit) = << >> /\ PageLimit(limit) = 0
<1> DEFINE K == {k \in stored : InRange(k)}
           s == InOrder(K)
           m == Min({PageLimit(limit), Len(s)})
           p == Page(limit)
<1>1. K \subseteq Seq(Bytes) /\ IsFiniteSet(K)
  BY KeysAreSequences, FS_Subset
<1>2. \A k \in stored : InRange(k) => k \in K
  OBVIOUS
<1>3. p = SubSeq(s, 1, m)
  BY DEF Page
<1> HIDE DEF K, p
<1>4. /\ s \in Seq(K)
      /\ \A i, j \in 1 .. Len(s) : i < j => Below(s[i], s[j])
      /\ \A k \in K : \E i \in 1 .. Len(s) : s[i] = k
  BY <1>1, InOrderIs
<1> HIDE DEF s
<1>5. Len(s) \in Nat /\ s \in [1 .. Len(s) -> K]
  BY <1>4, LenProperties
<1>6. /\ m \in Nat /\ m <= Len(s)
      /\ Len(s) > 0 => m > 0 \/ PageLimit(limit) = 0
  <2>1. PageLimit(limit) \in Nat
    BY PageLimitIs
  <2>2. {PageLimit(limit), Len(s)} \subseteq Nat
    BY <1>5, <2>1
  <2>3. m \in {PageLimit(limit), Len(s)} /\ m <= Len(s)
    BY <2>2, MinIs
  <2> QED BY <1>5, <2>1, <2>3
<1> HIDE DEF m
<1>7. /\ p \in Seq(K) /\ Len(p) = m
      /\ \A i \in 1 .. m : p[i] = s[i]
  <2>1. \A i \in 1 .. m : s[i] \in K
    BY <1>5, <1>6
  <2>2. m \in Int /\ 1 \in Int
    BY <1>6
  <2>3. /\ p \in Seq(K)
        /\ Len(p) = IF 1 <= m THEN m - 1 + 1 ELSE 0
        /\ \A i \in 1 .. m - 1 + 1 : p[i] = s[1 + i - 1]
    BY <1>3, <2>1, <2>2, SubSeqProperties
  <2> QED BY <1>6, <2>3
<1>8. \A i, j \in 1 .. Len(p) : i < j => Below(p[i], p[j])
  BY <1>4, <1>5, <1>6, <1>7
<1>9. ASSUME NEW k \in K
      PROVE  \/ k \in Range(p)
             \/ p # << >> /\ Below(Last(p), k)
             \/ p = << >> /\ PageLimit(limit) = 0
  <2>1. PICK i \in 1 .. Len(s) : s[i] = k
    BY <1>4
  <2>2. CASE i <= m
    <3>1. i \in 1 .. Len(p) /\ p[i] = k
      BY <1>5, <1>6, <1>7, <2>1, <2>2
    <3>2. DOMAIN p = 1 .. Len(p)
      BY <1>7, LenProperties
    <3> QED BY <3>1, <3>2 DEF Range
  <2>3. CASE i > m /\ m = 0
    BY <1>5, <1>6, <1>7, <2>1, <2>3, EmptySeq
  <2>4. CASE i > m /\ m > 0
    <3>1. m \in 1 .. Len(s) /\ m \in 1 .. m /\ m < i
      BY <1>5, <1>6, <2>1, <2>4
    <3>2. Last(p) = s[m] /\ p # << >>
      BY <1>7, <3>1 DEF Last
    <3> QED BY <1>4, <2>1, <3>1, <3>2
  <2> QED BY <1>5, <1>6, <2>2, <2>3, <2>4
<1> QED BY <1>2, <1>7, <1>8, <1>9 DEF K, p

-----------------------------------------------------------------------------
(* The invariant.                                                           *)

\* A key stored before the reader started and not given yet is in the range
\* of the next page.
NotPassed == \A k \in known \ Range(seen) : InRange(k)

PagesInv ==
  /\ query \in {"Holders", "AllAccounts"}
  /\ known \subseteq stored /\ stored \subseteq StorableKeys
  /\ seen \in Seq(stored)
  /\ reading \in BOOLEAN
  /\ start_after = IF seen = << >> THEN {} ELSE {Last(seen)}
  /\ NothingTwice
  /\ NotPassed
  /\ NothingSkipped

\* A page after the last key has only keys above it.
LEMMA PageAbove ==
  ASSUME PagesInv, seen # << >>, NEW k \in stored
  PROVE  InRange(k) <=> Below(Last(seen), k)
<1>1. start_after = {Last(seen)}
  BY DEF PagesInv
<1>2. Last(seen) \in StorableKeys /\ k \in StorableKeys
  <2>1. Last(seen) \in stored
    BY LenProperties DEF PagesInv, Last
  <2> QED BY <2>1 DEF PagesInv
<1> QED BY <1>1, <1>2, AfterFrom DEF PagesInv, InRange

LEMMA PagesInit_Inv == PagesInit => PagesInv
<1> SUFFICES ASSUME PagesInit PROVE PagesInv
  OBVIOUS
<1> USE DEF PagesInit
<1>1. seen \in Seq(stored) /\ NothingTwice
  BY DEF NothingTwice
<1>2. NotPassed /\ NothingSkipped
  BY DEF NotPassed, NothingSkipped, InRange
<1> QED BY <1>1, <1>2 DEF PagesInv

LEMMA Store_Inv ==
  ASSUME PagesInv, NEW key \in StorableKeys, Store(key)
  PROVE  PagesInv'
<1> USE DEF Store
<1>1. StorableKeys' = StorableKeys
  BY DEF StorableKeys
<1>2. seen' \in Seq(stored')
  <2>1. seen \in [1 .. Len(seen) -> stored] /\ Len(seen) \in Nat
    BY LenProperties DEF PagesInv
  <2>2. seen \in [1 .. Len(seen) -> stored']
    BY <2>1
  <2> QED BY <2>1, <2>2
<1>3. NothingTwice' /\ NotPassed' /\ NothingSkipped'
  BY DEF PagesInv, NothingTwice, NotPassed, NothingSkipped, InRange, From,
         RangeStart
<1> QED BY <1>1, <1>2, <1>3 DEF PagesInv

LEMMA Read_Inv ==
  ASSUME PagesInv, NEW limit \in RequestedLimits, Read(limit)
  PROVE  PagesInv'
<1> DEFINE p == Page(limit)
<1>1. /\ seen' = seen \o p
      /\ reading' = (p = << >> => PageLimit(limit) = 0)
      /\ start_after' = IF p # << >> THEN {Last(p)} ELSE start_after
      /\ UNCHANGED <<query, stored, known>>
  BY DEF Read
<1>2. /\ query \in {"Holders", "AllAccounts"}
      /\ known \subseteq stored /\ stored \subseteq StorableKeys
      /\ seen \in Seq(stored)
      /\ \A i, j \in 1 .. Len(seen) : i < j => Below(seen[i], seen[j])
  <2>1. seen \in Seq(stored)
    BY DEF PagesInv
  <2> QED BY <2>1, LenProperties DEF PagesInv, NothingTwice
<1>3. /\ p \in Seq({k \in stored : InRange(k)})
      /\ \A i, j \in 1 .. Len(p) : i < j => Below(p[i], p[j])
      /\ \A k \in stored : InRange(k) =>
           \/ k \in Range(p)
           \/ p # << >> /\ Below(Last(p), k)
           \/ p = << >> /\ PageLimit(limit) = 0
  BY <1>2, PageIs
<1> HIDE DEF p
<1>4. /\ Len(p) \in Nat /\ DOMAIN p = 1 .. Len(p)
      /\ \A i \in 1 .. Len(p) : p[i] \in stored /\ InRange(p[i])
  BY <1>3, LenProperties
<1>5. p \in Seq(stored)
  BY <1>4, <1>3
<1>6. /\ Len(seen) \in Nat /\ DOMAIN seen = 1 .. Len(seen)
      /\ \A i \in 1 .. Len(seen) : seen[i] \in stored
  BY <1>2, LenProperties
<1>7. stored \subseteq Seq(Bytes)
  BY <1>2, KeysAreSequences
<1>8. StorableKeys' = StorableKeys
  BY <1>1 DEF StorableKeys
<1>9. /\ seen' \in Seq(stored) /\ Len(seen') = Len(seen) + Len(p)
      /\ DOMAIN seen' = 1 .. Len(seen) + Len(p)
      /\ \A i \in 1 .. Len(seen) + Len(p) :
           seen'[i] = IF i <= Len(seen) THEN seen[i] ELSE p[i - Len(seen)]
  BY <1>1, <1>2, <1>5, ConcatProperties, LenProperties
<1>10. CASE p = << >>
  <2>1. /\ seen' = seen /\ start_after' = start_after
        /\ reading' = (PageLimit(limit) = 0)
    BY <1>1, <1>2, <1>10, ConcatEmptySeq
  <2>2. Range(p) = {}
    BY <1>10 DEF Range
  <2>3. ~reading' => known \subseteq Range(seen)
    BY <2>1, <1>2, <1>3, <1>10, <2>2 DEF PagesInv, NotPassed
  <2>4. NothingTwice'
    BY <2>1 DEF PagesInv, NothingTwice
  <2>5. NotPassed'
    BY <1>1, <2>1 DEF PagesInv, NotPassed, InRange, From, RangeStart
  <2>6. NothingSkipped'
    BY <1>1, <2>1, <2>3 DEF NothingSkipped
  <2>7. reading' \in BOOLEAN
    BY <2>1
  <2> QED BY <1>1, <1>8, <2>1, <2>4, <2>5, <2>6, <2>7 DEF PagesInv
<1>11. CASE p # << >>
  <2>1. Len(p) \in Nat \ {0}
    BY <1>3, <1>4, <1>11, EmptySeq
  <2>2. Last(p) = p[Len(p)] /\ Last(p) \in stored
    BY <1>4, <2>1 DEF Last
  <2>3. start_after' = {Last(p)} /\ reading' = TRUE
    BY <1>1, <1>11
  <2>4. Last(seen') = Last(p) /\ seen' # << >>
    <3>1. Len(seen) + Len(p) \in 1 .. Len(seen) + Len(p)
      BY <1>6, <2>1
    <3>2. seen'[Len(seen) + Len(p)] = p[Len(p)]
      BY <1>6, <1>9, <2>1, <3>1
    <3> QED BY <1>6, <1>9, <2>1, <2>2, <3>2 DEF Last
  <2>5. NothingTwice'
    <3> SUFFICES ASSUME NEW i \in 1 .. Len(seen) + Len(p),
                        NEW j \in 1 .. Len(seen) + Len(p), i < j
                 PROVE  Below(seen'[i], seen'[j])
      BY <1>9 DEF NothingTwice
    <3>1. CASE j <= Len(seen)
      BY <1>2, <1>6, <1>9, <3>1
    <3>2. CASE i > Len(seen)
      <4>1. /\ i - Len(seen) \in 1 .. Len(p) /\ j - Len(seen) \in 1 .. Len(p)
            /\ i - Len(seen) < j - Len(seen)
        BY <1>4, <1>6, <3>2
      <4>2. seen'[i] = p[i - Len(seen)] /\ seen'[j] = p[j - Len(seen)]
        BY <1>4, <1>6, <1>9, <3>2
      <4> QED BY <1>3, <4>1, <4>2
    <3>3. CASE i <= Len(seen) /\ j > Len(seen)
      <4>1. i \in 1 .. Len(seen) /\ j - Len(seen) \in 1 .. Len(p)
        BY <1>4, <1>6, <3>3
      <4>2. seen'[i] = seen[i] /\ seen'[j] = p[j - Len(seen)]
        BY <1>4, <1>6, <1>9, <3>3
      <4> DEFINE b == p[j - Len(seen)]
      <4>3. b \in stored /\ InRange(b)
        BY <1>4, <4>1
      <4> HIDE DEF b
      <4>4. Len(seen) \in 1 .. Len(seen) /\ seen # << >> /\ Last(seen) = seen[Len(seen)]
        BY <1>6, <4>1 DEF Last
      <4>5. Below(Last(seen), b)
        BY <4>3, <4>4, PageAbove
      <4>6. seen[i] \in stored /\ Last(seen) \in stored
        BY <1>6, <4>1, <4>4
      <4>7. CASE i = Len(seen)
        BY <4>2, <4>4, <4>5, <4>7 DEF b
      <4>8. CASE i < Len(seen)
        <5>1. Below(seen[i], Last(seen))
          BY <1>2, <4>1, <4>4, <4>8
        <5>2. Below(seen[i], b)
          BY <1>7, <4>3, <4>5, <4>6, <5>1, BelowTransitive
        <5> QED BY <4>2, <5>2 DEF b
      <4>9. i = Len(seen) \/ i < Len(seen)
        <5>1. Len(seen) \in Int /\ i \in Int /\ i <= Len(seen)
          BY <1>4, <1>6, <3>3
        <5> QED BY <5>1
      <4> QED BY <4>7, <4>8, <4>9
    <3> QED BY <1>4, <1>6, <3>1, <3>2, <3>3
  <2>6. NotPassed'
    <3> SUFFICES ASSUME NEW k \in known, k \notin Range(seen')
                 PROVE  InRange(k)'
      BY <1>1 DEF NotPassed
    <3>1. k \in stored /\ k \in StorableKeys /\ Last(p) \in StorableKeys
      BY <1>2, <2>2
    <3>2. k \notin Range(seen) /\ k \notin Range(p)
      <4>1. \A i \in 1 .. Len(seen) : seen[i] # k
        <5> SUFFICES ASSUME NEW i \in 1 .. Len(seen) PROVE seen[i] # k
          OBVIOUS
        <5>1. i \in 1 .. Len(seen) + Len(p) /\ seen'[i] = seen[i]
          BY <1>4, <1>6, <1>9
        <5> QED BY <1>9, <5>1 DEF Range
      <4>2. \A i \in 1 .. Len(p) : p[i] # k
        <5> SUFFICES ASSUME NEW i \in 1 .. Len(p) PROVE p[i] # k
          OBVIOUS
        <5>1. /\ Len(seen) + i \in 1 .. Len(seen) + Len(p)
              /\ seen'[Len(seen) + i] = p[i]
          BY <1>4, <1>6, <1>9
        <5> QED BY <1>9, <5>1 DEF Range
      <4> QED BY <1>4, <1>6, <4>1, <4>2 DEF Range
    <3>3. Below(Last(p), k)
      BY <1>3, <1>11, <3>1, <3>2 DEF PagesInv, NotPassed
    <3>4. ~ Below(k, From(Last(p)))
      BY <1>2, <3>1, <3>3, AfterFrom
    <3> QED BY <1>1, <2>3, <3>4 DEF InRange, From, RangeStart
  <2>7. NothingSkipped'
    BY <2>3 DEF NothingSkipped
  <2> QED BY <1>1, <1>2, <1>8, <1>9, <2>3, <2>4, <2>5, <2>6, <2>7 DEF PagesInv
<1> QED BY <1>10, <1>11

LEMMA PagesNext_Inv == PagesInv /\ [PagesNext]_pagesVars => PagesInv'
<1> SUFFICES ASSUME PagesInv, [PagesNext]_pagesVars PROVE PagesInv'
  OBVIOUS
<1>1. CASE \E limit \in RequestedLimits : Read(limit)
  BY <1>1, Read_Inv
<1>2. CASE \E key \in StorableKeys : Store(key)
  BY <1>2, Store_Inv
<1>3. CASE UNCHANGED pagesVars
  BY <1>3 DEF pagesVars, PagesInv, NothingTwice, NotPassed, NothingSkipped,
              InRange, From, RangeStart, StorableKeys
<1> QED BY <1>1, <1>2, <1>3 DEF PagesNext

\* read_holders, query_all_accounts: at every page the reader has, in order, all
\* the keys up to the last one it was given that were there when it started.
THEOREM PagesInvariant == PagesSpec => []PagesInv
<1> QED BY PagesInit_Inv, PagesNext_Inv, PTL DEF PagesSpec

\* NothingTwice: whatever the limits, and whatever transactions store between
\* two pages, the pages of read_holders and query_all_accounts give no key
\* twice and go through the store in its order.
THEOREM NoKeyComesTwice == PagesSpec => []NothingTwice
<1>1. PagesInv => NothingTwice
  BY DEF PagesInv
<1> QED BY <1>1, PagesInvariant, PTL

\* NothingSkipped: a reader that comes to an empty page, having asked for at
\* least one key, has been given every key that was stored when it started.
THEOREM NoKeyIsSkipped == PagesSpec => []NothingSkipped
<1>1. PagesInv => NothingSkipped
  BY DEF PagesInv
<1> QED BY <1>1, PagesInvariant, PTL

\* A reader is never given more keys than are stored, so it comes to an empty
\* page once transactions store no new ones: each page before it that it asked
\* any key of has one.
THEOREM ReadingIsBounded ==
  PagesSpec => [](Len(seen) <= Cardinality(stored) /\ IsFiniteSet(stored))
<1>1. PagesInv => Len(seen) <= Cardinality(stored) /\ IsFiniteSet(stored)
  <2> SUFFICES ASSUME PagesInv
               PROVE  Len(seen) <= Cardinality(stored) /\ IsFiniteSet(stored)
    OBVIOUS
  <2>1. /\ stored \subseteq Seq(Bytes) /\ IsFiniteSet(stored)
        /\ seen \in Seq(stored)
    BY KeysAreSequences, FS_Subset DEF PagesInv
  <2>2. /\ Len(seen) \in Nat /\ DOMAIN seen = 1 .. Len(seen)
        /\ seen \in [1 .. Len(seen) -> stored]
    BY <2>1, LenProperties
  <2>3. ASSUME NEW i \in 1 .. Len(seen), NEW j \in 1 .. Len(seen),
               seen[i] = seen[j]
        PROVE  i = j
    <3>1. seen[i] \in Seq(Bytes) /\ i \in Int /\ j \in Int
      BY <2>1, <2>2
    <3>2. ~ Below(seen[i], seen[i])
      BY <3>1, BelowIrreflexive
    <3>3. ~ (i < j) /\ ~ (j < i)
      BY <2>2, <2>3, <3>2 DEF PagesInv, NothingTwice
    <3> QED BY <3>1, <3>3
  <2>4. seen \in Injection(1 .. Len(seen), stored)
    BY <2>2, <2>3 DEF Injection, IsInjective
  <2>5. Cardinality(1 .. Len(seen)) = Len(seen)
    BY <2>2, FS_Interval
  <2>6. Cardinality(1 .. Len(seen)) <= Cardinality(stored)
    BY <2>1, <2>4, FS_Injection
  <2> QED BY <2>1, <2>5, <2>6
<1> QED BY <1>1, PagesInvariant, PTL

=============================================================================

----------------------------- MODULE ListProofs -----------------------------
(***************************************************************************)
(* Lemmas about parts of lists (Lists) and sets of numbers: every set of   *)
(* numbers that is not empty has a least one, a finite one is listed by    *)
(* InOrder, and what Only leaves of a list is in the list, and all that    *)
(* was to be left of it is there.                                          *)
(***************************************************************************)
EXTENDS Lists, Integers, Sequences, FiniteSetTheorems, TLAPS

\* The sets 1 .. n are well-founded by inclusion, because they are finite.
LEMMA LeastOf ==
  ASSUME NEW T \in SUBSET Nat, T # {}
  PROVE  \E x \in T : \A y \in T : x <= y
<1> DEFINE below == {1 .. n : n \in T}
<1>1. below \subseteq FiniteSubsetsOf(Nat) /\ below # {}
  <2>1. \A n \in T : 1 .. n \in FiniteSubsetsOf(Nat)
    <3> TAKE n \in T
    <3>1. n \in Nat /\ 1 .. n \subseteq Nat
      OBVIOUS
    <3> QED
      BY <3>1, FS_Interval DEF FiniteSubsetsOf
  <2> QED
    BY <2>1
<1>2. IsWellFoundedOn(StrictSubsetOrdering(Nat), FiniteSubsetsOf(Nat))
  BY FS_StrictSubsetOrderingWellFounded
<1>3. PICK B \in below : \A C \in below : <<C, B>> \notin StrictSubsetOrdering(Nat)
  <2> HIDE DEF below
  <2> QED
    BY <1>1, <1>2, WFMin, Zenon
<1>4. PICK x \in T : B = 1 .. x
  OBVIOUS
<1>5. ASSUME NEW y \in T, y < x PROVE FALSE
  <2>1. 1 .. y \in below /\ 1 .. y \subseteq 1 .. x /\ x \in 1 .. x /\ x \notin 1 .. y
    BY <1>5
  <2>2. <<1 .. y, 1 .. x>> \in (SUBSET Nat) \X (SUBSET Nat)
    OBVIOUS
  <2> QED
    BY <1>3, <1>4, <2>1, <2>2 DEF StrictSubsetOrdering
<1> QED
  BY <1>5

\* So a set of numbers with a bound has a greatest one.
LEMMA GreatestOf ==
  ASSUME NEW T \in SUBSET Nat, T # {}, NEW b \in Nat, \A x \in T : x <= b
  PROVE  \E x \in T : \A y \in T : y <= x
<1> DEFINE short == {b - x : x \in T}
<1>1. short \in SUBSET Nat /\ short # {}
  <2>1. \A x \in T : b - x \in Nat
    OBVIOUS
  <2>2. PICK x \in T : TRUE
    OBVIOUS
  <2>3. b - x \in short
    BY <2>2
  <2> QED
    BY <2>1, <2>3
<1>2. PICK d \in short : \A e \in short : d <= e
  <2> HIDE DEF short
  <2> QED
    BY <1>1, LeastOf
<1>3. PICK x \in T : d = b - x
  OBVIOUS
<1>4. ASSUME NEW y \in T PROVE y <= x
  BY <1>2, <1>3
<1> QED
  BY <1>4

LEMMA EarliestIs ==
  ASSUME NEW T \in SUBSET Nat, T # {}
  PROVE  Earliest(T) \in T /\ \A j \in T : Earliest(T) <= j
<1>1. PICK x \in T : \A j \in T : x <= j
  BY LeastOf
<1> QED
  BY <1>1 DEF Earliest

\* The members of a finite set of numbers are told by how many there are up to each.
LEMMA Ranked ==
  ASSUME NEW S \in SUBSET Nat, IsFiniteSet(S)
  PROVE  /\ Cardinality(S) \in Nat
         /\ \A n \in 1 .. Cardinality(S) : \E i \in S : Cardinality({j \in S : j <= i}) = n
         /\ \A i \in S : Cardinality({j \in S : j <= i}) \in 1 .. Cardinality(S)
         /\ \A i, k \in S : i < k => Cardinality({j \in S : j <= i}) < Cardinality({j \in S : j <= k})
<1> DEFINE upto(i) == {j \in S : j <= i}
<1>0. Cardinality(S) \in Nat
  BY FS_CardinalityType
<1>1. \A i \in S : IsFiniteSet(upto(i)) /\ Cardinality(upto(i)) \in Nat /\ Cardinality(upto(i)) <= Cardinality(S)
  <2> TAKE i \in S
  <2>1. upto(i) \in SUBSET S
    OBVIOUS
  <2> QED
    BY <2>1, FS_Subset, FS_CardinalityType
<1>2. \A i \in S : Cardinality(upto(i)) # 0
  <2> TAKE i \in S
  <2>1. i \in upto(i)
    OBVIOUS
  <2> QED
    BY <1>1, <2>1, FS_EmptySet
<1>3. \A i, k \in S : i < k => Cardinality(upto(i)) < Cardinality(upto(k))
  <2> SUFFICES ASSUME NEW i \in S, NEW k \in S, i < k PROVE Cardinality(upto(i)) < Cardinality(upto(k))
    OBVIOUS
  <2>1. upto(i) \in SUBSET upto(k) /\ k \in upto(k) /\ k \notin upto(i)
    <3>1. i \in Nat /\ k \in Nat /\ \A j \in S : j \in Nat
      OBVIOUS
    <3>2. \A j \in S : j <= i => j <= k
      BY <3>1
    <3>3. ~(k <= i) /\ k <= k
      BY <3>1
    <3> QED
      BY <3>2, <3>3
  <2>2. Cardinality(upto(i)) <= Cardinality(upto(k)) /\ Cardinality(upto(i)) # Cardinality(upto(k))
    <3> HIDE DEF upto
    <3> QED
      BY <1>1, <2>1, FS_Subset
  <2> QED
    BY <1>1, <2>2
<1> DEFINE rank == [i \in S |-> Cardinality(upto(i))]
<1>4. rank \in Injection(S, 1 .. Cardinality(S))
  <2>1. rank \in [S -> 1 .. Cardinality(S)]
    BY <1>0, <1>1, <1>2
  <2>2. \A i, k \in S : rank[i] = rank[k] => i = k
    BY <1>1, <1>3
  <2> QED
    BY <2>1, <2>2 DEF Injection, IsInjective
<1>5. IsFiniteSet(1 .. Cardinality(S)) /\ Cardinality(1 .. Cardinality(S)) = Cardinality(S)
  BY <1>0, FS_Interval
<1>6. rank \in Surjection(S, 1 .. Cardinality(S))
  <2> HIDE DEF rank
  <2> QED
    BY <1>4, <1>5, FS_Injection
<1>7. \A n \in 1 .. Cardinality(S) : \E i \in S : rank[i] = n
  BY <1>6 DEF Surjection
<1> QED
  BY <1>0, <1>1, <1>2, <1>3, <1>7

\* InOrder lists every member, and each before the greater ones.
LEMMA InOrderListsAll ==
  ASSUME NEW S \in SUBSET Nat, IsFiniteSet(S)
  PROVE  /\ InOrder(S) \in [1 .. Cardinality(S) -> S]
         /\ \A m, n \in 1 .. Cardinality(S) : m < n => InOrder(S)[m] < InOrder(S)[n]
         /\ \A i \in S : \E n \in 1 .. Cardinality(S) : InOrder(S)[n] = i
<1> DEFINE rank(i) == Cardinality({j \in S : j <= i})
<1>1. /\ Cardinality(S) \in Nat
      /\ \A n \in 1 .. Cardinality(S) : \E i \in S : rank(i) = n
      /\ \A i \in S : rank(i) \in 1 .. Cardinality(S)
      /\ \A i, k \in S : i < k => rank(i) < rank(k)
  BY Ranked
<1>2. InOrder(S) = [n \in 1 .. Cardinality(S) |-> CHOOSE i \in S : rank(i) = n]
  BY DEF InOrder
<1> HIDE DEF rank
<1>3. \A n \in 1 .. Cardinality(S) : InOrder(S)[n] \in S /\ rank(InOrder(S)[n]) = n
  BY <1>1, <1>2
<1>4. InOrder(S) \in [1 .. Cardinality(S) -> S]
  BY <1>2, <1>3
<1>5. \A m, n \in 1 .. Cardinality(S) : m < n => InOrder(S)[m] < InOrder(S)[n]
  <2> SUFFICES ASSUME NEW m \in 1 .. Cardinality(S), NEW n \in 1 .. Cardinality(S), m < n
               PROVE  InOrder(S)[m] < InOrder(S)[n]
    OBVIOUS
  <2> DEFINE i == InOrder(S)[m]  k == InOrder(S)[n]
  <2>1. i \in S /\ k \in S /\ rank(i) = m /\ rank(k) = n
    BY <1>3
  <2> HIDE DEF i, k
  <2>2. i \in Nat /\ k \in Nat /\ i # k /\ ~(k < i)
    BY <1>1, <2>1
  <2> QED
    BY <2>2 DEF i, k
<1>6. \A i \in S : InOrder(S)[rank(i)] = i
  <2> TAKE i \in S
  <2> DEFINE k == InOrder(S)[rank(i)]
  <2>1. k \in S /\ rank(k) = rank(i)
    BY <1>1, <1>3
  <2> HIDE DEF k
  <2>2. i \in Nat /\ k \in Nat /\ ~(i < k) /\ ~(k < i)
    BY <1>1, <2>1
  <2> QED
    BY <2>2 DEF k
<1> QED
  BY <1>1, <1>4, <1>5, <1>6
\* What is left of a list when only the entries at some positions are taken.
LEMMA OnlyThese ==
  ASSUME NEW T, NEW list \in Seq(T), NEW S \in SUBSET DOMAIN list
  PROVE  /\ Only(list, S) \in Seq(T)
         /\ Len(Only(list, S)) <= Len(list)
         /\ \A n \in DOMAIN Only(list, S) : \E i \in S : Only(list, S)[n] = list[i]
         /\ \A i \in S : \E n \in DOMAIN Only(list, S) : Only(list, S)[n] = list[i]
<1>1. DOMAIN list = 1 .. Len(list) /\ Len(list) \in Nat /\ S \in SUBSET Nat
  OBVIOUS
<1>1a. IsFiniteSet(1 .. Len(list)) /\ Cardinality(1 .. Len(list)) = Len(list)
  BY <1>1, FS_Interval
<1>2. IsFiniteSet(S) /\ Cardinality(S) \in Nat /\ Cardinality(S) <= Len(list)
  BY <1>1a, <1>1, FS_Subset, FS_CardinalityType
<1>3. /\ InOrder(S) \in [1 .. Cardinality(S) -> S]
      /\ \A i \in S : \E n \in 1 .. Cardinality(S) : InOrder(S)[n] = i
  BY <1>1, <1>2, InOrderListsAll
<1>4. \A n \in 1 .. Cardinality(S) : InOrder(S)[n] \in S /\ Only(list, S)[n] = list[InOrder(S)[n]]
  BY <1>3 DEF Only
<1>5. Only(list, S) \in [1 .. Cardinality(S) -> T]
  BY <1>1, <1>3, <1>4 DEF Only
<1>6. Only(list, S) \in Seq(T) /\ Len(Only(list, S)) = Cardinality(S)
  BY <1>2, <1>5
<1>7. DOMAIN Only(list, S) = 1 .. Cardinality(S)
  BY <1>5
<1> QED
  BY <1>2, <1>3, <1>4, <1>6, <1>7

\* An ascending list stays one.
LEMMA OnlyAscends ==
  ASSUME NEW list \in Seq(Int), NEW S \in SUBSET DOMAIN list,
         \A i, j \in DOMAIN list : i < j => list[i] < list[j]
  PROVE  \A m, n \in DOMAIN Only(list, S) : m < n => Only(list, S)[m] < Only(list, S)[n]
<1>1. DOMAIN list = 1 .. Len(list) /\ Len(list) \in Nat /\ S \in SUBSET Nat
  OBVIOUS
<1>2. IsFiniteSet(S)
  <2>1. IsFiniteSet(1 .. Len(list))
    BY <1>1, FS_Interval
  <2> QED
    BY <1>1, <2>1, FS_Subset
<1>3. /\ InOrder(S) \in [1 .. Cardinality(S) -> S]
      /\ \A m, n \in 1 .. Cardinality(S) : m < n => InOrder(S)[m] < InOrder(S)[n]
  BY <1>1, <1>2, InOrderListsAll
<1> QED
  BY <1>3 DEF Only

\* What is behind a place of the list.
LEMMA OnlyBehind ==
  ASSUME NEW T, NEW list \in Seq(T), NEW m \in Nat, m <= Len(list)
  PROVE  Only(list, m + 1 .. Len(list)) = SubSeq(list, m + 1, Len(list))
<1> DEFINE S == m + 1 .. Len(list)
<1>1. Len(list) \in Nat /\ S \in SUBSET Nat
  OBVIOUS
<1>2. \A i \in Nat : m <= i => Cardinality(m + 1 .. i) = i - m
  <2> SUFFICES ASSUME NEW i \in Nat, m <= i PROVE Cardinality(m + 1 .. i) = i - m
    OBVIOUS
  <2>1. m + 1 \in Int /\ i \in Int
    OBVIOUS
  <2>2. Cardinality(m + 1 .. i) = IF m + 1 > i THEN 0 ELSE i - (m + 1) + 1
    BY <2>1, FS_Interval
  <2> QED
    BY <2>2
<1>2a. \A i \in S : Cardinality({j \in S : j <= i}) = i - m
  <2> TAKE i \in S
  <2>1. {j \in S : j <= i} = m + 1 .. i /\ i \in Nat /\ m <= i
    BY <1>1
  <2> HIDE DEF S
  <2> QED
    BY <1>2, <2>1
<1>3. \A n \in 1 .. Len(list) - m : InOrder(S)[n] = m + n
  <2> TAKE n \in 1 .. Len(list) - m
  <2> DEFINE upto(i) == Cardinality({j \in S : j <= i})
  <2>1. InOrder(S)[n] = CHOOSE i \in S : upto(i) = n
    BY <1>1, <1>2 DEF InOrder
  <2>2. \A i \in S : upto(i) = i - m
    BY <1>2a
  <2> HIDE DEF upto
  <2>3. m + n \in S /\ \A i \in S : i \in Nat
    BY <1>1
  <2> HIDE DEF S
  <2> QED
    BY <2>1, <2>2, <2>3
<1>4. Only(list, S) = [n \in 1 .. Len(list) - m |-> list[m + n]]
  <2>1. Cardinality(S) = Len(list) - m
    BY <1>1, <1>2
  <2> HIDE DEF S
  <2> QED
    BY <1>3, <2>1 DEF Only
<1>5. SubSeq(list, m + 1, Len(list)) = [n \in 1 .. Len(list) - m |-> list[m + n]]
  BY <1>1
<1> QED
  BY <1>4, <1>5
==============================================================================

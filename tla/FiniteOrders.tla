---------------------------- MODULE FiniteOrders ----------------------------
(***************************************************************************)
(* Finite sets and the orders the programs sort and search by.             *)
(***************************************************************************)
EXTENDS Integers, FiniteSets, FiniteSetTheorems, WellFoundedInduction, TLAPS

\* A set of natural numbers that is not empty has a least element.
LEMMA LeastNatural ==
  ASSUME NEW S \in SUBSET Nat, S # {}
  PROVE  \E m \in S : \A k \in S : m <= k
<1>1. PICK m \in S : \A k \in S : <<k, m>> \notin OpToRel(<, Nat)
  BY NatLessThanWellFounded, WFMin
<1>2. \A k \in S : ~(k < m)
  BY <1>1 DEF OpToRel
<1> QED
  BY <1>2

\* A set of numbers that has 0 and the successor of each of its numbers has all.
LEMMA Induction ==
  ASSUME NEW S \in SUBSET Nat, 0 \in S, \A n \in S : n + 1 \in S
  PROVE  \A n \in Nat : n \in S
<1> SUFFICES ASSUME NEW k \in Nat, k \notin S PROVE FALSE
  OBVIOUS
<1>1. PICK m \in Nat \ S : \A n \in Nat \ S : m <= n
  BY LeastNatural
<1>2. m # 0 /\ m - 1 \in Nat /\ m - 1 \notin Nat \ S
  BY <1>1
<1> QED
  BY <1>1, <1>2

\* The same of the numbers from m to n.
LEMMA InductionUpTo ==
  ASSUME NEW m \in Nat, NEW n \in Nat, m <= n, NEW S \in SUBSET (m..n), m \in S,
         \A i \in S : i < n => i + 1 \in S
  PROVE  S = m..n
<1> DEFINE U == {i \in Nat : m + i <= n => m + i \in S}
<1>1. 0 \in U
  OBVIOUS
<1>2. \A i \in U : i + 1 \in U
  <2> SUFFICES ASSUME NEW i \in U, m + (i + 1) <= n PROVE m + (i + 1) \in S
    OBVIOUS
  <2>1. m + i \in S /\ m + i < n /\ (m + i) + 1 = m + (i + 1)
    OBVIOUS
  <2> QED
    BY <2>1
<1>3. \A i \in Nat : i \in U
  <2> HIDE DEF U
  <2> QED
    BY <1>1, <1>2, Induction DEF U
<1>4. ASSUME NEW k \in m..n PROVE k \in S
  <2>1. k - m \in U /\ m + (k - m) = k
    BY <1>3
  <2> QED
    BY <2>1
<1> QED
  BY <1>4

\* In a finite set that is not empty some element has no successor in a given
\* strict order: the one with the fewest elements after it.
LEMMA LastElement ==
  ASSUME NEW S, IsFiniteSet(S), S # {}, NEW R,
         \A i \in S : <<i, i>> \notin R,
         \A i, j, k \in S : <<i, j>> \in R /\ <<j, k>> \in R => <<i, k>> \in R
  PROVE  \E i \in S : \A j \in S : <<i, j>> \notin R
<1> DEFINE After(i) == {j \in S : <<i, j>> \in R}
           Number(i) == Cardinality(After(i))
           Counts == {Number(i) : i \in S}
<1>1. \A i \in S : IsFiniteSet(After(i)) /\ Number(i) \in Nat
  BY FS_Subset, FS_CardinalityType
<1>2. PICK i \in S : \A j \in S : Number(i) <= Number(j)
  <2>1. \A i \in S : Number(i) \in Nat
    BY <1>1
  <2> HIDE DEF Number
  <2>2. Counts \in SUBSET Nat /\ Counts # {}
    BY ONLY <2>1, S # {}
  <2>3. PICK m \in Counts : \A k \in Counts : m <= k
    BY <2>2, LeastNatural
  <2> QED
    BY <2>3
<1>3. ASSUME NEW j \in S, <<i, j>> \in R
      PROVE  FALSE
  <2>1. After(j) \subseteq After(i) /\ j \in After(i) /\ j \notin After(j)
    BY <1>3
  <2>2. IsFiniteSet(After(i)) /\ Number(i) \in Nat /\ Number(j) \in Nat /\ Number(i) <= Number(j)
    BY <1>1, <1>2
  <2> HIDE DEF After
  <2>3. Number(j) <= Number(i) /\ (Number(j) = Number(i) => After(i) = After(j))
    BY <2>1, <2>2, FS_Subset
  <2> HIDE DEF Number
  <2>4. After(i) = After(j)
    BY <2>2, <2>3
  <2> QED
    BY <2>1, <2>4
<1> QED
  BY <1>3

\* A part of a finite set is finite and no larger.
LEMMA SubsetSize ==
  ASSUME NEW T, IsFiniteSet(T), NEW S, S \subseteq T
  PROVE  /\ IsFiniteSet(S) /\ Cardinality(S) \in Nat /\ Cardinality(T) \in Nat
         /\ Cardinality(S) <= Cardinality(T)
BY FS_Subset, FS_CardinalityType

\* A set is as large as the set of its elements' images, if they differ.
LEMMA SameNumber ==
  ASSUME NEW S, IsFiniteSet(S), NEW f, \A x, y \in S : f[x] = f[y] => x = y
  PROVE  /\ IsFiniteSet({f[x] : x \in S})
         /\ Cardinality({f[x] : x \in S}) = Cardinality(S)
<1> DEFINE T == {f[x] : x \in S}
           g == [x \in S |-> f[x]]
<1>1. g \in [S -> T]
  OBVIOUS
<1>2. \A x, y \in S : g[x] = g[y] => x = y
  OBVIOUS
<1>3. \A t \in T : \E x \in S : g[x] = t
  OBVIOUS
<1> HIDE DEF g, T
<1>4. g \in Bijection(S, T)
  BY <1>1, <1>2, <1>3 DEF Bijection, Injection, Surjection, IsInjective
<1>5. ExistsBijection(S, T)
  BY <1>4 DEF ExistsBijection
<1>6. IsFiniteSet(T) /\ Cardinality(T) = Cardinality(S)
  BY <1>5, FS_Bijection
<1> QED
  BY <1>6 DEF T
=============================================================================

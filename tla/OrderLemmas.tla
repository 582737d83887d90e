---------------------------- MODULE OrderLemmas ----------------------------
(***************************************************************************)
(* Facts on least and greatest elements of sets of natural numbers: every  *)
(* packet number, job number and line number of the models is one, and     *)
(* "the last one before" is how the properties speak of them.              *)
(***************************************************************************)
EXTENDS Integers, FiniteSetsExt, FiniteSetTheorems, WellFoundedInduction, TLAPS

\* A nonempty set of natural numbers has a least element.
LEMMA LeastNatural ==
  ASSUME NEW S \in SUBSET Nat, S # {}
  PROVE  \E m \in S : \A x \in S : m <= x
<1> DEFINE R == OpToRel(<, Nat)
<1>1. IsWellFoundedOn(R, Nat)
  BY NatLessThanWellFounded
<1>2. \A x, y \in Nat : x < y => << x, y >> \in R
  BY DEF OpToRel
<1> HIDE DEF R
<1>3. \E m \in S : \A x \in S : ~(<< x, m >> \in R)
  BY <1>1, WFMin
<1>4. PICK m \in S : \A x \in S : ~(<< x, m >> \in R)
  BY <1>3
<1>5. ASSUME NEW x \in S PROVE m <= x
  <2>1. m \in Nat /\ x \in Nat /\ ~(x < m)
    BY <1>2, <1>4
  <2> QED BY <2>1
<1> QED BY <1>5

\* A nonempty set of natural numbers with a bound has a greatest element.
LEMMA GreatestNatural ==
  ASSUME NEW S \in SUBSET Nat, S # {}, NEW n \in Nat, \A x \in S : x <= n
  PROVE  \E m \in S : \A x \in S : x <= m
<1> DEFINE T == {k \in Nat : n - k \in S}
<1>1. T # {}
  <2>1. PICK x \in S : TRUE
    OBVIOUS
  <2>2. n - x \in T
    <3>1. x \in Nat /\ x <= n
      BY <2>1
    <3>2. n - x \in Nat /\ n - (n - x) = x
      BY <3>1
    <3> QED BY <3>2
  <2> QED BY <2>2
<1>2. PICK k \in T : \A y \in T : k <= y
  <2>1. T \in SUBSET Nat
    OBVIOUS
  <2> HIDE DEF T
  <2> QED BY <1>1, <2>1, LeastNatural
<1>3. ASSUME NEW x \in S PROVE x <= n - k
  <2>1. n - x \in Nat /\ n - (n - x) = x
    BY <1>3
  <2>2. k <= n - x
    BY <1>2, <2>1
  <2> QED BY <2>1, <2>2
<1> QED BY <1>2, <1>3

\* What Max means where there is a greatest element.
LEMMA MaxIs ==
  ASSUME NEW S \in SUBSET Int, NEW m \in S, \A x \in S : x <= m
  PROVE  Max(S) = m
<1>1. Max(S) \in S /\ \A y \in S : Max(S) >= y
  BY DEF Max
<1>2. Max(S) \in Int /\ m \in Int /\ Max(S) >= m /\ Max(S) <= m
  BY <1>1
<1> QED BY <1>2

\* What Min means where there is a least element.
LEMMA MinIs ==
  ASSUME NEW S \in SUBSET Int, NEW m \in S, \A x \in S : m <= x
  PROVE  Min(S) = m
<1>1. Min(S) \in S /\ \A y \in S : Min(S) <= y
  BY DEF Min
<1>2. Min(S) \in Int /\ m \in Int /\ Min(S) >= m /\ Min(S) <= m
  BY <1>1
<1> QED BY <1>2

\* The greatest element of a nonempty set of places of a sequence.
LEMMA MaxPlace ==
  ASSUME NEW n \in Nat, NEW S \in SUBSET (1 .. n), S # {}
  PROVE  Max(S) \in S /\ \A x \in S : x <= Max(S)
<1>1. PICK m \in S : \A x \in S : x <= m
  <2>1. S \in SUBSET Nat /\ \A x \in S : x <= n
    OBVIOUS
  <2> QED BY <2>1, GreatestNatural
<1>2. S \in SUBSET Int
  OBVIOUS
<1>3. Max(S) = m
  BY <1>1, <1>2, MaxIs
<1> QED BY <1>1, <1>3

\* The least element of a nonempty set of places of a sequence.
LEMMA MinPlace ==
  ASSUME NEW n \in Nat, NEW S \in SUBSET (1 .. n), S # {}
  PROVE  Min(S) \in S /\ \A x \in S : Min(S) <= x
<1>1. S \in SUBSET Nat /\ S \in SUBSET Int
  OBVIOUS
<1>2. PICK m \in S : \A x \in S : m <= x
  BY <1>1, LeastNatural
<1>3. Min(S) = m
  BY <1>1, <1>2, MinIs
<1> QED BY <1>2, <1>3
=============================================================================

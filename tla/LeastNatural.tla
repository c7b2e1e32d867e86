------------------------------- MODULE LeastNatural -------------------------------
(***************************************************************************)
(* Induction on the naturals in the form the provers can use: a set has a  *)
(* least element, so that what fails somewhere fails first somewhere.      *)
(***************************************************************************)
EXTENDS Integers, FiniteSets, FiniteSetTheorems, WellFoundedInduction, TLAPS

\* A set of naturals has a least element
LEMMA MenorNatural ==
  ASSUME NEW T \in SUBSET Nat, T # {}
  PROVE  \E n \in T : \A m \in T : n <= m
<1> DEFINE R == StrictSubsetOrdering(Nat)
           S == FiniteSubsetsOf(Nat)
           U == {0..n : n \in T}
<1>1. IsWellFoundedOn(R, S)
  BY FS_StrictSubsetOrderingWellFounded
<1>2. U \subseteq S
  <2>1. \A n \in T : 0..n \in SUBSET Nat /\ IsFiniteSet(0..n)
    BY FS_Interval
  <2> QED
    BY <2>1 DEF FiniteSubsetsOf
<1>3. U # {}
  OBVIOUS
<1> HIDE DEF R, S, U
<1>4. PICK x \in U : \A y \in U : ~ (<<y, x>> \in R)
  BY <1>1, <1>2, <1>3, WFMin
<1>5. PICK n \in T : x = 0..n
  BY DEF U
<1>6. ASSUME NEW m \in T, ~(n <= m) PROVE FALSE
  <2>1. 0..m \in U /\ 0..m \in SUBSET Nat /\ 0..n \in SUBSET Nat
    BY DEF U
  <2>2. (0..m) \subseteq (0..n) /\ n \in 0..n /\ n \notin 0..m
    BY <1>6
  <2>3. <<0..m, 0..n>> \in R
    BY <2>1, <2>2 DEF R, StrictSubsetOrdering
  <2> QED
    BY <1>4, <1>5, <2>1, <2>3
<1> QED
  BY <1>6

\* A set of naturals under a bound has a greatest element
LEMMA MaiorNatural ==
  ASSUME NEW n \in Nat, NEW T \in SUBSET (0..n), T # {}
  PROVE  \E t \in T : \A m \in T : m <= t
<1> DEFINE U == {n - t : t \in T}
<1>1. U \in SUBSET Nat /\ U # {}
  <2>1. \A t \in T : t \in 0..n
    OBVIOUS
  <2>2. \A t \in 0..n : n - t \in Nat
    OBVIOUS
  <2>3. \A u \in U : u \in Nat
    BY <2>1, <2>2
  <2>4. \E t \in T : TRUE
    OBVIOUS
  <2> QED
    BY <2>3, <2>4
<1>2. PICK u \in U : \A m \in U : u <= m
  BY <1>1, MenorNatural
<1>3. PICK t \in T : u = n - t
  OBVIOUS
<1>4. ASSUME NEW m \in T PROVE m <= t
  <2>1. n - m \in U
    OBVIOUS
  <2>2. u <= n - m /\ m \in Nat /\ t \in Nat
    BY <1>2, <2>1
  <2> QED
    BY <1>3, <2>2
<1> QED
  BY <1>4
================================================================================

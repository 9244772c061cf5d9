----------------------------- MODULE WellOrder -----------------------------
(***************************************************************************)
(* The least and the greatest number of a set of naturals: what the proofs *)
(* of the components need of the order of the naturals beyond arithmetic,  *)
(* and what induction over numbers is done with (a least counterexample).  *)
(***************************************************************************)
EXTENDS Integers, WellFoundedInduction, TLAPS

LEMMA LeastNumber ==
  ASSUME NEW S, S \subseteq Nat, S # {}
  PROVE  \E n \in S : \A m \in S : n <= m
<1> DEFINE R == OpToRel(<, Nat)
<1>1. IsWellFoundedOn(R, Nat)
  BY NatLessThanWellFounded
<1>2. \A m, n \in Nat : m < n => <<m, n>> \in R
  BY DEF OpToRel
<1> HIDE DEF R
<1>3. PICK n \in S : \A m \in S : <<m, n>> \notin R
  BY <1>1, WFMin
<1>4. \A m \in S : ~(m < n)
  BY <1>2, <1>3
<1> QED
  BY <1>4

LEMMA GreatestNumber ==
  ASSUME NEW bound \in Nat, NEW S, S \subseteq 0..bound, S # {}
  PROVE  \E n \in S : \A m \in S : m <= n
<1> DEFINE Above == {n \in Nat : \A m \in S : m <= n}
<1>1. bound \in Above
  OBVIOUS
<1> HIDE DEF Above
<1>2. PICK n \in Above : \A k \in Above : n <= k
  <2>1. Above \subseteq Nat /\ Above # {}
    BY <1>1 DEF Above
  <2> QED BY <2>1, LeastNumber
<1>3. n \in Nat /\ \A m \in S : m \in Nat /\ m <= n
  BY <1>2 DEF Above
<1>4. ASSUME n \notin S PROVE FALSE
  <2>1. \A m \in S : m <= n - 1
    BY <1>3, <1>4
  <2>2. PICK m \in S : TRUE
    OBVIOUS
  <2>3. n - 1 \in Nat
    BY <1>3, <2>1, <2>2
  <2>4. n - 1 \in Above
    BY <2>1, <2>3 DEF Above
  <2> QED BY <1>2, <1>3, <2>4
<1> QED
  BY <1>3, <1>4
=============================================================================

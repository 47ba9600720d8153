----------------------------- MODULE LeastNumbers -----------------------------
(* Induction over the natural numbers as a statement about sets, which the   *)
(* provers can instantiate: a proof takes the least number of which a claim  *)
(* does not hold.                                                            *)
EXTENDS Naturals, WellFoundedInduction, TLAPS

\* A set of natural numbers that is not empty has a least element: induction
\* in the form that the proofs of this project use.
LEMMA LeastNumber ==
  ASSUME NEW S \in SUBSET Nat, S # {}
  PROVE  \E n \in S : \A m \in S : n <= m
<1> DEFINE R == OpToRel(<, Nat)
<1>1. IsWellFoundedOn(R, Nat)
  BY NatLessThanWellFounded, Zenon
<1>2. \A x, y \in Nat : x < y => <<x, y>> \in R
  BY DEF OpToRel
<1> HIDE DEF R
<1>3. PICK x \in S : \A y \in S : ~(<<y, x>> \in R)
  BY <1>1, WFMin
<1>4. ASSUME NEW m \in S PROVE x <= m
  <2>1. ~(m < x)
    BY <1>2, <1>3
  <2> QED
    BY <2>1
<1> QED
  BY <1>4
===============================================================================

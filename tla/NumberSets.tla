----------------------------- MODULE NumberSets -----------------------------
(***************************************************************************)
(* Least and greatest elements of sets of numbers.  The library states     *)
(* induction over numbers and finite sets for an arbitrary predicate; the  *)
(* proofs of the components take a least counterexample instead.           *)
(***************************************************************************)
EXTENDS FiniteSetTheorems, TLAPS

\* A nonempty set of numbers has a least one.
LEMMA HasLeast ==
  ASSUME NEW S, S \subseteq Nat, S # {}
  PROVE  \E x \in S : \A y \in S : x <= y
<1>1. PICK x \in S : \A y \in S : ~ (<<y, x>> \in OpToRel(<, Nat))
  BY NatLessThanWellFounded, WFMin, Zenon
<1>2. \A y \in S : ~ (y < x)
  BY <1>1 DEF OpToRel
<1> QED BY <1>2

\* A nonempty finite set of numbers has a greatest one.
LEMMA HasGreatest ==
  ASSUME NEW S, IsFiniteSet(S), S \subseteq Nat, S # {}
  PROVE  \E x \in S : \A y \in S : x >= y
<1> DEFINE Above(x) == {y \in S : y > x}
           Sizes    == {Cardinality(Above(x)) : x \in S}
<1>0. \A x \in S : IsFiniteSet(Above(x)) /\ Cardinality(Above(x)) \in Nat
  BY FS_Subset, FS_CardinalityType
<1>1. Sizes \subseteq Nat /\ Sizes # {}
  BY <1>0
<1>2. PICK n \in Sizes : \A k \in Sizes : n <= k
  <2> HIDE DEF Sizes
  <2> QED BY <1>1, HasLeast
<1>3. PICK x \in S : n = Cardinality(Above(x))
  OBVIOUS
<1>4. ASSUME NEW y \in S, y > x
      PROVE  FALSE
  <2>1. Above(y) \in SUBSET Above(x) /\ y \in Above(x) /\ y \notin Above(y)
    BY <1>3, <1>4
  <2>2. Cardinality(Above(y)) < Cardinality(Above(x))
    <3> HIDE DEF Above
    <3>1. IsFiniteSet(Above(x)) /\ Cardinality(Above(x)) \in Nat /\ Cardinality(Above(y)) \in Nat
      BY <1>0, <1>3, <1>4
    <3>2. /\ Cardinality(Above(y)) <= Cardinality(Above(x))
          /\ Cardinality(Above(x)) = Cardinality(Above(y)) => Above(x) = Above(y)
      BY <3>1, <2>1, FS_Subset
    <3> QED BY <3>1, <3>2, <2>1
  <2>3. Cardinality(Above(y)) \in Sizes
    OBVIOUS
  <2>4. n <= Cardinality(Above(y)) /\ Cardinality(Above(y)) < n
    <3> HIDE DEF Sizes, Above
    <3> QED BY <1>2, <1>3, <2>2, <2>3
  <2>5. n \in Nat /\ Cardinality(Above(y)) \in Nat
    BY <1>0, <1>3, <1>4
  <2> QED BY <2>4, <2>5
<1> QED BY <1>3, <1>4
=============================================================================

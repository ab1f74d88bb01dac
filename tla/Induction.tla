----------------------------- MODULE Induction ------------------------------
(***************************************************************************)
(* Induction over natural numbers, for proofs about recursive functions.   *)
(* A predicate is given as the set of the numbers that have it.            *)
(***************************************************************************)
EXTENDS Integers, WellFoundedInduction, TLAPS

\* A set of natural numbers that is not empty has a least one.
LEMMA LeastNat ==
  ASSUME NEW T, T \subseteq Nat, T # {}
  PROVE  \E n \in T : \A m \in T : n <= m
<1>1. PICK n \in T : \A m \in T : ~(<<m, n>> \in OpToRel(<, Nat))
  BY NatLessThanWellFounded, WFMin, Zenon
<1>2. ASSUME NEW m \in T PROVE n <= m
  <2>1. m \in Nat /\ n \in Nat
    OBVIOUS
  <2>2. ~(m < n)
    BY <1>1, <2>1 DEF OpToRel
  <2> QED  BY <2>1, <2>2
<1> QED  BY <1>2

\* Induction over the numbers up to n.
LEMMA InductionUpTo ==
  ASSUME NEW n \in Nat, NEW S, 0 \in S, \A k \in 0 .. n - 1 : k \in S => k + 1 \in S
  PROVE  \A k \in 0 .. n : k \in S
<1> SUFFICES ASSUME NEW k \in 0 .. n, k \notin S PROVE FALSE
  OBVIOUS
<1> DEFINE T == {j \in 0 .. n : j \notin S}
<1>1. PICK j \in T : \A m \in T : j <= m
  <2>1. T \subseteq Nat /\ T # {}
    OBVIOUS
  <2> HIDE DEF T
  <2> QED  BY <2>1, LeastNat
<1>2. j # 0 /\ j - 1 \in 0 .. n - 1 /\ j - 1 \notin T
  BY <1>1
<1> QED  BY <1>1, <1>2

\* The first and the last of some places in a sequence.
LEMMA FirstPlace ==
  ASSUME NEW S, S \subseteq Nat, S # {}
  PROVE  LET f == CHOOSE q \in S : \A r \in S : q <= r
         IN  f \in S /\ \A r \in S : f <= r
<1>1. \E n \in S : \A m \in S : n <= m
  BY LeastNat
<1> QED  BY <1>1
=============================================================================

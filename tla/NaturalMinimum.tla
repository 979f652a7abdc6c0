--------------------------- MODULE NaturalMinimum ---------------------------
(* The one fact about the order of the naturals that the loops, windows and *)
(* first members of the other modules rest on.                              *)
EXTENDS Integers, TLAPS, WellFoundedInduction

\* Every non-empty set of naturals has a least element.
LEMMA LeastNatural ==
    ASSUME NEW T, T \subseteq Nat, T # {}
    PROVE  \E n \in T : \A m \in T : n <= m
<1>1. PICK n \in T : \A m \in T : ~ (<<m, n>> \in OpToRel(<, Nat))
    BY WFMin, NatLessThanWellFounded, Zenon
<1>2. ASSUME NEW m \in T PROVE n <= m
    <2>1. m \in Nat /\ n \in Nat
        OBVIOUS
    <2>2. ~ (m < n)
        BY <1>1, <2>1, Zenon DEF OpToRel
    <2> QED
        BY <2>1, <2>2
<1> QED
    BY <1>2
=============================================================================

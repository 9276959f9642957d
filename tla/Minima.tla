------------------------------- MODULE Minima -------------------------------
(***************************************************************************)
(* The loops of the program that look for the first free place, or the     *)
(* first match, find one when there is one: a set of naturals that is not  *)
(* empty has a least element.                                              *)
(***************************************************************************)
EXTENDS Integers, FiniteSets, FiniteSetTheorems, WellFoundedInduction, TLAPS

(* The initial segments of S, ordered by strict inclusion, are finite, so  *)
(* one of them is minimal; its greatest element is the least of S.         *)
LEMMA LeastExists ==
  ASSUME NEW S \in SUBSET Nat, S # {}
  PROVE  \E n \in S : \A o \in S : n <= o
<1> DEFINE Upto(n) == {o \in S : o <= n}
           T == {Upto(n) : n \in S}
<1>1. T \subseteq FiniteSubsetsOf(Nat) /\ T # {}
  <2>1. ASSUME NEW n \in S PROVE Upto(n) \in FiniteSubsetsOf(Nat)
    <3>1. n \in Nat /\ IsFiniteSet(0..n)
      BY FS_Interval
    <3>2. \A o \in Upto(n) : o \in 0..n
      BY <3>1
    <3>3. IsFiniteSet(Upto(n))
      BY <3>1, <3>2, FS_Subset
    <3>4. QED
      BY <3>3 DEF FiniteSubsetsOf
  <2>2. QED
    BY <2>1
<1>2. PICK U \in T : \A V \in T : ~ (<<V, U>> \in StrictSubsetOrdering(Nat))
  <2>1. IsWellFoundedOn(StrictSubsetOrdering(Nat), FiniteSubsetsOf(Nat))
    BY FS_StrictSubsetOrderingWellFounded
  <2> HIDE DEF T
  <2>2. QED
    BY <1>1, <2>1, WFMin
<1>3. PICK n \in S : U = Upto(n)
  OBVIOUS
<1>4. ASSUME NEW o \in S, o < n PROVE FALSE
  <2>1. o \in Nat /\ n \in Nat /\ Upto(o) \in T
    OBVIOUS
  <2>2. n \in Upto(n) /\ n \notin Upto(o) /\ \A e \in Upto(o) : e \in Upto(n)
    BY <1>4, <2>1
  <2>3. <<Upto(o), U>> \in StrictSubsetOrdering(Nat)
    <3>1. U \in SUBSET Nat /\ Upto(o) \in SUBSET Nat
      BY <1>3
    <3> HIDE DEF Upto
    <3>2. QED
      BY <1>3, <2>2, <3>1 DEF StrictSubsetOrdering
  <2>4. QED
    BY <1>2, <2>1, <2>3
<1>5. QED
  BY <1>4
=============================================================================

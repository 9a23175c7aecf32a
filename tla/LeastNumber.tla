---------------------------- MODULE LeastNumber ----------------------------
(***************************************************************************)
(* Every inhabited set of natural numbers has a least element.  The proof  *)
(* modules use it where an argument goes by induction on an index.         *)
(***************************************************************************)
EXTENDS Integers, FiniteSets, FiniteSetTheorems, WellFoundedInduction, TLAPS

\* n < m exactly when 0 .. n is a strict subset of 0 .. m, and strict inclusion
\* is well founded on finite sets.
LEMMA LeastNat ==
  ASSUME NEW T \in SUBSET Nat, T # {}
  PROVE  \E m \in T : \A k \in T : m <= k
<1> DEFINE W == {0 .. n : n \in T}
<1> DEFINE R == StrictSubsetOrdering(Nat)
<1>1. \A n \in T : n \in Nat /\ 0 .. n \in FiniteSubsetsOf(Nat)
  <2> SUFFICES ASSUME NEW n \in T PROVE n \in Nat /\ 0 .. n \in FiniteSubsetsOf(Nat)
    OBVIOUS
  <2>1. n \in Nat
    OBVIOUS
  <2>2. IsFiniteSet(0 .. n)
    BY <2>1, FS_Interval
  <2> QED BY <2>1, <2>2 DEF FiniteSubsetsOf
<1>2. W \subseteq FiniteSubsetsOf(Nat) /\ W # {}
  BY <1>1
<1>3. IsWellFoundedOn(R, FiniteSubsetsOf(Nat))
  BY FS_StrictSubsetOrderingWellFounded
<1>4. \E w \in W : \A v \in W : ~ (<<v, w>> \in R)
  <2> HIDE DEF W, R
  <2> QED BY <1>2, <1>3, WFMin
<1>5. PICK m \in T : \A v \in W : ~ (<<v, 0 .. m>> \in R)
  BY <1>4
<1>6. ASSUME NEW k \in T, k < m PROVE FALSE
  <2>1. k \in Nat /\ m \in Nat
    BY <1>1
  <2>2. 0 .. k \subseteq 0 .. m /\ m \in 0 .. m /\ m \notin 0 .. k
    BY <2>1, <1>6
  <2>3. 0 .. k \subseteq Nat /\ 0 .. m \subseteq Nat
    BY <2>1
  <2>4. <<0 .. k, 0 .. m>> \in R
    BY <2>2, <2>3 DEF StrictSubsetOrdering
  <2> QED BY <1>5, <2>4
<1> QED BY <1>6, <1>1
=============================================================================

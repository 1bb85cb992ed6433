----------------------------- MODULE NumberProofs -----------------------------
(* Induction over numbers for the proofs about queues and fragments.  The
   induction theorems of the library are about operators; these are about sets
   of numbers. *)
EXTENDS Naturals, TLAPS, WellFoundedInduction

(* The set without a least element that a well-founded relation rules out. *)
LEMMA MinimalOf ==
  ASSUME NEW R, NEW S, IsWellFoundedOn(R, S), NEW T, T \subseteq S, T # {}
  PROVE  \E m \in T : \A k \in T : ~(<<k, m>> \in R)
  BY WFMin, Zenon

(* A set of numbers has a least one... *)
LEMMA LeastNumber ==
  ASSUME NEW T, T \subseteq Nat, T # {}
  PROVE  \E m \in T : \A k \in T : m <= k
  <1>1. IsWellFoundedOn(OpToRel(<, Nat), Nat)
    BY NatLessThanWellFounded
  <1>2. \A k, m \in Nat : k < m => <<k, m>> \in OpToRel(<, Nat)
    BY Zenon DEF OpToRel
  <1>3. PICK m \in T : \A k \in T : ~(<<k, m>> \in OpToRel(<, Nat))
    BY <1>1, MinimalOf, Zenon
  <1>4. m \in Nat /\ \A k \in T : k \in Nat /\ ~(k < m)
    BY <1>2, <1>3, Zenon
  <1>5. QED
    BY <1>4

(* ... and, if it is bounded, a greatest. *)
LEMMA GreatestNumber ==
  ASSUME NEW T, NEW n \in Nat, T \subseteq 0 .. n, T # {}
  PROVE  \E m \in T : \A k \in T : k <= m
  <1> DEFINE D == {n - k : k \in T}
  <1>1. D \subseteq Nat /\ D # {}
    <2>1. \A k \in T : n - k \in Nat
      OBVIOUS
    <2>2. D # {}
      OBVIOUS
    <2>3. QED
      BY <2>1, <2>2
  <1>2. PICK d \in D : \A e \in D : d <= e
    BY <1>1, LeastNumber
  <1>3. PICK m \in T : d = n - m
    OBVIOUS
  <1>4. \A k \in T : n - m <= n - k
    BY <1>2, <1>3
  <1>5. QED
    BY <1>4

(* What holds for zero and, with a number, for the next one, holds for all. *)
LEMMA SetInduction ==
  ASSUME NEW P, 0 \in P, \A n \in Nat : n \in P => n + 1 \in P
  PROVE  Nat \subseteq P
  <1> SUFFICES ASSUME Nat \ P # {} PROVE FALSE
    OBVIOUS
  <1>1. PICK m \in Nat \ P : \A k \in Nat \ P : m <= k
    BY LeastNumber
  <1>2. m - 1 \in Nat /\ (m - 1) + 1 = m
    BY <1>1
  <1>3. m - 1 \in P
    BY <1>1, <1>2
  <1>4. QED
    BY <1>1, <1>2, <1>3
=============================================================================

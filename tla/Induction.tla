----------------------------- MODULE Induction -----------------------------
(***************************************************************************)
(* Induction in the form the provers can use: over a set, which a proof    *)
(* names, instead of over a predicate.  It comes from the library's        *)
(* theorem that every nonempty set has a minimal element under a           *)
(* well-founded relation.                                                  *)
(***************************************************************************)
EXTENDS Integers, WellFoundedInduction, TLAPS

\* A nonempty set of natural numbers has a least element.
LEMMA Least ==
    ASSUME NEW T, T \subseteq Nat, T # {}
    PROVE  \E x \in T : \A y \in T : x <= y
<1>. DEFINE R == OpToRel(<, Nat)
<1>1. IsWellFoundedOn(R, Nat)
    BY NatLessThanWellFounded
<1>. HIDE DEF R
<1>2. PICK x \in T : \A y \in T : ~(<<y, x>> \in R)
    BY <1>1, WFMin, Zenon
<1>3. ASSUME NEW y \in T, y < x PROVE FALSE
  <2>1. <<y, x>> \in R
    BY <1>3 DEF R, OpToRel
  <2>. QED
    BY <2>1, <1>2, Zenon
<1>4. \A y \in T : x \in Int /\ y \in Int
    OBVIOUS
<1>5. \A y \in T : x <= y
    BY <1>3, <1>4
<1>. QED
    BY <1>5

\* So has a nonempty set of numbers up to N a greatest.
Bounded(T, N) == \A x \in T : x \in 0..N

LEMMA Greatest ==
    ASSUME NEW N \in Nat, NEW T, T # {}, Bounded(T, N)
    PROVE  \E x \in T : x \in 0..N /\ \A y \in T : x >= y
<1>. DEFINE U == {n \in 0..N : N - n \in T}
<1>1. U \subseteq Nat
    OBVIOUS
<1>2. \A y \in T : y \in 0..N /\ N - y \in U
  <2>1. ASSUME NEW y \in T PROVE y \in 0..N /\ N - y \in U
    <3>1. y \in 0..N
        BY DEF Bounded
    <3>2. N - y \in 0..N /\ N - (N - y) = y
        BY <3>1
    <3>. QED
        BY <3>1, <3>2
  <2>. QED
      BY <2>1
<1>3. U # {}
    BY <1>2
<1>4. PICK n \in U : \A m \in U : n <= m
  <2>. HIDE DEF U
  <2>. QED
      BY <1>1, <1>3, Least
<1>5. n \in 0..N /\ N - n \in T /\ N - n \in 0..N
    OBVIOUS
<1>6. ASSUME NEW y \in T PROVE N - n >= y
  <2>1. y \in 0..N /\ n <= N - y
      BY <1>2, <1>4
  <2>. QED
      BY <1>5, <2>1
<1>. QED
    BY <1>5, <1>6

\* What is in P from 0 on, step by step, is in P up to N.
LEMMA IntervalInduction ==
    ASSUME NEW N \in Nat, NEW P, 0 \in P, \A n \in 0..(N - 1) : n \in P => n + 1 \in P
    PROVE  \A n \in 0..N : n \in P
<1>. DEFINE T == {n \in 0..N : n \notin P}
<1>1. SUFFICES ASSUME T # {} PROVE FALSE
    OBVIOUS
<1>2. PICK x \in T : \A y \in T : x <= y
  <2>1. T \subseteq Nat
    OBVIOUS
  <2>. HIDE DEF T
  <2>. QED
    BY <1>1, <2>1, Least
<1>3. x \in 1..N /\ x \notin P
    OBVIOUS
<1>4. x - 1 \in 0..(N - 1) /\ x - 1 \in 0..N /\ x - 1 \notin T
    BY <1>2, <1>3
<1>5. x - 1 \in P
    BY <1>4
<1>6. (x - 1) + 1 \in P
    BY <1>4, <1>5
<1>. QED
    BY <1>3, <1>6

\* P has 0, and with a number below N the next one.
Inductive(P, N) == 0 \in P /\ \A n \in 0..(N - 1) : n \in P => n + 1 \in P

\* The same for the number at the end alone.
LEMMA Reached ==
    ASSUME NEW N \in Nat, NEW P, Inductive(P, N)
    PROVE  N \in P
<1>1. \A n \in 0..N : n \in P
    BY IntervalInduction DEF Inductive
<1>. QED
    BY <1>1

-----------------------------------------------------------------------------
(* Multiples of a number. *)

LEMMA Multiples ==
    ASSUME NEW a \in Nat, NEW b \in Nat, NEW s \in Nat \ {0}
    PROVE  /\ a * s \in Nat /\ (a * s) \div s = a
           /\ a * s <= b * s <=> a <= b
           /\ a * s < b * s <=> a < b
           /\ a * s + b * s = (a + b) * s
           /\ a <= b => (b - a) * s = b * s - a * s
           /\ a < b => (b - a) * s \in Nat \ {0}
<1>1. a * s \in Nat /\ b * s \in Nat /\ a * s + b * s = (a + b) * s
    OBVIOUS
<1>2. (a * s) \div s = a
    OBVIOUS
<1>3. a <= b => (b - a) * s = b * s - a * s
    OBVIOUS
<1>4. a < b => (b - a) * s \in Nat \ {0} /\ a * s < b * s
    OBVIOUS
<1>5. b < a => b * s < a * s
    OBVIOUS
<1>. QED
    BY <1>1, <1>2, <1>3, <1>4, <1>5
=============================================================================

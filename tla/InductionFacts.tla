--------------------------- MODULE InductionFacts ---------------------------
(***************************************************************************)
(* Induction in the form in which the other proofs use it: by the least    *)
(* number at which a statement could be wrong, and by the values a         *)
(* recursion goes through.                                                 *)
(***************************************************************************)
EXTENDS Naturals, WellFoundedInduction, NaturalsInduction, TLAPS

(***************************************************************************)
(* Every set of natural numbers that is not empty has a least element.     *)
(***************************************************************************)
LEMMA LeastNatural ==
  ASSUME NEW T, T \subseteq Nat, T # {}
  PROVE  \E x \in T : \A y \in T : x <= y
<1>1. IsWellFoundedOn(OpToRel(<, Nat), Nat)
  BY NatLessThanWellFounded
<1>2. PICK x \in T : \A y \in T : ~(<<y, x>> \in OpToRel(<, Nat))
  BY <1>1, WFMin, Zenon
<1>3. \A y \in T : ~(y < x)
  BY <1>2 DEF OpToRel
<1> QED
  BY <1>3

\* The values of a recursion of n steps over S that begins with first.
Iterates(g, n, S, first, F) ==
  /\ g \in [0 .. n -> S] /\ g[0] = first
  /\ \A k \in 1 .. n : g[k] = F[<<g[k - 1], k>>]

(***************************************************************************)
(* A recursion whose steps stay in a set has a solution.                   *)
(***************************************************************************)
LEMMA RecursionExists ==
  ASSUME NEW S, NEW first \in S, NEW n \in Nat, NEW F \in [S \X (1 .. n) -> S]
  PROVE  \E g : Iterates(g, n, S, first, F)
<1> DEFINE Solved(m) == \E g : Iterates(g, m, S, first, F)
           T == {m \in Nat : m <= n /\ ~Solved(m)}
<1> HIDE DEF Solved
<1> SUFFICES ASSUME T # {} PROVE FALSE
  <2>1. Solved(n) => \E g : Iterates(g, n, S, first, F)
    BY DEF Solved
  <2>2. n \notin T => Solved(n)
    OBVIOUS
  <2> QED
    BY <2>1, <2>2
<1>1. PICK m \in T : \A x \in T : m <= x
  <2>1. T \subseteq Nat
    OBVIOUS
  <2> HIDE DEF T
  <2> QED
    BY <2>1, LeastNatural
<1>2. m # 0
  <2>1. Iterates([k \in 0 .. 0 |-> first], 0, S, first, F)
    BY DEF Iterates
  <2>2. Solved(0)
    BY <2>1 DEF Solved
  <2> QED
    BY <1>1, <2>2
<1>3. m \in Nat /\ m <= n /\ m - 1 \in Nat /\ m - 1 < m /\ m - 1 <= n
  BY <1>1, <1>2
<1>4. PICK g : Iterates(g, m - 1, S, first, F)
  <2>1. Solved(m - 1)
    BY <1>1, <1>3
  <2> QED
    BY <2>1 DEF Solved
<1> DEFINE h == [k \in 0 .. m |-> IF k = m THEN F[<<g[m - 1], m>>] ELSE g[k]]
<1>5. g[m - 1] \in S /\ F[<<g[m - 1], m>>] \in S
  <2>1. g[m - 1] \in S /\ m \in 1 .. n
    BY <1>2, <1>3, <1>4 DEF Iterates
  <2> QED
    BY <2>1
<1>6. h \in [0 .. m -> S]
  <2>1. ASSUME NEW k \in 0 .. m, k # m PROVE g[k] \in S
    BY <1>3, <1>4, <2>1 DEF Iterates
  <2> QED
    BY <1>5, <2>1
<1>7. h[0] = first
  BY <1>2, <1>3, <1>4 DEF Iterates
<1>8. ASSUME NEW k \in 1 .. m PROVE h[k] = F[<<h[k - 1], k>>]
  <2>1. k - 1 \in 0 .. m /\ k - 1 # m /\ h[k - 1] = g[k - 1]
    BY <1>3
  <2>2. CASE k = m
    BY <2>1, <2>2
  <2>3. CASE k # m
    <3>1. k \in 1 .. m - 1 /\ k \in 0 .. m /\ h[k] = g[k]
      BY <1>3, <2>3
    <3>2. g[k] = F[<<g[k - 1], k>>]
      BY <1>4, <3>1 DEF Iterates
    <3> HIDE DEF h
    <3> QED
      BY <2>1, <3>1, <3>2
  <2> QED
    BY <2>2, <2>3
<1>9. Iterates(h, m, S, first, F)
  <2> HIDE DEF h
  <2> QED
    BY <1>6, <1>7, <1>8 DEF Iterates
<1>10. Solved(m)
  BY <1>9 DEF Solved
<1> QED
  BY <1>1, <1>10
=============================================================================

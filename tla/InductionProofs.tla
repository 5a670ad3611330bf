--------------------------- MODULE InductionProofs --------------------------
(***************************************************************************)
(* Induction over numbers, stated with sets so that it can be instantiated *)
(* by naming one.  It carries the proofs about loops over lists of any     *)
(* length: first the least element of a set of numbers, which is also what *)
(* the first unsatisfied condition of an asset is.                         *)
(***************************************************************************)
EXTENDS Integers, WellFoundedInduction, TLAPS

\* A set of numbers that is not empty has a least element.
LEMMA LeastNumber ==
    ASSUME NEW T, T \subseteq Nat, T # {}
    PROVE  \E m \in T : \A k \in T : m <= k
<1> DEFINE R == {p \in Nat \X Nat : p[1] < p[2]}
<1>1. IsWellFoundedOn(R, Nat)
  BY NatLessThanWellFounded, Zenon DEF OpToRel
<1>2. PICK m \in T : \A k \in T : ~(<<k, m>> \in R)
  <2> HIDE DEF R
  <2> QED
    BY <1>1, WFMin, Zenon
<1>3. \A k, n \in Nat : <<k, n>> \in R <=> k < n
  OBVIOUS
<1>4. \A k \in T : ~(k < m)
  BY <1>2, <1>3
<1>5. \A k \in T : m <= k
  BY <1>4
<1> QED
  BY <1>5

\* What holds of zero, and of every number up to N after one of which it holds,
\* holds of all numbers up to N.
LEMMA UpToInduction ==
    ASSUME NEW N \in Nat, NEW S, 0 \in S, \A n \in 0 .. N : n \in S /\ n # N => n + 1 \in S
    PROVE  \A n \in 0 .. N : n \in S
<1> DEFINE T == {n \in 0 .. N : n \notin S}
<1> SUFFICES ASSUME T # {} PROVE FALSE
  OBVIOUS
<1>1. PICK m \in T : \A k \in T : m <= k
  <2>1. T \subseteq Nat
    OBVIOUS
  <2> HIDE DEF T
  <2> QED
    BY <2>1, LeastNumber
<1>2. m \in 1 .. N /\ m - 1 \in 0 .. N /\ m - 1 # N /\ (m - 1) + 1 = m
  BY <1>1
<1>3. m - 1 \in S
  BY <1>1, <1>2
<1>4. m \in S
  BY <1>2, <1>3
<1> QED
  BY <1>1, <1>4

\* A value computed in m steps from base: step n makes R[n][v] of v.
Computes(f, m, base, R, V) == f \in [0 .. m -> V] /\ f[0] = base /\ \A n \in 1 .. m : f[n] = R[n][f[n - 1]]

LEMMA OneStepMore ==
    ASSUME NEW N \in Nat, NEW V, NEW base \in V, NEW R \in [1 .. N -> [V -> V]],
           NEW m \in 0 .. N, m # N, NEW f, Computes(f, m, base, R, V)
    PROVE  \E g : Computes(g, m + 1, base, R, V)
<1> DEFINE v == R[m + 1][f[m]]
           g == [n \in 0 .. m + 1 |-> IF n = m + 1 THEN v ELSE f[n]]
<1>1. f \in [0 .. m -> V] /\ f[0] = base /\ \A n \in 1 .. m : f[n] = R[n][f[n - 1]]
  BY DEF Computes
<1>2. m \in Nat /\ m \in 0 .. m /\ m + 1 \in 1 .. N
  OBVIOUS
<1>3. f[m] \in V /\ R[m + 1] \in [V -> V]
  BY <1>1, <1>2
<1>4. v \in V
  BY <1>3
<1> HIDE DEF v
<1>5. g \in [0 .. m + 1 -> V] /\ g[0] = base
  BY <1>1, <1>2, <1>4
<1>6. ASSUME NEW n \in 1 .. m + 1 PROVE g[n] = R[n][g[n - 1]]
  <2>1. CASE n = m + 1
    <3>1. n - 1 = m /\ g[n - 1] = f[m] /\ g[n] = v
      BY <1>2, <2>1
    <3> QED
      BY <2>1, <3>1 DEF v
  <2>2. CASE n # m + 1
    <3>1. n \in 1 .. m /\ n - 1 \in 0 .. m /\ g[n] = f[n] /\ g[n - 1] = f[n - 1]
      BY <1>2, <2>2
    <3> QED
      BY <1>1, <3>1
  <2> QED
    BY <2>1, <2>2
<1>7. Computes(g, m + 1, base, R, V)
  BY <1>5, <1>6 DEF Computes
<1> QED
  BY <1>7, Zenon

LEMMA RecursionExists ==
    ASSUME NEW N \in Nat, NEW V, NEW base \in V, NEW R \in [1 .. N -> [V -> V]]
    PROVE  \E f : Computes(f, N, base, R, V)
<1> DEFINE S == {m \in 0 .. N : \E f : Computes(f, m, base, R, V)}
<1>1. 0 \in S
  <2>1. Computes([n \in 0 .. 0 |-> base], 0, base, R, V)
    BY DEF Computes
  <2>2. 0 \in 0 .. N
    OBVIOUS
  <2> QED
    BY <2>1, <2>2, Zenon
<1>2. ASSUME NEW m \in 0 .. N, m \in S, m # N PROVE m + 1 \in S
  <2>1. PICK f : Computes(f, m, base, R, V)
    BY <1>2, Zenon
  <2>2. m # N
    BY <1>2, Zenon
  <2>3. \E g : Computes(g, m + 1, base, R, V)
    BY <2>1, <2>2, OneStepMore, Zenon
  <2> HIDE DEF S
  <2>4. m + 1 \in 0 .. N
    BY <2>2
  <2> QED
    BY <2>3, <2>4, Zenon DEF S
<1>3. N \in S
  <2> HIDE DEF S
  <2>1. \A n \in 0 .. N : n \in S
    BY <1>1, <1>2, UpToInduction, Zenon
  <2> QED
    BY <2>1
<1> QED
  BY <1>3, Zenon
=============================================================================

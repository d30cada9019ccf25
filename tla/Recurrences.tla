----------------------------- MODULE Recurrences -----------------------------
(***************************************************************************)
(* Functions defined from their previous value: the form in which this     *)
(* project writes what the code computes in a loop.  The library's         *)
(* induction theorems take the formula as an operator; with the set of the *)
(* numbers that satisfy it in its place they can be cited.                 *)
(***************************************************************************)
EXTENDS Integers, WellFoundedInduction, TLAPS

\* A non-empty set of naturals has a least element.
LEMMA LeastNumber ==
  ASSUME NEW T, T \subseteq Nat, T # {}
  PROVE  \E x \in T : \A y \in T : x <= y
<1> DEFINE R == OpToRel(<, Nat)
<1>1. IsWellFoundedOn(R, Nat)
  BY NatLessThanWellFounded
<1>2. \A a, b \in Nat : a < b => <<a, b>> \in R
  BY DEF OpToRel
<1> HIDE DEF R
<1>3. PICK x \in T : \A y \in T : ~(<<y, x>> \in R)
  BY <1>1, WFMin
<1>4. ASSUME NEW y \in T PROVE x <= y
  <2>1. x \in Nat /\ y \in Nat /\ ~(<<y, x>> \in R)
    BY <1>3
  <2>2. ~(y < x)
    BY <1>2, <2>1
  <2> QED BY <2>1, <2>2
<1> QED BY <1>4

\* Induction over the set of the numbers that satisfy a formula.
LEMMA Induction ==
  ASSUME NEW T, 0 \in T, \A n \in Nat : n \in T => n + 1 \in T
  PROVE  Nat \subseteq T
<1> SUFFICES ASSUME Nat \ T # {} PROVE FALSE
  OBVIOUS
<1>1. PICK x \in Nat \ T : \A y \in Nat \ T : x <= y
  BY LeastNumber
<1>2. x - 1 \in Nat /\ x - 1 \notin Nat \ T
  BY <1>1
<1> QED BY <1>1, <1>2

\* A function that is defined from its previous value exists.
Computes(f, m, V, first, step) ==
  f \in [0 .. m -> V] /\ f[0] = first /\ \A n \in 1 .. m : f[n] = step[n][f[n - 1]]

\* Such a function exists for every first value and every step.
LEMMA Recursion ==
  ASSUME NEW N \in Nat, NEW V, NEW first \in V, NEW step \in [1 .. N -> [V -> V]]
  PROVE  \E f : Computes(f, N, V, first, step)
<1> DEFINE Runs(f, m) == Computes(f, m, V, first, step)
           T == {m \in Nat : m <= N => \E f : Runs(f, m)}
<1>1. 0 \in T
  <2>1. Runs([n \in 0 .. 0 |-> first], 0)
    BY DEF Computes
  <2> QED BY <2>1
<1>2. ASSUME NEW m \in T, m + 1 <= N PROVE \E f : Runs(f, m + 1)
  <2>1. PICK f : Runs(f, m)
    BY <1>2
  <2>2. f \in [0 .. m -> V] /\ f[0] = first /\ \A n \in 1 .. m : f[n] = step[n][f[n - 1]]
    BY <2>1 DEF Computes
  <2> DEFINE g == [n \in 0 .. m + 1 |-> IF n = m + 1 THEN step[m + 1][f[m]] ELSE f[n]]
  <2>3. f[m] \in V /\ m + 1 \in 1 .. N
    BY <1>2, <2>2
  <2>4. step[m + 1][f[m]] \in V
    BY <2>3
  <2>5. g \in [0 .. m + 1 -> V]
    BY <1>2, <2>2, <2>4
  <2>6. g[0] = first /\ \A n \in 0 .. m : g[n] = f[n]
    BY <1>2, <2>2
  <2>7. g[m + 1] = step[m + 1][f[m]]
    BY <1>2
  <2>8. \A n \in 1 .. m + 1 : g[n] = step[n][g[n - 1]]
    <3> SUFFICES ASSUME NEW n \in 1 .. m + 1 PROVE g[n] = step[n][g[n - 1]]
      OBVIOUS
    <3> HIDE DEF g
    <3>1. CASE n = m + 1
      <4>1. g[n - 1] = f[m]
        BY <1>2, <2>6, <3>1
      <4> QED BY <2>7, <3>1, <4>1
    <3>2. CASE n # m + 1
      <4>1. n \in 1 .. m /\ n - 1 \in 0 .. m
        BY <1>2, <3>2
      <4> QED BY <2>2, <2>6, <4>1
    <3> QED BY <3>1, <3>2
  <2>9. Runs(g, m + 1)
    BY <1>2, <2>5, <2>6, <2>8 DEF Computes
  <2> QED BY <2>9
<1>3. \A m \in Nat : m \in T => m + 1 \in T
  <2> SUFFICES ASSUME NEW m \in Nat, m \in T, m + 1 <= N PROVE \E f : Runs(f, m + 1)
    OBVIOUS
  <2> HIDE DEF T, Runs
  <2> QED BY <1>2
<1>4. N \in T
  <2> HIDE DEF T
  <2> QED BY <1>1, <1>3, Induction
<1> QED BY <1>4
=============================================================================

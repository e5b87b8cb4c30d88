------------------------------- MODULE Induction -------------------------------
(***************************************************************************)
(* Induction over natural numbers and over the length of a sequence,       *)
(* stated with sets: a set that contains 0 and the successor of each of    *)
(* its numbers contains them all.  What is proved by induction is that     *)
(* such a set contains every number; it rests on the least number outside  *)
(* it, which the library's WFMin provides.                                 *)
(***************************************************************************)
EXTENDS Integers, WellFoundedInduction, TLAPS

\* A set of natural numbers has a least element.
LEMMA LeastElement ==
    ASSUME NEW T, T \subseteq Nat, T # {}
    PROVE  \E m \in T : \A k \in T : m <= k
  <1>1. PICK m \in T : \A k \in T : <<k, m>> \notin OpToRel(<, Nat)
    BY WFMin, NatLessThanWellFounded, Zenon
  <1>2. \A k \in T : ~(k < m)
    BY <1>1 DEF OpToRel
  <1> QED
    BY <1>2

\* Induction up to a bound: nothing is asked of the numbers above it.
LEMMA InductionUpTo ==
    ASSUME NEW N \in Nat, NEW T, 0 \in T,
           \A n \in 0 .. N - 1 : n \in T => n + 1 \in T
    PROVE  0 .. N \subseteq T
  <1> DEFINE Rest == {n \in 0 .. N : n \notin T}
  <1> SUFFICES ASSUME Rest # {} PROVE FALSE
    OBVIOUS
  <1>1. Rest \subseteq Nat
    OBVIOUS
  <1>2. PICK m \in Rest : \A k \in Rest : m <= k
    BY <1>1, LeastElement
  <1>3. m # 0 /\ m - 1 \in 0 .. N - 1 /\ m - 1 \notin Rest
    BY <1>2
  <1> QED
    BY <1>2, <1>3

\* f, a function on 0 .. N, starts with a value and goes on by a step that
\* takes the number it is for and the value before.
Recursion(f, N, start, step) ==
    /\ f[0] = start
    /\ \A n \in 1 .. N : f[n] = step[<<n, f[n - 1]>>]

HasRecursion(N, S, start, step) ==
    \E f \in [0 .. N -> S] : Recursion(f, N, start, step)

\* Recursion up to a bound: such a function exists.
LEMMA RecursionUpTo ==
    ASSUME NEW N \in Nat, NEW S, NEW start \in S,
           NEW step \in [(1 .. N) \X S -> S]
    PROVE  HasRecursion(N, S, start, step)
  <1> DEFINE Solves(f, m) ==
          /\ f \in [0 .. m -> S]
          /\ f[0] = start
          /\ \A n \in 1 .. m : f[n] = step[<<n, f[n - 1]>>]
      Solved == {m \in Nat : \E f : Solves(f, m)}
  <1>1. 0 \in Solved
    <2>1. Solves([n \in 0 .. 0 |-> start], 0) OBVIOUS
    <2> QED BY <2>1
  <1>2. ASSUME NEW m \in 0 .. N - 1, m \in Solved
        PROVE  m + 1 \in Solved
    <2>1. PICK f : Solves(f, m) BY <1>2
    <2> DEFINE next == step[<<m + 1, f[m]>>]
               g == [n \in 0 .. m + 1 |-> IF n = m + 1 THEN next ELSE f[n]]
    <2>2. next \in S
      <3>1. f[m] \in S /\ m + 1 \in 1 .. N BY <2>1
      <3> QED BY <3>1
    <2>3. next = step[<<m + 1, f[m]>>] OBVIOUS
    <2> HIDE DEF next
    <2>4. g \in [0 .. m + 1 -> S] /\ g[0] = start BY <2>1, <2>2
    <2>5. ASSUME NEW n \in 1 .. m + 1
          PROVE  g[n] = step[<<n, g[n - 1]>>]
      <3>1. g[n - 1] = f[n - 1] OBVIOUS
      <3>2. CASE n = m + 1
        <4>1. g[n] = next /\ n - 1 = m BY <3>2
        <4> HIDE DEF g
        <4> QED BY <2>3, <3>1, <3>2, <4>1
      <3>3. CASE n # m + 1
        <4>1. n \in 1 .. m /\ g[n] = f[n] BY <3>3
        <4> QED BY <2>1, <3>1, <4>1
      <3> QED BY <3>2, <3>3
    <2>6. Solves(g, m + 1) BY <2>4, <2>5
    <2>7. m + 1 \in Nat OBVIOUS
    <2> HIDE DEF g, Solves
    <2> QED BY <2>6, <2>7
  <1> HIDE DEF Solved
  <1>3. N \in Solved BY <1>1, <1>2, InductionUpTo
  <1> QED BY <1>3 DEF Solved, HasRecursion, Recursion

===============================================================================

----------------------------- MODULE NatRecursion -----------------------------
(***************************************************************************)
(* Least elements, induction and recursion over the natural numbers, about *)
(* sets and functions, so that a proof can cite them without naming an     *)
(* operator.  Recursion is what a walk along a chain of records rests on.  *)
(***************************************************************************)
EXTENDS Naturals, WellFoundedInduction, TLAPS

(* Some version, position or length is the least of those there are.         *)
LEMMA LeastNat ==
  ASSUME NEW T \in SUBSET Nat, T # {}
  PROVE  \E x \in T : \A y \in T : x <= y
  <1> DEFINE R == OpToRel(<, Nat)
  <1>1. IsWellFoundedOn(R, Nat)
    BY NatLessThanWellFounded
  <1>2. \A x, y \in Nat : x < y => <<x, y>> \in R
    BY DEF OpToRel
  <1>3. PICK x \in T : \A y \in T : ~ (<<y, x>> \in R)
    <2> HIDE DEF R
    <2> QED BY <1>1, WFMin
  <1>4. \A y \in T : ~ (y < x)
    <2> HIDE DEF R
    <2> QED BY <1>2, <1>3
  <1> QED BY <1>4

(* A set that has 0 and every successor of a member is all of Nat.           *)
LEMMA SetInduction ==
  ASSUME NEW P \in SUBSET Nat, 0 \in P, \A n \in P : n + 1 \in P
  PROVE  \A n \in Nat : n \in P
  <1> SUFFICES ASSUME Nat \ P # {} PROVE FALSE
    OBVIOUS
  <1>1. PICK x \in Nat \ P : \A y \in Nat \ P : x <= y
    BY LeastNat
  <1>2. x # 0 /\ x - 1 \in Nat /\ ~ (x <= x - 1)
    BY <1>1
  <1>3. x - 1 \in P
    BY <1>1, <1>2
  <1>4. (x - 1) + 1 = x
    BY <1>1
  <1> QED BY <1>1, <1>3, <1>4

(* The first n steps from a by G.                                            *)
FirstSteps(S, a, G, n, g) ==
  /\ g \in [0..n -> S]
  /\ g[0] = a
  /\ \A i \in 1..n : g[i] = G[g[i - 1]]

(* There is a function on Nat that starts at a and goes on by G.             *)
LEMMA Recursion ==
  ASSUME NEW S, NEW a \in S, NEW G \in [S -> S]
  PROVE  \E f \in [Nat -> S] : f = [n \in Nat |-> IF n = 0 THEN a ELSE G[f[n - 1]]]
  <1>1. \A n \in Nat : \E g : FirstSteps(S, a, G, n, g)
    <2> DEFINE P == {n \in Nat : \E g : FirstSteps(S, a, G, n, g)}
    <2>1. 0 \in P
      <3>1. FirstSteps(S, a, G, 0, [i \in 0..0 |-> a])
        BY DEF FirstSteps
      <3> QED BY <3>1
    <2>2. ASSUME NEW n \in P PROVE n + 1 \in P
      <3>1. PICK g : FirstSteps(S, a, G, n, g)
        OBVIOUS
      <3> DEFINE h == [i \in 0..n + 1 |-> IF i <= n THEN g[i] ELSE G[g[n]]]
      <3>2. /\ n \in Nat /\ n \in 0..n /\ 0 \in 0..n + 1
            /\ \A i \in 0..n + 1 : i <= n => i \in 0..n
            /\ \A i \in 1..n + 1 : i \in 0..n + 1 /\ i - 1 \in 0..n /\ i - 1 \in 0..n + 1 /\ i - 1 <= n
            /\ \A i \in 1..n + 1 : i <= n => i \in 1..n
            /\ \A i \in 1..n + 1 : ~ (i <= n) => i - 1 = n
        OBVIOUS
      <3>3. g \in [0..n -> S] /\ G[g[n]] \in S
        BY <3>1, <3>2 DEF FirstSteps
      <3>4. h \in [0..n + 1 -> S]
        BY <3>2, <3>3
      <3>5. h[0] = a
        BY <3>1, <3>2 DEF FirstSteps
      <3>6. ASSUME NEW i \in 1..n + 1 PROVE h[i] = G[h[i - 1]]
        <4>1. h[i - 1] = g[i - 1]
          BY <3>2
        <4>2. CASE i <= n
          BY <3>1, <3>2, <4>1, <4>2 DEF FirstSteps
        <4>3. CASE ~ (i <= n)
          BY <3>2, <4>1, <4>3
        <4> QED BY <4>2, <4>3
      <3>7. FirstSteps(S, a, G, n + 1, h)
        <4> HIDE DEF h
        <4> QED BY <3>4, <3>5, <3>6 DEF FirstSteps
      <3> QED BY <3>2, <3>7
    <2> HIDE DEF P
    <2>3. P \in SUBSET Nat
      BY DEF P
    <2>4. \A n \in Nat : n \in P
      BY <2>1, <2>2, <2>3, SetInduction
    <2> QED BY <2>4 DEF P
  <1> DEFINE Agree(i) == \A n, m \in Nat : \A g, h :
               FirstSteps(S, a, G, n, g) /\ FirstSteps(S, a, G, m, h) /\ i <= n /\ i <= m => g[i] = h[i]
  <1>2. \A i \in Nat : Agree(i)
    <2> DEFINE P == {i \in Nat : Agree(i)}
    <2>1. 0 \in P
      BY DEF FirstSteps
    <2>2. ASSUME NEW i \in P PROVE i + 1 \in P
      <3> SUFFICES ASSUME NEW n \in Nat, NEW m \in Nat, NEW g, NEW h,
                          FirstSteps(S, a, G, n, g), FirstSteps(S, a, G, m, h), i + 1 <= n, i + 1 <= m
                   PROVE  g[i + 1] = h[i + 1]
        OBVIOUS
      <3>1. i \in Nat /\ i <= n /\ i <= m /\ i + 1 \in 1..n /\ i + 1 \in 1..m /\ (i + 1) - 1 = i
        OBVIOUS
      <3>2. g[i] = h[i]
        BY <3>1
      <3>3. g[i + 1] = G[g[i]] /\ h[i + 1] = G[h[i]]
        BY <3>1 DEF FirstSteps
      <3> QED BY <3>2, <3>3
    <2> HIDE DEF P
    <2>3. P \in SUBSET Nat
      BY DEF P
    <2>4. \A i \in Nat : i \in P
      BY <2>1, <2>2, <2>3, SetInduction
    <2> QED BY <2>4 DEF P
  <1> DEFINE at == [n \in Nat |-> CHOOSE g : FirstSteps(S, a, G, n, g)]
             f == [n \in Nat |-> at[n][n]]
  <1>3. \A n \in Nat : FirstSteps(S, a, G, n, at[n])
    BY <1>1
  <1> HIDE DEF at
  <1>4. f \in [Nat -> S]
    <2>1. \A n \in Nat : n \in 0..n
      OBVIOUS
    <2> QED BY <1>3, <2>1 DEF FirstSteps
  <1>5. f[0] = a
    BY <1>3 DEF FirstSteps
  <1>6. ASSUME NEW n \in Nat, n # 0 PROVE f[n] = G[f[n - 1]]
    <2>1. n - 1 \in Nat /\ n \in 1..n /\ n - 1 <= n /\ n - 1 <= n - 1
      BY <1>6
    <2>2. at[n][n] = G[at[n][n - 1]]
      BY <1>3, <2>1 DEF FirstSteps
    <2>3. at[n][n - 1] = at[n - 1][n - 1]
      BY <1>2, <1>3, <2>1
    <2> QED BY <2>1, <2>2, <2>3
  <1>7. f = [n \in Nat |-> IF n = 0 THEN a ELSE G[f[n - 1]]]
    <2> HIDE DEF f
    <2> QED BY <1>4, <1>5, <1>6
  <1> HIDE DEF f
  <1> QED BY <1>4, <1>7
=============================================================================

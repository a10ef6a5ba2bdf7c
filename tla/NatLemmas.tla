----------------------------- MODULE NatLemmas -----------------------------
(***************************************************************************)
(* Facts about the natural numbers that the proofs of several components   *)
(* rest on: least and greatest elements, induction stated with a set, and  *)
(* the existence of functions defined by recursion.  The theorems of the   *)
(* library that take a predicate as an operator cannot be instantiated by  *)
(* the provers in use, so each is stated here with a set or a function     *)
(* instead.                                                                *)
(***************************************************************************)
EXTENDS Integers, FiniteSets, FiniteSetTheorems, WellFoundedInduction, TLAPS

\* Every nonempty set of natural numbers has a least element.
LEMMA LeastNat ==
  ASSUME NEW S \in SUBSET Nat, S # {}
  PROVE  \E n \in S : \A k \in S : n <= k
<1> DEFINE T == {0 .. n : n \in S}
<1>1. T \subseteq FiniteSubsetsOf(Nat)
  <2>. SUFFICES ASSUME NEW n \in S
                PROVE  0 .. n \in FiniteSubsetsOf(Nat)
    OBVIOUS
  <2>1. IsFiniteSet(0 .. n)
    <3>1. 0 \in Int /\ n \in Int
      OBVIOUS
    <3>. QED  BY <3>1, FS_Interval
  <2>2. 0 .. n \in SUBSET Nat
    OBVIOUS
  <2>. QED  BY <2>1, <2>2 DEF FiniteSubsetsOf
<1>2. T # {}
  OBVIOUS
<1>3. PICK i \in T : \A j \in T : <<j, i>> \notin StrictSubsetOrdering(Nat)
  <2> HIDE DEF T
  <2>. QED  BY <1>1, <1>2, FS_StrictSubsetOrderingWellFounded, WFMin
<1>4. PICK n \in S : i = 0 .. n
  OBVIOUS
<1>5. ASSUME NEW k \in S, k < n
      PROVE  FALSE
  <2>1. /\ 0 .. k \in SUBSET Nat /\ 0 .. n \in SUBSET Nat
        /\ 0 .. k \subseteq 0 .. n
        /\ n \in 0 .. n /\ n \notin 0 .. k
    BY <1>5
  <2>2. 0 .. k # 0 .. n
    BY <2>1
  <2>3. <<0 .. k, 0 .. n>> \in StrictSubsetOrdering(Nat)
    BY <2>1, <2>2 DEF StrictSubsetOrdering
  <2>. QED  BY <1>3, <1>4, <2>3
<1>6. \A k \in S : n <= k
  <2>. SUFFICES ASSUME NEW k \in S
                PROVE  n <= k
    OBVIOUS
  <2>1. ~ (k < n)
    BY <1>5
  <2>2. k \in Nat /\ n \in Nat
    OBVIOUS
  <2> HIDE DEF T
  <2>. QED  BY <2>1, <2>2
<1>. QED  BY <1>6

\* Every nonempty set of natural numbers with a bound has a greatest element.
LEMMA GreatestNat ==
  ASSUME NEW S \in SUBSET Nat, S # {}, NEW b \in Nat, \A n \in S : n <= b
  PROVE  \E n \in S : \A k \in S : k <= n
<1> DEFINE D == {d \in Nat : b - d \in S}
<1>1. D # {}
  <2>1. PICK n \in S : TRUE
    OBVIOUS
  <2>2. b - n \in Nat /\ b - (b - n) = n
    BY <2>1
  <2>. QED  BY <2>1, <2>2
<1>2. PICK d \in D : \A e \in D : d <= e
  BY <1>1, LeastNat
<1>3. b - d \in S /\ d \in Nat
  OBVIOUS
<1>4. ASSUME NEW k \in S
      PROVE  k <= b - d
  <2>1. b - k \in D
    OBVIOUS
  <2>. QED  BY <1>2, <2>1
<1>. QED  BY <1>3, <1>4

\* Every nonempty finite set of natural numbers has a greatest element: one
\* with the fewest elements above it.
LEMMA GreatestOfFinite ==
  ASSUME NEW S \in SUBSET Nat, IsFiniteSet(S), S # {}
  PROVE  \E n \in S : \A k \in S : k <= n
<1> DEFINE Above(n) == {k \in S : n < k}
           C == {Cardinality(Above(n)) : n \in S}
<1>1. \A n \in S : IsFiniteSet(Above(n)) /\ Cardinality(Above(n)) \in Nat
  BY FS_Subset, FS_CardinalityType
<1>2. C \in SUBSET Nat /\ C # {}
  BY <1>1
<1>3. PICK c \in C : \A d \in C : c <= d
  <2> HIDE DEF C
  <2>. QED  BY <1>2, LeastNat
<1>4. PICK n \in S : Cardinality(Above(n)) = c
  OBVIOUS
<1>5. ASSUME NEW k \in S, n < k
      PROVE  FALSE
  <2>1. k \in Nat /\ n \in Nat
    OBVIOUS
  <2>2. Above(k) \in SUBSET Above(n) /\ k \in Above(n) /\ k \notin Above(k)
    <3>1. \A m \in S : k < m => n < m
      <4>. SUFFICES ASSUME NEW m \in S, k < m
                    PROVE  n < m
        OBVIOUS
      <4>1. m \in Nat
        OBVIOUS
      <4> HIDE DEF C
      <4>. QED  BY <1>5, <2>1, <4>1
    <3>2. ~ (k < k)
      BY <2>1
    <3> HIDE DEF C
    <3>. QED  BY <1>5, <3>1, <3>2
  <2> HIDE DEF Above
  <2>3. Cardinality(Above(k)) <= Cardinality(Above(n))
    BY <1>1, <2>2, FS_Subset
  <2>4. Cardinality(Above(k)) # Cardinality(Above(n))
    BY <1>1, <2>2, FS_Subset
  <2>5. Cardinality(Above(n)) <= Cardinality(Above(k))
    BY <1>3, <1>4
  <2>. QED  BY <1>1, <2>3, <2>4, <2>5
<1>6. \A k \in S : k <= n
  <2>. SUFFICES ASSUME NEW k \in S
                PROVE  k <= n
    OBVIOUS
  <2>1. ~ (n < k)
    BY <1>5
  <2>2. k \in Nat /\ n \in Nat
    OBVIOUS
  <2> HIDE DEF C, Above
  <2>. QED  BY <2>1, <2>2
<1>. QED  BY <1>6

\* Induction: a set with zero and the successor of each of its members has
\* every natural number.
LEMMA Induction ==
  ASSUME NEW S \in SUBSET Nat, 0 \in S, \A n \in S : n + 1 \in S
  PROVE  S = Nat
<1>. SUFFICES ASSUME Nat \ S # {}
              PROVE  FALSE
  OBVIOUS
<1>1. PICK n \in Nat \ S : \A k \in Nat \ S : n <= k
  BY LeastNat
<1>2. n - 1 \in Nat /\ n - 1 \notin Nat \ S
  BY <1>1
<1>. QED  BY <1>2

\* Induction up to k: what holds of the value at 0, and of each later value if it
\* holds of the one before, holds of the values at 0 .. k.
Inductive(k, Y, f) ==
  /\ k \in Nat /\ f[0] \in Y[0]
  /\ \A n \in 1 .. k : f[n - 1] \in Y[n - 1] => f[n] \in Y[n]

\* The same of a function of 0 .. k.
LEMMA InductionUpTo ==
  ASSUME NEW k, NEW Y, NEW f, Inductive(k, Y, f)
  PROVE  \A n \in 0 .. k : f[n] \in Y[n]
<1> USE DEF Inductive
<1> DEFINE S == {n \in Nat : n <= k => f[n] \in Y[n]}
<1>1. 0 \in S
  OBVIOUS
<1>2. ASSUME NEW n \in S
      PROVE  n + 1 \in S
  <2>. SUFFICES ASSUME n + 1 <= k
                PROVE  f[n + 1] \in Y[n + 1]
    OBVIOUS
  <2>1. n + 1 \in 1 .. k /\ (n + 1) - 1 = n /\ f[n] \in Y[n]
    OBVIOUS
  <2>. QED  BY <2>1
<1>3. S = Nat
  <2> HIDE DEF S
  <2>1. S \in SUBSET Nat
    BY DEF S
  <2>. QED  BY <1>1, <1>2, <2>1, Induction
<1>. QED  BY <1>3

\* A function on 0 .. k can be defined by recursion: from the value b at 0, by a
\* step from the value at n - 1 to the one at n that stays in the sets Y[n].
StaysWithin(k, X, Y, b, step) ==
  /\ k \in Nat /\ b \in Y[0]
  /\ \A n \in 0 .. k : Y[n] \subseteq X
  /\ \A n \in 1 .. k : \A x \in Y[n - 1] : step[<<x, n>>] \in Y[n]

\* What is defined by it.
IsSolution(f, k, X, Y, b, step) ==
  /\ f \in [0 .. k -> X]
  /\ f[0] = b /\ \A n \in 1 .. k : f[n] = step[<<f[n - 1], n>>]
  /\ \A n \in 0 .. k : f[n] \in Y[n]

\* A function that is defined by recursion exists, and its values are where each step leads.
LEMMA RecursionSolved ==
  ASSUME NEW k, NEW X, NEW Y, NEW b, NEW step, StaysWithin(k, X, Y, b, step)
  PROVE  \E f : IsSolution(f, k, X, Y, b, step)
<1> USE DEF StaysWithin
<1> DEFINE Solves(f, j) == /\ f[0] = b /\ \A n \in 1 .. j : f[n] = step[<<f[n - 1], n>>]
                           /\ \A n \in 0 .. j : f[n] \in Y[n]
           S == {j \in Nat : j <= k => \E f \in [0 .. j -> X] : Solves(f, j)}
<1>1. 0 \in S
  <2> DEFINE f == [n \in 0 .. 0 |-> b]
  <2>1. f \in [0 .. 0 -> X] /\ Solves(f, 0)
    OBVIOUS
  <2>. QED  BY <2>1
<1>2. ASSUME NEW j \in S
      PROVE  j + 1 \in S
  <2>1. j \in Nat /\ (j <= k => \E f \in [0 .. j -> X] : Solves(f, j))
    <3> HIDE DEF Solves
    <3>. QED  OBVIOUS
  <2>. SUFFICES ASSUME j + 1 <= k
                PROVE  \E f \in [0 .. j + 1 -> X] : Solves(f, j + 1)
    <3> HIDE DEF Solves
    <3>. QED  BY <2>1
  <2>2. PICK f \in [0 .. j -> X] : Solves(f, j)
    <3> HIDE DEF Solves
    <3>. QED  BY <2>1
  <2> HIDE DEF S
  <2> DEFINE x == step[<<f[j], j + 1>>]
             g == [n \in 0 .. j + 1 |-> IF n = j + 1 THEN x ELSE f[n]]
  <2>3. j + 1 \in 1 .. k /\ (j + 1) - 1 = j /\ j \in 0 .. j /\ j + 1 \in 0 .. k
    BY <2>1
  <2>4. x \in Y[j + 1] /\ x \in X
    BY <2>2, <2>3
  <2> HIDE DEF x
  <2>5. \A n \in 0 .. j : g[n] = f[n] /\ n \in 0 .. j + 1
    BY <2>1
  <2>6. g[j + 1] = x
    BY <2>1
  <2>7. g \in [0 .. j + 1 -> X]
    <3>1. \A n \in 0 .. j + 1 : n = j + 1 \/ n \in 0 .. j
      BY <2>1
    <3>. QED  BY <2>2, <2>4, <3>1
  <2> HIDE DEF g
  <2>8. g[0] = b /\ 0 \in 0 .. j
    BY <2>1, <2>2, <2>5
  <2>9. ASSUME NEW n \in 1 .. j + 1
        PROVE  g[n] = step[<<g[n - 1], n>>]
    <3>1. CASE n = j + 1
      BY <2>3, <2>5, <2>6, <3>1 DEF x
    <3>2. CASE n \in 1 .. j
      <4>1. n \in 0 .. j /\ n - 1 \in 0 .. j
        BY <2>1, <3>2
      <4>. QED  BY <2>2, <2>5, <3>2, <4>1
    <3>. QED  BY <2>1, <3>1, <3>2
  <2>10. ASSUME NEW n \in 0 .. j + 1
         PROVE  g[n] \in Y[n]
    <3>1. CASE n = j + 1
      BY <2>4, <2>6, <3>1
    <3>2. CASE n \in 0 .. j
      BY <2>2, <2>5, <3>2
    <3>. QED  BY <2>1, <3>1, <3>2
  <2>. QED  BY <2>7, <2>8, <2>9, <2>10
<1>3. S = Nat
  <2> HIDE DEF S
  <2>1. S \in SUBSET Nat
    BY DEF S
  <2>. QED  BY <1>1, <1>2, <2>1, Induction
<1>4. k \in S
  BY <1>3
<1>5. PICK f \in [0 .. k -> X] : Solves(f, k)
  BY <1>4
<1>6. IsSolution(f, k, X, Y, b, step)
  BY <1>5 DEF IsSolution
<1>. QED  BY <1>6

\* The same, with what a solution is.
LEMMA Recursion ==
  ASSUME NEW k, NEW X, NEW Y, NEW b, NEW step, StaysWithin(k, X, Y, b, step)
  PROVE  \E f \in [0 .. k -> X] :
           /\ f[0] = b /\ \A n \in 1 .. k : f[n] = step[<<f[n - 1], n>>]
           /\ \A n \in 0 .. k : f[n] \in Y[n]
<1>1. PICK f : IsSolution(f, k, X, Y, b, step)
  BY RecursionSolved
<1>2. /\ f \in [0 .. k -> X]
      /\ f[0] = b /\ \A n \in 1 .. k : f[n] = step[<<f[n - 1], n>>]
      /\ \A n \in 0 .. k : f[n] \in Y[n]
  BY <1>1 DEF IsSolution
<1>. QED  BY <1>2

\* The sums of the first of some numbers.
LEMMA Sums ==
  ASSUME NEW k \in Nat, NEW size \in [1 .. k -> Nat]
  PROVE  \E f \in [0 .. k -> Nat] : f[0] = 0 /\ \A n \in 1 .. k : f[n] = f[n - 1] + size[n]
<1> DEFINE step == [p \in Nat \X (1 .. k) |-> p[1] + size[p[2]]]
           X == Nat
           Y == [n \in 0 .. k |-> Nat]
           b == 0
<1>1. \A x \in Nat : \A n \in 1 .. k : step[<<x, n>>] = x + size[n]
  OBVIOUS
<1> HIDE DEF step
<1>2. StaysWithin(k, X, Y, b, step)
  BY <1>1 DEF StaysWithin
<1> HIDE DEF X, Y, b
<1>3. PICK f : IsSolution(f, k, X, Y, b, step)
  BY <1>2, RecursionSolved
<1>4. f \in [0 .. k -> Nat] /\ f[0] = 0 /\ \A n \in 1 .. k : f[n] = step[<<f[n - 1], n>>]
  BY <1>3 DEF IsSolution, X, b
<1>5. \A n \in 1 .. k : f[n - 1] \in Nat
  BY <1>4
<1>. QED  BY <1>1, <1>4, <1>5
=============================================================================

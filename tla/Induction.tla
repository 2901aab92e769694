------------------------------- MODULE Induction -------------------------------
(***************************************************************************)
(* Induction on the natural numbers and definition by iteration, stated of *)
(* sets and functions: what the proofs about recursive functions rest on.  *)
(***************************************************************************)
EXTENDS Integers, WellFoundedInduction, TLAPS

\* A set of natural numbers that has 0 and with any number the next has all.
LEMMA SetInduction ==
    ASSUME NEW T \in SUBSET Nat, 0 \in T, \A n \in T : n + 1 \in T
    PROVE  T = Nat
<1>. SUFFICES ASSUME Nat \ T # {}  PROVE FALSE
  OBVIOUS
<1>1. PICK x \in Nat \ T : \A y \in Nat \ T : <<y, x>> \notin OpToRel(<, Nat)
  <2>. DEFINE R == OpToRel(<, Nat)
  <2>1. IsWellFoundedOn(R, Nat)
    BY NatLessThanWellFounded
  <2>. HIDE DEF R
  <2>2. \E x \in Nat \ T : \A y \in Nat \ T : ~ (<<y, x>> \in R)
    BY <2>1, WFMin
  <2>. QED  BY <2>2 DEF R
<1>2. x # 0 /\ x - 1 \in Nat /\ x - 1 < x
  OBVIOUS
<1>3. x - 1 \notin T
  BY <1>2
<1>4. <<x - 1, x>> \in OpToRel(<, Nat)
  BY <1>2 DEF OpToRel
<1>. QED  BY <1>1, <1>2, <1>3, <1>4

\* What a step of a set into itself makes of its start in N repetitions.
Iterates(f, S, start, step, N) ==
    /\ f \in [0 .. N -> S]
    /\ f[0] = start
    /\ \A k \in 1 .. N : f[k] = step[f[k - 1]]

\* A step can be repeated any number of times.
LEMMA Iteration ==
    ASSUME NEW S, NEW start \in S, NEW step \in [S -> S], NEW N \in Nat
    PROVE  \E f : Iterates(f, S, start, step, N)
<1>. DEFINE T == {n \in Nat : \E f \in [0 .. n -> S] :
              f[0] = start /\ \A k \in 1 .. n : f[k] = step[f[k - 1]]}
<1>1. 0 \in T
  <2>. DEFINE f == [k \in 0 .. 0 |-> start]
  <2>1. f \in [0 .. 0 -> S] /\ f[0] = start
    OBVIOUS
  <2>2. 1 .. 0 = {}
    OBVIOUS
  <2>. QED  BY <2>1, <2>2
<1>2. ASSUME NEW n \in T  PROVE n + 1 \in T
  <2>1. PICK f \in [0 .. n -> S] :
            f[0] = start /\ \A k \in 1 .. n : f[k] = step[f[k - 1]]
    OBVIOUS
  <2>. DEFINE g == [k \in 0 .. n + 1 |-> IF k = n + 1 THEN step[f[n]] ELSE f[k]]
  <2>2. n \in Nat /\ n \in 0 .. n /\ 0 \in 0 .. n
    OBVIOUS
  <2>3. g \in [0 .. n + 1 -> S]
    BY <2>1, <2>2
  <2>4. g[0] = start
    BY <2>1, <2>2
  <2>5. ASSUME NEW k \in 1 .. n + 1  PROVE g[k] = step[g[k - 1]]
    <3>1. k - 1 \in 0 .. n /\ k - 1 # n + 1 /\ g[k - 1] = f[k - 1]
      BY <2>2
    <3>2. CASE k = n + 1
      BY <2>2, <3>1, <3>2
    <3>3. CASE k # n + 1
      <4>1. k \in 1 .. n /\ g[k] = f[k]
        BY <2>2, <3>3
      <4>. QED  BY <2>1, <3>1, <4>1
    <3>. QED  BY <3>2, <3>3
  <2>. HIDE DEF g
  <2>6. \E h \in [0 .. n + 1 -> S] :
            h[0] = start /\ \A k \in 1 .. n + 1 : h[k] = step[h[k - 1]]
    BY <2>3, <2>4, <2>5
  <2>. QED  BY <2>2, <2>6
<1>3. T \in SUBSET Nat
  OBVIOUS
<1>. HIDE DEF T
<1>4. T = Nat
  BY <1>1, <1>2, <1>3, SetInduction
<1>. QED  BY <1>4 DEF T, Iterates

-----------------------------------------------------------------------------
(***************************************************************************)
(* Recursive functions over data that nests.  L[d] is what nests at most d *)
(* deep, and what F makes of x depends on its values below x only.  V[d]   *)
(* is where the values for L[d] are.                                       *)
(***************************************************************************)
Levels(X, N, L) ==
    /\ L \in [0 .. N -> SUBSET X] /\ L[0] = {} /\ L[N] = X
    /\ \A d \in 1 .. N : L[d - 1] \subseteq L[d]
Recursion(X, W, N, L, V, F) ==
    /\ N \in Nat /\ W # {}
    /\ Levels(X, N, L)
    /\ V \in [0 .. N -> SUBSET W]
    /\ \A d \in 1 .. N : \A x \in L[d] : \A g, h \in [X -> W] :
          (\A y \in L[d - 1] : g[y] = h[y]) => F[<<x, g>>] = F[<<x, h>>]
    /\ \A d \in 1 .. N : \A x \in L[d] : \A g \in [X -> W] :
          (\A y \in L[d - 1] : g[y] \in V[d - 1]) => F[<<x, g>>] \in V[d]
SolvedTo(n, f, X, L, V, F) ==
    /\ \A x \in L[n] : f[x] = F[<<x, f>>]
    /\ \A d \in 0 .. n : \A x \in L[d] : f[x] \in V[d]
Solution(f, X, W, N, L, V, F) ==
    /\ f \in [X -> W]
    /\ f = [x \in X |-> F[<<x, f>>]]
    /\ \A d \in 0 .. N : \A x \in L[d] : f[x] \in V[d]

\* The levels rise.
LEMMA LevelsRise ==
    ASSUME NEW N \in Nat, NEW L, \A d \in 1 .. N : L[d - 1] \subseteq L[d],
           NEW d \in 0 .. N, NEW e \in d .. N
    PROVE  L[d] \subseteq L[e]
<1>. DEFINE U == {m \in Nat : d + m \in d .. N => L[d] \subseteq L[d + m]}
<1>1. 0 \in U
  OBVIOUS
<1>2. ASSUME NEW m \in U  PROVE m + 1 \in U
  <2>1. CASE d + (m + 1) \in d .. N
    <3>1. d + m \in d .. N /\ d + (m + 1) \in 1 .. N /\ d + (m + 1) - 1 = d + m
      BY <2>1
    <3>2. L[d + m] \subseteq L[d + (m + 1)]
      BY <3>1
    <3>. QED  BY <3>1, <3>2
  <2>2. CASE ~(d + (m + 1) \in d .. N)
    BY <2>2
  <2>. QED  BY <2>1, <2>2
<1>3. U \subseteq Nat
  OBVIOUS
<1>. HIDE DEF U
<1>4. U = Nat
  BY <1>1, <1>2, <1>3, SetInduction
<1>5. e - d \in U /\ e = d + (e - d)
  BY <1>4
<1>. QED  BY <1>5 DEF U

\* Sets that rise from nothing are the levels of the last of them.
LEMMA LevelsOf ==
    ASSUME NEW N \in Nat, NEW L, L = [d \in 0 .. N |-> L[d]], L[0] = {},
           \A d \in 1 .. N : L[d - 1] \subseteq L[d]
    PROVE  Levels(L[N], N, L)
<1>1. ASSUME NEW d \in 0 .. N  PROVE L[d] \subseteq L[N]
  <2>1. N \in d .. N
    OBVIOUS
  <2>. QED  BY <2>1, LevelsRise
<1>2. L \in [0 .. N -> SUBSET L[N]]
  BY <1>1
<1>. QED  BY <1>2 DEF Levels

\* What holds of a level as soon as it holds of the level below holds of all.
LEMMA LevelInduction ==
    ASSUME NEW X, NEW N \in Nat, NEW L, Levels(X, N, L), NEW P,
           \A d \in 1 .. N : L[d - 1] \subseteq P => L[d] \subseteq P
    PROVE  X \subseteq P
<1>. DEFINE T == {n \in Nat : n \in 0 .. N => L[n] \subseteq P}
<1>1. 0 \in T
  BY DEF Levels
<1>2. ASSUME NEW n \in T  PROVE n + 1 \in T
  <2>1. CASE n + 1 \in 0 .. N
    <3>1. n + 1 \in 1 .. N /\ n + 1 - 1 = n /\ n \in 0 .. N
      BY <2>1
    <3>2. L[n] \subseteq P
      BY <3>1
    <3>. QED  BY <3>1, <3>2
  <2>2. CASE n + 1 \notin 0 .. N
    BY <2>2
  <2>. QED  BY <2>1, <2>2
<1>3. T \subseteq Nat
  OBVIOUS
<1>. HIDE DEF T
<1>4. T = Nat
  BY <1>1, <1>2, <1>3, SetInduction
<1>. QED  BY <1>4 DEF T, Levels

\* Such a function exists.
LEMMA LevelRecursion ==
    ASSUME NEW X, NEW W, NEW N, NEW L, NEW V, NEW F,
           Recursion(X, W, N, L, V, F)
    PROVE  \E f : Solution(f, X, W, N, L, V, F)
<1>0. /\ N \in Nat /\ W # {} /\ Levels(X, N, L) /\ V \in [0 .. N -> SUBSET W]
      /\ \A d \in 1 .. N : \A x \in L[d] : \A g, h \in [X -> W] :
            (\A y \in L[d - 1] : g[y] = h[y]) => F[<<x, g>>] = F[<<x, h>>]
      /\ \A d \in 1 .. N : \A x \in L[d] : \A g \in [X -> W] :
            (\A y \in L[d - 1] : g[y] \in V[d - 1]) => F[<<x, g>>] \in V[d]
  BY DEF Recursion
<1>. USE <1>0
<1>. PICK w \in W : TRUE
  OBVIOUS
<1>. DEFINE T == {n \in Nat : n \in 0 .. N =>
                      \E f \in [X -> W] : SolvedTo(n, f, X, L, V, F)}
<1>1. 0 \in T
  <2>. DEFINE f == [x \in X |-> w]
  <2>1. f \in [X -> W] /\ L[0] = {}
    BY DEF Levels
  <2>2. SolvedTo(0, f, X, L, V, F)
    BY <2>1 DEF SolvedTo
  <2>. QED  BY <2>1, <2>2
<1>2. ASSUME NEW n \in T, n + 1 \in 0 .. N
      PROVE  \E f \in [X -> W] : SolvedTo(n + 1, f, X, L, V, F)
  <2>1. n \in Nat /\ n \in 0 .. N /\ n + 1 \in 1 .. N /\ n + 1 - 1 = n
    BY <1>2
  <2>2. PICK f \in [X -> W] : SolvedTo(n, f, X, L, V, F)
    BY <2>1
  <2>. DEFINE g == [x \in X |-> IF x \in L[n] THEN f[x]
                                ELSE IF x \in L[n + 1] THEN F[<<x, f>>] ELSE w]
  <2>3. L[n] \subseteq L[n + 1] /\ L[n + 1] \subseteq X
    BY <2>1 DEF Levels
  <2>4. \A d \in 0 .. n : \A x \in L[d] : f[x] \in V[d]
    BY <2>2 DEF SolvedTo
  <2>5. \A x \in L[n] : f[x] \in V[n]
    BY <2>1, <2>4
  <2>6. \A x \in L[n + 1] : F[<<x, f>>] \in V[n + 1]
    BY <2>1, <2>2, <2>5
  <2>7. V[n + 1] \subseteq W
    BY <2>1
  <2>8. g \in [X -> W]
    BY <2>2, <2>6, <2>7
  <2>9. \A x \in L[n] : f[x] = F[<<x, f>>]
    BY <2>2 DEF SolvedTo
  <2>10. \A x \in L[n + 1] : g[x] = F[<<x, f>>]
    BY <2>3, <2>9
  <2>11. \A x \in L[n] : g[x] = f[x]
    BY <2>3
  <2>. HIDE DEF g
  <2>12. \A x \in L[n + 1] : F[<<x, f>>] = F[<<x, g>>]
    BY <2>1, <2>2, <2>8, <2>11
  <2>13. ASSUME NEW d \in 0 .. n + 1, NEW x \in L[d]  PROVE g[x] \in V[d]
    <3>1. CASE d = n + 1
      BY <2>6, <2>10, <3>1
    <3>2. CASE d # n + 1
      <4>1. d \in 0 .. n
        BY <2>1, <3>2
      <4>2. f[x] \in V[d]
        BY <2>4, <4>1
      <4>3. x \in L[n]
        <5>1. \A k \in 1 .. N : L[k - 1] \subseteq L[k]
          BY DEF Levels
        <5>2. d \in 0 .. N /\ n \in d .. N
          BY <2>1, <4>1
        <5>3. L[d] \subseteq L[n]
          BY <5>1, <5>2, LevelsRise
        <5>. QED  BY <5>3
      <4>. QED  BY <2>11, <4>2, <4>3
    <3>. QED  BY <3>1, <3>2
  <2>14. SolvedTo(n + 1, g, X, L, V, F)
    BY <2>10, <2>12, <2>13 DEF SolvedTo
  <2>. QED  BY <2>8, <2>14
<1>3. T = Nat
  <2>1. T \in SUBSET Nat
    OBVIOUS
  <2>2. \A n \in T : n + 1 \in T
    BY <1>2
  <2>. HIDE DEF T
  <2>. QED  BY <1>1, <2>1, <2>2, SetInduction
<1>4. PICK f \in [X -> W] : SolvedTo(N, f, X, L, V, F)
  <2>1. N \in 0 .. N
    OBVIOUS
  <2>2. N \in T
    BY <1>3, Zenon
  <2>. QED  BY <2>1, <2>2, Zenon
<1>5. f = [x \in X |-> F[<<x, f>>]]
  BY <1>4 DEF SolvedTo, Levels
<1>6. \A d \in 0 .. N : \A x \in L[d] : f[x] \in V[d]
  BY <1>4 DEF SolvedTo
<1>7. Solution(f, X, W, N, L, V, F)
  BY <1>4, <1>5, <1>6 DEF Solution
<1>. WITNESS f
<1>. QED  BY <1>7
================================================================================

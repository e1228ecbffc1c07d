-------------------------- MODULE IterationProofs --------------------------
(***************************************************************************)
(* What can be said of a loop: the recursive function behind Iterate       *)
(* exists, and what its step keeps holds in the end.                       *)
(***************************************************************************)
EXTENDS Iteration, WellFoundedInduction, TLAPS

\* Induction, over a set instead of a predicate: a set of numbers with no least
\* one missing is all of them.
LEMMA NatSet ==
  ASSUME NEW S, 0 \in S, \A n \in Nat : n \in S => n + 1 \in S
  PROVE  \A n \in Nat : n \in S
<1> DEFINE T == {n \in Nat : n \notin S}
<1> DEFINE R == OpToRel(<, Nat)
<1>1. SUFFICES ASSUME T # {} PROVE FALSE
  OBVIOUS
<1>2. IsWellFoundedOn(R, Nat)
  BY NatLessThanWellFounded
<1>3. R = {ss \in Nat \X Nat : ss[1] < ss[2]}
  BY DEF OpToRel
<1>4. T \subseteq Nat
  OBVIOUS
<1>5. PICK x \in T : \A y \in T : <<y, x>> \notin R
  <2> HIDE DEF T, R
  <2> QED BY <1>1, <1>2, <1>4, WFMin
<1>6. x \in Nat /\ x \notin S
  OBVIOUS
<1>7. x # 0
  BY <1>6
<1>8. x - 1 \in Nat /\ x - 1 < x /\ (x - 1) + 1 = x
  BY <1>6, <1>7
<1>9. x - 1 \notin T
  <2>1. <<x - 1, x>> \in R
    <3> HIDE DEF T, R
    <3> QED BY <1>3, <1>6, <1>8
  <2> QED BY <1>5, <2>1
<1>10. x - 1 \in S
  BY <1>8, <1>9
<1>11. (x - 1) + 1 \in S
  BY <1>8, <1>10
<1> QED
  BY <1>6, <1>8, <1>11

\* h holds the first n iterates.
Starts(f, x, n, h) ==
    /\ DOMAIN h = 0 .. n
    /\ h[0] = x
    /\ \A i \in 1 .. n : h[i] = f[h[i - 1]]

\* Two such functions agree where both are defined.
LEMMA StartsUnique ==
    ASSUME NEW f, NEW x, NEW n \in Nat, NEW m \in Nat, NEW h, NEW j,
           Starts(f, x, n, h), Starts(f, x, m, j)
    PROVE  \A i \in 0 .. n : i <= m => h[i] = j[i]
<1> DEFINE S == {i \in Nat : i <= n /\ i <= m => h[i] = j[i]}
<1>1. 0 \in S
  BY DEF Starts
<1>2. \A i \in Nat : i \in S => i + 1 \in S
  BY DEF Starts
<1>3. \A i \in Nat : i \in S
  <2> HIDE DEF S
  <2> QED BY <1>1, <1>2, NatSet
<1> QED BY <1>3

\* There is one for every n.
LEMMA StartsExists ==
    ASSUME NEW f, NEW x
    PROVE  \A n \in Nat : \E h : Starts(f, x, n, h)
<1> DEFINE S == {n \in Nat : \E h : Starts(f, x, n, h)}
<1>1. 0 \in S
  <2> DEFINE h == [i \in 0 .. 0 |-> x]
  <2>1. Starts(f, x, 0, h)
    BY DEF Starts
  <2> QED BY <2>1
<1>2. \A n \in Nat : n \in S => n + 1 \in S
  <2> SUFFICES ASSUME NEW n \in Nat, NEW h, Starts(f, x, n, h)
               PROVE  \E j : Starts(f, x, n + 1, j)
    OBVIOUS
  <2> DEFINE j == [i \in 0 .. n + 1 |-> IF i = n + 1 THEN f[h[n]] ELSE h[i]]
  <2>1. Starts(f, x, n + 1, j)
    BY DEF Starts
  <2> QED BY <2>1
<1>3. \A n \in Nat : n \in S
  <2> HIDE DEF S
  <2> QED BY <1>1, <1>2, NatSet
<1> QED BY <1>3

\* What Iterate is: nothing done, and one step more.
LEMMA IterateSteps ==
    ASSUME NEW f, NEW x
    PROVE  /\ Iterate(f, x, 0) = x
           /\ \A k \in Nat : Iterate(f, x, k + 1) = f[Iterate(f, x, k)]
<1> DEFINE H(n) == CHOOSE h : Starts(f, x, n, h)
           G == [i \in Nat |-> H(i)[i]]
           Is(g) == g = [i \in Nat |-> IF i = 0 THEN x ELSE f[g[i - 1]]]
           g0 == CHOOSE g : Is(g)
<1>1. \A n \in Nat : Starts(f, x, n, H(n))
  BY StartsExists
<1> HIDE DEF H
<1>2. G[0] = x
  BY <1>1 DEF Starts
<1>3. ASSUME NEW i \in Nat \ {0} PROVE G[i] = f[G[i - 1]]
  <2>1. i - 1 \in Nat /\ i \in Nat /\ i \in 1 .. i /\ i - 1 \in 0 .. i - 1 /\ i - 1 <= i
    OBVIOUS
  <2>2. H(i)[i] = f[H(i)[i - 1]]
    BY <1>1, <2>1 DEF Starts
  <2>3. H(i - 1)[i - 1] = H(i)[i - 1]
    BY <1>1, <2>1, StartsUnique
  <2> QED BY <2>1, <2>2, <2>3
<1>4. Is(G)
  <2>1. \A i \in Nat : G[i] = IF i = 0 THEN x ELSE f[G[i - 1]]
    BY <1>2, <1>3
  <2> QED BY <2>1
<1>5. Is(g0)
  <2> HIDE DEF Is, G
  <2> QED BY <1>4
<1>6. \A k : Iterate(f, x, k) = g0[k]
  <2> QED BY DEF Iterate
<1>7. \A i \in Nat : g0[i] = IF i = 0 THEN x ELSE f[g0[i - 1]]
  <2> HIDE DEF g0
  <2> QED BY <1>5
<1> HIDE DEF g0
<1>8. g0[0] = x
  BY <1>7
<1>9. ASSUME NEW k \in Nat PROVE g0[k + 1] = f[g0[k]]
  <2>1. k + 1 \in Nat /\ k + 1 # 0 /\ (k + 1) - 1 = k
    OBVIOUS
  <2> QED BY <1>7, <2>1
<1> QED BY <1>6, <1>8, <1>9

\* What the step keeps, the iterates have.
LEMMA IterateKeeps ==
    ASSUME NEW f, NEW S, NEW x \in S, \A y \in S : f[y] \in S
    PROVE  \A k \in Nat : Iterate(f, x, k) \in S
<1> DEFINE T == {k \in Nat : Iterate(f, x, k) \in S}
<1>1. 0 \in T
  BY IterateSteps
<1>2. ASSUME NEW k \in Nat, Iterate(f, x, k) \in S PROVE Iterate(f, x, k + 1) \in S
  <2>1. Iterate(f, x, k + 1) = f[Iterate(f, x, k)]
    BY IterateSteps
  <2> QED BY <1>2, <2>1
<1>3. \A k \in Nat : k \in T => k + 1 \in T
  BY <1>2
<1>4. \A k \in Nat : k \in T
  <2> HIDE DEF T
  <2> QED BY <1>1, <1>3, NatSet
<1> QED BY <1>4

\* The rule for loops.  R pairs what the loop works on with a bound of the steps
\* it has left: a step takes one off, and with none left changes nothing that
\* matters.  Once there were steps enough, none is left.
LEMMA LoopRule ==
    ASSUME NEW f, NEW R, NEW x, NEW n \in Nat, <<n, x>> \in R,
           \A y : <<0, y>> \in R => <<0, f[y]>> \in R,
           \A i \in Nat : \A y : <<i + 1, y>> \in R => <<i, f[y]>> \in R
    PROVE  /\ \A k \in Nat : k <= n => <<n - k, Iterate(f, x, k)>> \in R
           /\ \A k \in Nat : n <= k => <<0, Iterate(f, x, k)>> \in R
<1> DEFINE left(k) == IF k <= n THEN n - k ELSE 0
           T == {k \in Nat : <<left(k), Iterate(f, x, k)>> \in R}
<1>1. 0 \in T
  <2>1. left(0) = n
    OBVIOUS
  <2> QED BY <2>1, IterateSteps
<1>2. ASSUME NEW k \in Nat, <<left(k), Iterate(f, x, k)>> \in R
      PROVE  <<left(k + 1), Iterate(f, x, k + 1)>> \in R
  <2> DEFINE y == Iterate(f, x, k)
  <2>1. Iterate(f, x, k + 1) = f[y]
    BY IterateSteps
  <2>2. CASE k + 1 <= n
    <3>1. left(k + 1) \in Nat /\ left(k) = left(k + 1) + 1
      BY <2>2
    <3> HIDE DEF left, y
    <3>2. <<left(k + 1) + 1, y>> \in R
      BY <1>2, <3>1 DEF y
    <3> QED BY <2>1, <3>1, <3>2
  <2>3. CASE ~(k + 1 <= n)
    <3>1. left(k + 1) = 0 /\ left(k) = 0
      BY <2>3
    <3> HIDE DEF left, y
    <3>2. <<0, y>> \in R
      BY <1>2, <3>1 DEF y
    <3> QED BY <2>1, <3>1, <3>2
  <2> QED BY <2>2, <2>3
<1>3. \A k \in Nat : k \in T => k + 1 \in T
  <2> SUFFICES ASSUME NEW k \in Nat, k \in T PROVE k + 1 \in T
    OBVIOUS
  <2>1. <<left(k), Iterate(f, x, k)>> \in R
    <3> HIDE DEF left
    <3> QED OBVIOUS
  <2>2. <<left(k + 1), Iterate(f, x, k + 1)>> \in R
    <3> HIDE DEF left
    <3> QED BY <1>2, <2>1
  <2> HIDE DEF left
  <2> QED BY <2>2
<1>4. \A k \in Nat : k \in T
  <2> HIDE DEF T
  <2> QED BY <1>1, <1>3, NatSet
<1>5. ASSUME NEW k \in Nat, k <= n PROVE <<n - k, Iterate(f, x, k)>> \in R
  <2>1. left(k) = n - k
    BY <1>5
  <2> HIDE DEF left
  <2> QED BY <1>4, <2>1
<1>6. ASSUME NEW k \in Nat, n <= k PROVE <<0, Iterate(f, x, k)>> \in R
  <2>1. left(k) = 0
    BY <1>6
  <2> HIDE DEF left
  <2> QED BY <1>4, <2>1
<1> QED BY <1>5, <1>6

\* A path along the links is what the loop over them visits.
LEMMA IteratePath ==
    ASSUME NEW link, NEW n \in Nat, NEW p, \A i \in 0 .. n - 1 : p[i + 1] = link[p[i]]
    PROVE  \A i \in 0 .. n : Iterate(link, p[0], i) = p[i]
<1> DEFINE T == {i \in Nat : i <= n => Iterate(link, p[0], i) = p[i]}
<1>1. 0 \in T
  BY IterateSteps
<1>2. ASSUME NEW i \in Nat, i <= n => Iterate(link, p[0], i) = p[i], i + 1 <= n
      PROVE  Iterate(link, p[0], i + 1) = p[i + 1]
  <2>1. Iterate(link, p[0], i + 1) = link[Iterate(link, p[0], i)]
    <3>1. PICK x : x = p[0]
      OBVIOUS
    <3>2. Iterate(link, x, i + 1) = link[Iterate(link, x, i)]
      BY ONLY i \in Nat, IterateSteps
    <3> QED BY <3>1, <3>2
  <2>2. i \in 0 .. n - 1 /\ i <= n
    BY <1>2
  <2> QED BY <1>2, <2>1, <2>2
<1>3. \A i \in Nat : i \in T => i + 1 \in T
  BY <1>2
<1>4. \A i \in Nat : i \in T
  <2> HIDE DEF T
  <2> QED BY <1>1, <1>3, NatSet
<1> QED BY <1>4

\* i + k turns are k turns from where i turns lead.
LEMMA IteratePlus ==
    ASSUME NEW f, NEW x, NEW i \in Nat
    PROVE  \A k \in Nat : Iterate(f, x, i + k) = Iterate(f, Iterate(f, x, i), k)
<1> PICK y : y = Iterate(f, x, i)
  OBVIOUS
<1> DEFINE T == {k \in Nat : Iterate(f, x, i + k) = Iterate(f, y, k)}
<1>1. 0 \in T
  <2>1. i + 0 = i
    OBVIOUS
  <2> QED BY <2>1, IterateSteps
<1>2. ASSUME NEW k \in Nat, Iterate(f, x, i + k) = Iterate(f, y, k)
      PROVE  Iterate(f, x, i + (k + 1)) = Iterate(f, y, k + 1)
  <2>1. i + (k + 1) = (i + k) + 1 /\ i + k \in Nat
    OBVIOUS
  <2>2. Iterate(f, x, (i + k) + 1) = f[Iterate(f, x, i + k)]
    BY <2>1, IterateSteps
  <2>3. Iterate(f, y, k + 1) = f[Iterate(f, y, k)]
    <3>1. k \in Nat
      OBVIOUS
    <3> QED BY ONLY <3>1, IterateSteps
  <2> QED BY <1>2, <2>1, <2>2, <2>3
<1>3. \A k \in Nat : k \in T => k + 1 \in T
  BY <1>2
<1>4. \A k \in Nat : k \in T
  <2> HIDE DEF T
  <2> QED BY <1>1, <1>3, NatSet
<1> QED BY <1>4

\* A loop that stands still goes on standing still.
LEMMA IterateStops ==
    ASSUME NEW f, NEW x, NEW n \in Nat, f[Iterate(f, x, n)] = Iterate(f, x, n),
           NEW k \in Nat, n <= k
    PROVE  Iterate(f, x, k) = Iterate(f, x, n)
<1>1. PICK y : y = Iterate(f, x, n)
  OBVIOUS
<1>2. \A j \in Nat : Iterate(f, y, j) \in {y}
  <2>1. \A z \in {y} : f[z] \in {y}
    BY <1>1
  <2> QED BY <2>1, IterateKeeps
<1>3. PICK j \in Nat : j = k - n
  OBVIOUS
<1>4. k = n + j
  BY <1>3
<1>5. Iterate(f, x, n + j) = Iterate(f, Iterate(f, x, n), j)
  BY IteratePlus
<1> QED BY <1>1, <1>2, <1>4, <1>5
===========================================================================

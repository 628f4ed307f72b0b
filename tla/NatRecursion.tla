----------------------------- MODULE NatRecursion -----------------------------
(***************************************************************************)
(* Induction over the naturals as a fact about sets, and functions defined *)
(* by what they are at 0 and how each value follows from one before it.    *)
(* The library states both for an operator of the reader's choice, which   *)
(* the provers cannot put in.                                              *)
(***************************************************************************)
EXTENDS PowersOfTwo, WellFoundedInduction, TLAPS

\* A set that has a natural when it has all those below has them all.
LEMMA StrongInduction ==
    ASSUME NEW X, \A n \in Nat : (\A m \in 0..n-1 : m \in X) => n \in X
    PROVE  Nat \subseteq X
<1> DEFINE R == {ss \in Nat \X Nat : ss[1] < ss[2]}
<1>1. IsWellFoundedOn(R, Nat)
  BY NatLessThanWellFounded DEF OpToRel
<1> SUFFICES ASSUME Nat \ X # {} PROVE FALSE
  OBVIOUS
<1>2. PICK x \in Nat \ X : \A y \in Nat \ X : <<y, x>> \notin R
  <2> HIDE DEF R
  <2> QED BY <1>1, WFMin
<1>3. ASSUME NEW m \in 0..x-1 PROVE m \in X
  <2>1. m \in Nat /\ x \in Nat /\ m < x
    BY <1>2
  <2>2. <<m, x>> \in R
    BY <2>1
  <2> QED
    BY <1>2, <2>1, <2>2
<1> QED
  BY <1>2, <1>3

\* A set of naturals with 0 that is closed under successor has them all.
LEMMA Induction ==
    ASSUME NEW X, 0 \in X, \A n \in Nat : n \in X => n + 1 \in X
    PROVE  Nat \subseteq X
<1>1. ASSUME NEW n \in Nat, \A m \in 0..n-1 : m \in X PROVE n \in X
  <2>1. CASE n = 0
    BY <2>1
  <2>2. CASE n # 0
    <3>1. n - 1 \in Nat /\ n - 1 \in 0..n-1 /\ (n - 1) + 1 = n
      BY <2>2
    <3> QED
      BY <1>1, <3>1
  <2> QED
    BY <2>1, <2>2
<1> QED
  BY <1>1, StrongInduction

\* A set of naturals has a least element.
LEMMA LeastElement ==
    ASSUME NEW S, S \subseteq Nat, S # {}
    PROVE  \E g \in S : \A y \in S : g <= y
<1> DEFINE R == {ss \in Nat \X Nat : ss[1] < ss[2]}
<1>1. IsWellFoundedOn(R, Nat)
  BY NatLessThanWellFounded DEF OpToRel
<1>2. \A x, y \in Nat : <<y, x>> \notin R => x <= y
  OBVIOUS
<1> HIDE DEF R
<1>3. PICK g \in S : \A y \in S : <<y, g>> \notin R
  BY <1>1, WFMin
<1> QED
  BY <1>2, <1>3

-----------------------------------------------------------------------------
\* The functions on 0..n that go from each value to the next by "step".
Follows(g, n, first, step, prev) ==
    \A k \in 0..n : g[k] = IF k = 0 THEN first ELSE step[k][g[prev[k]]]

GoesBack(prev) == prev \in [Nat -> Nat] /\ \A k \in Nat \ {0} : prev[k] < k

Recursive(f, first, step, prev) ==
    /\ f \in [Nat -> Nat]
    /\ \A k \in Nat : f[k] = IF k = 0 THEN first ELSE step[k][f[prev[k]]]

\* A function on the naturals may be defined by what it is at 0 and how each
\* later value follows from one before it.
LEMMA Recursion ==
    ASSUME NEW first \in Nat, NEW step \in [Nat -> [Nat -> Nat]], NEW prev, GoesBack(prev)
    PROVE  \E f : Recursive(f, first, step, prev)
<1> DEFINE Sol(n) == {g \in [0..n -> Nat] : Follows(g, n, first, step, prev)}
           X == {n \in Nat : Sol(n) # {}}
           Y == {k \in Nat : \A n, m \in Nat : \A g \in Sol(n), h \in Sol(m) :
                                k <= n /\ k <= m => g[k] = h[k]}
<1>1. \A k \in Nat : k # 0 => prev[k] \in Nat /\ prev[k] < k
  BY DEF GoesBack
<1>2. \A k, v \in Nat : step[k][v] \in Nat
  OBVIOUS
<1>3. 0 \in X
  <2> DEFINE g == [k \in 0..0 |-> first]
  <2>1. g \in Sol(0)
    BY DEF Follows
  <2> QED
    BY <2>1
<1>4. ASSUME NEW n \in Nat, n \in X PROVE n + 1 \in X
  <2>1. PICK g \in [0..n -> Nat] : Follows(g, n, first, step, prev)
    BY <1>4
  <2> DEFINE v == step[n + 1][g[prev[n + 1]]]
             h == [k \in 0..n+1 |-> IF k = n + 1 THEN v ELSE g[k]]
  <2>2. prev[n + 1] \in 0..n /\ n + 1 \in Nat /\ n + 1 # 0
    <3>1. n + 1 \in Nat /\ n + 1 # 0
      OBVIOUS
    <3>2. prev[n + 1] \in Nat /\ prev[n + 1] < n + 1
      BY <1>1, <3>1
    <3>3. \A j \in Nat : j < n + 1 => j \in 0..n
      OBVIOUS
    <3> QED
      BY <3>1, <3>2, <3>3
  <2>3. v \in Nat
    BY <1>2, <2>1, <2>2
  <2>4. h[n + 1] = v
    OBVIOUS
  <2>5. \A k \in 0..n : h[k] = g[k] /\ k # n + 1
    OBVIOUS
  <2>6. h \in [0..n+1 -> Nat]
    <3> HIDE DEF v
    <3>1. ASSUME NEW k \in 0..n+1 PROVE (IF k = n + 1 THEN v ELSE g[k]) \in Nat
      <4>1. CASE k = n + 1
        BY <2>3, <4>1
      <4>2. CASE k # n + 1
        <5>1. k \in 0..n
          BY <4>2
        <5>2. g[k] \in Nat
          BY <2>1, <5>1
        <5> QED
          BY <4>2, <5>2
      <4> QED
        BY <4>1, <4>2
    <3> QED
      BY <3>1
  <2> HIDE DEF h, X, Y, Sol
  <2>7. ASSUME NEW k \in 0..n+1
        PROVE  h[k] = IF k = 0 THEN first ELSE step[k][h[prev[k]]]
    <3>1. CASE k = n + 1
      BY <2>2, <2>4, <2>5, <3>1
    <3>2. CASE k \in 0..n
      <4>1. g[k] = IF k = 0 THEN first ELSE step[k][g[prev[k]]]
        BY <2>1, <3>2 DEF Follows
      <4>2. k # 0 => prev[k] \in 0..n
        <5>0. k \in Nat
          BY <3>2
        <5>1. k # 0 => prev[k] \in Nat /\ prev[k] < k
          BY <1>1, <5>0
        <5>2. \A j \in Nat : j < k => j \in 0..n
          BY <3>2
        <5> QED
          BY <5>1, <5>2
      <4> QED
        BY <2>5, <3>2, <4>1, <4>2
    <3> QED
      BY <3>1, <3>2
  <2>8. h \in Sol(n + 1)
    BY <2>6, <2>7 DEF Follows, Sol
  <2> QED
    BY <2>2, <2>8 DEF X
<1>5. Nat \subseteq X
  <2> HIDE DEF X
  <2> QED
    BY <1>3, <1>4, Induction
<1>6. ASSUME NEW k \in Nat, \A j \in 0..k-1 : j \in Y PROVE k \in Y
  <2> SUFFICES ASSUME NEW n \in Nat, NEW m \in Nat, NEW g \in Sol(n), NEW h \in Sol(m),
                      k <= n, k <= m
               PROVE  g[k] = h[k]
    OBVIOUS
  <2>1. Follows(g, n, first, step, prev) /\ Follows(h, m, first, step, prev)
    OBVIOUS
  <2>2. k \in 0..n /\ k \in 0..m
    OBVIOUS
  <2>3. k # 0 => g[prev[k]] = h[prev[k]]
    <3> SUFFICES ASSUME k # 0 PROVE g[prev[k]] = h[prev[k]]
      OBVIOUS
    <3> HIDE DEF Sol, X, Y
    <3>a. prev[k] \in Nat /\ prev[k] < k
      BY <1>1
    <3>b. \A j \in Nat : j < k => j \in 0..k-1 /\ j <= n /\ j <= m
      OBVIOUS
    <3>1. prev[k] \in 0..k-1 /\ prev[k] <= n /\ prev[k] <= m /\ prev[k] \in Nat
      BY <3>a, <3>b
    <3>2. prev[k] \in Y
      BY <1>6, <3>1
    <3> QED
      BY <3>1, <3>2 DEF Y
  <2> HIDE DEF Sol, X, Y
  <2>4. g[k] = IF k = 0 THEN first ELSE step[k][g[prev[k]]]
    BY <2>1, <2>2 DEF Follows
  <2>5. h[k] = IF k = 0 THEN first ELSE step[k][h[prev[k]]]
    BY <2>1, <2>2 DEF Follows
  <2> QED
    BY <2>3, <2>4, <2>5
<1>7. Nat \subseteq Y
  <2> HIDE DEF Y
  <2> QED
    BY <1>6, StrongInduction
<1> DEFINE G(n) == CHOOSE g \in Sol(n) : TRUE
           f == [n \in Nat |-> G(n)[n]]
<1>8. \A n \in Nat : G(n) \in Sol(n)
  BY <1>5
<1>9. \A n \in Nat : G(n) \in [0..n -> Nat] /\ Follows(G(n), n, first, step, prev)
  BY <1>8
<1> HIDE DEF X, G
<1>10. f \in [Nat -> Nat]
  <2>1. \A n \in Nat : G(n)[n] \in Nat
    BY <1>9
  <2> QED
    BY <2>1
<1>11. ASSUME NEW k \in Nat
       PROVE  f[k] = IF k = 0 THEN first ELSE step[k][f[prev[k]]]
  <2>1. G(k)[k] = IF k = 0 THEN first ELSE step[k][G(k)[prev[k]]]
    <3>1. k \in 0..k
      OBVIOUS
    <3> QED
      BY <1>9, <3>1 DEF Follows
  <2>2. ASSUME k # 0 PROVE prev[k] \in Nat /\ G(k)[prev[k]] = G(prev[k])[prev[k]]
    <3>0. k <= k /\ \A j \in Nat : j < k => j <= k /\ j <= j
      OBVIOUS
    <3>a. prev[k] \in Nat /\ prev[k] < k
      BY <1>1, <2>2
    <3>1. prev[k] \in Nat /\ prev[k] <= k /\ prev[k] <= prev[k] /\ k <= k
      BY <3>0, <3>a
    <3>2. G(k) \in Sol(k) /\ G(prev[k]) \in Sol(prev[k]) /\ prev[k] \in Y
      BY <1>7, <1>8, <3>1
    <3> HIDE DEF Sol
    <3> QED
      BY <3>1, <3>2
  <2>3. f[k] = G(k)[k]
    OBVIOUS
  <2>4. k # 0 => f[prev[k]] = G(prev[k])[prev[k]]
    BY <2>2
  <2> HIDE DEF f, Y, Sol
  <2> QED
    BY <2>1, <2>2, <2>3, <2>4
<1> QED
  BY <1>10, <1>11 DEF Recursive

-----------------------------------------------------------------------------
\* The equations of Pow2.
LEMMA Pow2Is ==
    /\ Pow2 \in [Nat -> Nat]
    /\ Pow2[0] = 1
    /\ \A k \in Nat : Pow2[k + 1] = 2 * Pow2[k]
<1> DEFINE Def(f) == f = [k \in Nat |-> IF k = 0 THEN 1 ELSE 2 * f[k - 1]]
           step == [k \in Nat |-> [v \in Nat |-> 2 * v]]
           prev == [k \in Nat |-> IF k = 0 THEN 0 ELSE k - 1]
<1>1. step \in [Nat -> [Nat -> Nat]] /\ \A k, v \in Nat : step[k][v] = 2 * v
  OBVIOUS
<1>2. prev \in [Nat -> Nat] /\ \A k \in Nat \ {0} : prev[k] = k - 1 /\ prev[k] < k
  OBVIOUS
<1> HIDE DEF step, prev
<1>3. PICK f \in [Nat -> Nat] :
         \A k \in Nat : f[k] = IF k = 0 THEN 1 ELSE step[k][f[prev[k]]]
  <2>1. 1 \in Nat /\ step \in [Nat -> [Nat -> Nat]]
    BY <1>1
  <2>2. GoesBack(prev)
    BY <1>2 DEF GoesBack
  <2>3. \E f : Recursive(f, 1, step, prev)
    BY <2>1, <2>2, Recursion
  <2> QED
    BY <2>3 DEF Recursive
<1>4. \A k \in Nat : f[k] = IF k = 0 THEN 1 ELSE 2 * f[k - 1]
  <2> TAKE k \in Nat
  <2>1. CASE k = 0
    BY <1>3, <2>1
  <2>2. CASE k # 0
    <3>1. f[k] = step[k][f[k - 1]]
      BY <1>2, <1>3, <2>2
    <3>2. f[k - 1] \in Nat
      BY <1>3, <2>2
    <3> QED
      BY <1>1, <2>2, <3>1, <3>2
  <2> QED
    BY <2>1, <2>2
<1>5. Def(f)
  BY <1>3, <1>4
<1>6. Pow2 = CHOOSE g : Def(g)
  BY DEF Pow2
<1>7. Def(Pow2)
  <2> HIDE DEF Def
  <2> QED
    BY <1>5, <1>6
<1>8. /\ Pow2[0] = 1
      /\ \A k \in Nat : Pow2[k + 1] = 2 * Pow2[k]
  <2>1. \A k \in Nat : Pow2[k] = IF k = 0 THEN 1 ELSE 2 * Pow2[k - 1]
    BY <1>7, Zenon
  <2>2. \A k \in Nat : k + 1 \in Nat /\ k + 1 # 0 /\ (k + 1) - 1 = k
    OBVIOUS
  <2>3. ASSUME NEW k \in Nat PROVE Pow2[k + 1] = 2 * Pow2[k]
    <3>1. PICK l \in Nat : l = k + 1 /\ l # 0 /\ l - 1 = k
      BY <2>2
    <3>2. Pow2[l] = 2 * Pow2[l - 1]
      BY <2>1, <3>1
    <3> QED
      BY <3>1, <3>2
  <2>4. Pow2[0] = 1
    BY <2>1
  <2> QED
    BY <2>3, <2>4
<1>9. \A k \in Nat : Pow2[k] \in Nat
  <2> DEFINE X == {k \in Nat : Pow2[k] \in Nat}
  <2>1. 0 \in X
    BY <1>8
  <2>2. \A k \in Nat : k \in X => k + 1 \in X
    BY <1>8
  <2> HIDE DEF X
  <2>3. Nat \subseteq X
    BY <2>1, <2>2, Induction
  <2> QED
    BY <2>3 DEF X
<1>10. DOMAIN Pow2 = Nat /\ Pow2 = [k \in Nat |-> Pow2[k]]
  BY <1>7
<1> QED
  BY <1>8, <1>9, <1>10

\* A power of two is above its exponent.
LEMMA Pow2Grows == \A k \in Nat : Pow2[k] \in Nat \ {0} /\ k < Pow2[k]
<1> DEFINE X == {k \in Nat : Pow2[k] \in Nat /\ k < Pow2[k]}
<1>1. 0 \in X
  BY Pow2Is
<1>2. ASSUME NEW k \in Nat, k \in X PROVE k + 1 \in X
  <2>1. Pow2[k + 1] = 2 * Pow2[k] /\ Pow2[k] \in Nat /\ k < Pow2[k]
    BY <1>2, Pow2Is
  <2> QED
    BY <2>1
<1> HIDE DEF X
<1>3. Nat \subseteq X
  BY <1>1, <1>2, Induction
<1> QED
  BY <1>3 DEF X

\* A greater exponent gives a greater power.
LEMMA Pow2Ordered ==
    ASSUME NEW i \in Nat, NEW j \in Nat, i <= j
    PROVE  Pow2[i] <= Pow2[j]
<1> DEFINE X == {k \in Nat : Pow2[i] <= Pow2[i + k]}
<1>1. 0 \in X
  <2>1. i + 0 = i /\ Pow2[i] \in Nat
    BY Pow2Grows
  <2> QED
    BY <2>1
<1>2. ASSUME NEW k \in Nat, k \in X PROVE k + 1 \in X
  <2>1. i + (k + 1) = (i + k) + 1 /\ i + k \in Nat
    OBVIOUS
  <2>2. Pow2[(i + k) + 1] = 2 * Pow2[i + k] /\ Pow2[i + k] \in Nat /\ Pow2[i] \in Nat
    BY <2>1, Pow2Is, Pow2Grows
  <2>3. Pow2[i] <= Pow2[i + k]
    BY <1>2
  <2> QED
    BY <2>1, <2>2, <2>3
<1> HIDE DEF X
<1>3. Nat \subseteq X
  BY <1>1, <1>2, Induction
<1>4. j - i \in Nat /\ i + (j - i) = j
  OBVIOUS
<1> QED
  BY <1>3, <1>4 DEF X

\* Exponents add up in a product.
LEMMA Pow2Adds ==
    ASSUME NEW i \in Nat, NEW j \in Nat
    PROVE  Pow2[i + j] = Pow2[i] * Pow2[j]
<1> DEFINE X == {k \in Nat : Pow2[i + k] = Pow2[i] * Pow2[k]}
<1>1. 0 \in X
  <2>1. i + 0 = i /\ Pow2[i] \in Nat /\ Pow2[0] = 1
    BY Pow2Grows, Pow2Is
  <2> QED
    BY <2>1
<1>2. ASSUME NEW k \in Nat, k \in X PROVE k + 1 \in X
  <2>1. i + (k + 1) = (i + k) + 1 /\ i + k \in Nat /\ k + 1 \in Nat
    OBVIOUS
  <2>2. PICK a \in Nat, b \in Nat, c \in Nat : a = Pow2[i] /\ b = Pow2[k] /\ c = Pow2[i + k]
    BY <2>1, Pow2Grows
  <2>3. Pow2[(i + k) + 1] = 2 * c /\ Pow2[k + 1] = 2 * b /\ c = a * b
    BY <1>2, <2>1, <2>2, Pow2Is
  <2>4. 2 * (a * b) = a * (2 * b)
    OBVIOUS
  <2>5. Pow2[i + (k + 1)] = Pow2[i] * Pow2[k + 1]
    BY <2>1, <2>2, <2>3, <2>4
  <2> QED
    BY <2>1, <2>5
<1> HIDE DEF X
<1>3. Nat \subseteq X
  BY <1>1, <1>2, Induction
<1> QED
  BY <1>3 DEF X
=============================================================================

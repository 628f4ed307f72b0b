---------------------------- MODULE RsapbssaProofs ----------------------------
(***************************************************************************)
(* The blind signature for every modulus, exponent, message and blinding   *)
(* factor: what is computed stays below the modulus, what was signed       *)
(* verifies, and a generated key signs whatever it is sent without         *)
(* learning the message.  The number theory they rest on, up to Fermat's   *)
(* little theorem and the correctness of RSA, is proved here from the      *)
(* definition of ModPow.                                                   *)
(***************************************************************************)
EXTENDS Rsapbssa, NatRecursion

-----------------------------------------------------------------------------
(***************************************************************************)
(* The bits of a number.                                                   *)
(***************************************************************************)
\* A number lies between two powers of two.
LEMMA BitLenIs ==
    ASSUME NEW n \in Nat \ {0}
    PROVE  BitLen(n) \in 1..n /\ Pow2[BitLen(n) - 1] <= n /\ n < Pow2[BitLen(n)]
<1> DEFINE P(k) == Pow2[k - 1] <= n /\ n < Pow2[k]
<1>1. \E k \in 1..n : P(k)
  <2> SUFFICES ASSUME \A k \in 1..n : ~P(k) PROVE FALSE
    OBVIOUS
  <2> DEFINE X == {k \in Nat : k <= n => Pow2[k] <= n}
  <2>1. 0 \in X
    BY Pow2Is
  <2>2. ASSUME NEW k \in Nat, k \in X PROVE k + 1 \in X
    <3> SUFFICES ASSUME k + 1 <= n PROVE Pow2[k + 1] <= n
      BY <2>2
    <3>1. k + 1 \in 1..n /\ (k + 1) - 1 = k /\ Pow2[k] <= n
      BY <2>2
    <3>2. ~(n < Pow2[k + 1])
      BY <3>1
    <3> QED
      BY <3>2, Pow2Is
  <2> HIDE DEF X
  <2>3. Nat \subseteq X
    BY <2>1, <2>2, Induction
  <2>4. Pow2[n] <= n
    BY <2>3 DEF X
  <2> QED
    BY <2>4, Pow2Grows
<1>2. BitLen(n) = CHOOSE k \in 1..n : P(k)
  BY DEF BitLen
<1> HIDE DEF P
<1>3. BitLen(n) \in 1..n /\ P(BitLen(n))
  BY <1>1, <1>2
<1> QED
  BY <1>3 DEF P

-----------------------------------------------------------------------------
(***************************************************************************)
(* Arithmetic modulo m.                                                    *)
(***************************************************************************)
LEMMA ModIs ==
    ASSUME NEW x \in Nat, NEW m \in Nat \ {0}
    PROVE  x % m \in Nat /\ x % m < m /\ x % m \in 0..m-1
           /\ \E k \in Nat : x = m * k + (x % m)
<1> DEFINE q == x \div m
<1>1. q \in Nat /\ x % m \in 0..m-1 /\ x = m * q + (x % m)
  OBVIOUS
<1>2. \E k \in Nat : x = m * k + (x % m)
  <2> HIDE DEF q
  <2> QED
    BY <1>1
<1>3. \A z \in 0..m-1 : z \in Nat /\ z < m
  OBVIOUS
<1> QED
  BY <1>1, <1>2, <1>3

\* The remainder is the only one.
LEMMA ModUnique ==
    ASSUME NEW m \in Nat \ {0}, NEW k \in Nat, NEW z \in 0..m-1
    PROVE  (m * k + z) % m = z
<1> DEFINE x == m * k + z
<1>1. x \in Nat
  OBVIOUS
<1>2. PICK q \in Nat : x = m * q + (x % m)
  BY <1>1, ModIs
<1>3. x % m \in 0..m-1
  BY <1>1, ModIs
<1>4. PICK y \in 0..m-1 : y = x % m
  BY <1>3
<1>5. m * q + y = m * k + z
  BY <1>2, <1>4
<1>6. CASE q < k
  <2>1. m * k >= m * (q + 1) /\ m * (q + 1) = m * q + m
    BY <1>6
  <2> QED
    BY <1>5, <2>1
<1>7. CASE q > k
  <2>1. m * q >= m * (k + 1) /\ m * (k + 1) = m * k + m
    BY <1>7
  <2> QED
    BY <1>5, <2>1
<1>8. CASE q = k
  BY <1>4, <1>5, <1>8
<1> QED
  BY <1>6, <1>7, <1>8

\* Multiples of m do not change a remainder.
LEMMA ModAdd ==
    ASSUME NEW m \in Nat \ {0}, NEW k \in Nat, NEW z \in Nat
    PROVE  (m * k + z) % m = z % m
<1>1. PICK q \in Nat : z = m * q + (z % m)
  BY ModIs
<1>2. PICK y \in 0..m-1 : y = z % m
  BY ModIs
<1>3. m * k + z = m * (k + q) + y
  BY <1>1, <1>2
<1>4. (m * (k + q) + y) % m = y
  BY ModUnique
<1> QED
  BY <1>2, <1>3, <1>4

\* Reducing one factor of a product does not change it.
LEMMA ModMul ==
    ASSUME NEW m \in Nat \ {0}, NEW x \in Nat, NEW y \in Nat
    PROVE  ((x % m) * y) % m = (x * y) % m
<1>1. PICK q \in Nat : x = m * q + (x % m)
  BY ModIs
<1>2. PICK z \in Nat : z = x % m
  BY ModIs
<1>3. x * y = m * (q * y) + z * y
  BY <1>1, <1>2
<1>4. q * y \in Nat /\ z * y \in Nat
  OBVIOUS
<1>5. (m * (q * y) + z * y) % m = (z * y) % m
  BY <1>4, ModAdd
<1> QED
  BY <1>2, <1>3, <1>5

\* What is below m is its own remainder.
LEMMA ModSmall ==
    ASSUME NEW m \in Nat \ {0}, NEW x \in Nat, x < m
    PROVE  x % m = x
<1>1. (m * 0 + x) % m = x
  BY ModUnique
<1> QED
  BY <1>1

-----------------------------------------------------------------------------
(***************************************************************************)
(* Powers modulo n.                                                        *)
(***************************************************************************)
ModTimes(x, y, mod) == (x * y) % mod

\* A product modulo m is a natural.
LEMMA TimesIs ==
    ASSUME NEW mod \in Nat \ {0}, NEW x \in Nat, NEW y \in Nat
    PROVE  ModTimes(x, y, mod) \in Nat
<1>1. x * y \in Nat
  OBVIOUS
<1> QED
  BY <1>1, ModIs DEF ModTimes

\* Reducing the factors of a product does not change it.
LEMMA TimesReduced ==
    ASSUME NEW mod \in Nat \ {0}, NEW x \in Nat, NEW y \in Nat
    PROVE  ((x % mod) * (y % mod)) % mod = (x * y) % mod
<1>1. PICK z \in Nat : z = y % mod
  BY ModIs
<1>2. ((x % mod) * z) % mod = (x * z) % mod
  BY ModMul
<1>3. x * z = z * x /\ x * y = y * x
  OBVIOUS
<1>4. ((y % mod) * x) % mod = (y * x) % mod
  BY ModMul
<1> QED
  BY <1>1, <1>2, <1>3, <1>4

\* Factors may change places.
LEMMA TimesSwap ==
    ASSUME NEW mod \in Nat \ {0}, NEW x \in Nat, NEW y \in Nat, NEW u \in Nat, NEW v \in Nat
    PROVE  ModTimes(ModTimes(x, y, mod), ModTimes(u, v, mod), mod)
              = ModTimes(ModTimes(x, u, mod), ModTimes(y, v, mod), mod)
<1>1. x * y \in Nat /\ u * v \in Nat /\ x * u \in Nat /\ y * v \in Nat
  OBVIOUS
<1>2. ModTimes(ModTimes(x, y, mod), ModTimes(u, v, mod), mod) = ((x * y) * (u * v)) % mod
  BY <1>1, TimesReduced DEF ModTimes
<1>3. ModTimes(ModTimes(x, u, mod), ModTimes(y, v, mod), mod) = ((x * u) * (y * v)) % mod
  BY <1>1, TimesReduced DEF ModTimes
<1>4. (x * y) * (u * v) = (x * u) * (y * v)
  OBVIOUS
<1> QED
  BY <1>2, <1>3, <1>4

\* The equations of square-and-multiply.
LEMMA ModPowIs ==
    ASSUME NEW mod \in Nat, mod > 1, NEW base \in Nat
    PROVE  /\ \A k \in Nat : ModPow(base, k, mod) \in 0..mod-1
           /\ ModPow(base, 0, mod) = 1
           /\ \A k \in Nat \ {0} :
                 LET half == ModPow(base, k \div 2, mod)
                     square == ModTimes(half, half, mod)
                 IN  ModPow(base, k, mod) =
                        IF k % 2 = 0 THEN square ELSE ModTimes(square, base, mod)
<1> DEFINE next(k, half) ==
               LET square == (half * half) % mod
               IN  IF k % 2 = 0 THEN square ELSE (square * base) % mod
           Def(f) == f = [k \in Nat |-> IF k = 0 THEN 1 ELSE next(k, f[k \div 2])]
           step == [k \in Nat |-> [v \in Nat |-> next(k, v)]]
           prev == [k \in Nat |-> k \div 2]
<1>1. \A x, y \in Nat : (x * y) % mod \in Nat /\ (x * y) % mod \in 0..mod-1
  <2> TAKE x, y \in Nat
  <2>1. x * y \in Nat /\ mod \in Nat \ {0}
    OBVIOUS
  <2> QED
    BY <2>1, ModIs
<1>2. \A k, v \in Nat : next(k, v) \in Nat /\ next(k, v) \in 0..mod-1
  BY <1>1
<1> HIDE DEF next
<1>3. step \in [Nat -> [Nat -> Nat]] /\ \A k, v \in Nat : step[k][v] = next(k, v)
  BY <1>2
<1>4. \A k \in Nat : k \div 2 \in Nat /\ (k # 0 => k \div 2 < k)
  OBVIOUS
<1>5. GoesBack(prev) /\ \A k \in Nat : prev[k] = k \div 2
  BY <1>4 DEF GoesBack
<1> HIDE DEF step, prev
<1>6. PICK f : Recursive(f, 1, step, prev)
  <2>1. 1 \in Nat
    OBVIOUS
  <2> QED
    BY <1>3, <1>5, <2>1, Recursion
<1>7. f \in [Nat -> Nat] /\ \A k \in Nat : f[k] = IF k = 0 THEN 1 ELSE next(k, f[k \div 2])
  <2>1. f \in [Nat -> Nat]
    BY <1>6 DEF Recursive
  <2>2. ASSUME NEW k \in Nat PROVE f[k] = IF k = 0 THEN 1 ELSE next(k, f[k \div 2])
    <3>1. f[k] = IF k = 0 THEN 1 ELSE step[k][f[k \div 2]]
      BY <1>5, <1>6 DEF Recursive
    <3>2. f[k \div 2] \in Nat
      BY <1>4, <2>1
    <3> QED
      BY <1>3, <3>1, <3>2
  <2> QED
    BY <2>1, <2>2
<1>8. Def(f)
  BY <1>7
<1> DEFINE pow == CHOOSE g : Def(g)
<1>9. \A k : ModPow(base, k, mod) = pow[k]
  BY DEF ModPow, next
<1>10. Def(pow)
  <2> HIDE DEF Def
  <2> QED
    BY <1>8
<1> HIDE DEF pow
<1>11. pow[0] = 1 /\ \A k \in Nat : k # 0 => pow[k] = next(k, pow[k \div 2])
  BY <1>10
<1>12. \A k \in Nat : pow[k] \in Nat /\ pow[k] \in 0..mod-1
  <2> DEFINE X == {k \in Nat : pow[k] \in Nat /\ pow[k] \in 0..mod-1}
  <2>1. ASSUME NEW k \in Nat, \A j \in 0..k-1 : j \in X PROVE k \in X
    <3>1. CASE k = 0
      BY <1>11, <3>1
    <3>2. CASE k # 0
      <4>1. k \div 2 \in 0..k-1
        BY <3>2
      <4>2. pow[k \div 2] \in Nat
        BY <2>1, <4>1
      <4> QED
        BY <1>2, <1>11, <3>2, <4>2
    <3> QED
      BY <3>1, <3>2
  <2> HIDE DEF X
  <2>2. Nat \subseteq X
    BY <2>1, StrongInduction
  <2> QED
    BY <2>2 DEF X
<1>13. \A k \in Nat \ {0} :
          LET half == ModPow(base, k \div 2, mod)
              square == ModTimes(half, half, mod)
          IN  ModPow(base, k, mod) =
                 IF k % 2 = 0 THEN square ELSE ModTimes(square, base, mod)
  BY <1>9, <1>11 DEF next, ModTimes
<1> QED
  BY <1>9, <1>11, <1>12, <1>13

\* The powers of a product are the products of the powers.
LEMMA PowMul ==
    ASSUME NEW mod \in Nat, mod > 1, NEW a \in Nat, NEW b \in Nat, NEW exp \in Nat
    PROVE  ModPow((a * b) % mod, exp, mod) = (ModPow(a, exp, mod) * ModPow(b, exp, mod)) % mod
<1> DEFINE c == (a * b) % mod
           A(k) == ModPow(a, k, mod)
           B(k) == ModPow(b, k, mod)
           C(k) == ModPow(c, k, mod)
           X == {k \in Nat : C(k) = ModTimes(A(k), B(k), mod)}
<1>1. c \in Nat /\ mod \in Nat \ {0}
  <2>1. a * b \in Nat /\ mod \in Nat \ {0}
    OBVIOUS
  <2> QED
    BY <2>1, ModIs
<1>2. /\ \A k \in Nat : A(k) \in Nat /\ A(0) = 1
      /\ \A k \in Nat \ {0} :
            LET square == ModTimes(A(k \div 2), A(k \div 2), mod)
            IN  A(k) = IF k % 2 = 0 THEN square ELSE ModTimes(square, a, mod)
  <2>1. /\ \A k \in Nat : A(k) \in 0..mod-1
        /\ A(0) = 1
        /\ \A k \in Nat \ {0} :
              LET half == A(k \div 2)
                  square == ModTimes(half, half, mod)
              IN  A(k) = IF k % 2 = 0 THEN square ELSE ModTimes(square, a, mod)
    BY ModPowIs
  <2> HIDE DEF A
  <2> QED
    BY <2>1
<1>3. /\ \A k \in Nat : B(k) \in Nat /\ B(0) = 1
      /\ \A k \in Nat \ {0} :
            LET square == ModTimes(B(k \div 2), B(k \div 2), mod)
            IN  B(k) = IF k % 2 = 0 THEN square ELSE ModTimes(square, b, mod)
  <2>1. /\ \A k \in Nat : B(k) \in 0..mod-1
        /\ B(0) = 1
        /\ \A k \in Nat \ {0} :
              LET half == B(k \div 2)
                  square == ModTimes(half, half, mod)
              IN  B(k) = IF k % 2 = 0 THEN square ELSE ModTimes(square, b, mod)
    BY ModPowIs
  <2> HIDE DEF B
  <2> QED
    BY <2>1
<1>4. /\ \A k \in Nat : C(k) \in Nat /\ C(0) = 1
      /\ \A k \in Nat \ {0} :
            LET square == ModTimes(C(k \div 2), C(k \div 2), mod)
            IN  C(k) = IF k % 2 = 0 THEN square ELSE ModTimes(square, c, mod)
  <2>0. c \in Nat
    BY <1>1
  <2> HIDE DEF c
  <2>1. /\ \A k \in Nat : C(k) \in 0..mod-1
        /\ C(0) = 1
        /\ \A k \in Nat \ {0} :
              LET half == C(k \div 2)
                  square == ModTimes(half, half, mod)
              IN  C(k) = IF k % 2 = 0 THEN square ELSE ModTimes(square, c, mod)
    BY <2>0, ModPowIs
  <2> HIDE DEF C
  <2> QED
    BY <2>1
<1>5. c = ModTimes(a, b, mod)
  BY DEF ModTimes
<1> HIDE DEF A, B, C, c
<1>6. ASSUME NEW k \in Nat, \A j \in 0..k-1 : j \in X PROVE k \in X
  <2>1. CASE k = 0
    <3>1. ModTimes(1, 1, mod) = 1
      BY ModSmall DEF ModTimes
    <3> QED
      BY <1>2, <1>3, <1>4, <2>1, <3>1
  <2>2. CASE k # 0
    <3>1. k \div 2 \in 0..k-1 /\ k \in Nat \ {0}
      BY <2>2
    <3>2. PICK x \in Nat : x = A(k \div 2)
      BY <1>2, <3>1
    <3>3. PICK y \in Nat : y = B(k \div 2)
      BY <1>3, <3>1
    <3>4. C(k \div 2) = ModTimes(x, y, mod)
      BY <1>6, <3>1, <3>2, <3>3
    <3>5. ModTimes(ModTimes(x, y, mod), ModTimes(x, y, mod), mod)
             = ModTimes(ModTimes(x, x, mod), ModTimes(y, y, mod), mod)
      BY <1>1, TimesSwap
    <3>6. CASE k % 2 = 0
      BY <1>2, <1>3, <1>4, <3>1, <3>2, <3>3, <3>4, <3>5, <3>6
    <3>7. CASE k % 2 # 0
      <4>1. /\ A(k) = ModTimes(ModTimes(x, x, mod), a, mod)
            /\ B(k) = ModTimes(ModTimes(y, y, mod), b, mod)
        BY <1>2, <1>3, <3>1, <3>2, <3>3, <3>7
      <4>2. C(k) = ModTimes(ModTimes(ModTimes(x, x, mod), ModTimes(y, y, mod), mod),
                            ModTimes(a, b, mod), mod)
        BY <1>4, <1>5, <3>1, <3>4, <3>5, <3>7
      <4>3. ModTimes(x, x, mod) \in Nat /\ ModTimes(y, y, mod) \in Nat
        BY <1>1, TimesIs
      <4> QED
        BY <1>1, <4>1, <4>2, <4>3, TimesSwap
    <3> QED
      BY <3>6, <3>7
  <2> QED
    BY <2>1, <2>2
<1> HIDE DEF X
<1>7. Nat \subseteq X
  BY <1>6, StrongInduction
<1>8. C(exp) = ModTimes(A(exp), B(exp), mod)
  BY <1>7 DEF X
<1> QED
  BY <1>8 DEF A, B, C, c, ModTimes

\* The powers of one are one.
LEMMA PowOne ==
    ASSUME NEW mod \in Nat, mod > 1, NEW exp \in Nat
    PROVE  ModPow(1, exp, mod) = 1
<1> DEFINE C(k) == ModPow(1, k, mod)
           X == {k \in Nat : C(k) = 1}
<1>1. ModTimes(1, 1, mod) = 1
  BY ModSmall DEF ModTimes
<1>2. /\ C(0) = 1
      /\ \A k \in Nat \ {0} :
            LET half == C(k \div 2)
                square == ModTimes(half, half, mod)
            IN  C(k) = IF k % 2 = 0 THEN square ELSE ModTimes(square, 1, mod)
  <2>1. 1 \in Nat
    OBVIOUS
  <2> QED
    BY <2>1, ModPowIs
<1> HIDE DEF C
<1>3. ASSUME NEW k \in Nat, \A j \in 0..k-1 : j \in X PROVE k \in X
  <2>1. CASE k = 0
    BY <1>2, <2>1
  <2>2. CASE k # 0
    <3>1. k \div 2 \in 0..k-1 /\ k \in Nat \ {0}
      BY <2>2
    <3>2. C(k \div 2) = 1
      BY <1>3, <3>1
    <3> QED
      BY <1>1, <1>2, <3>1, <3>2
  <2> QED
    BY <2>1, <2>2
<1> HIDE DEF X
<1>4. Nat \subseteq X
  BY <1>3, StrongInduction
<1> QED
  BY <1>4 DEF X, C

\* Where there is an inverse, ModInverse finds one.
LEMMA InverseIs ==
    ASSUME NEW a \in Nat, NEW mod \in Nat, Invertible(a, mod)
    PROVE  /\ ModInverse(a, mod) \in Nat
           /\ (a * ModInverse(a, mod)) % mod = 1
<1> DEFINE P(x) == (a * x) % mod = 1
<1>1. \E x \in 1..mod-1 : P(x)
  BY DEF Invertible
<1>2. ModInverse(a, mod) = CHOOSE x \in 1..mod-1 : P(x)
  BY DEF ModInverse
<1> HIDE DEF P
<1>3. ModInverse(a, mod) \in 1..mod-1 /\ P(ModInverse(a, mod))
  BY <1>1, <1>2
<1> QED
  BY <1>3 DEF P

\* The signature of a message under a blinding factor, and the root it leaves.
SignsBlinded(sig, m, factor, exp, mod) ==
    ModPow(sig, exp, mod) = (m * ModPow(factor, exp, mod)) % mod
RootOf(sig, m, exp, mod) == ModPow(sig, exp, mod) = m % mod

\* Unblinding: the power of the blinding factor goes with its inverse.
LEMMA Unblinds ==
    ASSUME NEW mod \in Nat, mod > 1, NEW exp \in Nat, NEW m \in Nat, NEW sig \in Nat,
           NEW factor \in Nat, NEW inv \in Nat,
           ModTimes(factor, inv, mod) = 1, SignsBlinded(sig, m, factor, exp, mod)
    PROVE  RootOf(ModTimes(sig, inv, mod), m, exp, mod)
<1> USE DEF ModTimes, SignsBlinded, RootOf
<1>1. mod \in Nat \ {0}
  OBVIOUS
<1>2. PICK f \in Nat : f = ModPow(factor, exp, mod)
  BY ModPowIs
<1>3. PICK i \in Nat : i = ModPow(inv, exp, mod)
  BY ModPowIs
<1>4. (f * i) % mod = 1
  <2>1. ModPow((factor * inv) % mod, exp, mod) = (f * i) % mod
    BY <1>2, <1>3, PowMul
  <2> QED
    BY <2>1, PowOne
<1>5. ModPow((sig * inv) % mod, exp, mod) = (ModPow(sig, exp, mod) * i) % mod
  BY <1>3, PowMul
<1>6. (((m * f) % mod) * i) % mod = ((m * f) * i) % mod
  <2>1. m * f \in Nat
    OBVIOUS
  <2> QED
    BY <1>1, <2>1, ModMul
<1>7. (m * f) * i = (f * i) * m /\ f * i \in Nat /\ 1 * m = m
  OBVIOUS
<1>8. (((f * i) % mod) * m) % mod = ((f * i) * m) % mod
  BY <1>1, <1>7, ModMul
<1> QED
  BY <1>2, <1>4, <1>5, <1>6, <1>7, <1>8

-----------------------------------------------------------------------------
(***************************************************************************)
(* The laws of powers, which square-and-multiply has to be shown to obey.  *)
(***************************************************************************)
LEMMA TimesLaws ==
    ASSUME NEW m \in Nat \ {0}
    PROVE  /\ \A x, y \in Nat : ModTimes(x, y, m) \in Nat /\ ModTimes(x, y, m) < m
           /\ \A x, y \in Nat : ModTimes(x, y, m) = ModTimes(y, x, m)
           /\ \A x, y, z \in Nat :
                 ModTimes(ModTimes(x, y, m), z, m) = ModTimes(x, ModTimes(y, z, m), m)
           /\ \A x \in Nat : x < m => ModTimes(x, 1, m) = x
           /\ \A x, y \in Nat : ModTimes(x % m, y, m) = ModTimes(x, y, m)
<1>1. ASSUME NEW x \in Nat, NEW y \in Nat
      PROVE  /\ ModTimes(x, y, m) \in Nat /\ ModTimes(x, y, m) < m
             /\ ModTimes(x, y, m) = ModTimes(y, x, m)
             /\ ModTimes(x % m, y, m) = ModTimes(x, y, m)
  <2>1. x * y \in Nat /\ x * y = y * x
    OBVIOUS
  <2>2. (x * y) % m \in Nat /\ (x * y) % m < m
    BY <2>1, ModIs
  <2>3. ((x % m) * y) % m = (x * y) % m
    BY ModMul
  <2> QED
    BY <2>1, <2>2, <2>3 DEF ModTimes
<1>2. ASSUME NEW x \in Nat, NEW y \in Nat, NEW z \in Nat
      PROVE  ModTimes(ModTimes(x, y, m), z, m) = ModTimes(x, ModTimes(y, z, m), m)
  <2>1. x * y \in Nat /\ y * z \in Nat /\ (x * y) * z = (y * z) * x
    OBVIOUS
  <2>2. (((x * y) % m) * z) % m = ((x * y) * z) % m
    BY <2>1, ModMul
  <2>3. (((y * z) % m) * x) % m = ((y * z) * x) % m
    BY <2>1, ModMul
  <2>4. PICK v \in Nat : v = (y * z) % m
    BY <2>1, ModIs
  <2>5. v * x = x * v
    OBVIOUS
  <2> QED
    BY <2>1, <2>2, <2>3, <2>4, <2>5 DEF ModTimes
<1>3. ASSUME NEW x \in Nat, x < m PROVE ModTimes(x, 1, m) = x
  <2>1. x * 1 = x
    OBVIOUS
  <2> QED
    BY <1>3, <2>1, ModSmall DEF ModTimes
<1> QED
  BY <1>1, <1>2, <1>3

\* One factor more for an exponent one higher.
LEMMA PowSucc ==
    ASSUME NEW m \in Nat, m > 1, NEW b \in Nat
    PROVE  \A k \in Nat : /\ ModPow(b, k, m) \in Nat /\ ModPow(b, k, m) < m
                          /\ ModPow(b, 0, m) = 1
                          /\ ModPow(b, k + 1, m) = ModTimes(ModPow(b, k, m), b, m)
<1> DEFINE A(k) == ModPow(b, k, m)
           T(x, y) == ModTimes(x, y, m)
           X == {k \in Nat : A(k + 1) = T(A(k), b)}
<1>1. m \in Nat \ {0}
  OBVIOUS
<1>2. /\ \A x, y \in Nat : T(x, y) \in Nat /\ T(x, y) < m
      /\ \A x, y \in Nat : T(x, y) = T(y, x)
      /\ \A x, y, z \in Nat : T(T(x, y), z) = T(x, T(y, z))
      /\ \A x \in Nat : x < m => T(x, 1) = x
  BY <1>1, TimesLaws
<1>3. /\ \A k \in Nat : A(k) \in 0..m-1
      /\ A(0) = 1
      /\ \A k \in Nat \ {0} :
            LET half == A(k \div 2)
                square == T(half, half)
            IN  A(k) = IF k % 2 = 0 THEN square ELSE T(square, b)
  BY ModPowIs
<1> HIDE DEF A, T
<1>4. \A k \in Nat : A(k) \in Nat /\ A(k) < m
  BY <1>3
<1>5. \A j \in Nat : A(2 * j) = T(A(j), A(j)) /\ A(2 * j + 1) = T(T(A(j), A(j)), b)
  <2> TAKE j \in Nat
  <2>1. A(2 * j) = T(A(j), A(j))
    <3>1. CASE j = 0
      <4>1. T(1, 1) = 1
        BY <1>2
      <4> QED
        BY <1>3, <3>1, <4>1
    <3>2. CASE j # 0
      <4>1. 2 * j \in Nat \ {0} /\ (2 * j) \div 2 = j /\ (2 * j) % 2 = 0
        BY <3>2
      <4> QED
        BY <1>3, <4>1
    <3> QED
      BY <3>1, <3>2
  <2>2. 2 * j + 1 \in Nat \ {0} /\ (2 * j + 1) \div 2 = j /\ (2 * j + 1) % 2 # 0
    OBVIOUS
  <2> QED
    BY <1>3, <2>1, <2>2
<1>6. ASSUME NEW k \in Nat, \A j \in 0..k-1 : j \in X PROVE k \in X
  <2>1. PICK j \in Nat : k = 2 * j \/ k = 2 * j + 1
    <3>1. k \div 2 \in Nat /\ (k = 2 * (k \div 2) \/ k = 2 * (k \div 2) + 1)
      OBVIOUS
    <3> QED
      BY <3>1
  <2>2. CASE k = 2 * j
    BY <1>5, <2>2
  <2>3. CASE k = 2 * j + 1
    <3>1. k + 1 = 2 * (j + 1) /\ j \in 0..k-1 /\ j + 1 \in Nat
      BY <2>3
    <3>2. A(j + 1) = T(A(j), b)
      BY <1>6, <3>1
    <3>3. A(k + 1) = T(T(A(j), b), T(A(j), b)) /\ A(k) = T(T(A(j), A(j)), b)
      BY <1>5, <2>3, <3>1, <3>2
    <3>4. PICK a \in Nat : a = A(j)
      BY <1>4
    <3>5. T(T(a, b), T(a, b)) = T(T(T(a, a), b), b)
      <4>1. T(T(a, b), T(a, b)) = T(a, T(b, T(a, b)))
        BY <1>2
      <4>2. T(b, T(a, b)) = T(T(a, b), b)
        BY <1>2
      <4>3. T(a, T(T(a, b), b)) = T(T(a, T(a, b)), b)
        BY <1>2
      <4>4. T(a, T(a, b)) = T(T(a, a), b)
        BY <1>2
      <4> QED
        BY <4>1, <4>2, <4>3, <4>4
    <3> QED
      BY <3>3, <3>4, <3>5
  <2> QED
    BY <2>1, <2>2, <2>3
<1> HIDE DEF X
<1>7. Nat \subseteq X
  BY <1>6, StrongInduction
<1>8. \A k \in Nat : A(k + 1) = T(A(k), b)
  BY <1>7 DEF X
<1> QED
  BY <1>3, <1>4, <1>8 DEF A, T

\* Exponents add up in a product of powers.
LEMMA PowAdd ==
    ASSUME NEW m \in Nat, m > 1, NEW b \in Nat, NEW k \in Nat, NEW l \in Nat
    PROVE  ModPow(b, k + l, m) = ModTimes(ModPow(b, k, m), ModPow(b, l, m), m)
<1> DEFINE A(n) == ModPow(b, n, m)
           T(x, y) == ModTimes(x, y, m)
           X == {n \in Nat : A(k + n) = T(A(k), A(n))}
<1>1. m \in Nat \ {0}
  OBVIOUS
<1>2. /\ \A x, y, z \in Nat : T(T(x, y), z) = T(x, T(y, z))
      /\ \A x \in Nat : x < m => T(x, 1) = x
  BY <1>1, TimesLaws
<1>3. \A n \in Nat : /\ A(n) \in Nat /\ A(n) < m /\ A(0) = 1
                     /\ A(n + 1) = T(A(n), b)
  BY PowSucc
<1> HIDE DEF A, T
<1>4. 0 \in X
  BY <1>2, <1>3
<1>5. ASSUME NEW n \in Nat, n \in X PROVE n + 1 \in X
  <2>1. k + (n + 1) = (k + n) + 1 /\ k + n \in Nat
    OBVIOUS
  <2>2. A(k + (n + 1)) = T(T(A(k), A(n)), b)
    BY <1>3, <1>5, <2>1
  <2>3. T(T(A(k), A(n)), b) = T(A(k), T(A(n), b))
    BY <1>2, <1>3
  <2> QED
    BY <1>3, <2>2, <2>3
<1> HIDE DEF X
<1>6. Nat \subseteq X
  BY <1>4, <1>5, Induction
<1> QED
  BY <1>6 DEF X, A, T

\* Exponents multiply in a power of a power.
LEMMA PowTimes ==
    ASSUME NEW m \in Nat, m > 1, NEW b \in Nat, NEW k \in Nat, NEW l \in Nat
    PROVE  ModPow(b, k * l, m) = ModPow(ModPow(b, k, m), l, m)
<1> DEFINE A(n) == ModPow(b, n, m)
           C(n) == ModPow(A(k), n, m)
           T(x, y) == ModTimes(x, y, m)
           X == {n \in Nat : A(k * n) = C(n)}
<1>1. \A i, j \in Nat : A(i + j) = T(A(i), A(j))
  BY PowAdd
<1>2. \A n \in Nat : A(n) \in Nat /\ A(0) = 1
  BY PowSucc
<1>3. \A n \in Nat : C(0) = 1 /\ C(n + 1) = T(C(n), A(k))
  <2>1. A(k) \in Nat
    BY <1>2
  <2> HIDE DEF A
  <2> QED
    BY <2>1, PowSucc
<1> HIDE DEF A, C, T
<1>4. 0 \in X
  BY <1>2, <1>3
<1>5. ASSUME NEW n \in Nat, n \in X PROVE n + 1 \in X
  <2>1. k * (n + 1) = k * n + k /\ k * n \in Nat
    OBVIOUS
  <2>2. A(k * (n + 1)) = T(A(k * n), A(k))
    BY <1>1, <2>1
  <2> QED
    BY <1>3, <1>5, <2>2
<1> HIDE DEF X
<1>6. Nat \subseteq X
  BY <1>4, <1>5, Induction
<1> QED
  BY <1>6 DEF X, A, C

\* Powers modulo a multiple of m are powers modulo m.
LEMMA PowFactor ==
    ASSUME NEW m \in Nat, m > 1, NEW q \in Nat, q > 1, NEW b \in Nat, NEW k \in Nat
    PROVE  ModPow(b, k, m * q) % m = ModPow(b, k, m)
<1> DEFINE A(n) == ModPow(b, n, m * q)
           C(n) == ModPow(b, n, m)
           X == {n \in Nat : A(n) % m = C(n)}
<1>1. m * q \in Nat /\ m * q > 1 /\ m \in Nat \ {0}
  <2>1. m * q >= 2 * q
    OBVIOUS
  <2> QED
    BY <2>1
<1>2. \A n \in Nat : A(n) \in Nat /\ A(0) = 1 /\ A(n + 1) = (A(n) * b) % (m * q)
  <2> DEFINE mq == m * q
  <2>1. mq \in Nat /\ mq > 1
    BY <1>1
  <2> HIDE DEF mq
  <2>2. \A n \in Nat : /\ ModPow(b, n, mq) \in Nat /\ ModPow(b, 0, mq) = 1
                       /\ ModPow(b, n + 1, mq) = (ModPow(b, n, mq) * b) % mq
    BY <2>1, PowSucc DEF ModTimes
  <2> QED
    BY <2>2 DEF mq
<1>3. \A n \in Nat : C(n) \in Nat /\ C(0) = 1 /\ C(n + 1) = (C(n) * b) % m
  BY PowSucc DEF ModTimes
<1> HIDE DEF A, C
<1>4. \A x \in Nat : (x % (m * q)) % m = x % m
  <2> TAKE x \in Nat
  <2>1. m * q \in Nat \ {0}
    BY <1>1
  <2>2. PICK j \in Nat : x = (m * q) * j + (x % (m * q))
    BY <2>1, ModIs
  <2>3. PICK z \in Nat : z = x % (m * q)
    BY <2>1, ModIs
  <2>4. x = m * (q * j) + z /\ q * j \in Nat
    BY <2>2, <2>3
  <2>5. (m * (q * j) + z) % m = z % m
    BY <1>1, <2>4, ModAdd
  <2> QED
    BY <2>3, <2>4, <2>5
<1>5. 0 \in X
  <2>1. 1 % m = 1
    BY <1>1, ModSmall
  <2> QED
    BY <1>2, <1>3, <2>1
<1>6. ASSUME NEW n \in Nat, n \in X PROVE n + 1 \in X
  <2>1. PICK a \in Nat : a = A(n)
    BY <1>2
  <2>2. a % m = C(n)
    BY <1>6, <2>1
  <2>3. A(n + 1) % m = (a * b) % m
    <3>1. a * b \in Nat
      OBVIOUS
    <3> QED
      BY <1>2, <1>4, <2>1, <3>1
  <2>4. ((a % m) * b) % m = (a * b) % m
    BY <1>1, ModMul
  <2> QED
    BY <1>3, <2>2, <2>3, <2>4
<1> HIDE DEF X
<1>7. Nat \subseteq X
  BY <1>5, <1>6, Induction
<1> QED
  BY <1>7 DEF X, A, C

-----------------------------------------------------------------------------
(***************************************************************************)
(* Inverses.                                                               *)
(***************************************************************************)
\* What has some inverse has one below the modulus.
LEMMA InverseReduces ==
    ASSUME NEW m \in Nat, m > 1, NEW a \in Nat, NEW x \in Nat, (a * x) % m = 1
    PROVE  Invertible(a, m)
<1>1. m \in Nat \ {0}
  OBVIOUS
<1>2. PICK y \in 0..m-1 : y = x % m
  BY <1>1, ModIs
<1>3. ((x % m) * a) % m = (x * a) % m
  BY <1>1, ModMul
<1>4. x * a = a * x /\ y * a = a * y
  OBVIOUS
<1>5. (a * y) % m = 1
  BY <1>2, <1>3, <1>4
<1>6. y # 0
  <2> SUFFICES ASSUME y = 0 PROVE FALSE
    OBVIOUS
  <2>1. a * y = 0 /\ 0 % m = 0
    BY <1>1, ModSmall
  <2> QED
    BY <1>5, <2>1
<1>7. y \in 1..m-1
  BY <1>6
<1> QED
  BY <1>5, <1>7 DEF Invertible

\* Below a prime everything but zero has an inverse: the least remainder
\* that multiples of a leave divides the prime.
LEMMA PrimeInverse ==
    ASSUME NEW p \in Nat, Prime(p), NEW a \in Nat, a % p # 0
    PROVE  Invertible(a, p)
<1> DEFINE S == {v \in 1..p-1 : \E x \in Nat : (a * x) % p = v}
<1>1. p > 1 /\ p \in Nat \ {0}
  BY DEF Prime
<1>2. S # {}
  <2>1. a % p \in 1..p-1
    <3>1. PICK v \in 0..p-1 : v = a % p
      BY <1>1, ModIs
    <3> QED
      BY <3>1
  <2>2. a * 1 = a
    OBVIOUS
  <2> QED
    BY <2>1, <2>2
<1>3. PICK g \in S : \A y \in S : g <= y
  <2>1. S \subseteq Nat
    OBVIOUS
  <2> HIDE DEF S
  <2> QED
    BY <1>2, <2>1, LeastElement
<1>4. PICK x \in Nat : (a * x) % p = g
  OBVIOUS
<1>5. g \in 1..p-1
  OBVIOUS
<1>6. g = 1
  <2> SUFFICES ASSUME g # 1 PROVE FALSE
    OBVIOUS
  <2>1. g \in 2..p-1 /\ g \in Nat \ {0}
    BY <1>5
  <2>2. p % g # 0
    BY <2>1 DEF Prime
  <2>3. PICK t \in Nat : p = g * t + (p % g)
    BY <2>1, ModIs
  <2>4. PICK s \in 0..g-1 : s = p % g
    BY <2>1, ModIs
  <2>5. p = g * t + s /\ s \in 1..p-1 /\ s < g
    BY <2>1, <2>2, <2>3, <2>4
  <2>6. PICK c \in Nat : a * x = p * c + g
    <3>1. a * x \in Nat
      OBVIOUS
    <3>2. PICK c \in Nat : a * x = p * c + ((a * x) % p)
      BY <1>1, <3>1, ModIs
    <3> QED
      BY <1>4, <3>2
  <2>7. g * t >= 1
    BY <2>5
  <2> DEFINE u == t * (p - 1)
             n == c * u + (g * t - 1)
  <2>8. u \in Nat /\ x * u \in Nat /\ n \in Nat
    <3>1. p - 1 \in Nat
      BY <1>1
    <3>2. u \in Nat
      BY <3>1
    <3> HIDE DEF u
    <3>3. g * t - 1 \in Nat
      BY <2>1, <2>7
    <3> QED
      BY <3>2, <3>3
  <2>9. a * (x * u) = p * n + s
    <3>1. a * (x * u) = (p * c + g) * u
      <4> HIDE DEF u
      <4>1. a * (x * u) = (a * x) * u
        BY <2>8
      <4> QED
        BY <2>6, <4>1
    <3>2. PICK h \in Nat : h = g * t - 1
      BY <2>1, <2>7
    <3>3. g * u = p * h + s
      <4>1. g * u = (g * t) * p - g * t
        BY <2>1
      <4>2. p * h = (g * t) * p - p
        BY <3>2
      <4>3. p - g * t = s
        BY <2>1, <2>5
      <4> QED
        BY <4>1, <4>2, <4>3
    <3>4. n = c * u + h
      BY <3>2
    <3> HIDE DEF u, n
    <3>5. PICK cu \in Nat : cu = c * u
      BY <2>8
    <3>6. (p * c + g) * u = p * cu + g * u
      BY <2>8, <2>1, <3>5
    <3>7. p * n = p * cu + p * h
      BY <3>4, <3>5
    <3>8. p * cu \in Int /\ p * h \in Int
      OBVIOUS
    <3> QED
      BY <3>1, <3>3, <3>6, <3>7, <3>8
  <2>10. (p * n + s) % p = s
    <3> HIDE DEF n
    <3>1. s \in 0..p-1
      BY <2>5
    <3> QED
      BY <1>1, <2>8, <3>1, ModUnique
  <2>11. s \in S
    <3> HIDE DEF u, n
    <3>1. (a * (x * u)) % p = s
      BY <2>9, <2>10
    <3> QED
      BY <2>5, <2>8, <3>1
  <2> HIDE DEF S
  <2>12. g <= s
    BY <1>3, <2>11
  <2> QED
    BY <2>5, <2>12, <2>1
<1> QED
  BY <1>1, <1>4, <1>6, InverseReduces

\* A product of what has inverses has one.
LEMMA InverseOfTimes ==
    ASSUME NEW m \in Nat, m > 1, NEW a \in Nat, NEW b \in Nat,
           Invertible(a, m), Invertible(b, m)
    PROVE  Invertible(ModTimes(a, b, m), m)
<1>1. m \in Nat \ {0}
  OBVIOUS
<1>swap. \A u, v \in Nat : ModTimes(ModTimes(a, b, m), ModTimes(u, v, m), m)
                        = ModTimes(ModTimes(a, u, m), ModTimes(b, v, m), m)
  BY <1>1, TimesSwap
<1>2. PICK x \in Nat : ModTimes(a, x, m) = 1
  <2>1. PICK x \in 1..m-1 : (a * x) % m = 1
    BY DEF Invertible
  <2> QED
    BY <2>1 DEF ModTimes
<1>3. PICK y \in Nat : ModTimes(b, y, m) = 1
  <2>1. PICK y \in 1..m-1 : (b * y) % m = 1
    BY DEF Invertible
  <2> QED
    BY <2>1 DEF ModTimes
<1>4. ModTimes(ModTimes(a, b, m), ModTimes(x, y, m), m) = ModTimes(1, 1, m)
  <2>1. ModTimes(ModTimes(a, b, m), ModTimes(x, y, m), m)
           = ModTimes(ModTimes(a, x, m), ModTimes(b, y, m), m)
    BY <1>swap
  <2> QED
    BY <1>2, <1>3, <2>1
<1>5. ModTimes(1, 1, m) = 1
  BY <1>1, TimesLaws
<1>6. ModTimes(a, b, m) \in Nat /\ ModTimes(x, y, m) \in Nat
  BY <1>1, TimesIs
<1>7. PICK u \in Nat : u = ModTimes(a, b, m)
  BY <1>6
<1>8. PICK v \in Nat : v = ModTimes(x, y, m)
  BY <1>6
<1>9. (u * v) % m = 1
  BY <1>4, <1>5, <1>7, <1>8 DEF ModTimes
<1> QED
  BY <1>7, <1>9, InverseReduces

\* What has an inverse may be cancelled.
LEMMA TimesCancel ==
    ASSUME NEW m \in Nat, m > 1, NEW c \in Nat, NEW x \in Nat, NEW y \in Nat,
           x < m, y < m, Invertible(c, m), ModTimes(c, x, m) = ModTimes(c, y, m)
    PROVE  x = y
<1> DEFINE T(u, v) == ModTimes(u, v, m)
<1>1. m \in Nat \ {0}
  OBVIOUS
<1>2. PICK i \in Nat : T(c, i) = 1
  <2>1. PICK i \in 1..m-1 : (c * i) % m = 1
    BY DEF Invertible
  <2> QED
    BY <2>1 DEF ModTimes
<1>3. /\ \A u, v \in Nat : T(u, v) = T(v, u)
      /\ \A u, v, w \in Nat : T(T(u, v), w) = T(u, T(v, w))
      /\ \A u \in Nat : u < m => T(u, 1) = u
  BY <1>1, TimesLaws
<1>4. T(c, x) = T(c, y)
  OBVIOUS
<1> HIDE DEF T
<1>5. T(T(x, c), i) = x /\ T(T(y, c), i) = y
  BY <1>2, <1>3
<1> QED
  BY <1>3, <1>4, <1>5

\* An inverse modulo each of two numbers gives one modulo their product.
LEMMA InverseOfModuli ==
    ASSUME NEW m \in Nat, m > 1, NEW n \in Nat, n > 1, NEW e \in Nat,
           Invertible(e, m), Invertible(e, n)
    PROVE  Invertible(e, m * n)
<1>1. PICK x \in Nat, s \in Nat : e * x = 1 + m * s
  <2>1. PICK x \in 1..m-1 : (e * x) % m = 1
    BY DEF Invertible
  <2>2. e * x \in Nat /\ m \in Nat \ {0} /\ x \in Nat
    OBVIOUS
  <2>3. PICK s \in Nat : e * x = m * s + ((e * x) % m)
    BY <2>2, ModIs
  <2> QED
    BY <2>1, <2>2, <2>3
<1>2. PICK y \in Nat, t \in Nat : e * y = 1 + n * t
  <2>1. PICK y \in 1..n-1 : (e * y) % n = 1
    BY DEF Invertible
  <2>2. e * y \in Nat /\ n \in Nat \ {0} /\ y \in Nat
    OBVIOUS
  <2>3. PICK t \in Nat : e * y = n * t + ((e * y) % n)
    BY <2>2, ModIs
  <2> QED
    BY <2>1, <2>2, <2>3
<1>3. PICK u \in Nat : u = e * x
  OBVIOUS
<1>4. PICK v \in Nat : v = e * y
  OBVIOUS
<1>5. PICK M \in Nat : M = m * n /\ M > 1
  <2>1. m * n >= 2 * n
    OBVIOUS
  <2> QED
    BY <2>1
<1>6. PICK z \in Nat : z = x + y + (M - 1) * (u * y)
  <2>1. u * y \in Nat /\ M - 1 \in Nat
    BY <1>5
  <2>2. (M - 1) * (u * y) \in Nat
    BY <2>1
  <2> QED
    BY <2>2
<1>7. e * z = u + v + (M - 1) * (u * v)
  <2>1. e * (u * y) = u * v
    BY <1>4
  <2>2. PICK uy \in Nat : uy = u * y
    OBVIOUS
  <2>3. PICK l \in Nat : l = M - 1
    BY <1>5
  <2>4. e * (l * uy) = l * (e * uy)
    OBVIOUS
  <2>5. e * (x + y + l * uy) = e * x + e * y + e * (l * uy)
    OBVIOUS
  <2> QED
    BY <1>3, <1>4, <1>6, <2>1, <2>2, <2>3, <2>4, <2>5
<1>8. PICK k \in Nat : e * z = M * k + 1
  <2>1. PICK A \in Nat : A = m * s /\ u = 1 + A
    BY <1>1, <1>3
  <2>2. PICK B \in Nat : B = n * t /\ v = 1 + B
    BY <1>2, <1>4
  <2>3. PICK w \in Nat : w = s * t
    OBVIOUS
  <2>4. A * B = M * w
    BY <1>5, <2>1, <2>2, <2>3
  <2>5. PICK uv \in Nat : uv = u * v
    OBVIOUS
  <2>6. uv = 1 + A + B + A * B
    BY <2>1, <2>2, <2>5
  <2>7. M * w >= w
    BY <1>5
  <2>8. uv - w \in Nat
    BY <2>4, <2>6, <2>7
  <2>9. PICK k \in Nat : k = uv - w
    BY <2>8
  <2>10. M * k = M * uv - M * w
    BY <2>9
  <2>11. (M - 1) * uv = M * uv - uv
    OBVIOUS
  <2>12. e * z = u + v + M * uv - uv
    BY <1>7, <2>5, <2>11
  <2>13. e * z = M * k + 1
    BY <2>1, <2>2, <2>4, <2>6, <2>10, <2>12
  <2> QED
    BY <2>13
<1>9. (e * z) % M = 1
  <2>1. 1 \in 0..M-1 /\ M \in Nat \ {0}
    BY <1>5
  <2> QED
    BY <1>8, <2>1, ModUnique
<1>10. Invertible(e, M)
  BY <1>5, <1>9, InverseReduces
<1> QED
  BY <1>5, <1>10

-----------------------------------------------------------------------------
(***************************************************************************)
(* Fermat's little theorem: multiplying by a only rearranges the numbers   *)
(* below a prime, so the power of a that goes out of their product is 1.   *)
(***************************************************************************)
\* The running products, modulo m, of the numbers in a set.
Multiplies(f, S, m) ==
    /\ f \in [Nat -> Nat]
    /\ f[0] = 1
    /\ \A k \in Nat : f[k + 1] = IF k + 1 \in S THEN ModTimes(f[k], k + 1, m) ELSE f[k]

\* Every set has its running products.
LEMMA ProductExists ==
    ASSUME NEW m \in Nat, m > 1, NEW S
    PROVE  \E f : Multiplies(f, S, m)
<1> DEFINE step == [k \in Nat |-> [v \in Nat |-> IF k \in S THEN ModTimes(v, k, m) ELSE v]]
           prev == [k \in Nat |-> IF k = 0 THEN 0 ELSE k - 1]
<1>1. step \in [Nat -> [Nat -> Nat]]
  <2>1. \A k, v \in Nat : ModTimes(v, k, m) \in Nat
    <3>1. m \in Nat \ {0}
      OBVIOUS
    <3> QED
      BY <3>1, TimesIs
  <2> QED
    BY <2>1
<1>2. GoesBack(prev)
  <2>1. \A k \in Nat : (IF k = 0 THEN 0 ELSE k - 1) \in Nat
    OBVIOUS
  <2>2. prev \in [Nat -> Nat]
    BY <2>1
  <2>3. \A k \in Nat \ {0} : prev[k] < k
    OBVIOUS
  <2> QED
    BY <2>2, <2>3 DEF GoesBack
<1>3. \A k \in Nat : k + 1 \in Nat /\ k + 1 # 0 /\ prev[k + 1] = k
  OBVIOUS
<1>4. \A k, v \in Nat : step[k][v] = IF k \in S THEN ModTimes(v, k, m) ELSE v
  OBVIOUS
<1> HIDE DEF step, prev
<1>5. 1 \in Nat
  OBVIOUS
<1>6. PICK f : Recursive(f, 1, step, prev)
  BY <1>1, <1>2, <1>5, Recursion
<1>7. f \in [Nat -> Nat] /\ f[0] = 1
  BY <1>6 DEF Recursive
<1>8. ASSUME NEW k \in Nat
      PROVE  f[k + 1] = IF k + 1 \in S THEN ModTimes(f[k], k + 1, m) ELSE f[k]
  <2>1. f[k + 1] = step[k + 1][f[prev[k + 1]]]
    BY <1>3, <1>6 DEF Recursive
  <2>2. f[k] \in Nat
    BY <1>7
  <2> QED
    BY <1>3, <1>4, <2>1, <2>2
<1> QED
  BY <1>7, <1>8 DEF Multiplies

\* The product, modulo m, of the numbers below m in a set.
Product(S, m) == (CHOOSE f : Multiplies(f, S, m))[m - 1]

\* A product is the last of the running ones.
LEMMA ProductIs ==
    ASSUME NEW m \in Nat, m > 1, NEW S
    PROVE  \E f : Multiplies(f, S, m) /\ Product(S, m) = f[m - 1]
<1>1. Multiplies(CHOOSE f : Multiplies(f, S, m), S, m)
  BY ProductExists
<1> QED
  BY <1>1 DEF Product

\* The empty product is 1.
LEMMA ProductOfNone ==
    ASSUME NEW m \in Nat, m > 1
    PROVE  Product({}, m) = 1
<1>1. PICK f : Multiplies(f, {}, m) /\ Product({}, m) = f[m - 1]
  BY ProductIs
<1> DEFINE X == {k \in Nat : f[k] = 1}
<1>2. 0 \in X /\ \A k \in Nat : k \in X => k + 1 \in X
  BY <1>1 DEF Multiplies
<1> HIDE DEF X
<1>3. Nat \subseteq X
  BY <1>2, Induction
<1>4. m - 1 \in Nat
  OBVIOUS
<1> QED
  BY <1>1, <1>3, <1>4 DEF X

\* A number put into the set goes into the product.
LEMMA ProductTakesIn ==
    ASSUME NEW m \in Nat, m > 1, NEW S, NEW x \in 1..m-1, x \notin S
    PROVE  /\ Product(S, m) \in Nat
           /\ Product(S \cup {x}, m) = ModTimes(Product(S, m), x, m)
<1> DEFINE T(u, v) == ModTimes(u, v, m)
<1>1. PICK f : Multiplies(f, S, m) /\ Product(S, m) = f[m - 1]
  BY ProductIs
<1>2. PICK g : Multiplies(g, S \cup {x}, m) /\ Product(S \cup {x}, m) = g[m - 1]
  BY ProductIs
<1>3. /\ f \in [Nat -> Nat] /\ f[0] = 1
      /\ \A k \in Nat : f[k + 1] = IF k + 1 \in S THEN T(f[k], k + 1) ELSE f[k]
  BY <1>1 DEF Multiplies
<1>4. /\ g \in [Nat -> Nat] /\ g[0] = 1
      /\ \A k \in Nat : g[k + 1] = IF k + 1 \in S \cup {x} THEN T(g[k], k + 1) ELSE g[k]
  BY <1>2 DEF Multiplies
<1>5. /\ \A u, v \in Nat : T(u, v) \in Nat
      /\ \A u, v, w \in Nat : T(T(u, v), w) = T(T(u, w), v)
  <2>1. m \in Nat \ {0}
    OBVIOUS
  <2>2. /\ \A u, v \in Nat : T(u, v) \in Nat
        /\ \A u, v \in Nat : T(u, v) = T(v, u)
        /\ \A u, v, w \in Nat : T(T(u, v), w) = T(u, T(v, w))
    BY <2>1, TimesLaws
  <2> HIDE DEF T
  <2> QED
    BY <2>2
<1> HIDE DEF T
<1> DEFINE X == {k \in Nat : g[k] = IF k < x THEN f[k] ELSE T(f[k], x)}
<1>6. 0 \in X
  BY <1>3, <1>4
<1>7. ASSUME NEW k \in Nat, k \in X PROVE k + 1 \in X
  <2>1. f[k] \in Nat /\ k + 1 \in Nat /\ x \in Nat
    BY <1>3
  <2>2. f[k + 1] = IF k + 1 \in S THEN T(f[k], k + 1) ELSE f[k]
    BY <1>3
  <2>3. g[k + 1] = IF k + 1 \in S \cup {x} THEN T(g[k], k + 1) ELSE g[k]
    BY <1>4
  <2>4. g[k] = IF k < x THEN f[k] ELSE T(f[k], x)
    BY <1>7
  <2>5. CASE k + 1 < x
    BY <2>1, <2>2, <2>3, <2>4, <2>5
  <2>6. CASE k + 1 = x
    BY <2>1, <2>2, <2>3, <2>4, <2>6
  <2>7. CASE k + 1 > x
    <3>1. ~(k < x) /\ ~(k + 1 < x) /\ k + 1 # x
      BY <2>1, <2>7
    <3>2. CASE k + 1 \in S
      <4>1. g[k + 1] = T(T(f[k], x), k + 1)
        BY <2>3, <2>4, <3>1, <3>2
      <4>2. f[k + 1] = T(f[k], k + 1)
        BY <2>2, <3>2
      <4>3. T(T(f[k], x), k + 1) = T(T(f[k], k + 1), x)
        <5>1. PICK v \in Nat, j \in Nat : v = f[k] /\ j = k + 1
          BY <2>1
        <5>2. T(T(v, x), j) = T(T(v, j), x)
          BY <1>5, <2>1
        <5> QED
          BY <5>1, <5>2
      <4>4. g[k + 1] = T(f[k + 1], x)
        BY <4>1, <4>2, <4>3
      <4> QED
        BY <2>1, <3>1, <4>4
    <3>3. CASE k + 1 \notin S
      BY <2>1, <2>2, <2>3, <2>4, <3>1, <3>3
    <3> QED
      BY <3>2, <3>3
  <2> QED
    BY <2>1, <2>5, <2>6, <2>7
<1> HIDE DEF X
<1>8. Nat \subseteq X
  BY <1>6, <1>7, Induction
<1>9. m - 1 \in Nat /\ ~(m - 1 < x)
  OBVIOUS
<1>10. g[m - 1] = T(f[m - 1], x)
  BY <1>8, <1>9 DEF X
<1> QED
  BY <1>1, <1>2, <1>3, <1>9, <1>10 DEF T

\* A prime has an inverse for what is below it, zero apart; it divides none.
LEMMA BelowPrime ==
    ASSUME NEW p \in Nat, Prime(p), NEW a \in 1..p-1
    PROVE  a \in Nat /\ a < p /\ a # 0 /\ Invertible(a, p)
<1>1. p > 1 /\ p \in Nat \ {0} /\ a \in Nat /\ a < p /\ a # 0
  BY DEF Prime
<1>2. a % p = a
  BY <1>1, ModSmall
<1>3. a % p # 0
  BY <1>1, <1>2
<1> QED
  BY <1>1, <1>3, PrimeInverse

\* The product of 1..k has an inverse too.
LEMMA FactorialInverse ==
    ASSUME NEW p \in Nat, Prime(p)
    PROVE  \A k \in 0..p-1 : /\ Product(1..k, p) \in Nat
                             /\ Product(1..k, p) < p
                             /\ Invertible(Product(1..k, p), p)
<1> DEFINE F(k) == Product(1..k, p)
           X == {k \in Nat : k < p => F(k) \in Nat /\ F(k) < p /\ Invertible(F(k), p)}
<1>1. p > 1 /\ p \in Nat \ {0}
  BY DEF Prime
<1>2. 0 \in X
  <2>1. 1..0 = {}
    OBVIOUS
  <2>2. F(0) = 1
    BY <1>1, <2>1, ProductOfNone
  <2>3. 1 \in 1..p-1
    BY <1>1
  <2> QED
    BY <1>1, <2>2, <2>3, BelowPrime
<1>3. ASSUME NEW k \in Nat, k \in X PROVE k + 1 \in X
  <2> SUFFICES ASSUME k + 1 < p PROVE F(k + 1) \in Nat /\ F(k + 1) < p /\ Invertible(F(k + 1), p)
    OBVIOUS
  <2>1. k + 1 \in 1..p-1 /\ k + 1 \notin 1..k /\ 1..k+1 = (1..k) \cup {k + 1} /\ k < p
    OBVIOUS
  <2>2. PICK j \in 1..p-1 : j = k + 1
    BY <2>1
  <2>3. F(k + 1) = ModTimes(F(k), j, p)
    BY <1>1, <2>1, <2>2, ProductTakesIn
  <2>4. F(k) \in Nat /\ Invertible(F(k), p)
    BY <1>3, <2>1
  <2>5. j \in Nat /\ Invertible(j, p)
    BY BelowPrime
  <2> HIDE DEF F
  <2>6. F(k + 1) \in Nat /\ F(k + 1) < p
    BY <1>1, <2>3, <2>4, <2>5, TimesLaws
  <2>7. Invertible(F(k + 1), p)
    BY <1>1, <2>3, <2>4, <2>5, InverseOfTimes
  <2> QED
    BY <2>6, <2>7
<1> HIDE DEF X
<1>4. Nat \subseteq X
  BY <1>2, <1>3, Induction
<1>5. \A k \in 0..p-1 : k \in Nat /\ k < p
  BY <1>1
<1> QED
  BY <1>4, <1>5 DEF X

\* The multiples of a by 1..k, modulo p.
Multiples(a, k, p) == {ModTimes(a, x, p) : x \in 1..k}

\* Their product has a power of a for the numbers multiplied.
LEMMA ProductOfMultiples ==
    ASSUME NEW p \in Nat, Prime(p), NEW a \in 1..p-1
    PROVE  \A k \in 0..p-1 :
              Product(Multiples(a, k, p), p) = ModTimes(ModPow(a, k, p), Product(1..k, p), p)
<1> DEFINE T(x, y) == ModTimes(x, y, p)
           F(k) == Product(1..k, p)
           M(k) == Multiples(a, k, p)
           G(k) == Product(M(k), p)
           A(k) == ModPow(a, k, p)
           X == {k \in Nat : k < p => G(k) = T(A(k), F(k))}
<1>1. p > 1 /\ p \in Nat \ {0}
  BY DEF Prime
<1>2. a \in Nat /\ Invertible(a, p) /\ a < p
  BY BelowPrime
<1>3. 0 \in X
  <2>1. 1..0 = {}
    OBVIOUS
  <2>2. M(0) = {}
    BY <2>1 DEF Multiples
  <2>3. F(0) = 1 /\ G(0) = 1
    BY <1>1, <2>1, <2>2, ProductOfNone
  <2>4. A(0) = 1
    BY <1>1, <1>2, PowSucc
  <2>5. T(1, 1) = 1
    BY <1>1, TimesLaws
  <2> QED
    BY <2>3, <2>4, <2>5
<1>4. ASSUME NEW k \in Nat, k \in X PROVE k + 1 \in X
  <2> SUFFICES ASSUME k + 1 < p PROVE G(k + 1) = T(A(k + 1), F(k + 1))
    OBVIOUS
  <2>1. k + 1 \in 1..p-1 /\ k + 1 \notin 1..k /\ 1..k+1 = (1..k) \cup {k + 1} /\ k \in 0..p-1
    OBVIOUS
  <2>2. PICK j \in 1..p-1 : j = k + 1
    BY <2>1
  <2>3. j \in Nat /\ j < p /\ j # 0
    BY BelowPrime
  <2>4. F(j) = T(F(k), j)
    BY <1>1, <2>1, <2>2, ProductTakesIn
  <2>5. PICK t \in 0..p-1 : t = T(a, j)
    <3>1. a * j \in Nat
      BY <1>2, <2>3
    <3> QED
      BY <1>1, <3>1, ModIs DEF ModTimes
  <2>6. t # 0
    <3> SUFFICES ASSUME T(a, j) = 0 PROVE FALSE
      BY <2>5
    <3>1. T(a, 0) = 0
      <4>1. a * 0 = 0 /\ 0 % p = 0
        BY <1>1, <1>2, ModSmall
      <4> QED
        BY <4>1 DEF ModTimes
    <3> QED
      BY <1>1, <1>2, <2>3, <3>1, TimesCancel
  <2>7. t \notin M(k)
    <3> SUFFICES ASSUME NEW x \in 1..k, T(a, j) = T(a, x) PROVE FALSE
      BY <2>5 DEF Multiples
    <3>1. x \in Nat /\ x < p /\ x # j
      BY <2>2
    <3> QED
      BY <1>1, <1>2, <2>3, <3>1, TimesCancel
  <2>8. M(j) = M(k) \cup {t}
    <3>1. 1..j = (1..k) \cup {j}
      BY <2>1, <2>2
    <3> QED
      BY <2>5, <3>1 DEF Multiples
  <2>9. G(j) = T(G(k), t)
    <3>1. t \in 1..p-1
      BY <2>5, <2>6
    <3> HIDE DEF M
    <3> QED
      BY <1>1, <2>7, <2>8, <3>1, ProductTakesIn
  <2>10. A(j) = T(A(k), a) /\ A(k) \in Nat
    BY <1>1, <1>2, <2>2, PowSucc
  <2>11. F(k) \in Nat
    BY <2>1, FactorialInverse
  <2>12. G(k) = T(A(k), F(k))
    BY <1>4
  <2>swap. \A u, v, x \in Nat : T(T(u, v), T(a, x)) = T(T(u, a), T(v, x))
    BY <1>1, <1>2, TimesSwap
  <2>13. T(T(A(k), F(k)), T(a, j)) = T(T(A(k), a), T(F(k), j))
    <3> HIDE DEF A, F, T
    <3>1. PICK u \in Nat, v \in Nat : u = A(k) /\ v = F(k)
      BY <2>10, <2>11
    <3>2. T(T(u, v), T(a, j)) = T(T(u, a), T(v, j))
      BY <1>2, <2>3, <2>swap
    <3> QED
      BY <3>1, <3>2
  <2> HIDE DEF A, F, G, T
  <2> QED
    BY <2>2, <2>4, <2>5, <2>9, <2>10, <2>12, <2>13
<1> HIDE DEF X
<1>5. Nat \subseteq X
  BY <1>3, <1>4, Induction
<1>6. \A k \in 0..p-1 : k \in Nat /\ k < p
  BY <1>1
<1> QED
  BY <1>5, <1>6 DEF X

\* The multiples of a by all the numbers below p are those numbers.
LEMMA MultiplesAreAll ==
    ASSUME NEW p \in Nat, Prime(p), NEW a \in 1..p-1
    PROVE  Multiples(a, p - 1, p) = 1..p-1
<1> DEFINE T(x, y) == ModTimes(x, y, p)
<1>1. p > 1 /\ p \in Nat \ {0}
  BY DEF Prime
<1>2. a \in Nat /\ Invertible(a, p)
  BY BelowPrime
<1>3. T(a, 0) = 0
  <2>1. a * 0 = 0 /\ 0 % p = 0
    BY <1>1, <1>2, ModSmall
  <2> QED
    BY <2>1 DEF ModTimes
<1>4. PICK i \in Nat : T(a, i) = 1
  <2>1. PICK i \in 1..p-1 : (a * i) % p = 1
    BY <1>2 DEF Invertible
  <2> QED
    BY <2>1 DEF ModTimes
<1>5. /\ \A x, y \in Nat : T(x, y) \in Nat /\ T(x, y) < p
      /\ \A x, y \in Nat : T(x, y) = T(y, x)
      /\ \A x, y, z \in Nat : T(T(x, y), z) = T(x, T(y, z))
      /\ \A x \in Nat : x < p => T(x, 1) = x
  BY <1>1, TimesLaws
<1>6. ASSUME NEW x \in 1..p-1 PROVE T(a, x) \in 1..p-1
  <2>1. x \in Nat /\ x < p /\ x # 0
    BY BelowPrime
  <2>2. T(a, x) # 0
    BY <1>1, <1>2, <1>3, <2>1, TimesCancel
  <2> HIDE DEF T
  <2>3. PICK t \in Nat : t = T(a, x) /\ t < p
    BY <1>2, <1>5, <2>1
  <2> QED
    BY <2>2, <2>3
<1>7. ASSUME NEW y \in 1..p-1 PROVE \E x \in 1..p-1 : T(a, x) = y
  <2>1. y \in Nat /\ y < p /\ y # 0
    BY BelowPrime
  <2> HIDE DEF T
  <2>2. PICK x \in Nat : x = T(i, y) /\ x < p
    BY <1>5, <2>1
  <2>3. T(a, x) = T(T(a, i), y)
    BY <1>2, <1>5, <2>1, <2>2
  <2>4. T(T(a, i), y) = y
    <3>1. 1 \in Nat
      OBVIOUS
    <3>2. T(1, y) = T(y, 1)
      BY <1>5, <2>1, <3>1
    <3>3. T(y, 1) = y
      BY <1>5, <2>1
    <3> QED
      BY <1>4, <3>2, <3>3
  <2>5. x # 0
    BY <1>3, <2>1, <2>3, <2>4
  <2>6. x \in 1..p-1
    BY <2>2, <2>5
  <2> QED
    BY <2>3, <2>4, <2>6
<1> QED
  BY <1>6, <1>7 DEF Multiples

\* Fermat's little theorem.
LEMMA Fermat ==
    ASSUME NEW p \in Nat, Prime(p), NEW a \in 1..p-1
    PROVE  ModPow(a, p - 1, p) = 1
<1>1. p > 1 /\ p \in Nat \ {0} /\ p - 1 \in 0..p-1 /\ p - 1 \in Nat
  BY DEF Prime
<1>2. PICK f \in Nat : f = Product(1..p-1, p) /\ f < p /\ Invertible(f, p)
  BY <1>1, FactorialInverse
<1>3. PICK w \in Nat : w = ModPow(a, p - 1, p) /\ w < p
  BY <1>1, BelowPrime, PowSucc
<1>4. f = ModTimes(w, f, p)
  BY <1>1, <1>2, <1>3, ProductOfMultiples, MultiplesAreAll
<1>5. ModTimes(w, f, p) = ModTimes(f, w, p) /\ ModTimes(f, 1, p) = f
  BY <1>1, <1>2, TimesLaws
<1> QED
  BY <1>1, <1>2, <1>3, <1>4, <1>5, TimesCancel

-----------------------------------------------------------------------------
(***************************************************************************)
(* RSA: the power e of the power d is the number itself.                   *)
(***************************************************************************)
\* A number divides no other prime.
LEMMA PrimesApart ==
    ASSUME NEW p \in Nat, NEW q \in Nat, Prime(p), Prime(q), p # q
    PROVE  Invertible(p, q)
<1>1. p > 1 /\ q > 1 /\ q \in Nat \ {0}
  BY DEF Prime
<1>2. p % q # 0
  <2>1. CASE p < q
    BY <1>1, <2>1, ModSmall
  <2>2. CASE p > q
    BY <1>1, <2>2 DEF Prime
  <2> QED
    BY <2>1, <2>2
<1> QED
  BY <1>2, PrimeInverse

\* Two numbers with the same remainder differ by a multiple.
LEMMA SameRemainder ==
    ASSUME NEW m \in Nat \ {0}, NEW x \in Nat, NEW y \in Nat, x <= y, x % m = y % m
    PROVE  \E k \in Nat : y = x + m * k
<1>1. PICK i \in Nat : x = m * i + (x % m)
  BY ModIs
<1>2. PICK j \in Nat : y = m * j + (y % m)
  BY ModIs
<1>3. PICK z \in Nat : z = x % m /\ z = y % m
  BY ModIs
<1>4. x = m * i + z /\ y = m * j + z
  BY <1>1, <1>2, <1>3
<1>5. i <= j
  <2> SUFFICES ASSUME i > j PROVE FALSE
    OBVIOUS
  <2>1. m * i >= m * (j + 1) /\ m * (j + 1) = m * j + m
    OBVIOUS
  <2> QED
    BY <1>4, <2>1
<1>6. PICK k \in Nat : j = i + k
  BY <1>5
<1>7. m * j = m * i + m * k
  BY <1>6
<1> QED
  BY <1>4, <1>7

\* Below p * q a number is known by its remainders.
LEMMA Chinese ==
    ASSUME NEW p \in Nat, NEW q \in Nat, p > 1, q > 1, Invertible(p, q),
           NEW x \in Nat, NEW y \in Nat, x <= y, y < p * q, x % p = y % p, x % q = y % q
    PROVE  x = y
<1>1. p \in Nat \ {0} /\ q \in Nat \ {0}
  OBVIOUS
<1>2. PICK s \in Nat : y = x + p * s
  BY <1>1, SameRemainder
<1>3. PICK t \in Nat : y = x + q * t
  BY <1>1, SameRemainder
<1>4. p * s = q * t
  BY <1>2, <1>3
<1>5. s < q
  <2> SUFFICES ASSUME s >= q PROVE FALSE
    OBVIOUS
  <2>1. p * s >= p * q
    OBVIOUS
  <2> QED
    BY <1>2, <2>1
<1>6. ModTimes(p, s, q) = 0
  <2>1. (q * t + 0) % q = 0
    <3>1. 0 \in 0..q-1
      OBVIOUS
    <3> QED
      BY <1>1, <3>1, ModUnique
  <2>2. q * t + 0 = q * t
    OBVIOUS
  <2> QED
    BY <1>4, <2>1, <2>2 DEF ModTimes
<1>7. ModTimes(p, 0, q) = 0
  <2>1. p * 0 = 0 /\ 0 % q = 0
    BY <1>1, ModSmall
  <2> QED
    BY <2>1 DEF ModTimes
<1>8. s = 0
  BY <1>5, <1>6, <1>7, TimesCancel
<1> QED
  BY <1>2, <1>8

\* A power is known from the remainder of what it is a power of.
LEMMA PowReduced ==
    ASSUME NEW m \in Nat, m > 1, NEW a \in Nat, NEW k \in Nat
    PROVE  ModPow(a % m, k, m) = ModPow(a, k, m)
<1>1. PICK b \in Nat : b = 1
  OBVIOUS
<1>2. ModPow((a * b) % m, k, m) = (ModPow(a, k, m) * ModPow(b, k, m)) % m
  BY PowMul
<1>3. PICK w \in Nat : w = ModPow(a, k, m) /\ w < m
  BY PowSucc
<1>4. ModPow(b, k, m) = 1
  BY <1>1, PowOne
<1>5. w % m = w
  BY <1>3, ModSmall
<1>6. a * b = a /\ w * 1 = w
  BY <1>1
<1> QED
  BY <1>2, <1>3, <1>4, <1>5, <1>6

\* A power of zero is zero.
LEMMA PowZero ==
    ASSUME NEW m \in Nat, m > 1, NEW k \in Nat
    PROVE  ModPow(0, k + 1, m) = 0
<1>1. PICK w \in Nat : w = ModPow(0, k, m) /\ ModPow(0, k + 1, m) = ModTimes(w, 0, m)
  <2>1. 0 \in Nat
    OBVIOUS
  <2> QED
    BY <2>1, PowSucc
<1>2. w * 0 = 0 /\ 0 % m = 0
  BY ModSmall
<1> QED
  BY <1>1, <1>2 DEF ModTimes

\* Modulo a prime p the power 1 + (p-1)j changes nothing.
LEMMA PowReturns ==
    ASSUME NEW p \in Nat, Prime(p), NEW a \in Nat, NEW j \in Nat
    PROVE  ModPow(a, 1 + (p - 1) * j, p) = a % p
<1>1. p > 1 /\ p \in Nat \ {0} /\ p - 1 \in Nat
  BY DEF Prime
<1>2. PICK b \in 0..p-1 : b = a % p
  BY <1>1, ModIs
<1>3. PICK n \in Nat : n = (p - 1) * j
  <2>1. (p - 1) * j \in Nat
    BY <1>1
  <2> QED
    BY <2>1
<1>4. ModPow(a, n + 1, p) = ModPow(b, n + 1, p)
  <2>1. n + 1 \in Nat
    OBVIOUS
  <2> QED
    BY <1>1, <1>2, <2>1, PowReduced
<1>5. ModPow(b, n + 1, p) = b
  <2>1. CASE b = 0
    BY <1>1, <2>1, PowZero
  <2>2. CASE b # 0
    <3>1. b \in 1..p-1 /\ b \in Nat
      BY <1>1, <2>2
    <3>2. ModPow(b, p - 1, p) = 1
      BY <3>1, Fermat
    <3>3. ModPow(b, n, p) = 1
      <4>1. ModPow(b, (p - 1) * j, p) = ModPow(ModPow(b, p - 1, p), j, p)
        BY <1>1, <3>1, PowTimes
      <4>2. ModPow(1, j, p) = 1
        BY <1>1, PowOne
      <4> QED
        BY <1>3, <3>2, <4>1, <4>2
    <3>4. ModPow(b, n + 1, p) = ModTimes(1, b, p)
      BY <1>1, <3>1, <3>3, PowSucc
    <3>5. ModTimes(1, b, p) = b
      <4>1. 1 * b = b /\ b % p = b
        BY <1>1, <3>1, ModSmall
      <4> QED
        BY <4>1 DEF ModTimes
    <3> QED
      BY <3>4, <3>5
  <2> QED
    BY <2>1, <2>2
<1>6. 1 + n = n + 1
  OBVIOUS
<1> QED
  BY <1>2, <1>3, <1>4, <1>5, <1>6

\* The exponents of a key pair undo each other.
Inverses(e, d, phi) == \E j \in Nat : d * e = 1 + phi * j

\* The power d of a number below p * q has the number as its power e.
LEMMA RsaReturns ==
    ASSUME NEW p \in Nat, NEW q \in Nat, Prime(p), Prime(q), p # q,
           NEW d \in Nat, NEW e \in Nat, Inverses(e, d, (p - 1) * (q - 1)),
           NEW w \in Nat, w < p * q
    PROVE  ModPow(ModPow(w, d, p * q), e, p * q) = w
<1>1. p > 1 /\ q > 1 /\ p - 1 \in Nat /\ q - 1 \in Nat
  BY DEF Prime
<1>2. PICK N \in Nat : N = p * q /\ N > 1
  <2>1. p * q >= 2 * q
    BY <1>1
  <2> QED
    BY <1>1, <2>1
<1>3. PICK j \in Nat : d * e = 1 + ((p - 1) * (q - 1)) * j
  BY DEF Inverses
<1>4. PICK n \in Nat : n = d * e
  OBVIOUS
<1>5. ModPow(ModPow(w, d, N), e, N) = ModPow(w, n, N)
  BY <1>2, <1>4, PowTimes
<1>6. PICK v \in Nat : v = ModPow(w, n, N) /\ v < N
  BY <1>2, PowSucc
<1>7. v % p = w % p
  <2>1. n = 1 + (p - 1) * ((q - 1) * j) /\ (q - 1) * j \in Nat
    BY <1>1, <1>3, <1>4
  <2>2. ModPow(w, n, p) = w % p
    BY <2>1, PowReturns
  <2>3. ModPow(w, n, p * q) % p = ModPow(w, n, p)
    BY <1>1, PowFactor
  <2> QED
    BY <1>2, <1>6, <2>2, <2>3
<1>8. v % q = w % q
  <2>1. n = 1 + (q - 1) * ((p - 1) * j) /\ (p - 1) * j \in Nat
    BY <1>1, <1>3, <1>4
  <2>2. ModPow(w, n, q) = w % q
    BY <2>1, PowReturns
  <2>3. ModPow(w, n, q * p) % q = ModPow(w, n, q)
    BY <1>1, PowFactor
  <2>4. q * p = p * q
    OBVIOUS
  <2> QED
    BY <1>2, <1>6, <2>2, <2>3, <2>4
<1>9. Invertible(p, q)
  BY PrimesApart
<1>10. v = w
  <2>1. CASE v <= w
    BY <1>1, <1>2, <1>6, <1>7, <1>8, <1>9, <2>1, Chinese
  <2>2. CASE w <= v
    BY <1>1, <1>2, <1>6, <1>7, <1>8, <1>9, <2>2, Chinese
  <2> QED
    BY <2>1, <2>2
<1> QED
  BY <1>2, <1>5, <1>6, <1>10

-----------------------------------------------------------------------------
(***************************************************************************)
(* Sizes in bits and bytes.                                                *)
(***************************************************************************)
LEMMA DivUnique ==
    ASSUME NEW m \in Nat \ {0}, NEW k \in Nat, NEW z \in 0..m-1
    PROVE  (m * k + z) \div m = k
<1> DEFINE x == m * k + z
           d == x \div m
<1>1. x \in Nat
  OBVIOUS
<1>2. d \in Nat /\ x = m * d + (x % m) /\ x % m \in 0..m-1
  <2> HIDE DEF x
  <2> QED
    BY <1>1
<1>3. PICK q \in Nat : q = d
  BY <1>2
<1>4. PICK y \in 0..m-1 : y = x % m
  BY <1>2
<1>5. m * q + y = m * k + z
  BY <1>2, <1>3, <1>4
<1>6. CASE q < k
  <2>1. m * k >= m * (q + 1) /\ m * (q + 1) = m * q + m
    BY <1>6
  <2> QED
    BY <1>5, <2>1
<1>7. CASE q > k
  <2>1. m * q >= m * (k + 1) /\ m * (k + 1) = m * k + m
    BY <1>7
  <2> QED
    BY <1>5, <2>1
<1>8. CASE q = k
  BY <1>3, <1>8
<1> QED
  BY <1>6, <1>7, <1>8

\* How many bytes so many bits take: two at least when they are more than one
\* byte's, as many as one bit less takes unless that bit opens a byte.
LEMMA BytesIs ==
    ASSUME NEW b \in Nat, b > 2, NEW bits \in Nat, bits > b
    PROVE  LET bytes == (bits + b - 1) \div b
           IN  /\ bytes \in Nat /\ bytes > 1
               /\ (bits % b # 1 => bytes = (bits - 1 + b - 1) \div b)
               /\ (bits % b = 0 => b * bytes = bits)
<1> DEFINE bytes == (bits + b - 1) \div b
           less == (bits - 1 + b - 1) \div b
<1>1. b \in Nat \ {0}
  OBVIOUS
<1>2. PICK q \in Nat : bits = b * q + (bits % b)
  BY <1>1, ModIs
<1>3. PICK z \in 0..b-1 : z = bits % b
  BY <1>1, ModIs
<1>4. bits = b * q + z
  BY <1>2, <1>3
<1>5. q > 0
  <2> SUFFICES ASSUME q = 0 PROVE FALSE
    OBVIOUS
  <2> QED
    BY <1>4
<1>6. q + 1 \in Nat /\ b * (q + 1) = b * q + b
  OBVIOUS
<1>7. CASE z = 0
  <2>1. bits + b - 1 = b * q + (b - 1) /\ bits - 1 + b - 1 = b * q + (b - 2)
    BY <1>4, <1>7
  <2>2. b - 1 \in 0..b-1 /\ b - 2 \in 0..b-1
    OBVIOUS
  <2>3. bytes = q /\ less = q
    BY <1>1, <2>1, <2>2, DivUnique
  <2>4. q # 1
    <3> SUFFICES ASSUME q = 1 PROVE FALSE
      OBVIOUS
    <3> QED
      BY <1>4, <1>7
  <2> HIDE DEF bytes, less
  <2> QED
    BY <1>3, <1>4, <1>5, <1>7, <2>3, <2>4 DEF bytes, less
<1>8. CASE z = 1
  <2>1. bits + b - 1 = b * (q + 1) + 0 /\ 0 \in 0..b-1
    BY <1>4, <1>6, <1>8
  <2>2. bytes = q + 1
    BY <1>1, <1>6, <2>1, DivUnique
  <2> QED
    BY <1>3, <1>5, <1>8, <2>2
<1>9. CASE z > 1
  <2>1. bits + b - 1 = b * (q + 1) + (z - 1) /\ bits - 1 + b - 1 = b * (q + 1) + (z - 2)
    BY <1>4, <1>6, <1>9
  <2>2. z - 1 \in 0..b-1 /\ z - 2 \in 0..b-1
    BY <1>9
  <2>3. bytes = q + 1 /\ less = q + 1
    BY <1>1, <1>6, <2>1, <2>2, DivUnique
  <2> QED
    BY <1>3, <1>5, <1>9, <2>3
<1> QED
  BY <1>7, <1>8, <1>9

-----------------------------------------------------------------------------
(***************************************************************************)
(* The inductive invariant: between blinding and verification the wire     *)
(* holds the message under the factor, then its signature, then a root of  *)
(* the message.                                                            *)
(***************************************************************************)
KeyInv ==
    /\ pc = "start" => r = 0 /\ wire = 0
    /\ pc # "start" => key.N > 1 /\ BitLen(key.N) > ByteBits

BlindInv ==
    pc \in {"blinded", "signed", "token"} =>
        em < Pow2[EmBits(client)] /\ Invertible(r, key.N)

WireInv ==
    /\ pc = "blinded" => wire = Blinded(em, r)
    /\ pc = "signed" => ModPow(wire, DerivedE, key.N) = Blinded(em, r)
    /\ pc = "token" => ModPow(wire, DerivedE, key.N) = em % key.N

RsaInv == TypeOK /\ KeyInv /\ BlindInv /\ WireInv /\ SignedTokensVerify

\* The derived exponent is a natural under every key there can be.
LEMMA DerivedEIs ==
    ASSUME TypeOK, KeyInv, pc # "start"
    PROVE  /\ key.N \in Nat /\ key.N > 1 /\ BitLen(key.N) \in Nat
           /\ DerivedE \in Nat
<1>1. key.N \in Nat /\ key.N > 1 /\ BitLen(key.N) > ByteBits
  BY DEF TypeOK, KeyInv
<1>2. BitLen(key.N) \in Nat
  BY <1>1, BitLenIs
<1>3. ByteBits \in Nat /\ ByteBits > 2
  BY SizesAssumption
<1>4. ModulusLen \in Nat /\ ModulusLen > 1
  BY <1>1, <1>2, <1>3, BytesIs DEF ModulusLen
<1>5. LambdaBits - 2 \in Nat
  <2>1. PICK half \in Nat : half = ModulusLen \div 2
    BY <1>4
  <2>2. half > 0
    BY <1>4, <2>1
  <2>3. ByteBits * half >= ByteBits /\ ByteBits * half \in Nat
    BY <1>3, <2>2
  <2> QED
    BY <1>3, <2>1, <2>3 DEF LambdaBits
<1>6. expanded \in Nat
  BY SamplesAssumption DEF TypeOK
<1>7. expanded % Pow2[LambdaBits - 2] \in Nat
  BY <1>5, <1>6, Pow2Grows, ModIs
<1>8. DerivedE \in Nat
  BY <1>7 DEF DerivedE
<1> QED
  BY <1>1, <1>2, <1>8

\* The message is a natural, before and after Blind draws it.
LEMMA MessageIs == TypeOK => em \in Nat
<1>1. TypeOK => em \in Encodings \cup {0}
  BY DEF TypeOK
<1>2. \A m \in Encodings \cup {0} : m \in Nat
  <2>1. \A m \in Encodings : m \in Nat
    BY SamplesAssumption
  <2>2. 0 \in Nat
    OBVIOUS
  <2> QED
    BY <2>1, <2>2, Zenon
<1> QED
  BY <1>1, <1>2, Zenon

\* A message short enough for its client is below the modulus, where the key
\* has a size that serves, and has the length Verify expects.
LEMMA SizeFits ==
    ASSUME TypeOK, KeyInv, pc # "start", SizeServes, em < Pow2[EmBits(client)]
    PROVE  /\ em < Pow2[BitLen(key.N) - 1]
           /\ em % key.N = em
           /\ ModulusLen = (BitLen(key.N) - 1 + ByteBits - 1) \div ByteBits
<1>1. key.N \in Nat /\ key.N > 1 /\ BitLen(key.N) \in Nat
  BY DerivedEIs
<1>2. BitLen(key.N) > ByteBits /\ em \in Nat
  <2>1. BitLen(key.N) > ByteBits
    BY DEF KeyInv
  <2>2. em \in Nat
    BY MessageIs
  <2> QED
    BY <2>1, <2>2
<1>3. ByteBits \in Nat /\ ByteBits > 2
  BY SizesAssumption
<1>4. BitLen(key.N) % ByteBits # 1 => ModulusLen = (BitLen(key.N) - 1 + ByteBits - 1) \div ByteBits
  BY <1>1, <1>2, <1>3, BytesIs DEF ModulusLen
<1>5. BitLen(key.N) % ByteBits = 0 => ByteBits * ModulusLen = BitLen(key.N)
  BY <1>1, <1>2, <1>3, BytesIs DEF ModulusLen
<1>6. BitLen(key.N) % ByteBits # 1
  BY DEF SizeServes
<1>7. EmBits(client) = BitLen(key.N) - 1
  BY <1>5 DEF EmBits, SizeServes
<1>8. em < Pow2[BitLen(key.N) - 1]
  BY <1>7
<1>9. Pow2[BitLen(key.N) - 1] \in Nat /\ Pow2[BitLen(key.N) - 1] <= key.N
  <2>1. BitLen(key.N) - 1 \in Nat
    BY <1>2, <1>1, <1>3
  <2> QED
    BY <1>1, <2>1, BitLenIs, Pow2Grows
<1>10. em % key.N = em
  BY <1>1, <1>2, <1>8, <1>9, ModSmall
<1> QED
  BY <1>4, <1>6, <1>8, <1>10

\* What a key with two primes of its own above one gives.
LEMMA Keyed ==
    ASSUME RsaInv, pc = "start", pc' = "keyed",
           NEW p \in Nat, NEW q \in Nat, p > 1, q > 1,
           BitLen(p * q) > ByteBits, key' = KeyOf(p, q), generated' \in BOOLEAN,
           UNCHANGED <<client, expanded, em, r, wire>>
    PROVE  RsaInv'
<1>1. key'.N = p * q /\ key'.N \in Nat /\ key'.N > 1 /\ key'.Phi \in Nat
      /\ key' \in [N : Nat, Phi : Nat]
  <2>1. p * q \in Nat /\ p * q > 1 /\ (p - 1) * (q - 1) \in Nat
    <3>1. p * q >= 2 * q
      OBVIOUS
    <3>2. p - 1 \in Nat /\ q - 1 \in Nat
      OBVIOUS
    <3>3. (p - 1) * (q - 1) \in Nat
      BY <3>2
    <3> QED
      BY <3>1, <3>3
  <2> QED
    BY <2>1 DEF KeyOf
<1>2. TypeOK'
  BY <1>1 DEF RsaInv, TypeOK, KeyInv
<1>3. KeyInv'
  BY <1>1 DEF KeyInv, KeyOf
<1>4. BlindInv' /\ WireInv' /\ SignedTokensVerify'
  BY DEF BlindInv, WireInv, SignedTokensVerify
<1> QED
  BY <1>2, <1>3, <1>4 DEF RsaInv

\* Every action keeps the invariant.
LEMMA Step ==
    ASSUME RsaInv, [Next]_vars
    PROVE  RsaInv'
<1> USE DEF RsaInv
<1>1. CASE GenerateKey
  <2>1. PICK p, q \in SafePrimes(Bits \div 2 - 1) :
            BitLen(p * q) = Bits /\ key' = KeyOf(p, q)
    BY <1>1 DEF GenerateKey
  <2>2. p \in Nat /\ q \in Nat /\ p > 1 /\ q > 1
    <3>1. Bits \in Nat /\ Bits > 3
      BY SizesAssumption
    <3>2. PICK b \in Nat : b = Bits \div 2 - 1
      BY <3>1
    <3>3. b - 1 \in Nat /\ b \in Nat
      BY <3>1, <3>2
    <3>4. Pow2[b - 1] \in Nat \ {0} /\ Pow2[b] \in Nat
      BY <3>3, Pow2Grows
    <3>5. \A x \in Pow2[b - 1]..Pow2[b] - 1 : x \in Nat /\ x > 0
      BY <3>4
    <3>6. \A y \in SafePrimes(b) : \E x \in Nat : x > 0 /\ y = 2 * x + 1
      BY <3>5 DEF SafePrimes
    <3>7. \A y \in SafePrimes(b) : y \in Nat /\ y > 1
      BY <3>6
    <3> QED
      BY <2>1, <3>2, <3>7
  <2>3. BitLen(p * q) > ByteBits
    BY <2>1, SizesAssumption
  <2> QED
    BY <1>1, <2>1, <2>2, <2>3, Keyed DEF GenerateKey
<1>2. CASE KeyPairFromComponents
  <2>1. PICK c \in Components : key' = KeyOf(c[1], c[2])
    BY <1>2 DEF KeyPairFromComponents
  <2>2. c[1] \in Nat /\ c[2] \in Nat /\ c[1] > 1 /\ c[2] > 1 /\ BitLen(c[1] * c[2]) > ByteBits
    BY SamplesAssumption
  <2>3. generated' \in BOOLEAN
    BY <1>2 DEF KeyPairFromComponents, TypeOK
  <2> QED
    BY <1>2, <2>1, <2>2, <2>3, Keyed DEF KeyPairFromComponents
<1>3. CASE Blind
  <2>1. pc = "keyed" /\ UNCHANGED <<key, generated, client, expanded>>
    BY <1>3 DEF Blind
  <2>2. PICK m \in Encodings, draw \in Factors :
            LET factor == draw % key.N
            IN  /\ m < Pow2[EmBits(client)]
                /\ em' = m
                /\ r' = factor
                /\ IF Invertible(factor, key.N)
                   THEN pc' = "blinded" /\ wire' = Blinded(m, factor)
                   ELSE pc' = "blinding error" /\ UNCHANGED wire
    BY <1>3 DEF Blind
  <2>3. key.N \in Nat /\ key.N > 1 /\ DerivedE \in Nat
    BY <2>1, DerivedEIs
  <2>4. m \in Nat /\ draw \in Nat
    BY SamplesAssumption
  <2>5. r' \in Nat /\ r' < key.N
    <3>1. key.N \in Nat \ {0}
      BY <2>3
    <3>2. draw % key.N \in Nat /\ draw % key.N < key.N
      BY <2>4, <3>1, ModIs
    <3> QED
      BY <2>2, <3>2
  <2>6. ModPow(r', DerivedE, key.N) \in Nat
    <3>1. PICK f \in Nat : f = r'
      BY <2>5
    <3>2. PICK n \in Nat : n = key.N /\ n > 1
      BY <2>3
    <3>3. PICK e \in Nat : e = DerivedE
      BY <2>3
    <3>4. ModPow(f, e, n) \in 0..n-1
      BY <3>2, ModPowIs
    <3> QED
      BY <3>1, <3>2, <3>3, <3>4
  <2>7. Blinded(m, r') \in Nat /\ Blinded(m, r') < key.N
    <3>1. m * ModPow(r', DerivedE, key.N) \in Nat /\ key.N \in Nat \ {0}
      BY <2>3, <2>4, <2>6
    <3> QED
      BY <3>1, ModIs DEF Blinded
  <2>8. pc' \in {"blinded", "blinding error"} /\ wire' \in Nat /\ wire' < key.N
    BY <2>1, <2>2, <2>7 DEF TypeOK
  <2>9. TypeOK'
    BY <2>1, <2>2, <2>5, <2>8 DEF TypeOK
  <2>10. KeyInv'
    BY <2>1, <2>8 DEF KeyInv
  <2>11. BlindInv'
    BY <2>1, <2>2, <2>8 DEF BlindInv, EmBits, ModulusLen
  <2>12. WireInv'
    <3>1. pc' = "blinded" => wire' = (em' * ModPow(r', DerivedE, key.N)) % key.N
      BY <2>2, <2>8 DEF Blinded
    <3>2. DerivedE' = DerivedE /\ key' = key
      BY <2>1 DEF DerivedE, LambdaBits, ModulusLen
    <3>3. pc' = "blinded" => wire' = Blinded(em, r)'
      BY <3>1, <3>2 DEF Blinded
    <3> QED
      BY <2>8, <3>3 DEF WireInv
  <2>13. SignedTokensVerify'
    BY <2>8 DEF SignedTokensVerify
  <2> QED
    BY <2>9, <2>10, <2>11, <2>12, <2>13
<1>4. CASE BlindSign
  <2>1. pc = "blinded" /\ CanSign /\ wire' = Signed /\ pc' = "signed"
        /\ UNCHANGED <<key, generated, client, expanded, em, r>>
    BY <1>4 DEF BlindSign
  <2>2. key.N \in Nat /\ key.N > 1 /\ DerivedE \in Nat
    BY <2>1, DerivedEIs
  <2>3. wire \in Nat /\ key.Phi \in Nat
    BY DEF TypeOK
  <2>4. ModInverse(DerivedE, key.Phi) \in Nat
    BY <2>1, <2>2, <2>3, InverseIs DEF CanSign
  <2>5. Signed \in Nat /\ Signed < key.N
    <3>1. Signed \in 0..key.N-1
      BY <2>2, <2>3, <2>4, ModPowIs DEF Signed
    <3> QED
      BY <2>2, <3>1
  <2>6. TypeOK'
    BY <2>1, <2>5 DEF TypeOK
  <2>7. KeyInv'
    BY <2>1 DEF KeyInv
  <2>8. BlindInv'
    BY <2>1 DEF BlindInv, EmBits, ModulusLen
  <2>9. WireInv'
    <3>1. ModPow(wire', DerivedE, key.N) = Blinded(em, r)
      BY <2>1 DEF CanSign, WireInv
    <3>2. DerivedE' = DerivedE /\ key' = key /\ em' = em /\ r' = r
      BY <2>1 DEF DerivedE, LambdaBits, ModulusLen
    <3>3. ModPow(wire', DerivedE', key'.N) = Blinded(em, r)'
      BY <3>1, <3>2 DEF Blinded
    <3> QED
      BY <2>1, <3>3 DEF WireInv
  <2>10. SignedTokensVerify'
    BY <2>1 DEF SignedTokensVerify
  <2> QED
    BY <2>6, <2>7, <2>8, <2>9, <2>10
<1>5. CASE BlindSignFails
  <2>1. pc = "blinded" /\ pc' = "signing error"
        /\ UNCHANGED <<key, generated, client, expanded, em, r, wire>>
    BY <1>5 DEF BlindSignFails
  <2>2. TypeOK'
    BY <2>1 DEF TypeOK
  <2>3. KeyInv'
    BY <2>1 DEF KeyInv
  <2>4. BlindInv' /\ WireInv' /\ SignedTokensVerify'
    BY <2>1 DEF BlindInv, WireInv, SignedTokensVerify
  <2> QED
    BY <2>2, <2>3, <2>4
<1>6. CASE Unblind
  <2>1. pc = "signed" /\ wire' = (wire * ModInverse(r, key.N)) % key.N /\ pc' = "token"
        /\ UNCHANGED <<key, generated, client, expanded, em, r>>
    BY <1>6 DEF Unblind
  <2>2. key.N \in Nat /\ key.N > 1 /\ DerivedE \in Nat
    BY <2>1, DerivedEIs
  <2>3. wire \in Nat /\ r \in Nat /\ em \in Nat
    <3>1. wire \in Nat /\ r \in Nat
      BY DEF TypeOK
    <3> QED
      BY <3>1, MessageIs
  <2>4. PICK inv \in Nat : inv = ModInverse(r, key.N) /\ (r * inv) % key.N = 1
    BY <2>1, <2>2, <2>3, InverseIs DEF BlindInv
  <2>5. wire' \in Nat /\ wire' < key.N
    <3>1. wire * inv \in Nat /\ key.N \in Nat \ {0}
      BY <2>2, <2>3
    <3> QED
      BY <2>1, <2>4, <3>1, ModIs
  <2>6. TypeOK'
    BY <2>1, <2>5 DEF TypeOK
  <2>7. KeyInv'
    BY <2>1 DEF KeyInv
  <2>8. BlindInv'
    BY <2>1 DEF BlindInv, EmBits, ModulusLen
  <2>9. WireInv'
    <3>1. ModPow(wire, DerivedE, key.N) = (em * ModPow(r, DerivedE, key.N)) % key.N
      BY <2>1 DEF WireInv, Blinded
    <3>2. ModPow((wire * inv) % key.N, DerivedE, key.N) = em % key.N
      <4>1. PICK n \in Nat : n = key.N /\ n > 1
        BY <2>2
      <4>2. PICK e \in Nat : e = DerivedE
        BY <2>2
      <4>3. PICK m \in Nat, s \in Nat, f \in Nat : m = em /\ s = wire /\ f = r
        BY <2>3
      <4>4. SignsBlinded(s, m, f, e, n) /\ ModTimes(f, inv, n) = 1
        BY <2>4, <3>1, <4>1, <4>2, <4>3 DEF ModTimes, SignsBlinded
      <4>5. RootOf(ModTimes(s, inv, n), m, e, n)
        BY <4>1, <4>4, Unblinds
      <4> QED
        BY <4>1, <4>2, <4>3, <4>5 DEF ModTimes, RootOf
    <3>3. ModPow(wire', DerivedE, key.N) = em % key.N
      BY <2>1, <2>4, <3>2
    <3>4. DerivedE' = DerivedE /\ key' = key /\ em' = em
      BY <2>1 DEF DerivedE, LambdaBits, ModulusLen
    <3>5. ModPow(wire', DerivedE', key'.N) = em' % key'.N
      BY <3>3, <3>4
    <3> QED
      BY <2>1, <3>5 DEF WireInv
  <2>10. SignedTokensVerify'
    BY <2>1 DEF SignedTokensVerify
  <2> QED
    BY <2>6, <2>7, <2>8, <2>9, <2>10
<1>7. CASE Verify
  <2>1. pc = "token" /\ pc' = (IF Verifies(wire) THEN "accepted" ELSE "invalid signature")
        /\ UNCHANGED <<key, generated, client, expanded, em, r, wire>>
    BY <1>7 DEF Verify
  <2>2. pc' \in {"accepted", "invalid signature"}
    BY <2>1
  <2>3. TypeOK'
    BY <2>1, <2>2 DEF TypeOK
  <2>4. KeyInv'
    BY <2>1, <2>2 DEF KeyInv
  <2>5. BlindInv' /\ WireInv'
    BY <2>2 DEF BlindInv, WireInv
  <2>6. SizeServes => Verifies(wire)
    <3> SUFFICES ASSUME SizeServes PROVE Verifies(wire)
      OBVIOUS
    <3>1. em < Pow2[EmBits(client)]
      BY <2>1 DEF BlindInv
    <3>2. /\ em < Pow2[BitLen(key.N) - 1]
          /\ em % key.N = em
          /\ ModulusLen = (BitLen(key.N) - 1 + ByteBits - 1) \div ByteBits
      BY <2>1, <3>1, SizeFits
    <3>3. ModPow(wire, DerivedE, key.N) = em
      BY <2>1, <3>2 DEF WireInv
    <3>4. wire < key.N
      BY <2>1 DEF TypeOK
    <3> QED
      BY <3>2, <3>3, <3>4 DEF Verifies
  <2>7. SignedTokensVerify'
    <3>1. SizeServes' <=> SizeServes
      BY <2>1 DEF SizeServes
    <3> QED
      BY <2>1, <2>6, <3>1 DEF SignedTokensVerify
  <2> QED
    BY <2>3, <2>4, <2>5, <2>7
<1>8. CASE UNCHANGED vars
  <2>1. pc' = pc /\ key' = key /\ generated' = generated /\ client' = client
        /\ expanded' = expanded /\ em' = em /\ r' = r /\ wire' = wire
    BY <1>8 DEF vars
  <2>2. DerivedE' = DerivedE /\ EmBits(client)' = EmBits(client)
    BY <2>1 DEF DerivedE, LambdaBits, ModulusLen, EmBits
  <2>3. TypeOK' /\ KeyInv' /\ SignedTokensVerify'
    BY <2>1 DEF TypeOK, KeyInv, SignedTokensVerify, SizeServes
  <2>4. BlindInv'
    BY <2>1, <2>2 DEF BlindInv
  <2>5. WireInv'
    BY <2>1, <2>2 DEF WireInv, Blinded
  <2> QED
    BY <2>3, <2>4, <2>5
<1> QED
  BY <1>1, <1>2, <1>3, <1>4, <1>5, <1>6, <1>7, <1>8 DEF Next

\* It holds in every initial state.
LEMMA Start == Init => RsaInv
<1> SUFFICES ASSUME Init PROVE RsaInv
  OBVIOUS
<1>1. TypeOK
  BY DEF Init, NoKey, TypeOK
<1>2. KeyInv /\ BlindInv /\ WireInv /\ SignedTokensVerify
  BY DEF Init, KeyInv, BlindInv, WireInv, SignedTokensVerify
<1> QED
  BY <1>1, <1>2 DEF RsaInv

\* It is an invariant.
LEMMA Invariance == Spec => []RsaInv
<1>1. RsaInv /\ [Next]_vars => RsaInv'
  BY Step
<1> QED
  BY <1>1, Start, PTL DEF Spec

-----------------------------------------------------------------------------
(***************************************************************************)
(* A key GenerateKey made has two safe primes, and an exponent derived     *)
(* under a modulus of whole bytes is an odd number below either p'.        *)
(***************************************************************************)
WholeBytes == Bits % ByteBits = 0

MadeOf(p, q) == p # q /\ BitLen(p * q) = Bits /\ key = KeyOf(p, q)

GeneratedInv ==
    /\ pc = "start" => ~generated
    /\ generated => \E p, q \in SafePrimes(Bits \div 2 - 1) : MadeOf(p, q)

\* A safe prime is 2p' + 1 with p' of the size asked for.
LEMMA SafePrimeIs ==
    ASSUME NEW p \in SafePrimes(Bits \div 2 - 1)
    PROVE  \E h \in Nat : /\ p = 2 * h + 1 /\ Prime(h) /\ Prime(p)
                          /\ Bits \div 2 - 2 \in Nat
                          /\ Pow2[Bits \div 2 - 2] <= h
<1>1. Bits \in Nat /\ Bits > 3
  BY SizesAssumption
<1>2. PICK b \in Nat : b = Bits \div 2 - 2
  BY <1>1
<1>3. Bits \div 2 - 1 = b + 1 /\ (b + 1) - 1 = b
  BY <1>1, <1>2
<1>4. Pow2[b] \in Nat /\ Pow2[b + 1] \in Nat
  BY Pow2Grows
<1>5. PICK h \in Pow2[b]..Pow2[b + 1] - 1 : p = 2 * h + 1 /\ Prime(h) /\ Prime(2 * h + 1)
  BY <1>3 DEF SafePrimes
<1>6. h \in Nat /\ Pow2[b] <= h
  BY <1>4, <1>5
<1> QED
  BY <1>2, <1>5, <1>6

\* The exponent is odd, at least 1, and below the power its cleared bits leave.
LEMMA ExponentIs ==
    ASSUME TypeOK, KeyInv, pc # "start"
    PROVE  /\ LambdaBits \in Nat /\ LambdaBits > 2
           /\ DerivedE \in Nat \ {0} /\ DerivedE % 2 = 1
           /\ DerivedE < Pow2[LambdaBits - 2]
<1>1. key.N \in Nat /\ key.N > 1 /\ BitLen(key.N) > ByteBits /\ BitLen(key.N) \in Nat
  BY DerivedEIs DEF KeyInv
<1>2. ByteBits \in Nat /\ ByteBits > 2
  BY SizesAssumption
<1>3. ModulusLen \in Nat /\ ModulusLen > 1
  BY <1>1, <1>2, BytesIs DEF ModulusLen
<1>4. LambdaBits \in Nat /\ LambdaBits > 2
  <2>1. PICK half \in Nat : half = ModulusLen \div 2
    BY <1>3
  <2>2. half > 0
    BY <1>3, <2>1
  <2>3. ByteBits * half >= ByteBits /\ ByteBits * half \in Nat
    BY <1>2, <2>2
  <2> QED
    BY <1>2, <2>1, <2>3 DEF LambdaBits
<1>5. PICK l \in Nat : LambdaBits - 2 = l + 1
  <2>1. PICK b \in Nat : b = LambdaBits /\ b > 2
    BY <1>4
  <2>2. b - 3 \in Nat /\ b - 2 = (b - 3) + 1
    BY <2>1
  <2> QED
    BY <2>1, <2>2
<1>6. PICK half \in Nat : half = Pow2[l] /\ half # 0 /\ Pow2[l + 1] = 2 * half
  BY Pow2Is, Pow2Grows
<1>7. PICK e \in 0..2*half - 1 : e = expanded % Pow2[LambdaBits - 2]
  <2>1. expanded \in Nat
    BY SamplesAssumption DEF TypeOK
  <2>2. 2 * half \in Nat \ {0}
    BY <1>6
  <2>3. expanded % (2 * half) \in 0..2*half - 1
    BY <2>1, <2>2, ModIs
  <2> QED
    BY <1>5, <1>6, <2>3
<1>8. DerivedE = IF e % 2 = 0 THEN e + 1 ELSE e
  BY <1>7 DEF DerivedE
<1>9. e \in Nat /\ e < 2 * half
  BY <1>6
<1>10. DerivedE \in Nat \ {0} /\ DerivedE % 2 = 1 /\ DerivedE < 2 * half
  <2>1. CASE e % 2 = 0
    BY <1>8, <1>9, <2>1
  <2>2. CASE e % 2 # 0
    BY <1>8, <1>9, <2>2
  <2> QED
    BY <2>1, <2>2
<1> QED
  BY <1>4, <1>5, <1>6, <1>10

\* Half the bytes of a modulus of whole bytes have no more than half its bits.
LEMMA LambdaFits ==
    ASSUME WholeBytes, BitLen(key.N) = Bits
    PROVE  LambdaBits <= Bits \div 2
<1>1. ByteBits \in Nat /\ ByteBits > 2 /\ Bits \in Nat /\ Bits > ByteBits
  BY SizesAssumption
<1>2. ModulusLen \in Nat /\ ByteBits * ModulusLen = Bits
  BY <1>1, BytesIs DEF ModulusLen, WholeBytes
<1>3. PICK half \in Nat : half = ModulusLen \div 2 /\ 2 * half <= ModulusLen
  BY <1>2
<1>4. ByteBits * (2 * half) <= ByteBits * ModulusLen
  BY <1>1, <1>2, <1>3
<1>5. PICK l \in Nat : l = ByteBits * half /\ 2 * l <= Bits
  <2>1. ByteBits * (2 * half) = 2 * (ByteBits * half) /\ ByteBits * half \in Nat
    BY <1>1
  <2> QED
    BY <1>2, <1>4, <2>1
<1> QED
  BY <1>1, <1>3, <1>5 DEF LambdaBits

\* An odd number below two primes has an inverse modulo four times them.
LEMMA InverseOfOdd ==
    ASSUME NEW e \in Nat, e % 2 = 1, NEW h \in Nat, NEW k \in Nat, Prime(h), Prime(k),
           e # 0, e < h, e < k
    PROVE  Invertible(e, ((2 * h + 1) - 1) * ((2 * k + 1) - 1))
<1>1. h > 1 /\ k > 1
  BY DEF Prime
<1>2. Invertible(e, 2)
  <2>1. e * 1 = e /\ 1 \in Nat /\ 2 \in Nat /\ 2 > 1
    OBVIOUS
  <2> QED
    BY <2>1, InverseReduces
<1>3. Invertible(e, h) /\ Invertible(e, k)
  <2>1. e \in 1..h-1 /\ e \in 1..k-1
    OBVIOUS
  <2> QED
    BY <2>1, BelowPrime
<1>4. Invertible(e, 2 * h) /\ Invertible(e, 2 * k)
  BY <1>1, <1>2, <1>3, InverseOfModuli
<1>5. PICK m \in Nat, n \in Nat : m = 2 * h /\ n = 2 * k
  OBVIOUS
<1>6. Invertible(e, m * n)
  BY <1>1, <1>4, <1>5, InverseOfModuli
<1>7. (2 * h + 1) - 1 = m /\ (2 * k + 1) - 1 = n
  BY <1>5
<1> QED
  BY <1>6, <1>7

\* Under a key GenerateKey made the derived exponent has an inverse, and a
\* power of it undoes the power of the exponent.
LEMMA Signs ==
    ASSUME TypeOK, KeyInv, GeneratedInv, WholeBytes, generated
    PROVE  /\ key.N \in Nat /\ key.N > 1 /\ DerivedE \in Nat \ {0} /\ key.Phi \in Nat
           /\ Invertible(DerivedE, key.Phi)
           /\ \A w \in Nat : w < key.N =>
                 ModPow(ModPow(w, ModInverse(DerivedE, key.Phi), key.N), DerivedE, key.N) = w
<1>1. pc # "start"
  BY DEF GeneratedInv
<1>2. PICK p, q \in SafePrimes(Bits \div 2 - 1) : MadeOf(p, q)
  BY DEF GeneratedInv
<1>3. PICK h \in Nat : /\ p = 2 * h + 1 /\ Prime(h) /\ Prime(p)
                       /\ Bits \div 2 - 2 \in Nat /\ Pow2[Bits \div 2 - 2] <= h
  BY SafePrimeIs
<1>4. PICK k \in Nat : /\ q = 2 * k + 1 /\ Prime(k) /\ Prime(q)
                       /\ Pow2[Bits \div 2 - 2] <= k
  BY SafePrimeIs
<1>5. p \in Nat /\ q \in Nat /\ p # q /\ key.N = p * q /\ key.Phi = (p - 1) * (q - 1) /\ BitLen(key.N) = Bits
  BY <1>2, <1>3, <1>4 DEF MadeOf, KeyOf
<1>6. PICK e \in Nat : e = DerivedE /\ e # 0 /\ e % 2 = 1 /\ e < Pow2[LambdaBits - 2]
  BY <1>1, ExponentIs
<1>7. e < h /\ e < k
  <2>1. PICK i \in Nat : i = LambdaBits - 2
    <3>1. LambdaBits \in Nat /\ LambdaBits > 2
      BY <1>1, ExponentIs
    <3> QED
      BY <3>1
  <2>2. PICK j \in Nat : j = Bits \div 2 - 2
    BY <1>3
  <2>3. i <= j
    <3>1. LambdaBits <= Bits \div 2
      BY <1>5, LambdaFits
    <3>2. LambdaBits \in Nat /\ Bits \div 2 \in Nat
      BY <1>1, ExponentIs, SizesAssumption
    <3> QED
      BY <2>1, <2>2, <3>1, <3>2
  <2>4. Pow2[i] <= Pow2[j] /\ Pow2[i] \in Nat /\ Pow2[j] \in Nat
    BY <2>3, Pow2Ordered, Pow2Grows
  <2>5. Pow2[j] <= h /\ Pow2[j] <= k /\ e < Pow2[i]
    BY <1>3, <1>4, <1>6, <2>1, <2>2
  <2> QED
    BY <2>4, <2>5
<1>8. Invertible(e, (p - 1) * (q - 1))
  BY <1>3, <1>4, <1>6, <1>7, InverseOfOdd
<1>9. PICK f \in Nat : f = (p - 1) * (q - 1)
  <2>1. p - 1 \in Nat /\ q - 1 \in Nat
    BY <1>3, <1>4, <1>5
  <2> QED
    BY <2>1
<1>10. PICK d \in Nat : d = ModInverse(e, f) /\ (e * d) % f = 1
  BY <1>8, <1>9, InverseIs
<1>11. Inverses(e, d, f)
  <2>1. f \in Nat \ {0}
    BY <1>8, <1>9 DEF Invertible
  <2>2. e * d \in Nat /\ d * e = e * d
    OBVIOUS
  <2>3. PICK j \in Nat : e * d = f * j + ((e * d) % f)
    BY <2>1, <2>2, ModIs
  <2>4. d * e = 1 + f * j
    BY <1>10, <2>2, <2>3
  <2> QED
    BY <2>4 DEF Inverses
<1>12. ASSUME NEW w \in Nat, w < p * q
       PROVE  ModPow(ModPow(w, d, p * q), e, p * q) = w
  <2>1. Prime(p) /\ Prime(q) /\ p # q
    BY <1>3, <1>4, <1>5
  <2>2. Inverses(e, d, (p - 1) * (q - 1))
    BY <1>9, <1>11
  <2> QED
    BY <1>5, <1>12, <2>1, <2>2, RsaReturns
<1>13. key.N \in Nat /\ key.N > 1 /\ key.Phi \in Nat
  BY <1>1, DerivedEIs DEF TypeOK
<1> QED
  BY <1>5, <1>6, <1>8, <1>9, <1>10, <1>12, <1>13

\* What a key GenerateKey made adds to the invariant.
KeyedInv == RsaInv /\ GeneratedInv /\ (WholeBytes => GeneratedKeysSign)

\* Every action keeps what is known of a generated key.
LEMMA GeneratedStep ==
    ASSUME KeyedInv, [Next]_vars
    PROVE  GeneratedInv'
<1>1. CASE GenerateKey
  <2>1. PICK p, q \in SafePrimes(Bits \div 2 - 1) :
            p # q /\ BitLen(p * q) = Bits /\ key' = KeyOf(p, q)
    BY <1>1 DEF GenerateKey
  <2>2. MadeOf(p, q)'
    BY <2>1 DEF MadeOf
  <2>3. pc' # "start"
    BY <1>1 DEF GenerateKey
  <2> QED
    BY <2>2, <2>3 DEF GeneratedInv
<1>2. CASE KeyPairFromComponents
  <2>1. ~generated /\ generated' = generated /\ pc' # "start"
    BY <1>2 DEF KeyPairFromComponents, KeyedInv, GeneratedInv
  <2> QED
    BY <2>1 DEF GeneratedInv
<1>3. CASE Blind \/ BlindSign \/ BlindSignFails \/ Unblind \/ Verify \/ UNCHANGED vars
  <2>1. generated' = generated /\ key' = key
    BY <1>3 DEF Blind, BlindSign, BlindSignFails, Unblind, Verify, vars
  <2>2. pc' = "start" => pc = "start"
    BY <1>3 DEF Blind, BlindSign, BlindSignFails, Unblind, Verify, vars
  <2>3. \A p, q \in SafePrimes(Bits \div 2 - 1) : MadeOf(p, q) => MadeOf(p, q)'
    BY <2>1 DEF MadeOf
  <2> QED
    BY <2>1, <2>2, <2>3 DEF KeyedInv, GeneratedInv
<1> QED
  BY <1>1, <1>2, <1>3 DEF Next

\* No action makes signing fail under one.
LEMMA SigningStep ==
    ASSUME KeyedInv, [Next]_vars, WholeBytes
    PROVE  GeneratedKeysSign'
<1>1. CASE BlindSignFails
  <2>1. pc = "blinded" /\ ~CanSign /\ generated' = generated
    BY <1>1 DEF BlindSignFails
  <2>2. ASSUME generated PROVE CanSign
    <3>1. wire \in Nat /\ wire < key.N
      BY <2>1 DEF KeyedInv, RsaInv, TypeOK
    <3>2. /\ Invertible(DerivedE, key.Phi)
          /\ ModPow(ModPow(wire, ModInverse(DerivedE, key.Phi), key.N), DerivedE, key.N) = wire
      BY <2>2, <3>1, Signs DEF KeyedInv, RsaInv
    <3> QED
      BY <3>1, <3>2 DEF CanSign, Signed
  <2> QED
    BY <2>1, <2>2 DEF GeneratedKeysSign
<1>2. CASE GenerateKey \/ KeyPairFromComponents \/ Blind \/ BlindSign \/ Unblind \/ Verify
  <2>1. pc' # "signing error"
    BY <1>2 DEF GenerateKey, KeyPairFromComponents, Blind, BlindSign, Unblind, Verify
  <2> QED
    BY <2>1 DEF GeneratedKeysSign
<1>3. CASE UNCHANGED vars
  BY <1>3 DEF vars, KeyedInv, GeneratedKeysSign
<1> QED
  BY <1>1, <1>2, <1>3 DEF Next

\* The whole is an invariant.
LEMMA KeyedInvariance == Spec => []KeyedInv
<1>1. Init => KeyedInv
  <2> SUFFICES ASSUME Init PROVE KeyedInv
    OBVIOUS
  <2>1. GeneratedInv /\ GeneratedKeysSign
    BY DEF Init, GeneratedInv, GeneratedKeysSign
  <2> QED
    BY <2>1, Start DEF KeyedInv
<1>2. KeyedInv /\ [Next]_vars => KeyedInv'
  <2> SUFFICES ASSUME KeyedInv, [Next]_vars PROVE KeyedInv'
    OBVIOUS
  <2>1. RsaInv'
    BY Step DEF KeyedInv
  <2>2. GeneratedInv'
    BY GeneratedStep
  <2>3. (WholeBytes => GeneratedKeysSign)'
    BY SigningStep DEF WholeBytes
  <2> QED
    BY <2>1, <2>2, <2>3 DEF KeyedInv
<1> QED
  BY <1>1, <1>2, PTL DEF Spec

\* Any message with an inverse can have been blinded to what was sent: the
\* factor is the root of the quotient.
LEMMA FactorExists ==
    ASSUME RsaInv, GeneratedInv, WholeBytes, generated, pc = "blinded",
           Invertible(wire, key.N), NEW m \in Nat, Invertible(m, key.N)
    PROVE  \E factor \in 1..key.N-1 : Blinded(m, factor) = wire
<1>1. PICK N \in Nat : N = key.N /\ N > 1
  BY Signs DEF RsaInv
<1>2. PICK e \in Nat : e = DerivedE /\ e # 0
  BY Signs DEF RsaInv
<1>3. PICK d \in Nat : d = ModInverse(DerivedE, key.Phi)
  BY Signs, InverseIs DEF RsaInv
<1>4. \A w \in Nat : w < N => ModPow(ModPow(w, d, N), e, N) = w
  BY <1>1, <1>2, <1>3, Signs DEF RsaInv
<1>5. PICK w \in Nat : w = wire /\ w < N
  BY <1>1 DEF RsaInv, TypeOK
<1>6. PICK i \in Nat : ModTimes(m, i, N) = 1
  <2>1. PICK i \in 1..N-1 : (m * i) % N = 1
    BY <1>1 DEF Invertible
  <2> QED
    BY <2>1 DEF ModTimes
<1> DEFINE T(x, y) == ModTimes(x, y, N)
<1>7. /\ \A x, y \in Nat : T(x, y) \in Nat /\ T(x, y) < N
      /\ \A x, y \in Nat : T(x, y) = T(y, x)
      /\ \A x, y, z \in Nat : T(T(x, y), z) = T(x, T(y, z))
      /\ \A x \in Nat : x < N => T(x, 1) = x
  <2>1. N \in Nat \ {0}
    BY <1>1
  <2> QED
    BY <2>1, TimesLaws
<1>8. PICK t \in Nat : t = T(w, i) /\ t < N
  BY <1>7
<1>9. T(m, t) = w
  <2> HIDE DEF T
  <2>1. T(m, t) = T(t, m)
    BY <1>7
  <2>2. T(T(w, i), m) = T(w, T(i, m))
    BY <1>7
  <2>3. T(i, m) = T(m, i)
    BY <1>7
  <2>4. T(w, T(i, m)) = w
    BY <1>5, <1>6, <1>7, <2>3 DEF T
  <2> QED
    BY <1>8, <2>1, <2>2, <2>4
<1>10. PICK f \in Nat : f = ModPow(t, d, N) /\ f < N
  BY <1>1, PowSucc
<1>11. ModPow(f, e, N) = t
  BY <1>4, <1>8, <1>10
<1>12. f # 0
  <2> SUFFICES ASSUME f = 0 PROVE FALSE
    OBVIOUS
  <2>1. PICK k \in Nat : e = k + 1
    <3>1. e - 1 \in Nat /\ e = (e - 1) + 1
      BY <1>2
    <3> QED
      BY <3>1
  <2>2. t = 0
    BY <1>1, <1>11, <2>1, PowZero
  <2>3. T(m, 0) = 0
    <3>1. m * 0 = 0 /\ 0 % N = 0
      BY <1>1, ModSmall
    <3> QED
      BY <3>1 DEF ModTimes
  <2>4. w = 0
    BY <1>9, <2>2, <2>3
  <2>5. PICK x \in 1..N-1 : (w * x) % N = 1
    BY <1>1, <1>5 DEF Invertible
  <2>6. w * x = 0 /\ 0 % N = 0
    BY <1>1, <2>4, ModSmall
  <2> QED
    BY <2>5, <2>6
<1>13. f \in 1..N-1
  BY <1>10, <1>12
<1>14. Blinded(m, f) = T(m, ModPow(f, e, N))
  BY <1>1, <1>2 DEF Blinded, ModTimes
<1>15. Blinded(m, f) = w
  BY <1>9, <1>11, <1>14
<1> QED
  BY <1>1, <1>5, <1>13, <1>15

-----------------------------------------------------------------------------
(***************************************************************************)
(* The theorems.                                                           *)
(***************************************************************************)
\* Every variable holds a value of its kind, and whatever is sent is below
\* the modulus and fits its bytes: Blind, BlindSign and finalize.
THEOREM TypeCorrect == Spec => []TypeOK
<1>1. RsaInv => TypeOK
  BY DEF RsaInv
<1> QED
  BY <1>1, Invariance, PTL

\* A token that BlindSign signed verifies, whatever the modulus, exponent,
\* message, metadata and blinding factor, wherever the size of the modulus
\* serves the client that blinded it.
THEOREM SignedVerify == Spec => []SignedTokensVerify
<1>1. RsaInv => SignedTokensVerify
  BY DEF RsaInv
<1> QED
  BY <1>1, Invariance, PTL

\* Under a key of whole bytes that GenerateKey made, BlindSign signs whatever
\* blinded message it is sent, under whatever metadata.
THEOREM GeneratedSign == WholeBytes => (Spec => []GeneratedKeysSign)
<1> SUFFICES ASSUME WholeBytes PROVE Spec => []GeneratedKeysSign
  OBVIOUS
<1>1. KeyedInv => GeneratedKeysSign
  BY DEF KeyedInv
<1> QED
  BY <1>1, KeyedInvariance, PTL

\* What Blind sends under such a key hides the message: another one, under
\* another factor, would have looked the same to the issuer.
THEOREM Hidden == WholeBytes => (Spec => []Unlinkable)
<1> SUFFICES ASSUME WholeBytes PROVE Spec => []Unlinkable
  OBVIOUS
<1>1. KeyedInv => Unlinkable
  <2> SUFFICES ASSUME KeyedInv, pc = "blinded", generated, Invertible(wire, key.N),
                      NEW m \in Encodings, Invertible(m, key.N)
               PROVE  \E factor \in 1..key.N-1 : Blinded(m, factor) = wire
    BY DEF Unlinkable
  <2>1. m \in Nat
    BY SamplesAssumption
  <2> QED
    BY <2>1, FactorExists DEF KeyedInv
<1> QED
  BY <1>1, KeyedInvariance, PTL
=============================================================================

--------------------------- MODULE TempStoreProofs ---------------------------
(***************************************************************************)
(* The temperature store and its scoring, for all counts, conversion       *)
(* factors, callers and addresses.                                         *)
(***************************************************************************)
EXTENDS TempStore, NatRecursion, FiniteSetTheorems, TLAPS

\* The cap brings every count into 0..100 and keeps the order of counts.
LEMMA CapType == \A v \in Nat : min100(v) \in Percent
BY DEF min100, Percent

LEMMA CapMonotone == \A v, w \in Nat : v <= w => min100(v) <= min100(w)
BY DEF min100

\* The fraction of failed probes is a percentage.
LEMMA ProbeSignalType ==
    ASSUME NEW total \in Nat, NEW fails \in 0..total
    PROVE  probeSignal(fails, total) \in Percent
<1>1. CASE total = 0
  BY <1>1 DEF probeSignal, Percent
<1>2. CASE total # 0
  <2>1. (100 * fails) \div total \in 0..100
    BY <1>2
  <2> QED
    BY <1>2, <2>1 DEF probeSignal, Percent
<1> QED
  BY <1>1, <1>2

\* More requests are worth more points.
LEMMA PointsMonotone ==
    ASSUME NEW unit \in Nat, NEW v \in Nat, NEW w \in Nat, v <= w
    PROVE  v * unit \in Nat /\ w * unit \in Nat /\ v * unit <= w * unit
OBVIOUS

LEMMA BurnPoints ==
    ASSUME NEW v \in Nat, NEW w \in Nat, v <= w
    PROVE  /\ v \div BurnDivisor \in Nat
           /\ w \div BurnDivisor \in Nat
           /\ v \div BurnDivisor <= w \div BurnDivisor
BY ScoreUnitsAssumption

\* A hundredth, rounded down.
LEMMA Hundredth ==
    \A v \in Int : v \div 100 \in Int /\ 100 * (v \div 100) <= v /\ v < 100 * (v \div 100) + 100
OBVIOUS

\* Whatever was counted, the score is a percentage, and so has a bucket.
THEOREM ScoreIsPercent ==
    ASSUME NEW ip \in Nat, NEW net \in Nat, NEW burns \in Nat,
           NEW probe \in Percent, NEW rep \in Percent
    PROVE  /\ Score(ip, net, burns, probe, rep) \in Percent
           /\ scoreToBucket(Score(ip, net, burns, probe, rep)) \in Bucket
<1> DEFINE a == min100(ip * IpUnit)
           b == min100(net * SubnetUnit)
           c == min100(burns \div BurnDivisor)
<1>1. a \in Percent /\ b \in Percent /\ c \in Percent
  BY CapType, PointsMonotone, BurnPoints, ScoreUnitsAssumption
<1>2. Weighted(ip, net, burns, probe, rep) = (a*30 + b*20 + c*20 + probe*10 + rep*20) \div 100
  BY DEF Weighted
<1> HIDE DEF a, b, c
<1>3. Weighted(ip, net, burns, probe, rep) \in Percent
  BY <1>1, <1>2 DEF Percent
<1>4. Score(ip, net, burns, probe, rep) \in Percent
  BY <1>3, CapType DEF Score, Percent
<1> QED
  BY <1>4 DEF scoreToBucket, Bucket

\* More requests, more tokens, more failed probes or a worse reputation
\* never lower the score.
THEOREM ScoreMonotone ==
    ASSUME NEW ip1 \in Nat, NEW ip2 \in Nat, ip1 <= ip2,
           NEW net1 \in Nat, NEW net2 \in Nat, net1 <= net2,
           NEW burns1 \in Nat, NEW burns2 \in Nat, burns1 <= burns2,
           NEW probe1 \in Percent, NEW probe2 \in Percent, probe1 <= probe2,
           NEW rep1 \in Percent, NEW rep2 \in Percent, rep1 <= rep2
    PROVE  Score(ip1, net1, burns1, probe1, rep1) <= Score(ip2, net2, burns2, probe2, rep2)
<1> DEFINE a1 == min100(ip1 * IpUnit)
           a2 == min100(ip2 * IpUnit)
           b1 == min100(net1 * SubnetUnit)
           b2 == min100(net2 * SubnetUnit)
           c1 == min100(burns1 \div BurnDivisor)
           c2 == min100(burns2 \div BurnDivisor)
           w1 == Weighted(ip1, net1, burns1, probe1, rep1)
           w2 == Weighted(ip2, net2, burns2, probe2, rep2)
<1>1. a1 \in Percent /\ a2 \in Percent /\ a1 <= a2
  BY PointsMonotone, CapType, CapMonotone, ScoreUnitsAssumption
<1>2. b1 \in Percent /\ b2 \in Percent /\ b1 <= b2
  BY PointsMonotone, CapType, CapMonotone, ScoreUnitsAssumption
<1>3. c1 \in Percent /\ c2 \in Percent /\ c1 <= c2
  BY BurnPoints, CapType, CapMonotone
<1>4. /\ w1 = (a1*30 + b1*20 + c1*20 + probe1*10 + rep1*20) \div 100
      /\ w2 = (a2*30 + b2*20 + c2*20 + probe2*10 + rep2*20) \div 100
  BY DEF Weighted
<1>5. min100(w1) <= min100(w2) <=> Score(ip1, net1, burns1, probe1, rep1)
                                     <= Score(ip2, net2, burns2, probe2, rep2)
  BY DEF Score
<1> HIDE DEF a1, a2, b1, b2, c1, c2, w1, w2
<1>6. w1 \in Percent /\ w2 \in Percent /\ w1 <= w2
  <2> DEFINE v == a1*30 + b1*20 + c1*20 + probe1*10 + rep1*20
             w == a2*30 + b2*20 + c2*20 + probe2*10 + rep2*20
  <2>1. v \in Int /\ w \in Int /\ 0 <= v /\ v <= w /\ w <= 10000
    BY <1>1, <1>2, <1>3 DEF Percent
  <2>2. w1 = v \div 100 /\ w2 = w \div 100
    BY <1>4
  <2> HIDE DEF v, w
  <2>3. w1 \in Int /\ 100 * w1 <= v /\ v < 100 * w1 + 100
    BY <2>1, <2>2, Hundredth
  <2>4. w2 \in Int /\ 100 * w2 <= w /\ w < 100 * w2 + 100
    BY <2>1, <2>2, Hundredth
  <2>5. 0 <= w1 /\ w1 <= w2 /\ w2 <= 100
    BY <2>1, <2>3, <2>4
  <2> QED
    BY <2>3, <2>4, <2>5 DEF Percent
<1> QED
  BY <1>5, <1>6, CapMonotone DEF Percent

\* A higher score never gives an easier bucket.
THEOREM BucketMonotone ==
    ASSUME NEW s1 \in Percent, NEW s2 \in Percent, s1 <= s2
    PROVE  scoreToBucket(s1) \in Bucket /\ scoreToBucket(s1) <= scoreToBucket(s2)
BY DEF scoreToBucket, Bucket, Percent

\* A higher bucket never has easier ranges, so a client under more suspicion
\* is never asked for less; and every range has a value to draw.
THEOREM RangesMonotone ==
    ASSUME NEW b1 \in Bucket, NEW b2 \in Bucket, b1 <= b2
    PROVE  LET r1 == BucketRanges(b1)
               r2 == BucketRanges(b2)
           IN  /\ r1.HashCashBitsMin <= r2.HashCashBitsMin
               /\ r1.HashCashBitsMax <= r2.HashCashBitsMax
               /\ r1.Argon2MemoryMinKiB <= r2.Argon2MemoryMinKiB
               /\ r1.Argon2MemoryMaxKiB <= r2.Argon2MemoryMaxKiB
               /\ r1.Argon2IterationsMin <= r2.Argon2IterationsMin
               /\ r1.Argon2IterationsMax <= r2.Argon2IterationsMax
               /\ r1.ProbeCount <= r2.ProbeCount
               /\ r1.HashCashBitsMin <= r1.HashCashBitsMax
               /\ r1.Argon2MemoryMinKiB <= r1.Argon2MemoryMaxKiB
               /\ r1.Argon2IterationsMin <= r1.Argon2IterationsMax
<1>1. b1 \in {0, 1, 2, 3} /\ b2 \in {0, 1, 2, 3}
  BY DEF Bucket
<1> QED
  BY <1>1 DEF BucketRanges, Range3

-----------------------------------------------------------------------------
\* What holds of a set when it holds of the set less any one element holds
\* of every subset of a finite set.
LEMMA SubsetInduction ==
    ASSUME NEW S, IsFiniteSet(S), NEW X,
           \A T \in SUBSET S : (\A x \in T : T \ {x} \in X) => T \in X
    PROVE  SUBSET S \subseteq X
<1> DEFINE N == {n \in Nat : \A T \in SUBSET S : Cardinality(T) = n => T \in X}
<1>1. \A T \in SUBSET S : /\ IsFiniteSet(T) /\ Cardinality(T) \in Nat
                          /\ Cardinality(T) = 0 => T = {}
                          /\ \A x \in T : Cardinality(T \ {x}) = Cardinality(T) - 1
  BY FS_Subset, FS_CardinalityType, FS_EmptySet, FS_RemoveElement
<1>2. 0 \in N
  BY <1>1
<1>3. ASSUME NEW n \in Nat, n \in N PROVE n + 1 \in N
  <2>1. ASSUME NEW T \in SUBSET S, Cardinality(T) = n + 1 PROVE T \in X
    <3>1. \A x \in T : T \ {x} \in SUBSET S /\ Cardinality(T \ {x}) = n
      BY <1>1, <2>1
    <3> QED
      BY <1>3, <3>1
  <2> QED
    BY <2>1
<1>4. Nat \subseteq N
  <2> HIDE DEF N
  <2> QED BY <1>2, <1>3, Induction
<1> QED
  BY <1>1, <1>4

-----------------------------------------------------------------------------
Sum(f, S) == MapThenSumSet(LAMBDA x : f[x], S)

Some(s) == CHOOSE x \in s : TRUE
IsSum(g, f, S) ==
    g = [s \in SUBSET S |-> IF s = {} THEN 0 ELSE f[Some(s)] + g[s \ {Some(s)}]]

LEMMA SumIs == \A f, S : Sum(f, S) = (CHOOSE g : IsSum(g, f, S))[S]
BY DEF Sum, MapThenSumSet, MapThenFoldSet, IsSum, Some

LEMMA SomeIn == \A s : s # {} => Some(s) \in s
BY DEF Some

LEMMA SumExists ==
    ASSUME NEW S, IsFiniteSet(S), NEW f
    PROVE  \E g : IsSum(g, f, S)
<1> DEFINE Small(n) == {s \in SUBSET S : Cardinality(s) <= n}
           UpTo(g, n) == g = [s \in Small(n) |->
               IF s = {} THEN 0 ELSE f[Some(s)] + g[s \ {Some(s)}]]
           N == {n \in Nat : \E g : UpTo(g, n)}
<1>1. \A s \in SUBSET S :
        /\ Cardinality(s) \in Nat /\ Cardinality(s) <= Cardinality(S)
        /\ Cardinality(s) <= 0 => s = {}
        /\ s # {} => Some(s) \in s /\ Cardinality(s \ {Some(s)}) = Cardinality(s) - 1
  BY FS_Subset, FS_CardinalityType, FS_EmptySet, FS_RemoveElement, SomeIn
<1>2. 0 \in N
  <2>1. UpTo([s \in Small(0) |-> 0], 0)
    BY <1>1
  <2> QED
    BY <2>1
<1>3. ASSUME NEW n \in Nat, n \in N PROVE n + 1 \in N
  <2>1. PICK g : UpTo(g, n)
    BY <1>3
  <2> DEFINE h == [s \in Small(n + 1) |->
                      IF s = {} THEN 0 ELSE f[Some(s)] + g[s \ {Some(s)}]]
  <2>2. \A s \in Small(n) : s \in Small(n + 1) /\ g[s] = h[s]
    <3>1. \A s \in Small(n) : s \in Small(n + 1)
      <4>1. ASSUME NEW s \in Small(n) PROVE Cardinality(s) <= n + 1
        <5>1. s \in SUBSET S /\ Cardinality(s) <= n
          BY <4>1
        <5>2. Cardinality(s) \in Nat
          BY <1>1, <5>1
        <5> QED
          BY <5>1, <5>2
      <4>2. \A s \in Small(n) : s \in SUBSET S
        OBVIOUS
      <4> QED
        BY <4>1, <4>2
    <3>2. \A s \in Small(n) : g[s] = IF s = {} THEN 0 ELSE f[Some(s)] + g[s \ {Some(s)}]
      BY <2>1
    <3> QED
      BY <3>1, <3>2
  <2>3. \A s \in Small(n + 1) : s # {} => s \ {Some(s)} \in Small(n)
    BY <1>1
  <2>4. UpTo(h, n + 1)
    BY <2>2, <2>3
  <2>5. \E x : UpTo(x, n + 1)
    <3> HIDE DEF h, UpTo
    <3> QED BY <2>4
  <2> HIDE DEF UpTo
  <2> QED
    BY <2>5
<1>4. Nat \subseteq N
  <2> HIDE DEF N
  <2> QED BY <1>2, <1>3, Induction
<1>5. Cardinality(S) \in N /\ Small(Cardinality(S)) = SUBSET S
  BY <1>1, <1>4, FS_CardinalityType
<1> QED
  BY <1>5 DEF IsSum

\* Sums of functions that agree, over sets that contain s.
LEMMA SumUnique ==
    ASSUME NEW S, IsFiniteSet(S), NEW T, NEW f, NEW e, NEW g, NEW h,
           IsSum(g, f, S), IsSum(h, e, T), S \subseteq T, \A x \in S : f[x] = e[x]
    PROVE  \A s \in SUBSET S : g[s] = h[s]
<1> DEFINE X == {s \in SUBSET S : g[s] = h[s]}
<1>1. ASSUME NEW s \in SUBSET S, \A x \in s : s \ {x} \in X PROVE s \in X
  <2>1. s \in SUBSET T
    OBVIOUS
  <2>2. /\ g[s] = IF s = {} THEN 0 ELSE f[Some(s)] + g[s \ {Some(s)}]
        /\ h[s] = IF s = {} THEN 0 ELSE e[Some(s)] + h[s \ {Some(s)}]
    BY <2>1 DEF IsSum
  <2>3. s # {} => g[s \ {Some(s)}] = h[s \ {Some(s)}] /\ f[Some(s)] = e[Some(s)]
    BY <1>1, SomeIn
  <2> QED
    BY <2>2, <2>3
<1>2. SUBSET S \subseteq X
  <2> HIDE DEF X
  <2> QED BY <1>1, SubsetInduction
<1> QED
  BY <1>2

LEMMA SumAgrees ==
    ASSUME NEW S, IsFiniteSet(S), NEW f, NEW e, \A x \in S : f[x] = e[x]
    PROVE  Sum(f, S) = Sum(e, S)
<1>1. IsSum(CHOOSE g : IsSum(g, f, S), f, S) /\ IsSum(CHOOSE g : IsSum(g, e, S), e, S)
  BY SumExists
<1> QED
  BY <1>1, SumIs, SumUnique

LEMMA SumUnfolds ==
    ASSUME NEW S, IsFiniteSet(S), NEW f
    PROVE  Sum(f, S) = IF S = {} THEN 0 ELSE f[Some(S)] + Sum(f, S \ {Some(S)})
<1> DEFINE T == S \ {Some(S)}
           g == CHOOSE g : IsSum(g, f, S)
           h == CHOOSE h : IsSum(h, f, T)
<1>1. IsFiniteSet(T) /\ T \subseteq S
  BY FS_Subset
<1>2. IsSum(g, f, S) /\ IsSum(h, f, T)
  BY <1>1, SumExists
<1>3. Sum(f, S) = g[S] /\ Sum(f, T) = h[T]
  BY SumIs
<1> HIDE DEF g, h
<1>4. h[T] = g[T]
  BY <1>1, <1>2, SumUnique
<1>5. g[S] = IF S = {} THEN 0 ELSE f[Some(S)] + g[T]
  BY <1>2 DEF IsSum
<1> QED
  BY <1>3, <1>4, <1>5


LEMMA SumNat ==
    ASSUME NEW S, IsFiniteSet(S), NEW f, \A x \in S : f[x] \in Nat
    PROVE  \A s \in SUBSET S : Sum(f, s) \in Nat
<1> DEFINE X == {s \in SUBSET S : Sum(f, s) \in Nat}
<1>1. ASSUME NEW s \in SUBSET S, \A x \in s : s \ {x} \in X PROVE s \in X
  <2>1. Sum(f, s) = IF s = {} THEN 0 ELSE f[Some(s)] + Sum(f, s \ {Some(s)})
    BY FS_Subset, SumUnfolds
  <2>2. s # {} => Sum(f, s \ {Some(s)}) \in Nat /\ f[Some(s)] \in Nat
    BY <1>1, SomeIn
  <2> QED
    BY <2>1, <2>2
<1>2. SUBSET S \subseteq X
  <2> HIDE DEF X
  <2> QED BY <1>1, SubsetInduction
<1> QED
  BY <1>2

LEMMA SumZero ==
    ASSUME NEW S, IsFiniteSet(S), NEW f, \A x \in S : f[x] = 0
    PROVE  Sum(f, S) = 0
<1> DEFINE X == {s \in SUBSET S : Sum(f, s) = 0}
<1>1. ASSUME NEW s \in SUBSET S, \A x \in s : s \ {x} \in X PROVE s \in X
  <2>1. Sum(f, s) = IF s = {} THEN 0 ELSE f[Some(s)] + Sum(f, s \ {Some(s)})
    BY FS_Subset, SumUnfolds
  <2>2. s # {} => Sum(f, s \ {Some(s)}) = 0 /\ f[Some(s)] = 0
    BY <1>1, SomeIn
  <2> QED
    BY <2>1, <2>2
<1>2. SUBSET S \subseteq X
  <2> HIDE DEF X
  <2> QED BY <1>1, SubsetInduction
<1> QED
  BY <1>2

\* Any element may be taken out first.
LEMMA SumTakesOut ==
    ASSUME NEW S, IsFiniteSet(S), NEW f, \A x \in S : f[x] \in Nat
    PROVE  \A s \in SUBSET S : \A x \in s : Sum(f, s) = f[x] + Sum(f, s \ {x})
<1> DEFINE X == {s \in SUBSET S : \A x \in s : Sum(f, s) = f[x] + Sum(f, s \ {x})}
<1>1. ASSUME NEW s \in SUBSET S, \A x \in s : s \ {x} \in X PROVE s \in X
  <2>1. Sum(f, s) = IF s = {} THEN 0 ELSE f[Some(s)] + Sum(f, s \ {Some(s)})
    BY FS_Subset, SumUnfolds
  <2>2. SUFFICES ASSUME NEW x \in s PROVE Sum(f, s) = f[x] + Sum(f, s \ {x})
    OBVIOUS
  <2> DEFINE y == Some(s)
  <2>3. y \in s /\ Sum(f, s) = f[y] + Sum(f, s \ {y})
    BY <2>1, SomeIn
  <2> HIDE DEF y
  <2>4. CASE x # y
    <3>1. /\ s \ {x} \in X /\ s \ {y} \in X
          /\ x \in s \ {y} /\ y \in s \ {x} /\ (s \ {y}) \ {x} = (s \ {x}) \ {y}
      BY <1>1, <2>3, <2>4
    <3>2. /\ Sum(f, s \ {y}) = f[x] + Sum(f, (s \ {y}) \ {x})
          /\ Sum(f, s \ {x}) = f[y] + Sum(f, (s \ {x}) \ {y})
      BY <3>1
    <3>3. Sum(f, (s \ {y}) \ {x}) \in Nat /\ f[x] \in Nat /\ f[y] \in Nat
      BY <2>3, SumNat
    <3> QED
      BY <2>3, <3>1, <3>2, <3>3
  <2> QED
    BY <2>3, <2>4
<1>2. SUBSET S \subseteq X
  <2> HIDE DEF X
  <2> QED BY <1>1, SubsetInduction
<1> QED
  BY <1>2

\* More elements and greater values never make a sum less.
LEMMA SumMonotone ==
    ASSUME NEW S, IsFiniteSet(S), NEW R \in SUBSET S, NEW f, NEW e,
           \A x \in S : f[x] \in Nat /\ e[x] \in Nat /\ (x \in R => f[x] <= e[x])
    PROVE  Sum(f, R) <= Sum(e, S)
<1> DEFINE X == {s \in SUBSET S : Sum(f, s \cap R) <= Sum(e, s)}
<1>1. ASSUME NEW s \in SUBSET S, \A x \in s : s \ {x} \in X PROVE s \in X
  <2>1. CASE s = {}
    <3>1. s \cap R = s /\ Sum(f, {}) = 0 /\ Sum(e, {}) = 0
      BY <2>1, SumUnfolds, FS_EmptySet
    <3> QED
      BY <2>1, <3>1
  <2>2. CASE s # {}
    <3>1. PICK x \in s : TRUE
      BY <2>2
    <3>2. Sum(e, s) = e[x] + Sum(e, s \ {x})
      BY <3>1, SumTakesOut
    <3>3. Sum(f, (s \ {x}) \cap R) <= Sum(e, s \ {x})
      BY <1>1, <3>1
    <3>4. /\ Sum(e, s \ {x}) \in Nat /\ Sum(f, (s \ {x}) \cap R) \in Nat
          /\ f[x] \in Nat /\ e[x] \in Nat
      BY <3>1, SumNat
    <3>5. CASE x \in R
      <4>1. Sum(f, s \cap R) = f[x] + Sum(f, (s \cap R) \ {x})
        BY <3>1, <3>5, SumTakesOut
      <4>2. (s \cap R) \ {x} = (s \ {x}) \cap R
        OBVIOUS
      <4> QED
        BY <3>1, <3>2, <3>3, <3>4, <3>5, <4>1, <4>2
    <3>6. CASE x \notin R
      <4>1. s \cap R = (s \ {x}) \cap R
        BY <3>6
      <4> QED
        BY <3>2, <3>3, <3>4, <4>1
    <3> QED
      BY <3>5, <3>6
  <2> QED
    BY <2>1, <2>2
<1>2. SUBSET S \subseteq X
  <2> HIDE DEF X
  <2> QED BY <1>1, SubsetInduction
<1>3. S \cap R = R
  OBVIOUS
<1> QED
  BY <1>2, <1>3

\* One more of one element is one more in the sum.
LEMMA SumCountsOneMore ==
    ASSUME NEW S, IsFiniteSet(S), NEW f, NEW e, \A x \in S : f[x] \in Nat,
           NEW y \in S, e[y] = f[y] + 1, \A x \in S \ {y} : e[x] = f[x]
    PROVE  Sum(e, S) = Sum(f, S) + 1
<1>1. \A x \in S : e[x] \in Nat
  OBVIOUS
<1>2. Sum(f, S) = f[y] + Sum(f, S \ {y}) /\ Sum(e, S) = e[y] + Sum(e, S \ {y})
  BY <1>1, SumTakesOut
<1>3. Sum(f, S \ {y}) = Sum(e, S \ {y}) /\ Sum(f, S \ {y}) \in Nat
  BY SumAgrees, SumNat, FS_Subset
<1> QED
  BY <1>2, <1>3

-----------------------------------------------------------------------------
\* The sums of the model: requests counted by the store, and requests of a
\* subnet.
LEMMA countAfterIs == \A times, cutoff : countAfter(times, cutoff) = Sum(times, {t \in Time : t > cutoff})
BY DEF countAfter, Sum

Stamped(all, t) == [ip \in IP |-> all[ip][t]]
SubnetSum(all, s, t) == MapThenSumSet(LAMBDA ip : all[ip][t], Neighbours(s))

LEMMA SubnetSumIs ==
    ASSUME NEW all, NEW s, NEW t
    PROVE  SubnetSum(all, s, t) = Sum(Stamped(all, t), Neighbours(s))
<1> DEFINE Count(g) == g = [x \in SUBSET Neighbours(s) |->
               IF x = {} THEN 0 ELSE all[Some(x)][t] + g[x \ {Some(x)}]]
<1>1. SubnetSum(all, s, t) = (CHOOSE g : Count(g))[Neighbours(s)]
  BY DEF SubnetSum, MapThenSumSet, MapThenFoldSet, Some
<1>2. ASSUME NEW g PROVE Count(g) <=> IsSum(g, Stamped(all, t), Neighbours(s))
  <2>1. \A x \in SUBSET Neighbours(s) : x # {} => Stamped(all, t)[Some(x)] = all[Some(x)][t]
    BY SomeIn DEF Neighbours, Stamped
  <2> QED
    BY <2>1 DEF IsSum
<1>3. IsFiniteSet(Neighbours(s))
  BY StoreAssumption, FS_Subset DEF Neighbours
<1> DEFINE g == CHOOSE g : Count(g)
           h == CHOOSE h : IsSum(h, Stamped(all, t), Neighbours(s))
<1>4. \E x : Count(x)
  BY <1>2, <1>3, SumExists
<1>5. Count(g)
  <2> HIDE DEF Count
  <2> QED BY <1>4
<1>6. IsSum(h, Stamped(all, t), Neighbours(s))
  BY <1>3, SumExists
<1> HIDE DEF Count, g, h
<1>7. g[Neighbours(s)] = h[Neighbours(s)]
  BY <1>2, <1>3, <1>5, <1>6, SumUnique
<1> QED
  BY <1>1, <1>7, SumIs DEF g, h

LEMMA InSubnetIs ==
    ASSUME NEW all, NEW s
    PROVE  /\ InSubnet(all, s) = [t \in Time |-> InSubnet(all, s)[t]]
           /\ \A t \in Time : InSubnet(all, s)[t] = Sum(Stamped(all, t), Neighbours(s))
<1>1. InSubnet(all, s) = [t \in Time |-> SubnetSum(all, s, t)]
  BY DEF InSubnet, SubnetSum
<1> QED
  BY <1>1, SubnetSumIs

LEMMA NeighboursFinite == \A s : IsFiniteSet(Neighbours(s)) /\ Neighbours(s) \subseteq IP
BY StoreAssumption, FS_Subset DEF Neighbours

LEMMA InSubnetType ==
    ASSUME NEW all \in [IP -> Times], NEW s
    PROVE  InSubnet(all, s) \in Times
<1>1. ASSUME NEW t \in Time PROVE InSubnet(all, s)[t] \in Nat
  <2>1. \A ip \in Neighbours(s) : Stamped(all, t)[ip] \in Nat
    BY NeighboursFinite DEF Stamped, Times
  <2> QED
    BY <2>1, InSubnetIs, NeighboursFinite, SumNat
<1> QED
  BY <1>1, InSubnetIs DEF Times

\* One request more of one stamp, in one entry.
PlusOne(f, s, t) == [f EXCEPT ![s][t] = @ + 1]

\* A request is one more of its stamp in its own subnet and in no other.
LEMMA InSubnetGrows ==
    ASSUME NEW all \in [IP -> Times], NEW ip \in IP, NEW t \in Time,
           NEW s \in Subnet, NEW u \in Time
    PROVE  /\ s = SubnetOf[ip] /\ u = t =>
                  InSubnet(PlusOne(all, ip, t), s)[u] = InSubnet(all, s)[u] + 1
           /\ ~(s = SubnetOf[ip] /\ u = t) =>
                  InSubnet(PlusOne(all, ip, t), s)[u] = InSubnet(all, s)[u]
<1> DEFINE f == Stamped(all, u)
           e == Stamped(PlusOne(all, ip, t), u)
<1>1. \A x \in IP : /\ f[x] = all[x][u] /\ f[x] \in Nat
                    /\ e[x] = IF x = ip /\ u = t THEN f[x] + 1 ELSE f[x]
  BY DEF PlusOne, Stamped, Times
<1>2. InSubnet(all, s)[u] = Sum(f, Neighbours(s)) /\ InSubnet(PlusOne(all, ip, t), s)[u] = Sum(e, Neighbours(s))
  BY InSubnetIs
<1>3. ip \in Neighbours(s) <=> s = SubnetOf[ip]
  BY DEF Neighbours
<1> HIDE DEF f, e
<1>4. Sum(f, Neighbours(s)) \in Nat
  BY <1>1, NeighboursFinite, SumNat
<1>5. CASE s = SubnetOf[ip] /\ u = t
  <2>1. Sum(e, Neighbours(s)) = Sum(f, Neighbours(s)) + 1
    <3>1. ip \in Neighbours(s) /\ e[ip] = f[ip] + 1
      BY <1>1, <1>3, <1>5
    <3>2. \A x \in Neighbours(s) : f[x] \in Nat /\ (x # ip => e[x] = f[x])
      BY <1>1, NeighboursFinite
    <3> QED
      BY <3>1, <3>2, NeighboursFinite, SumCountsOneMore
  <2> QED
    BY <1>2, <1>5, <2>1
<1>6. CASE ~(s = SubnetOf[ip] /\ u = t)
  <2>1. \A x \in Neighbours(s) : f[x] = e[x]
    BY <1>1, <1>3, <1>6, NeighboursFinite
  <2>2. Sum(f, Neighbours(s)) = Sum(e, Neighbours(s))
    BY <2>1, NeighboursFinite, SumAgrees
  <2> QED
    BY <1>2, <1>4, <1>6, <2>2
<1> QED
  BY <1>5, <1>6

-----------------------------------------------------------------------------
(***************************************************************************)
(* What every state satisfies.  A caller or a cleanup holds a time that    *)
(* was read earlier; the store never has more requests than were recorded; *)
(* it has every token counted; and of the verdicts it keeps a last part.   *)
(***************************************************************************)
ReadEarlier ==
    \A th \in Thread : thread[th].op \in {"record", "score"} => thread[th].since <= now

CutoffOld == cleaner.state = "locking" => cleaner.cutoff <= now - Window

NoneAdded ==
    \A t \in Time :
        /\ \A ip \in IP : ipRequests[ip][t] <= log[ip][t]
        /\ \A s \in Subnet : subnetReqs[s][t] <= SubnetLog(s)[t]

BurnsKept == tokenBurns = burned

Latest(kept, all) ==
    /\ Len(kept) <= Len(all) /\ Len(kept) <= ProbeWindow
    /\ kept = SubSeq(all, Len(all) - Len(kept) + 1, Len(all))
    /\ Len(kept) = ProbeWindow \/ kept = all

ProbesKept == \A ip \in IP : Latest(probeHistory[ip], verdicts[ip])

StoreInv ==
    /\ TypeOK
    /\ ReadEarlier
    /\ CutoffOld
    /\ WindowIntact
    /\ NoneAdded
    /\ BurnsKept
    /\ ProbesKept

\* The fraction of failed probes is taken of at most the probes kept.
LEMMA FailsType ==
    ASSUME NEW h \in Seq(BOOLEAN)
    PROVE  Len(h) \in Nat /\ Fails(h) \in 0..Len(h)
<1> DEFINE D == {i \in DOMAIN h : ~h[i]}
<1>1. IsFiniteSet(1..Len(h)) /\ Cardinality(1..Len(h)) = Len(h) /\ DOMAIN h = 1..Len(h)
  <2>1. Len(h) \in Nat /\ DOMAIN h = 1..Len(h)
    OBVIOUS
  <2>2. IsFiniteSet(1..Len(h)) /\ Cardinality(1..Len(h)) = Len(h)
    BY <2>1, FS_Interval
  <2> QED
    BY <2>1, <2>2
<1>2. D \subseteq 1..Len(h)
  BY <1>1
<1> HIDE DEF D
<1>3. IsFiniteSet(D) /\ Cardinality(D) <= Cardinality(1..Len(h))
  BY <1>1, <1>2, FS_Subset
<1>4. Cardinality(D) \in Nat
  BY <1>3, FS_CardinalityType
<1> QED
  BY <1>1, <1>3, <1>4 DEF Fails, D

\* A count after a cutoff is a natural number.
LEMMA countAfterType ==
    ASSUME NEW times \in Times, NEW cutoff \in Int
    PROVE  countAfter(times, cutoff) \in Nat
<1>1. IsFiniteSet(Time) /\ {t \in Time : t > cutoff} \in SUBSET Time
  BY FS_Interval, TemperatureAssumption DEF Time
<1>2. \A t \in Time : times[t] \in Nat
  BY DEF Times
<1> QED
  BY <1>1, <1>2, SumNat, countAfterIs

LEMMA TimesArePoints == Time \subseteq Nat /\ Window \in Nat
BY TemperatureAssumption DEF Time

LEMMA ScoreOfType ==
    ASSUME TempTypeOK, NEW ip \in IP, NEW site \in Site, NEW t \in Time
    PROVE  ScoreOf(ip, site, t) \in Percent
<1>1. /\ countAfter(ipRequests[ip], t - Window) \in Nat
      /\ countAfter(subnetReqs[SubnetOf[ip]], t - Window) \in Nat
  <2>1. t - Window \in Int
    BY TimesArePoints
  <2>2. ipRequests[ip] \in Times /\ subnetReqs[SubnetOf[ip]] \in Times
    BY TemperatureAssumption DEF TempTypeOK
  <2> QED
    BY <2>1, <2>2, countAfterType
<1>2. tokenBurns[site] \in Nat
  BY DEF TempTypeOK
<1>3. probeSignal(Fails(probeHistory[ip]), Len(probeHistory[ip])) \in Percent
  BY FailsType, ProbeSignalType DEF TempTypeOK
<1>4. Reputation[ip] \in Percent
  BY TemperatureAssumption DEF Percent
<1> QED
  BY <1>1, <1>2, <1>3, <1>4, ScoreIsPercent DEF ScoreOf

LEMMA SameVerdicts ==
    ASSUME NEW s \in Seq(BOOLEAN), NEW t \in Seq(BOOLEAN), Len(s) = Len(t),
           \A i \in 1..Len(s) : s[i] = t[i]
    PROVE  s = t
OBVIOUS

\* The last verdicts stay the last ones when one is appended.
LEMMA LatestAppend ==
    ASSUME NEW all \in Seq(BOOLEAN), NEW kept \in Seq(BOOLEAN), Latest(kept, all),
           NEW pass \in BOOLEAN
    PROVE  /\ LastN(Append(kept, pass), ProbeWindow) \in Seq(BOOLEAN)
           /\ Latest(LastN(Append(kept, pass), ProbeWindow), Append(all, pass))
<1> DEFINE a == Append(all, pass)
           k == Append(kept, pass)
           n == Len(all)
           m == Len(kept)
<1>1. /\ n \in Nat /\ m \in Nat /\ m <= n /\ m <= ProbeWindow
      /\ ProbeWindow \in Nat /\ ProbeWindow > 0
      /\ kept = SubSeq(all, n - m + 1, n)
      /\ m = ProbeWindow \/ kept = all
  BY TemperatureAssumption DEF Latest
<1>2. \A i \in 1..m : kept[i] = all[n - m + i]
  <2>1. \A i \in 1..m : SubSeq(all, n - m + 1, n)[i] = all[(n - m + 1) + i - 1]
    BY <1>1
  <2> QED
    BY <1>1, <2>1
<1>3. /\ a \in Seq(BOOLEAN) /\ Len(a) = n + 1 /\ a[n + 1] = pass
      /\ \A i \in 1..n : a[i] = all[i]
  OBVIOUS
<1>4. /\ k \in Seq(BOOLEAN) /\ Len(k) = m + 1 /\ k[m + 1] = pass
      /\ \A i \in 1..m : k[i] = kept[i]
  OBVIOUS
<1>5. \A i \in 1..(m + 1) : k[i] = a[n - m + i]
  <2> SUFFICES ASSUME NEW i \in 1..(m + 1) PROVE k[i] = a[n - m + i]
    OBVIOUS
  <2>1. CASE i = m + 1
    BY <1>1, <1>3, <1>4, <2>1
  <2>2. CASE i \in 1..m
    <3>1. n - m + i \in 1..n
      BY <1>1, <2>2
    <3> QED
      BY <1>2, <1>3, <1>4, <2>2, <3>1
  <2> QED
    BY <1>1, <2>1, <2>2
<1> HIDE DEF a, k, n, m
<1>6. CASE m = ProbeWindow
  <2> DEFINE l == LastN(k, ProbeWindow)
  <2>1. l = SubSeq(k, 2, m + 1)
    BY <1>1, <1>4, <1>6 DEF LastN
  <2>2. l \in Seq(BOOLEAN) /\ Len(l) = m /\ \A i \in 1..m : l[i] = k[i + 1]
    BY <1>1, <1>4, <2>1
  <2>3. SubSeq(a, (n + 1) - m + 1, n + 1) \in Seq(BOOLEAN)
    BY <1>1, <1>3
  <2>4. /\ Len(SubSeq(a, (n + 1) - m + 1, n + 1)) = m
        /\ \A i \in 1..m : SubSeq(a, (n + 1) - m + 1, n + 1)[i] = a[(n + 1) - m + i]
    BY <1>1, <1>3
  <2>5. ASSUME NEW i \in 1..m PROVE k[i + 1] = a[(n + 1) - m + i]
    <3>1. i + 1 \in 1..(m + 1) /\ n - m + (i + 1) = (n + 1) - m + i
      BY <1>1
    <3> QED
      BY <1>5, <3>1
  <2> HIDE DEF l
  <2>6. l = SubSeq(a, (n + 1) - m + 1, n + 1)
    <3> DEFINE r == SubSeq(a, (n + 1) - m + 1, n + 1)
    <3>1. r \in Seq(BOOLEAN) /\ Len(r) = m /\ \A i \in 1..m : l[i] = r[i]
      BY <2>2, <2>3, <2>4, <2>5
    <3> HIDE DEF r
    <3>2. l = r
      BY <2>2, <3>1, SameVerdicts
    <3> QED
      BY <3>2 DEF r
  <2>7. Latest(l, a)
    BY <1>1, <1>3, <1>6, <2>2, <2>6 DEF Latest
  <2> QED
    BY <2>2, <2>7 DEF l, a, k
<1>7. CASE m # ProbeWindow
  <2>1. kept = all /\ k = a /\ m = n
    BY <1>1, <1>7 DEF a, k, m, n
  <2>2. LastN(k, ProbeWindow) = k
    BY <1>1, <1>4, <1>7 DEF LastN
  <2>3. SubSeq(a, 1, n + 1) = a
    BY <1>1, <1>3
  <2>4. Latest(k, a)
    <3>1. Len(k) = n + 1 /\ Len(a) = n + 1 /\ n + 1 <= ProbeWindow /\ (n + 1) - (n + 1) + 1 = 1
      BY <1>1, <1>3, <1>4, <1>7, <2>1
    <3> QED
      BY <2>1, <2>3, <3>1 DEF Latest
  <2> QED
    BY <1>4, <2>2, <2>4 DEF a, k
<1> QED
  BY <1>6, <1>7

-----------------------------------------------------------------------------
\* Of an empty log a subnet has nothing.
LEMMA InSubnetStarts ==
    ASSUME NEW s \in Subnet, NEW t \in Time
    PROVE  InSubnet([ip \in IP |-> NoRequests], s)[t] = 0
<1> DEFINE all == [ip \in IP |-> NoRequests]
           f == Stamped(all, t)
<1>1. \A ip \in IP : f[ip] = 0
  BY DEF Stamped, NoRequests
<1> HIDE DEF f
<1>2. Sum(f, Neighbours(s)) = 0
  BY <1>1, NeighboursFinite, SumZero
<1> QED
  BY <1>2, InSubnetIs DEF f

LEMMA StoreInit == Init => StoreInv
<1> SUFFICES ASSUME Init PROVE StoreInv
  OBVIOUS
<1>1. NoRequests \in Times /\ \A t \in Time : NoRequests[t] = 0
  BY DEF NoRequests, Times
<1>2. TypeOK
  BY <1>1, TemperatureAssumption DEF Init, TempInit, TypeOK, TempTypeOK, Time, Call, Idle, Cleaner
<1>3. ReadEarlier /\ CutoffOld
  BY DEF Init, ReadEarlier, CutoffOld, Idle
<1>4. \A s \in Subnet, t \in Time : SubnetLog(s)[t] = 0
  BY InSubnetStarts DEF SubnetLog, Init
<1>5. WindowIntact /\ NoneAdded
  BY <1>1, <1>4 DEF Init, TempInit, WindowIntact, NoneAdded
<1>6. BurnsKept
  BY DEF Init, TempInit, BurnsKept
<1>7. Latest(<<>>, <<>>)
  BY TemperatureAssumption DEF Latest
<1>8. ProbesKept
  BY <1>7 DEF Init, TempInit, ProbesKept
<1> QED
  BY <1>2, <1>3, <1>5, <1>6, <1>8 DEF StoreInv

\* A step that leaves the store and its history alone keeps what relates them.
LEMMA StoreKept ==
    ASSUME StoreInv, UNCHANGED <<tempVars, history>>, now' \in Time, now <= now'
    PROVE  WindowIntact' /\ NoneAdded' /\ BurnsKept' /\ ProbesKept'
<1>1. now \in Nat /\ now' \in Nat /\ Window \in Nat /\ now <= now'
  BY TimesArePoints DEF StoreInv, TypeOK
<1>2. ASSUME NEW t \in Time, t > now' - Window PROVE t > now - Window
  <2>1. t \in Nat
    BY TimesArePoints
  <2>2. \A a, b, w, u \in Nat : a <= b /\ u > b - w => u > a - w
    OBVIOUS
  <2> QED
    BY <1>1, <1>2, <2>1, <2>2
<1>3. \A s \in Subnet : SubnetLog(s)' = SubnetLog(s)
  BY DEF SubnetLog, history
<1>4. WindowIntact'
  BY <1>2, <1>3 DEF WindowIntact, tempVars, history, StoreInv
<1>5. NoneAdded'
  BY <1>3 DEF NoneAdded, tempVars, history, StoreInv
<1>6. BurnsKept' /\ ProbesKept'
  BY DEF BurnsKept, ProbesKept, tempVars, history, StoreInv
<1> QED
  BY <1>4, <1>5, <1>6

LEMMA CallTypes ==
    /\ Idle \in Call
    /\ \A ip \in IP, verdict \in Verdict, t \in Time :
          [op |-> "record", ip |-> ip, verdict |-> verdict, since |-> t] \in Call
    /\ \A ip \in IP, site \in Site, t \in Time :
          [op |-> "score", ip |-> ip, site |-> site, since |-> t] \in Call
    /\ \A ip \in IP, score \in Percent, b \in Bucket :
          [op |-> "scored", ip |-> ip, score |-> score, bucket |-> b] \in Call
BY DEF Call, Idle

\* What a thread in a call is known to carry.
LEMMA CallFields ==
    ASSUME NEW call \in Call
    PROVE  /\ call.op = "record" => call.ip \in IP /\ call.verdict \in Verdict /\ call.since \in Time
           /\ call.op = "score" => call.ip \in IP /\ call.site \in Site /\ call.since \in Time
BY DEF Call, Idle

LEMMA KeepsCall ==
    ASSUME StoreInv, NEW th \in Thread, UNCHANGED <<now, cleaner, history, tempVars>>,
           NEW call \in Call, Goto(th, call),
           call.op \in {"record", "score"} => call.since = now
    PROVE  StoreInv'
<1>1. now \in Nat
  BY TimesArePoints DEF StoreInv, TypeOK
<1>2. WindowIntact' /\ NoneAdded' /\ BurnsKept' /\ ProbesKept'
  BY <1>1, StoreKept DEF StoreInv, TypeOK
<1>3. TypeOK'
  BY DEF StoreInv, TypeOK, TempTypeOK, tempVars, history, Goto
<1>4. ReadEarlier'
  BY <1>1 DEF StoreInv, TypeOK, ReadEarlier, Goto
<1>5. CutoffOld'
  BY DEF StoreInv, CutoffOld
<1> QED
  BY <1>2, <1>3, <1>4, <1>5 DEF StoreInv

LEMMA CallsKeep ==
    ASSUME StoreInv, NEW th \in Thread,
           CallRecord(th) \/ CallScore(th) \/ LockScore(th) \/ ReturnScore(th)
    PROVE  StoreInv'
<1>1. now \in Time
  BY DEF StoreInv, TypeOK
<1>2. CASE CallRecord(th)
  <2>1. PICK ip \in IP, verdict \in Verdict :
            Goto(th, [op |-> "record", ip |-> ip, verdict |-> verdict, since |-> now])
    BY <1>2 DEF CallRecord
  <2>2. UNCHANGED <<now, cleaner, history, tempVars>>
    BY <1>2 DEF CallRecord
  <2> QED
    BY <1>1, <2>1, <2>2, CallTypes, KeepsCall
<1>3. CASE CallScore(th)
  <2>1. PICK ip \in IP, site \in Site :
            Goto(th, [op |-> "score", ip |-> ip, site |-> site, since |-> now])
    BY <1>3 DEF CallScore
  <2>2. UNCHANGED <<now, cleaner, history, tempVars>>
    BY <1>3 DEF CallScore
  <2> QED
    BY <1>1, <2>1, <2>2, CallTypes, KeepsCall
<1>4. CASE LockScore(th)
  <2> DEFINE ip == thread[th].ip
             score == ScoreOf(ip, thread[th].site, thread[th].since)
             call == [op |-> "scored", ip |-> ip, score |-> score, bucket |-> scoreToBucket(score)]
  <2>1. Goto(th, call) /\ UNCHANGED <<now, cleaner, history, tempVars>>
    BY <1>4 DEF LockScore
  <2>2. ip \in IP /\ thread[th].site \in Site /\ thread[th].since \in Time
    BY <1>4, CallFields DEF LockScore, StoreInv, TypeOK
  <2>3. score \in Percent
    BY <2>2, ScoreOfType DEF StoreInv, TypeOK
  <2> HIDE DEF score
  <2>4. scoreToBucket(score) \in Bucket
    BY <2>3 DEF scoreToBucket, Bucket
  <2>5. call \in Call /\ call.op = "scored"
    BY <2>2, <2>3, <2>4, CallTypes
  <2> HIDE DEF call
  <2> QED
    BY <2>1, <2>5, KeepsCall
<1>5. CASE ReturnScore(th)
  <2>1. Goto(th, Idle) /\ UNCHANGED <<now, cleaner, history, tempVars>>
    BY <1>5 DEF ReturnScore
  <2>2. Idle \in Call /\ Idle.op = "idle"
    BY CallTypes DEF Idle
  <2> QED
    BY <2>1, <2>2, KeepsCall
<1> QED
  BY <1>2, <1>3, <1>4, <1>5

\* Recording counts the request once per address and once per subnet.
LEMMA RecordKeeps ==
    ASSUME StoreInv, NEW th \in Thread, LockRecord(th)
    PROVE  StoreInv'
<1>1. thread[th].ip \in IP /\ thread[th].verdict \in Verdict /\ thread[th].since \in Time
  BY CallFields DEF LockRecord, StoreInv, TypeOK
<1>2. PICK ip \in IP, t \in Time, pass \in BOOLEAN :
        /\ log' = PlusOne(log, ip, t)
        /\ ipRequests' = PlusOne(ipRequests, ip, t)
        /\ subnetReqs' = PlusOne(subnetReqs, SubnetOf[ip], t)
        /\ \/ UNCHANGED <<probeHistory, verdicts>>
           \/ /\ probeHistory' = [probeHistory EXCEPT ![ip] = LastN(Append(@, pass), ProbeWindow)]
              /\ verdicts' = [verdicts EXCEPT ![ip] = Append(@, pass)]
  <2>1. (thread[th].verdict = "pass") \in BOOLEAN
    OBVIOUS
  <2> QED
    BY <1>1, <2>1 DEF LockRecord, Record, RecordProbe, RecordRequest, PlusOne
<1>3. /\ tokenBurns' = tokenBurns /\ burned' = burned
      /\ Goto(th, Idle)
      /\ UNCHANGED <<now, cleaner>>
  BY DEF LockRecord, Record, RecordProbe
<1>4. SubnetOf[ip] \in Subnet
  BY TemperatureAssumption
<1>5. /\ ipRequests \in [IP -> Times] /\ subnetReqs \in [Subnet -> Times] /\ log \in [IP -> Times]
      /\ probeHistory \in [IP -> Seq(BOOLEAN)] /\ verdicts \in [IP -> Seq(BOOLEAN)]
      /\ now \in Time
  BY DEF StoreInv, TypeOK, TempTypeOK
<1>6. \A i \in IP, u \in Time :
        /\ log'[i][u] = IF i = ip /\ u = t THEN log[i][u] + 1 ELSE log[i][u]
        /\ ipRequests'[i][u] = IF i = ip /\ u = t THEN ipRequests[i][u] + 1 ELSE ipRequests[i][u]
  BY <1>2, <1>4, <1>5 DEF PlusOne, Times
<1>7. \A s \in Subnet, u \in Time :
        /\ SubnetLog(s)'[u] = IF s = SubnetOf[ip] /\ u = t THEN SubnetLog(s)[u] + 1 ELSE SubnetLog(s)[u]
        /\ subnetReqs'[s][u] = IF s = SubnetOf[ip] /\ u = t THEN subnetReqs[s][u] + 1 ELSE subnetReqs[s][u]
  <2>1. \A s \in Subnet, u \in Time :
          SubnetLog(s)'[u] = IF s = SubnetOf[ip] /\ u = t THEN SubnetLog(s)[u] + 1 ELSE SubnetLog(s)[u]
    <3>1. \A s \in Subnet, u \in Time :
            /\ s = SubnetOf[ip] /\ u = t =>
                  InSubnet(PlusOne(log, ip, t), s)[u] = InSubnet(log, s)[u] + 1
            /\ ~(s = SubnetOf[ip] /\ u = t) =>
                  InSubnet(PlusOne(log, ip, t), s)[u] = InSubnet(log, s)[u]
      <4>1. log \in [IP -> Times]
        BY <1>5
      <4> QED
        BY <4>1, InSubnetGrows, Zenon
    <3>2. \A s \in Subnet : SubnetLog(s)' = InSubnet(PlusOne(log, ip, t), s)
      BY <1>2 DEF SubnetLog
    <3> QED
      BY <3>1, <3>2 DEF SubnetLog
  <2>2. \A s \in Subnet, u \in Time :
          subnetReqs'[s][u] = IF s = SubnetOf[ip] /\ u = t THEN subnetReqs[s][u] + 1 ELSE subnetReqs[s][u]
    BY <1>2, <1>4, <1>5 DEF PlusOne, Times
  <2> QED
    BY <2>1, <2>2
<1>8. \A s \in Subnet, u \in Time : SubnetLog(s)[u] \in Nat /\ subnetReqs[s][u] \in Nat
  BY <1>5, InSubnetType DEF SubnetLog, Times
<1>9. TypeOK'
  <2>1. log' \in [IP -> Times] /\ ipRequests' \in [IP -> Times] /\ subnetReqs' \in [Subnet -> Times]
    <3>1. \A f \in [IP -> Times] : PlusOne(f, ip, t) \in [IP -> Times]
      BY DEF PlusOne, Times
    <3>2. \A f \in [Subnet -> Times] : PlusOne(f, SubnetOf[ip], t) \in [Subnet -> Times]
      BY <1>4 DEF PlusOne, Times
    <3> QED
      BY <1>2, <1>5, <3>1, <3>2
  <2>2. probeHistory' \in [IP -> Seq(BOOLEAN)] /\ verdicts' \in [IP -> Seq(BOOLEAN)]
    <3>1. Append(verdicts[ip], pass) \in Seq(BOOLEAN)
      BY <1>5
    <3>2. LastN(Append(probeHistory[ip], pass), ProbeWindow) \in Seq(BOOLEAN)
      BY <1>5, LatestAppend DEF StoreInv, ProbesKept
    <3> QED
      BY <1>2, <1>5, <3>1, <3>2
  <2>3. thread' \in [Thread -> Call]
    BY <1>3, CallTypes DEF Goto, StoreInv, TypeOK
  <2>4. tokenBurns' \in [Site -> Nat] /\ burned' \in [Site -> Nat] /\ now' \in Time /\ cleaner' \in Cleaner
    BY <1>3 DEF StoreInv, TypeOK, TempTypeOK
  <2> QED
    BY <2>1, <2>2, <2>3, <2>4 DEF TypeOK, TempTypeOK
<1>10. ReadEarlier' /\ CutoffOld' /\ BurnsKept'
  <2>1. ReadEarlier'
    BY <1>3 DEF StoreInv, TypeOK, ReadEarlier, Goto, Idle
  <2> QED
    BY <1>3, <2>1 DEF StoreInv, CutoffOld, BurnsKept
<1>11. WindowIntact'
  BY <1>3, <1>6, <1>7 DEF StoreInv, WindowIntact
<1>12. NoneAdded'
  <2>1. \A i \in IP, u \in Time : log[i][u] \in Nat /\ ipRequests[i][u] \in Nat
    BY <1>5 DEF Times
  <2>2. \A i \in IP, u \in Time : ipRequests[i][u] <= log[i][u]
    BY DEF StoreInv, NoneAdded
  <2>3. \A s \in Subnet, u \in Time : subnetReqs[s][u] <= SubnetLog(s)[u]
    BY DEF StoreInv, NoneAdded
  <2>4. \A i \in IP, u \in Time : ipRequests'[i][u] <= log'[i][u]
    BY <1>6, <2>1, <2>2
  <2>5. \A s \in Subnet, u \in Time : subnetReqs'[s][u] <= SubnetLog(s)'[u]
    BY <1>7, <1>8, <2>3
  <2> QED
    BY <2>4, <2>5 DEF NoneAdded
<1>13. ProbesKept'
  <2>1. \A i \in IP : Latest(probeHistory[i], verdicts[i])
    BY DEF StoreInv, ProbesKept
  <2>2. Latest(LastN(Append(probeHistory[ip], pass), ProbeWindow), Append(verdicts[ip], pass))
    BY <1>5, <2>1, LatestAppend
  <2>3. \A i \in IP : Latest(probeHistory'[i], verdicts'[i])
    BY <1>2, <1>5, <2>1, <2>2
  <2> QED
    BY <2>3 DEF ProbesKept
<1> QED
  BY <1>9, <1>10, <1>11, <1>12, <1>13 DEF StoreInv

LEMMA BurnKeeps ==
    ASSUME StoreInv, NEW th \in Thread, BurnToken(th)
    PROVE  StoreInv'
<1>1. PICK site \in Site : /\ tokenBurns' = [tokenBurns EXCEPT ![site] = @ + 1]
                          /\ burned' = [burned EXCEPT ![site] = @ + 1]
  BY DEF BurnToken, RecordTokenBurn
<1>2. UNCHANGED <<now, thread, cleaner, log, verdicts, ipRequests, subnetReqs, probeHistory>>
  BY DEF BurnToken, RecordTokenBurn
<1>3. TypeOK'
  BY <1>1, <1>2 DEF StoreInv, TypeOK, TempTypeOK
<1>4. ReadEarlier' /\ CutoffOld'
  BY <1>2 DEF StoreInv, ReadEarlier, CutoffOld
<1>5. \A s \in Subnet : SubnetLog(s)' = SubnetLog(s)
  BY <1>2 DEF SubnetLog
<1>6. WindowIntact' /\ NoneAdded'
  BY <1>2, <1>5 DEF StoreInv, WindowIntact, NoneAdded
<1>7. BurnsKept' /\ ProbesKept'
  BY <1>1, <1>2 DEF StoreInv, BurnsKept, ProbesKept
<1> QED
  BY <1>3, <1>4, <1>6, <1>7 DEF StoreInv

\* A cleanup comes with a cutoff no later than the window's edge, so what it
\* forgets no longer counts.
LEMMA CleanupKeeps ==
    ASSUME StoreInv, CallCleanup \/ LockCleanup \/ Close
    PROVE  StoreInv'
<1>1. now \in Nat /\ Window \in Nat /\ now \in Time /\ cleaner \in Cleaner
  BY TimesArePoints DEF StoreInv, TypeOK
<1>2. UNCHANGED <<now, thread, history>>
  BY DEF CallCleanup, LockCleanup, Close
<1>3. ReadEarlier'
  BY <1>2 DEF StoreInv, ReadEarlier
<1>4. CASE CallCleanup
  <2>1. cleaner' = [state |-> "locking", cutoff |-> now - Window] /\ UNCHANGED tempVars
    BY <1>4 DEF CallCleanup, CutoffAt
  <2>2. now - Window \in Int /\ now - Window <= now - Window
    BY <1>1
  <2>3. CutoffOld' /\ cleaner' \in Cleaner
    BY <1>2, <2>1, <2>2 DEF CutoffOld, Cleaner
  <2>4. TypeOK'
    BY <1>2, <2>1, <2>3 DEF StoreInv, TypeOK, TempTypeOK, tempVars, history
  <2> QED
    BY <1>1, <1>2, <1>3, <2>1, <2>3, <2>4, StoreKept DEF StoreInv
<1>5. CASE Close
  <2>1. cleaner' = [state |-> "stopped"] /\ UNCHANGED tempVars
    BY <1>5 DEF Close
  <2>2. CutoffOld' /\ cleaner' \in Cleaner
    BY <2>1 DEF CutoffOld, Cleaner
  <2>3. TypeOK'
    BY <1>2, <2>1, <2>2 DEF StoreInv, TypeOK, TempTypeOK, tempVars, history
  <2> QED
    BY <1>1, <1>2, <1>3, <2>1, <2>2, <2>3, StoreKept DEF StoreInv
<1>6. CASE LockCleanup
  <2>1. /\ cleaner.state = "locking" /\ cleaner' = [state |-> "idle"]
        /\ ipRequests' = [ip \in IP |-> After(ipRequests[ip], cleaner.cutoff)]
        /\ subnetReqs' = [s \in Subnet |-> After(subnetReqs[s], cleaner.cutoff)]
        /\ UNCHANGED <<tokenBurns, probeHistory>>
    BY <1>6 DEF LockCleanup, Cleanup
  <2>2. cleaner.cutoff \in Int /\ cleaner.cutoff <= now - Window
    BY <1>1, <2>1 DEF StoreInv, CutoffOld, Cleaner
  <2>3. CutoffOld' /\ cleaner' \in Cleaner
    BY <2>1 DEF CutoffOld, Cleaner
  <2>4. /\ \A ip \in IP, t \in Time : ipRequests[ip][t] \in Nat
        /\ \A s \in Subnet, t \in Time : subnetReqs[s][t] \in Nat
    BY DEF StoreInv, TypeOK, TempTypeOK, Times
  <2>5. /\ \A ip \in IP, t \in Time :
              ipRequests'[ip][t] = IF t > cleaner.cutoff THEN ipRequests[ip][t] ELSE 0
        /\ \A s \in Subnet, t \in Time :
              subnetReqs'[s][t] = IF t > cleaner.cutoff THEN subnetReqs[s][t] ELSE 0
    BY <2>1 DEF After
  <2>6. TypeOK'
    <3>1. ipRequests' \in [IP -> Times] /\ subnetReqs' \in [Subnet -> Times]
      BY <2>1, <2>4 DEF After, Times
    <3> QED
      BY <1>2, <2>1, <2>3, <3>1 DEF StoreInv, TypeOK, TempTypeOK, history
  <2>7. \A s \in Subnet : SubnetLog(s)' = SubnetLog(s)
    BY <1>2 DEF SubnetLog, history
  <2>8. \A ip \in IP : log'[ip] = log[ip]
    BY <1>2 DEF history
  <2>9. WindowIntact'
    <3>1. ASSUME NEW t \in Time, t > now - Window PROVE t > cleaner.cutoff
      <4>1. t \in Nat
        BY TimesArePoints
      <4> QED
        BY <1>1, <2>2, <3>1, <4>1
    <3> QED
      BY <1>2, <2>5, <2>7, <2>8, <3>1 DEF StoreInv, WindowIntact
  <2>10. NoneAdded'
    <3>1. /\ \A ip \in IP, t \in Time : log[ip][t] \in Nat
          /\ \A s \in Subnet, t \in Time : SubnetLog(s)[t] \in Nat
      BY InSubnetType DEF SubnetLog, StoreInv, TypeOK, Times
    <3>2. \A ip \in IP, t \in Time : ipRequests'[ip][t] <= log'[ip][t]
      BY <2>4, <2>5, <2>8, <3>1 DEF StoreInv, NoneAdded
    <3>3. \A s \in Subnet, t \in Time : subnetReqs'[s][t] <= SubnetLog(s)'[t]
      BY <2>4, <2>5, <2>7, <3>1 DEF StoreInv, NoneAdded
    <3> QED
      BY <3>2, <3>3 DEF NoneAdded
  <2>11. BurnsKept' /\ ProbesKept'
    BY <1>2, <2>1 DEF StoreInv, BurnsKept, ProbesKept, history
  <2> QED
    BY <1>3, <2>3, <2>6, <2>9, <2>10, <2>11 DEF StoreInv
<1> QED
  BY <1>4, <1>5, <1>6

LEMMA TickKeeps ==
    ASSUME StoreInv, Tick
    PROVE  StoreInv'
<1>1. now \in Nat /\ now' = now + 1 /\ Window \in Nat /\ MaxTime \in Nat /\ now < MaxTime
  BY TimesArePoints, TemperatureAssumption DEF StoreInv, TypeOK, Tick
<1>2. now' \in Time /\ now' \in Nat /\ now <= now'
  BY <1>1 DEF Time
<1>3. UNCHANGED <<thread, cleaner, history, tempVars>>
  BY DEF Tick
<1>4. TypeOK'
  BY <1>2, <1>3 DEF StoreInv, TypeOK, TempTypeOK, tempVars, history
<1>5. ReadEarlier'
  <2>1. ASSUME NEW th \in Thread, thread[th].op \in {"record", "score"}
        PROVE  thread[th].since <= now'
    <3>1. thread[th].since \in Nat
      BY <2>1, CallFields, TimesArePoints DEF StoreInv, TypeOK
    <3>2. thread[th].since <= now
      BY <2>1 DEF StoreInv, ReadEarlier
    <3> QED
      BY <1>1, <1>2, <3>1, <3>2
  <2> QED
    BY <1>3, <2>1 DEF ReadEarlier
<1>6. CutoffOld'
  <2>1. ASSUME cleaner.state = "locking" PROVE cleaner.cutoff <= now' - Window
    <3>1. cleaner.cutoff \in Int /\ cleaner.cutoff <= now - Window
      BY <2>1 DEF StoreInv, CutoffOld, TypeOK, Cleaner
    <3> QED
      BY <1>1, <3>1
  <2> QED
    BY <1>3, <2>1 DEF CutoffOld
<1> QED
  BY <1>2, <1>3, <1>4, <1>5, <1>6, StoreKept DEF StoreInv

LEMMA StoreStep == StoreInv /\ [Next]_vars => StoreInv'
<1> SUFFICES ASSUME StoreInv, [Next]_vars PROVE StoreInv'
  OBVIOUS
<1>1. CASE Tick
  BY <1>1, TickKeeps
<1>2. CASE CallCleanup \/ LockCleanup \/ Close
  BY <1>2, CleanupKeeps
<1>3. ASSUME NEW th \in Thread,
             CallRecord(th) \/ CallScore(th) \/ BurnToken(th) \/ Return(th)
      PROVE  StoreInv'
  BY <1>3, CallsKeep, BurnKeeps, RecordKeeps DEF Return
<1>4. CASE UNCHANGED vars
  <2>1. UNCHANGED <<now, thread, cleaner, history, tempVars>>
    BY <1>4 DEF vars
  <2>2. now \in Nat /\ now \in Time
    BY TimesArePoints DEF StoreInv, TypeOK
  <2>3. WindowIntact' /\ NoneAdded' /\ BurnsKept' /\ ProbesKept'
    BY <2>1, <2>2, StoreKept
  <2>4. TypeOK' /\ ReadEarlier' /\ CutoffOld'
    BY <2>1 DEF StoreInv, TypeOK, TempTypeOK, tempVars, history, ReadEarlier, CutoffOld
  <2> QED
    BY <2>3, <2>4 DEF StoreInv
<1> QED
  BY <1>1, <1>2, <1>3, <1>4 DEF Next

LEMMA StoreAlways == Spec => []StoreInv
<1> QED
  BY StoreInit, StoreStep, PTL DEF Spec

\* The store's variables keep their types; a score is a percentage.
THEOREM TypeCorrect == Spec => []TypeOK
<1>1. StoreInv => TypeOK
  BY DEF StoreInv
<1> QED
  BY <1>1, StoreAlways, PTL

\* No request is lost while it still counts, whatever time passes between
\* the reading of the clock and the taking of the mutex.
THEOREM NothingLost == Spec => []WindowIntact
<1>1. StoreInv => WindowIntact
  BY DEF StoreInv
<1> QED
  BY <1>1, StoreAlways, PTL

\* The kept verdicts of an address are its latest ones, in order.
THEOREM LatestProbesKept == Spec => []ProbesAreLatest
<1>1. StoreInv => ProbesAreLatest
  BY DEF StoreInv, ProbesKept, Latest, ProbesAreLatest
<1> QED
  BY <1>1, StoreAlways, PTL

-----------------------------------------------------------------------------
\* If the store has no more than all, and all of what is after the later of
\* two cutoffs, its count after the earlier one is between those of all.
LEMMA CountBounds ==
    ASSUME NEW kept \in Times, NEW all \in Times, NEW a \in Int, NEW b \in Int, a <= b,
           \A t \in Time : kept[t] <= all[t],
           \A t \in Time : t > b => kept[t] = all[t]
    PROVE  /\ countAfter(all, b) <= countAfter(kept, a)
           /\ countAfter(kept, a) <= countAfter(all, a)
<1> DEFINE A == {t \in Time : t > a}
           B == {t \in Time : t > b}
<1>1. IsFiniteSet(A) /\ IsFiniteSet(B)
  <2>1. IsFiniteSet(Time) /\ A \subseteq Time /\ B \subseteq Time
    BY FS_Interval, TemperatureAssumption DEF Time
  <2> HIDE DEF A, B
  <2> QED
    BY <2>1, FS_Subset
<1>2. B \in SUBSET A
  <2>1. ASSUME NEW t \in Time, t > b PROVE t > a
    <3>1. t \in Nat
      BY TimesArePoints
    <3> QED
      BY <2>1, <3>1
  <2> QED
    BY <2>1
<1>3. \A t \in Time : kept[t] \in Nat /\ all[t] \in Nat
  BY DEF Times
<1>4. A \subseteq Time /\ B \subseteq Time /\ \A t \in B : all[t] = kept[t]
  OBVIOUS
<1>5. countAfter(all, b) = Sum(all, B) /\ countAfter(kept, a) = Sum(kept, A)
      /\ countAfter(all, a) = Sum(all, A)
  BY countAfterIs
<1> HIDE DEF A, B
<1>6. Sum(all, B) = Sum(kept, B)
  BY <1>1, <1>4, SumAgrees
<1>7. Sum(kept, B) <= Sum(kept, A)
  <2>1. \A t \in A : kept[t] \in Nat /\ kept[t] <= kept[t]
    BY <1>3, <1>4
  <2> QED
    BY <1>1, <1>2, <2>1, SumMonotone
<1>8. Sum(kept, A) <= Sum(all, A)
  <2>1. \A t \in A : kept[t] \in Nat /\ all[t] \in Nat /\ kept[t] <= all[t]
    BY <1>3, <1>4
  <2>2. A \in SUBSET A
    OBVIOUS
  <2> QED
    BY <1>1, <2>1, <2>2, SumMonotone
<1> QED
  BY <1>5, <1>6, <1>7, <1>8

\* More requests of the address and of its subnet never lower the score.
LEMMA CountsMonotone ==
    ASSUME NEW burns \in Nat, NEW probe \in Percent, NEW rep \in Percent,
           NEW ip1 \in Nat, NEW ip2 \in Nat, ip1 <= ip2,
           NEW net1 \in Nat, NEW net2 \in Nat, net1 <= net2
    PROVE  Score(ip1, net1, burns, probe, rep) <= Score(ip2, net2, burns, probe, rep)
<1>1. burns <= burns /\ probe <= probe /\ rep <= rep
  BY DEF Percent
<1> QED
  BY <1>1, ScoreMonotone

\* The score taken with an earlier time lies between the two scores.
LEMMA ScoreBetween ==
    ASSUME StoreInv, NEW ip \in IP, NEW site \in Site, NEW since \in Time, since <= now
    PROVE  /\ ScoreIn(ip, site, now) <= ScoreOf(ip, site, since)
           /\ ScoreOf(ip, site, since) <= ScoreIn(ip, site, since)
<1> DEFINE net == SubnetOf[ip]
           a == since - Window
           b == now - Window
           probe == probeSignal(Fails(probeHistory[ip]), Len(probeHistory[ip]))
<1>1. a \in Int /\ b \in Int /\ a <= b /\ net \in Subnet
  BY TimesArePoints, TemperatureAssumption DEF StoreInv, TypeOK
<1>2. /\ ipRequests[ip] \in Times /\ log[ip] \in Times
      /\ subnetReqs[net] \in Times /\ SubnetLog(net) \in Times
  BY <1>1, InSubnetType DEF SubnetLog, StoreInv, TypeOK, TempTypeOK
<1>3. \A t \in Time : /\ ipRequests[ip][t] <= log[ip][t]
                      /\ subnetReqs[net][t] <= SubnetLog(net)[t]
  BY <1>1 DEF StoreInv, NoneAdded
<1>4. \A t \in Time : t > b => /\ ipRequests[ip][t] = log[ip][t]
                               /\ subnetReqs[net][t] = SubnetLog(net)[t]
  BY <1>1 DEF StoreInv, WindowIntact
<1>5. /\ probe \in Percent /\ Reputation[ip] \in Percent
      /\ burned[site] \in Nat /\ tokenBurns[site] = burned[site]
  <2>1. probe \in Percent
    BY FailsType, ProbeSignalType DEF StoreInv, TypeOK, TempTypeOK
  <2>2. Reputation[ip] \in Percent
    BY TemperatureAssumption DEF Percent
  <2> QED
    BY <2>1, <2>2 DEF StoreInv, TypeOK, BurnsKept
<1>6. /\ ScoreOf(ip, site, since) = Score(countAfter(ipRequests[ip], a),
                 countAfter(subnetReqs[net], a), burned[site], probe, Reputation[ip])
      /\ ScoreIn(ip, site, now) = Score(countAfter(log[ip], b),
                 countAfter(SubnetLog(net), b), burned[site], probe, Reputation[ip])
      /\ ScoreIn(ip, site, since) = Score(countAfter(log[ip], a),
                 countAfter(SubnetLog(net), a), burned[site], probe, Reputation[ip])
  BY <1>5 DEF ScoreOf, ScoreIn, Within
<1>7. /\ countAfter(ipRequests[ip], a) \in Nat /\ countAfter(subnetReqs[net], a) \in Nat
      /\ countAfter(log[ip], a) \in Nat /\ countAfter(SubnetLog(net), a) \in Nat
      /\ countAfter(log[ip], b) \in Nat /\ countAfter(SubnetLog(net), b) \in Nat
  BY <1>1, <1>2, countAfterType
<1> HIDE DEF net, a, b, probe
<1>8. /\ countAfter(log[ip], b) <= countAfter(ipRequests[ip], a)
      /\ countAfter(ipRequests[ip], a) <= countAfter(log[ip], a)
  BY <1>1, <1>2, <1>3, <1>4, CountBounds
<1>9. /\ countAfter(SubnetLog(net), b) <= countAfter(subnetReqs[net], a)
      /\ countAfter(subnetReqs[net], a) <= countAfter(SubnetLog(net), a)
  BY <1>1, <1>2, <1>3, <1>4, CountBounds
<1>10. ScoreIn(ip, site, now) <= ScoreOf(ip, site, since)
  BY <1>5, <1>6, <1>7, <1>8, <1>9, CountsMonotone
<1>11. ScoreOf(ip, site, since) <= ScoreIn(ip, site, since)
  BY <1>5, <1>6, <1>7, <1>8, <1>9, CountsMonotone
<1> QED
  BY <1>10, <1>11

\* Only the critical section of Score turns a call into its answer.
LEMMA ScoredByLockScore ==
    ASSUME StoreInv, [Next]_vars, NEW th \in Thread,
           thread[th].op = "score", thread'[th].op = "scored"
    PROVE  LockScore(th)
<1>1. thread[th] # Idle /\ thread'[th] # thread[th] /\ Idle.op # "scored"
  BY DEF Idle
<1>2. PICK other \in Thread :
        CallRecord(other) \/ CallScore(other) \/ BurnToken(other) \/ Return(other)
  BY <1>1 DEF Next, vars, Tick, CallCleanup, LockCleanup, Close
<1>3. \E call : Goto(other, call)
  <2>1. CASE LockRecord(other) \/ CallRecord(other) \/ CallScore(other) \/ BurnToken(other)
    BY <1>1, <2>1 DEF LockRecord, CallRecord, CallScore, BurnToken
  <2>2. CASE LockScore(other) \/ ReturnScore(other)
    BY <2>2 DEF LockScore, ReturnScore
  <2> QED
    BY <1>2, <2>1, <2>2 DEF Return
<1>4. other = th
  BY <1>1, <1>3 DEF Goto, StoreInv, TypeOK
<1> QED
  BY <1>1, <1>2, <1>4 DEF Return, CallRecord, CallScore, BurnToken, LockRecord, ReturnScore

\* A score computed after a wait lies between the score of the requests still
\* in the window and that of those in the window when it was called.
THEOREM ScoreFresh == Spec => ScoreWithinWindow
<1> DEFINE Fresh(th) ==
        (thread[th].op = "score" /\ thread'[th].op = "scored") =>
            LET ip == thread[th].ip
                site == thread[th].site
            IN  /\ ScoreIn(ip, site, now) <= thread'[th].score
                /\ thread'[th].score <= ScoreIn(ip, site, thread[th].since)
<1>1. ASSUME StoreInv, [Next]_vars, NEW th \in Thread PROVE Fresh(th)
  <2> SUFFICES ASSUME thread[th].op = "score", thread'[th].op = "scored"
               PROVE  /\ ScoreIn(thread[th].ip, thread[th].site, now) <= thread'[th].score
                      /\ thread'[th].score <=
                             ScoreIn(thread[th].ip, thread[th].site, thread[th].since)
    OBVIOUS
  <2>1. LockScore(th)
    BY <1>1, ScoredByLockScore
  <2>2. thread[th].ip \in IP /\ thread[th].site \in Site /\ thread[th].since \in Time
    BY <1>1, CallFields DEF StoreInv, TypeOK
  <2>3. thread[th].since <= now
    BY <1>1 DEF StoreInv, ReadEarlier
  <2>4. thread'[th].score = ScoreOf(thread[th].ip, thread[th].site, thread[th].since)
    BY <1>1, <2>1 DEF LockScore, Goto, StoreInv, TypeOK
  <2> QED
    BY <1>1, <2>2, <2>3, <2>4, ScoreBetween
<1>2. StoreInv /\ [Next]_vars => [\A th \in Thread : Fresh(th)]_vars
  BY <1>1
<1>3. ScoreWithinWindow <=> [][\A th \in Thread : Fresh(th)]_vars
  BY DEF ScoreWithinWindow
<1> QED
  BY <1>2, <1>3, StoreAlways, PTL DEF Spec
=============================================================================

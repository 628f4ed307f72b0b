------------------------ MODULE ChallengeParamsProofs ------------------------
(***************************************************************************)
(* Theorems about DeriveParams and selectProbes, for any ranges, any seed  *)
(* and any number of seed bytes.                                           *)
(***************************************************************************)
EXTENDS ChallengeParams, NatRecursion, SequenceTheorems, FiniteSetTheorems, TLAPS

\* A remainder is below the divisor.
LEMMA RemainderBound ==
    ASSUME NEW x \in Nat, NEW w \in Nat \ {0}
    PROVE  x % w \in 0..(w - 1)
OBVIOUS

\* A value picked from a range that fits its type lies in the range.
LEMMA PickInRange ==
    ASSUME NEW min \in Nat, NEW max \in Nat, NEW x \in Nat, NEW size \in Nat,
           Fits(min, max, size)
    PROVE  Pick(min, max, x, size) \in Nat /\ min <= Pick(min, max, x, size)
              /\ Pick(min, max, x, size) <= max
<1> DEFINE w == max - min + 1
           r == x % w
<1>1. w \in Nat \ {0} /\ w < size
  BY DEF Fits
<1>2. w % size = w
  BY <1>1
<1>3. r \in 0..(w - 1)
  BY <1>1, RemainderBound
<1>4. min + r \in Nat /\ min + r < size /\ min <= min + r /\ min + r <= max
  BY <1>1, <1>3 DEF Fits
<1>5. (min + r) % size = min + r
  BY <1>4
<1> QED
  BY <1>2, <1>4, <1>5 DEF Pick

\* A sequence that names every index of a pool is as long as the pool.
LEMMA CoversPool ==
    ASSUME NEW s \in Seq(Nat), NEW n \in Nat,
           \A k \in 0..(n - 1) : \E j \in 1..Len(s) : s[j] = k
    PROVE  Len(s) >= n
<1> DEFINE places == {j \in 1..Len(s) : s[j] \in 0..(n - 1)}
           f == [j \in places |-> s[j]]
<1>1. Len(s) \in Nat
  OBVIOUS
<1>2. IsFiniteSet(1..Len(s)) /\ Cardinality(1..Len(s)) = Len(s)
  BY <1>1, FS_Interval
<1>3. Cardinality(0..(n - 1)) = n
  BY FS_Interval
<1>4. places \in SUBSET (1..Len(s))
  OBVIOUS
<1>5. IsFiniteSet(places) /\ Cardinality(places) <= Cardinality(1..Len(s))
  <2> HIDE DEF places
  <2> QED
    BY <1>2, <1>4, FS_Subset
<1>6. f \in Surjection(places, 0..(n - 1))
  BY DEF Surjection
<1>7. Cardinality(0..(n - 1)) <= Cardinality(places)
  <2> HIDE DEF places, f
  <2> QED
    BY <1>5, <1>6, FS_Surjection
<1>8. Cardinality(places) \in Nat
  <2> HIDE DEF places
  <2> QED
    BY <1>5, FS_CardinalityType
<1> HIDE DEF places
<1> QED
  BY <1>1, <1>2, <1>3, <1>5, <1>7, <1>8

\* The bytes and words of a seed are numbers.
LEMMA SeedTypes ==
    ASSUME NEW s \in Seed
    PROVE  s.bits \in Nat /\ s.memory \in Nat /\ s.iterations \in Nat
<1>1. \A x \in Bytes \cup Words : x \in Nat
  BY SeedAssumption
<1>2. s.bits \in Bytes /\ s.memory \in Words /\ s.iterations \in Words
  BY DEF Seed
<1> QED
  BY <1>1, <1>2

-----------------------------------------------------------------------------
\* What both loops keep: the second one needs to know that what is in
\* selected is what the first one appended, and that every index it has
\* passed is in the result.
Has(s, k) == \E j \in DOMAIN s : s[j] = k

LoopInv ==
    /\ pc \in {"draw", "fill"} => ranges.ProbePoolSize > 0 /\ Wanted > 0 /\ seed # ShortSeed
    /\ pc = "derive" => indices = <<>> /\ selected = {} /\ idx = 0
    /\ pc = "draw" => idx = 0
    /\ \A j \in DOMAIN indices :
          /\ indices[j] < ranges.ProbePoolSize
          /\ indices[j] \in selected \/ indices[j] < idx
    /\ \A k \in selected : Has(indices, k)
    /\ pc \in {"draw", "fill"} => \A k \in 0..(idx - 1) : Has(indices, k)

IInv == TypeOK /\ WithinRanges /\ LoopInv /\ ProbesDistinct /\ EnoughProbes

LEMMA RangeTypes ==
    ASSUME NEW r \in Ranges
    PROVE  /\ r \in ParameterRanges
           /\ Fits(r.HashCashBitsMin, r.HashCashBitsMax, ByteSize)
           /\ Fits(r.Argon2MemoryMinKiB, r.Argon2MemoryMaxKiB, WordSize)
           /\ Fits(r.Argon2IterationsMin, r.Argon2IterationsMax, WordSize)
           /\ r.ProbePoolSize <= PoolLength
BY RangesAssumption

LEMMA WantedType ==
    ASSUME TypeOK
    PROVE  /\ Wanted \in Int
           /\ Wanted <= ranges.ProbePoolSize
           /\ ranges.ProbePoolSize \in Int
           /\ ranges.ProbePoolSize <= PoolLength
BY RangeTypes DEF TypeOK, Wanted, ParameterRanges

LEMMA InitInv == Init => IInv
<1> SUFFICES ASSUME Init PROVE IInv
  OBVIOUS
<1>1. TypeOK
  BY SeedAssumption DEF Init, TypeOK, Params
<1> QED
  BY <1>1 DEF Init, IInv, WithinRanges, LoopInv, ProbesDistinct, EnoughProbes, Named

\* The three parameters are picked.
LEMMA DeriveInv ==
    ASSUME IInv, Derive
    PROVE  IInv'
<1> USE DEF IInv
<1>1. /\ ranges \in Ranges /\ seed \in Seed
      /\ ranges' = ranges /\ seed' = seed /\ i' = i /\ idx' = idx
      /\ selected' = selected /\ indices' = indices
      /\ indices = <<>> /\ selected = {} /\ idx = 0
  BY DEF Derive, TypeOK, LoopInv
<1>2. Wanted' = Wanted
  BY <1>1 DEF Wanted
<1>3. /\ seed.bits \in Nat /\ seed.memory \in Nat /\ seed.iterations \in Nat
      /\ ByteSize \in Nat /\ WordSize \in Nat
  BY <1>1, SeedAssumption, SeedTypes
<1>4. /\ ranges.HashCashBitsMin \in Nat /\ ranges.HashCashBitsMax \in Nat
      /\ ranges.Argon2MemoryMinKiB \in Nat /\ ranges.Argon2MemoryMaxKiB \in Nat
      /\ ranges.Argon2IterationsMin \in Nat /\ ranges.Argon2IterationsMax \in Nat
      /\ ranges.ProbePoolSize \in Int /\ ranges.ProbeCount \in Int
  BY <1>1, RangeTypes DEF ParameterRanges
<1>5. params' \in Params /\ WithinRanges'
  <2> DEFINE a == Pick(ranges.HashCashBitsMin, ranges.HashCashBitsMax, seed.bits, ByteSize)
             b == Pick(ranges.Argon2MemoryMinKiB, ranges.Argon2MemoryMaxKiB, seed.memory, WordSize)
             c == Pick(ranges.Argon2IterationsMin, ranges.Argon2IterationsMax, seed.iterations, WordSize)
  <2>1. a \in Nat /\ ranges.HashCashBitsMin <= a /\ a <= ranges.HashCashBitsMax
    BY <1>1, <1>3, <1>4, RangeTypes, PickInRange
  <2>2. b \in Nat /\ ranges.Argon2MemoryMinKiB <= b /\ b <= ranges.Argon2MemoryMaxKiB
    BY <1>1, <1>3, <1>4, RangeTypes, PickInRange
  <2>3. c \in Nat /\ ranges.Argon2IterationsMin <= c /\ c <= ranges.Argon2IterationsMax
    BY <1>1, <1>3, <1>4, RangeTypes, PickInRange
  <2>4. params' = [HashCashBits |-> a, Argon2Memory |-> b, Argon2Iterations |-> c]
    BY DEF Derive
  <2> HIDE DEF a, b, c
  <2> QED
    BY <1>1, <2>1, <2>2, <2>3, <2>4 DEF Params, WithinRanges
<1>6. pc' \in {"done", "draw"} /\ (pc' = "done" => ~(Wanted > 0))
      /\ (pc' = "draw" => ranges.ProbePoolSize > 0 /\ Wanted > 0 /\ seed # ShortSeed)
  BY <1>4 DEF Derive, Wanted
<1>7. TypeOK'
  BY <1>1, <1>2, <1>5, <1>6 DEF TypeOK
<1>8. LoopInv' /\ ProbesDistinct' /\ EnoughProbes'
  BY <1>1, <1>2, <1>6 DEF LoopInv, ProbesDistinct, EnoughProbes, Named, Has
<1> QED
  BY <1>5, <1>7, <1>8

\* A seed of fewer than nine bytes gives the easiest parameters.
LEMMA DeriveMinimumInv ==
    ASSUME IInv, DeriveMinimum
    PROVE  IInv'
<1>1. /\ ranges \in Ranges /\ seed = ShortSeed
      /\ ranges' = ranges /\ seed' = seed /\ pc' = "done" /\ i' = i /\ idx' = idx
      /\ selected' = selected /\ indices' = indices
      /\ indices = <<>> /\ selected = {} /\ idx = 0
  BY DEF DeriveMinimum, TypeOK, LoopInv, IInv
<1>2. params' \in Params /\ WithinRanges'
  BY <1>1, RangeTypes DEF DeriveMinimum, Params, WithinRanges, ParameterRanges, Fits
<1>3. TypeOK'
  BY <1>1, <1>2 DEF TypeOK, IInv
<1> QED
  BY <1>1, <1>2, <1>3 DEF IInv, LoopInv, ProbesDistinct, EnoughProbes, Named, Has

-----------------------------------------------------------------------------
\* An index neither drawn nor passed yet is appended: the result keeps its
\* type, stays free of repetitions and now has the index.
LEMMA AppendIndex ==
    ASSUME IInv, NEW new \in Nat, new < ranges.ProbePoolSize,
           new \notin selected, idx <= new \/ idx = 0,
           pc \in {"draw", "fill"}, Len(indices) < Wanted,
           ranges' = ranges, indices' = Append(indices, new)
    PROVE  /\ indices' \in Seq(Nat)
           /\ Len(indices') <= Wanted
           /\ \A j \in DOMAIN indices' :
                 /\ indices'[j] < ranges.ProbePoolSize
                 /\ indices'[j] \in selected \/ indices'[j] < idx \/ indices'[j] = new
           /\ \A k : Has(indices, k) => Has(indices', k)
           /\ Has(indices', new)
           /\ ProbesDistinct'
<1> USE DEF IInv
<1>1. indices \in Seq(Nat) /\ Wanted \in Int /\ idx \in Nat /\ ranges.ProbePoolSize \in Int
      /\ ranges.ProbePoolSize <= PoolLength /\ PoolLength \in Nat
  BY WantedType, SeedAssumption DEF TypeOK
<1>2. /\ indices' \in Seq(Nat)
      /\ Len(indices') = Len(indices) + 1
      /\ DOMAIN indices' = 1..(Len(indices) + 1)
      /\ DOMAIN indices = 1..Len(indices)
      /\ indices'[Len(indices) + 1] = new
      /\ \A j \in 1..Len(indices) : indices'[j] = indices[j]
      /\ Len(indices) \in Nat
  BY <1>1
<1>3. \A j \in DOMAIN indices :
         indices[j] \in Nat /\ indices[j] < ranges.ProbePoolSize /\ indices[j] # new
  BY <1>1, <1>2 DEF LoopInv
<1>4. \A j \in DOMAIN indices' :
         /\ indices'[j] \in Nat /\ indices'[j] < ranges.ProbePoolSize
         /\ indices'[j] \in selected \/ indices'[j] < idx \/ indices'[j] = new
  BY <1>2, <1>3 DEF LoopInv
<1>5. (\A k : Has(indices, k) => Has(indices', k)) /\ Has(indices', new)
  BY <1>2 DEF Has
<1>6. \A j, k \in DOMAIN indices' : j # k => indices'[j] # indices'[k]
  BY <1>2, <1>3 DEF ProbesDistinct
<1>7. Named' = DOMAIN indices'
  BY <1>1, <1>4 DEF Named
<1> QED
  BY <1>1, <1>2, <1>4, <1>5, <1>6, <1>7 DEF ProbesDistinct

\* One byte of the tail is used.
LEMMA DrawInv ==
    ASSUME IInv, Draw
    PROVE  IInv'
<1> USE DEF IInv
<1> DEFINE drawn == seed.tail[i + 1] % ranges.ProbePoolSize
<1>1. /\ pc = "draw" /\ pc' = pc /\ ranges' = ranges /\ seed' = seed
      /\ params' = params /\ idx' = idx /\ idx = 0 /\ i' = i + 1
      /\ i \in Nat /\ i < TailLength /\ TailLength \in Nat /\ Len(indices) < Wanted
      /\ ranges.ProbePoolSize > 0 /\ Wanted > 0 /\ seed \in Seed
  BY SeedAssumption DEF Draw, Drawing, LoopInv, TypeOK
<1>2. Wanted' = Wanted /\ ranges.ProbePoolSize \in Nat \ {0}
  BY <1>1, WantedType DEF Wanted
<1>3. drawn \in Nat /\ drawn < ranges.ProbePoolSize
  <2>1. \A x \in Bytes : x \in Nat
    BY SeedAssumption
  <2>2. seed.tail[i + 1] \in Bytes
    BY <1>1 DEF Seed
  <2>3. drawn \in 0..(ranges.ProbePoolSize - 1)
    BY <1>2, <2>1, <2>2, RemainderBound
  <2> QED
    BY <1>2, <2>3
<1>4. i' \in 0..TailLength
  BY <1>1
<1>5. WithinRanges' /\ EnoughProbes'
  BY <1>1 DEF WithinRanges, EnoughProbes
<1>6. CASE UNCHANGED <<selected, indices>>
  <2>1. TypeOK'
    BY <1>1, <1>2, <1>4, <1>6 DEF TypeOK
  <2> QED
    BY <1>1, <1>2, <1>5, <1>6, <2>1 DEF LoopInv, ProbesDistinct, Named, Has
<1>7. CASE /\ drawn \notin selected
           /\ selected' = selected \cup {drawn}
           /\ indices' = Append(indices, drawn)
  <2> HIDE DEF drawn
  <2>1. /\ indices' \in Seq(Nat)
        /\ Len(indices') <= Wanted
        /\ \A j \in DOMAIN indices' :
              /\ indices'[j] < ranges.ProbePoolSize
              /\ indices'[j] \in selected \/ indices'[j] < idx \/ indices'[j] = drawn
        /\ \A k : Has(indices, k) => Has(indices', k)
        /\ Has(indices', drawn)
        /\ ProbesDistinct'
    <3> HIDE DEF IInv
    <3> QED
      BY <1>1, <1>3, <1>7, AppendIndex
  <2>2. TypeOK'
    BY <1>1, <1>2, <1>3, <1>4, <1>7, <2>1 DEF TypeOK
  <2>3. LoopInv'
    BY <1>1, <1>2, <1>7, <2>1 DEF LoopInv
  <2> QED
    BY <1>5, <2>1, <2>2, <2>3
<1> QED
  BY <1>6, <1>7 DEF Draw

\* One index is considered by the second loop.
LEMMA FillInv ==
    ASSUME IInv, Fill
    PROVE  IInv'
<1> USE DEF IInv
<1>1. /\ pc = "fill" /\ pc' = pc /\ ranges' = ranges /\ seed' = seed
      /\ params' = params /\ i' = i /\ selected' = selected /\ idx' = idx + 1
      /\ idx \in Nat /\ idx < ranges.ProbePoolSize /\ Len(indices) < Wanted
      /\ ranges.ProbePoolSize > 0 /\ Wanted > 0 /\ seed # ShortSeed
  BY DEF Fill, Filling, LoopInv, TypeOK
<1>2. Wanted' = Wanted /\ idx' \in 0..PoolLength
  <2>1. ranges.ProbePoolSize \in Int /\ ranges.ProbePoolSize <= PoolLength /\ PoolLength \in Nat
    BY WantedType, SeedAssumption
  <2> QED
    BY <1>1, <2>1 DEF Wanted
<1>3. WithinRanges' /\ EnoughProbes'
  BY <1>1 DEF WithinRanges, EnoughProbes
<1>4. CASE idx \in selected
  <2>1. indices' = indices
    BY <1>4 DEF Fill
  <2>2. TypeOK' /\ ProbesDistinct'
    BY <1>1, <1>2, <2>1 DEF TypeOK, ProbesDistinct, Named
  <2>3. Has(indices, idx)
    BY <1>4 DEF LoopInv
  <2>4. \A k \in 0..idx : Has(indices, k)
    BY <1>1, <2>3 DEF LoopInv
  <2>5. \A j \in DOMAIN indices : indices[j] \in Nat
    BY DEF TypeOK
  <2>6. LoopInv'
    BY <1>1, <1>2, <2>1, <2>4, <2>5 DEF LoopInv, Has
  <2> QED
    BY <1>3, <2>2, <2>6
<1>5. CASE idx \notin selected
  <2>1. indices' = Append(indices, idx)
    BY <1>5 DEF Fill
  <2>2. /\ indices' \in Seq(Nat)
        /\ Len(indices') <= Wanted
        /\ \A j \in DOMAIN indices' :
              /\ indices'[j] < ranges.ProbePoolSize
              /\ indices'[j] \in selected \/ indices'[j] < idx \/ indices'[j] = idx
        /\ \A k : Has(indices, k) => Has(indices', k)
        /\ Has(indices', idx)
        /\ ProbesDistinct'
    <3> HIDE DEF IInv
    <3> QED
      BY <1>1, <1>5, <2>1, AppendIndex
  <2>3. TypeOK'
    BY <1>1, <1>2, <2>2 DEF TypeOK
  <2>4. \A k \in 0..(idx' - 1) : Has(indices', k)
    <3>1. \A k \in 0..(idx - 1) : Has(indices, k)
      BY <1>1 DEF LoopInv
    <3>2. \A k \in 0..(idx' - 1) : k \in 0..(idx - 1) \/ k = idx
      BY <1>1
    <3> QED
      BY <2>2, <3>1, <3>2
  <2>5. \A j \in DOMAIN indices' :
           indices'[j] < ranges'.ProbePoolSize /\ (indices'[j] \in selected' \/ indices'[j] < idx')
    BY <1>1, <2>2
  <2>6. LoopInv'
    BY <1>1, <1>2, <2>2, <2>4, <2>5 DEF LoopInv
  <2> QED
    BY <1>3, <2>2, <2>3, <2>6
<1> QED
  BY <1>4, <1>5

\* The first loop ends.
LEMMA DrawEndInv ==
    ASSUME IInv, DrawEnd
    PROVE  IInv'
<1>1. Wanted' = Wanted
  BY DEF DrawEnd, Wanted
<1> QED
  BY <1>1 DEF DrawEnd, IInv, TypeOK, WithinRanges, LoopInv, ProbesDistinct, EnoughProbes,
              Named, Has

\* The second loop ends.  If it ran out of indices, every index of the pool
\* is in the result, which then is at least as long as the pool.
LEMMA FillEndInv ==
    ASSUME IInv, FillEnd
    PROVE  IInv'
<1> USE DEF IInv
<1>1. /\ pc = "fill" /\ pc' = "done" /\ ranges' = ranges /\ seed' = seed
      /\ params' = params /\ i' = i /\ idx' = idx /\ selected' = selected
      /\ indices' = indices /\ ~Filling /\ Wanted > 0 /\ ranges.ProbePoolSize > 0
  BY DEF FillEnd, LoopInv
<1>2. Wanted' = Wanted
  BY <1>1 DEF Wanted
<1>3. /\ indices \in Seq(Nat) /\ Len(indices) \in Nat /\ Wanted \in Int /\ idx \in Nat
      /\ Wanted <= ranges.ProbePoolSize /\ ranges.ProbePoolSize \in Nat
  BY <1>1, WantedType DEF TypeOK
<1>4. Len(indices) <= Wanted
  BY <1>1, <1>3 DEF TypeOK
<1>5. Len(indices) >= Wanted
  <2> SUFFICES ASSUME Len(indices) < Wanted PROVE FALSE
    BY <1>3
  <2>1. idx >= ranges.ProbePoolSize
    BY <1>1, <1>3 DEF Filling
  <2>2. \A k \in 0..(idx - 1) : Has(indices, k)
    BY <1>1 DEF LoopInv
  <2>3. \A k \in 0..(ranges.ProbePoolSize - 1) : k \in 0..(idx - 1)
    BY <1>3, <2>1
  <2>4. \A k \in 0..(ranges.ProbePoolSize - 1) : \E j \in 1..Len(indices) : indices[j] = k
    BY <1>3, <2>2, <2>3 DEF Has
  <2>5. Len(indices) >= ranges.ProbePoolSize
    BY <1>3, <2>4, CoversPool
  <2> QED
    BY <1>3, <2>5
<1>6. TypeOK'
  BY <1>1, <1>2 DEF TypeOK
<1> QED
  BY <1>1, <1>2, <1>3, <1>4, <1>5, <1>6
  DEF WithinRanges, LoopInv, ProbesDistinct, EnoughProbes, Named, Has

LEMMA NextInv == IInv /\ [Next]_vars => IInv'
<1> SUFFICES ASSUME IInv, [Next]_vars PROVE IInv'
  OBVIOUS
<1>1. CASE UNCHANGED vars
  <2>1. Wanted' = Wanted
    BY <1>1 DEF vars, Wanted
  <2> QED
    BY <1>1, <2>1 DEF vars, IInv, TypeOK, WithinRanges, LoopInv, ProbesDistinct,
                      EnoughProbes, Named, Has
<1> QED
  BY <1>1, DeriveMinimumInv, DeriveInv, DrawInv, DrawEndInv, FillInv, FillEndInv DEF Next

LEMMA Invariant == Spec => []IInv
BY InitInv, NextInv, PTL DEF Spec

\* For every seed the parameters stay within the ranges asked for.
THEOREM ParametersInRange == Spec => []WithinRanges
<1>1. IInv => WithinRanges
  BY DEF IInv
<1> QED
  BY <1>1, Invariant, PTL

\* For every seed no probe is asked for twice and each one has a name.
THEOREM SelectionDistinct == Spec => []ProbesDistinct
<1>1. IInv => ProbesDistinct
  BY DEF IInv
<1> QED
  BY <1>1, Invariant, PTL

\* For every seed, however repetitive, as many probes as wanted are found.
THEOREM SelectionComplete == Spec => []EnoughProbes
<1>1. IInv => EnoughProbes
  BY DEF IInv
<1> QED
  BY <1>1, Invariant, PTL

\* Every variable keeps its kind and neither loop overshoots.
THEOREM SelectionTypeCorrect == Spec => []TypeOK
<1>1. IInv => TypeOK
  BY DEF IInv
<1> QED
  BY <1>1, Invariant, PTL

-----------------------------------------------------------------------------
(***************************************************************************)
(* The order of the selection.  After n bytes and the indices below x, the *)
(* result holds the values first drawn at some byte, in that order, and    *)
(* then the values below x that were not drawn, in theirs.                 *)
(***************************************************************************)
Draws == [k \in 1..TailLength |-> seed.tail[k] % ranges.ProbePoolSize]
Firsts(d, n) == {k \in 1..n : \A j \in 1..k-1 : d[j] # d[k]}
Others(pool, sel) == (0..pool - 1) \ sel

NamedFirst(d, first, ind) ==
    \A j \in 1..Cardinality(first) : \E k \in first : Rank(k, first) = j - 1 /\ ind[j] = d[k]

Filled(first, others, ind) ==
    \A j \in Cardinality(first) + 1..Len(ind) :
        ind[j] \in others /\ Rank(ind[j], others) = j - Cardinality(first) - 1

Ordered(d, pool, n, sel, x, ind) ==
    /\ sel = {d[k] : k \in 1..n}
    /\ NamedFirst(d, Firsts(d, n), ind)
    /\ Filled(Firsts(d, n), Others(pool, sel), ind)
    /\ Rank(x, Others(pool, sel)) = Len(ind) - Cardinality(Firsts(d, n))

OrderInv ==
    /\ pc = "derive" => i = 0
    /\ (pc # "derive" /\ seed # ShortSeed /\ Wanted > 0) =>
        /\ Ordered(Draws, ranges.ProbePoolSize, i, selected, idx, indices)
        /\ pc # "draw" =>
              \/ i = TailLength
              \/ Len(indices) = Cardinality(Firsts(Draws, i)) /\ Len(indices) >= Wanted

\* Firsts are finitely many, and those of fewer bytes are among those of more.
LEMMA FirstsAre ==
    ASSUME NEW d, NEW n \in Nat
    PROVE  /\ IsFiniteSet(Firsts(d, n)) /\ Cardinality(Firsts(d, n)) \in Nat
           /\ Firsts(d, n) \subseteq 1..n
<1>1. Firsts(d, n) \subseteq 1..n
  BY DEF Firsts
<1>2. IsFiniteSet(1..n)
  BY FS_Interval
<1>3. IsFiniteSet(Firsts(d, n))
  BY <1>1, <1>2, FS_Subset
<1> QED
  BY <1>1, <1>3, FS_CardinalityType

LEMMA FirstsGrow ==
    ASSUME NEW d, NEW n \in Nat
    PROVE  /\ Firsts(d, n + 1) = IF \A j \in 1..n : d[j] # d[n + 1]
                                 THEN Firsts(d, n) \cup {n + 1} ELSE Firsts(d, n)
           /\ n + 1 \notin Firsts(d, n)
<1>1. \A k \in 1..n+1 : k \in 1..n \/ k = n + 1
  OBVIOUS
<1>2. \A k \in 1..n : k \in 1..n+1 /\ k # n + 1
  OBVIOUS
<1>3. n + 1 \in 1..n+1 /\ (n + 1) - 1 = n
  OBVIOUS
<1>4. \A k \in 1..n : k \in Firsts(d, n) <=> k \in Firsts(d, n + 1)
  BY <1>2 DEF Firsts
<1>5. n + 1 \in Firsts(d, n + 1) <=> \A j \in 1..n : d[j] # d[n + 1]
  BY <1>3 DEF Firsts
<1>6. Firsts(d, n) \subseteq 1..n /\ Firsts(d, n + 1) \subseteq 1..n+1
  BY DEF Firsts
<1>7. n + 1 \notin Firsts(d, n)
  BY <1>2, <1>6
<1>8. \A k : k \in Firsts(d, n + 1) <=>
               k \in Firsts(d, n) \/ (k = n + 1 /\ \A j \in 1..n : d[j] # d[n + 1])
  BY <1>1, <1>4, <1>5, <1>6
<1>9. CASE \A j \in 1..n : d[j] # d[n + 1]
  <2>1. \A k : k \in Firsts(d, n + 1) <=> k \in Firsts(d, n) \cup {n + 1}
    BY <1>8, <1>9
  <2>2. Firsts(d, n + 1) = Firsts(d, n) \cup {n + 1}
    BY <2>1
  <2> QED
    BY <1>7, <1>9, <2>2
<1>10. CASE \E j \in 1..n : d[j] = d[n + 1]
  BY <1>7, <1>8, <1>10
<1> QED
  BY <1>9, <1>10

\* What is drawn at all is drawn at one of the firsts.
LEMMA FirstsCover ==
    ASSUME NEW d, NEW n \in Nat
    PROVE  {d[k] : k \in Firsts(d, n)} = {d[k] : k \in 1..n}
<1> DEFINE Bad == {k \in 1..n : \A f \in Firsts(d, n) : d[f] # d[k]}
<1>1. Firsts(d, n) \subseteq 1..n
  BY DEF Firsts
<1>2. ASSUME NEW k \in Bad PROVE \E j \in Bad : j < k
  <2>1. k \in 1..n /\ k \notin Firsts(d, n)
    OBVIOUS
  <2>2. PICK j \in 1..k-1 : d[j] = d[k]
    BY <2>1 DEF Firsts
  <2>3. j \in 1..n /\ j < k
    BY <2>1
  <2> QED
    BY <2>2, <2>3
<1>3. Bad = {}
  <2> SUFFICES ASSUME Bad # {} PROVE FALSE
    OBVIOUS
  <2>1. Bad \subseteq Nat
    OBVIOUS
  <2>2. \A x \in Bad : \E y \in Bad : y < x
    BY <1>2, <2>1
  <2> HIDE DEF Bad
  <2>3. PICK x \in Bad : \A y \in Bad : x <= y
    BY <2>1, LeastElement
  <2> QED
    BY <2>1, <2>2, <2>3
<1> QED
  BY <1>1, <1>3

\* A rank only counts what is below.
LEMMA RankSame ==
    ASSUME NEW S, NEW R, NEW k, \A y \in S \cup R : y < k => (y \in S <=> y \in R)
    PROVE  Rank(k, S) = Rank(k, R)
<1>1. {y \in S : y < k} = {y \in R : y < k}
  OBVIOUS
<1> QED
  BY <1>1 DEF Rank

LEMMA RankOfNext ==
    ASSUME NEW pool \in Nat, NEW sel, NEW x \in Nat
    PROVE  /\ Rank(x, Others(pool, sel)) \in Nat
           /\ Rank(0, Others(pool, sel)) = 0
           /\ Rank(x + 1, Others(pool, sel)) =
                 IF x \in Others(pool, sel) THEN Rank(x, Others(pool, sel)) + 1
                 ELSE Rank(x, Others(pool, sel))
<1> DEFINE O == Others(pool, sel)
           B(k) == {y \in O : y < k}
<1>1. O \subseteq 0..pool - 1
  BY DEF Others
<1>2. \A k : IsFiniteSet(B(k)) /\ Cardinality(B(k)) \in Nat
  <2> TAKE k
  <2>1. B(k) \subseteq 0..pool - 1
    BY <1>1
  <2>2. IsFiniteSet(0..pool - 1)
    BY FS_Interval
  <2> HIDE DEF B
  <2>3. IsFiniteSet(B(k))
    BY <2>1, <2>2, FS_Subset
  <2> QED
    BY <2>3, FS_CardinalityType
<1>3. B(0) = {}
  BY <1>1
<1>4. B(x + 1) = IF x \in O THEN B(x) \cup {x} ELSE B(x)
  <2>1. \A y \in 0..pool - 1 : y < x + 1 <=> y < x \/ y = x
    OBVIOUS
  <2> HIDE DEF O
  <2>2. \A y : y \in B(x + 1) <=> y \in B(x) \/ (y = x /\ x \in O)
    BY <1>1, <2>1
  <2> HIDE DEF B
  <2>3. CASE x \in O
    BY <2>2, <2>3
  <2>4. CASE x \notin O
    BY <2>2, <2>4
  <2> QED
    BY <2>3, <2>4
<1>5. x \notin B(x)
  OBVIOUS
<1>6. \A k : Rank(k, O) = Cardinality(B(k))
  BY DEF Rank
<1> HIDE DEF B, O
<1>7. Cardinality(B(x) \cup {x}) = Cardinality(B(x)) + 1
  BY <1>2, <1>5, FS_AddElement
<1>8. Cardinality(B(0)) = 0
  BY <1>3, FS_EmptySet
<1> QED
  BY <1>2, <1>4, <1>6, <1>7, <1>8 DEF O

\* Nothing drawn yet.
LEMMA OrderedAtFirst ==
    ASSUME NEW d, NEW pool \in Nat
    PROVE  Ordered(d, pool, 0, {}, 0, <<>>)
<1>1. Firsts(d, 0) = {} /\ 1..0 = {}
  BY DEF Firsts
<1>2. Cardinality(Firsts(d, 0)) = 0
  BY <1>1, FS_EmptySet
<1>3. Rank(0, Others(pool, {})) = 0
  BY RankOfNext
<1> QED
  BY <1>1, <1>2, <1>3 DEF Ordered, NamedFirst, Filled

\* A byte that draws what was drawn.
LEMMA OrderedRepeats ==
    ASSUME NEW d, NEW pool \in Nat, NEW n \in Nat, NEW sel, NEW x, NEW ind,
           Ordered(d, pool, n, sel, x, ind), d[n + 1] \in sel
    PROVE  Ordered(d, pool, n + 1, sel, x, ind)
<1>1. \E j \in 1..n : d[j] = d[n + 1]
  BY DEF Ordered
<1>2. Firsts(d, n + 1) = Firsts(d, n)
  BY <1>1, FirstsGrow
<1>3. 1..n+1 = 1..n \cup {n + 1}
  OBVIOUS
<1>4. sel = {d[k] : k \in 1..n+1}
  BY <1>1, <1>3 DEF Ordered
<1> QED
  BY <1>2, <1>4 DEF Ordered

\* A byte that draws something new, while the second loop has not begun.
LEMMA OrderedDraws ==
    ASSUME NEW d, NEW pool \in Nat, NEW n \in Nat, NEW sel, NEW ind \in Seq(Nat),
           d[n + 1] \in Nat,
           Ordered(d, pool, n, sel, 0, ind), d[n + 1] \notin sel
    PROVE  Ordered(d, pool, n + 1, sel \cup {d[n + 1]}, 0, Append(ind, d[n + 1]))
<1> DEFINE F == Firsts(d, n)
           G == Firsts(d, n + 1)
           new == Append(ind, d[n + 1])
           c == Cardinality(F)
<1>1. \A j \in 1..n : d[j] # d[n + 1]
  BY DEF Ordered
<1>2. G = F \cup {n + 1} /\ n + 1 \notin F
  BY <1>1, FirstsGrow
<1>3. F \subseteq 1..n /\ IsFiniteSet(F) /\ c \in Nat
  BY FirstsAre
<1> HIDE DEF F, G
<1>4. Cardinality(G) = c + 1
  BY <1>2, <1>3, FS_AddElement
<1>5. Len(ind) = c /\ Len(ind) \in Nat
  <2>1. Rank(0, Others(pool, sel)) = 0
    BY RankOfNext
  <2>2. Rank(0, Others(pool, sel)) = Len(ind) - c
    BY DEF Ordered, F
  <2>3. Len(ind) \in Nat
    OBVIOUS
  <2> QED
    BY <1>3, <2>1, <2>2, <2>3
<1>6. /\ Len(new) = c + 1 /\ new[c + 1] = d[n + 1]
      /\ \A j \in 1..c : new[j] = ind[j]
  BY <1>5
<1> HIDE DEF new
<1>7. Rank(n + 1, G) = c
  <2>1. \A y \in F : y < n + 1
    BY <1>3
  <2>2. ~(n + 1 < n + 1)
    OBVIOUS
  <2>3. {y \in G : y < n + 1} = F
    BY <1>2, <2>1, <2>2
  <2> QED
    BY <2>3 DEF Rank
<1>8. \A k \in F : Rank(k, G) = Rank(k, F)
  <2> TAKE k \in F
  <2>1. \A y \in G \cup F : y < k => (y \in G <=> y \in F)
    BY <1>2, <1>3
  <2> QED
    BY <2>1, RankSame
<1>9. NamedFirst(d, G, new)
  <2> SUFFICES ASSUME NEW j \in 1..c+1
               PROVE  \E k \in G : Rank(k, G) = j - 1 /\ new[j] = d[k]
    BY <1>4 DEF NamedFirst
  <2>1. CASE j = c + 1
    <3>1. j - 1 = c
      BY <1>3, <2>1
    <3> QED
      BY <1>2, <1>6, <1>7, <2>1, <3>1
  <2>2. CASE j \in 1..c
    <3>1. PICK k \in F : Rank(k, F) = j - 1 /\ ind[j] = d[k]
      BY <2>2 DEF Ordered, NamedFirst, F
    <3> QED
      BY <1>2, <1>6, <1>8, <2>2, <3>1
  <2> QED
    BY <1>3, <2>1, <2>2
<1>10. Filled(G, Others(pool, sel \cup {d[n + 1]}), new)
  <2>1. \A j \in Cardinality(G) + 1..Len(new) : FALSE
    BY <1>3, <1>4, <1>6
  <2> QED
    BY <2>1 DEF Filled
<1>11. Rank(0, Others(pool, sel \cup {d[n + 1]})) = Len(new) - Cardinality(G)
  <2>1. Rank(0, Others(pool, sel \cup {d[n + 1]})) = 0
    BY RankOfNext
  <2> QED
    BY <1>3, <1>4, <1>6, <2>1
<1>12. sel \cup {d[n + 1]} = {d[k] : k \in 1..n+1}
  <2>1. 1..n+1 = 1..n \cup {n + 1}
    OBVIOUS
  <2> QED
    BY <2>1 DEF Ordered
<1> QED
  BY <1>9, <1>10, <1>11, <1>12 DEF Ordered, G, new

\* An index the second loop skips.
LEMMA OrderedSkips ==
    ASSUME NEW d, NEW pool \in Nat, NEW n, NEW sel, NEW x \in Nat, NEW ind,
           Ordered(d, pool, n, sel, x, ind), x \in sel
    PROVE  Ordered(d, pool, n, sel, x + 1, ind)
<1>1. x \notin Others(pool, sel)
  BY DEF Others
<1>2. Rank(x + 1, Others(pool, sel)) = Rank(x, Others(pool, sel))
  BY <1>1, RankOfNext
<1> QED
  BY <1>2 DEF Ordered

\* An index the second loop takes.
LEMMA OrderedFills ==
    ASSUME NEW d, NEW pool \in Nat, NEW n \in Nat, NEW sel, NEW x \in Nat, NEW ind \in Seq(Nat),
           Ordered(d, pool, n, sel, x, ind), x < pool, x \notin sel
    PROVE  Ordered(d, pool, n, sel, x + 1, Append(ind, x))
<1> DEFINE F == Firsts(d, n)
           O == Others(pool, sel)
           new == Append(ind, x)
           c == Cardinality(F)
<1>1. x \in O
  BY DEF Others
<1>2. c \in Nat
  BY FirstsAre
<1>3. Rank(x, O) = Len(ind) - c /\ Rank(x, O) \in Nat /\ Rank(x + 1, O) = Rank(x, O) + 1
  <2>1. Rank(x, O) = Len(ind) - c
    BY DEF Ordered
  <2> HIDE DEF F
  <2> QED
    BY <1>1, <2>1, RankOfNext
<1>4. Len(ind) \in Nat
  OBVIOUS
<1>5. /\ Len(new) = Len(ind) + 1 /\ new[Len(ind) + 1] = x
      /\ \A j \in 1..Len(ind) : new[j] = ind[j]
  OBVIOUS
<1> HIDE DEF new, F, O
<1>6. NamedFirst(d, F, new)
  <2> SUFFICES ASSUME NEW j \in 1..c
               PROVE  \E k \in F : Rank(k, F) = j - 1 /\ new[j] = d[k]
    BY DEF NamedFirst
  <2>1. j \in 1..Len(ind)
    BY <1>2, <1>3, <1>4
  <2>2. \E k \in F : Rank(k, F) = j - 1 /\ ind[j] = d[k]
    BY DEF Ordered, NamedFirst, F
  <2> QED
    BY <1>5, <2>1, <2>2
<1>7. Filled(F, O, new)
  <2> SUFFICES ASSUME NEW j \in c+1..Len(ind)+1
               PROVE  new[j] \in O /\ Rank(new[j], O) = j - c - 1
    BY <1>5 DEF Filled
  <2>1. CASE j = Len(ind) + 1
    <3>1. j - c - 1 = Len(ind) - c
      BY <1>2, <1>4, <2>1
    <3> QED
      BY <1>1, <1>3, <1>5, <2>1, <3>1
  <2>2. CASE j # Len(ind) + 1
    <3>1. j \in 1..Len(ind) /\ j \in c+1..Len(ind)
      BY <1>2, <1>4, <2>2
    <3>2. ind[j] \in O /\ Rank(ind[j], O) = j - c - 1
      BY <3>1 DEF Ordered, Filled, F, O
    <3> QED
      BY <1>5, <3>1, <3>2
  <2> QED
    BY <2>1, <2>2
<1>8. Rank(x + 1, O) = Len(new) - c
  BY <1>2, <1>3, <1>4, <1>5
<1> QED
  BY <1>6, <1>7, <1>8 DEF Ordered, F, O, new

LEMMA DrawsAre ==
    ASSUME TypeOK, seed # ShortSeed, ranges.ProbePoolSize > 0
    PROVE  /\ ranges.ProbePoolSize \in Nat \ {0}
           /\ \A k \in 1..TailLength : Draws[k] \in 0..ranges.ProbePoolSize - 1
           /\ \A k \in 1..TailLength : Draws[k] = seed.tail[k] % ranges.ProbePoolSize
<1>1. ranges.ProbePoolSize \in Nat \ {0}
  BY WantedType
<1>2. \A x \in Bytes : x \in Nat
  BY SeedAssumption
<1>3. \A k \in 1..TailLength : seed.tail[k] \in Bytes
  BY DEF TypeOK, Seed
<1>4. \A k \in 1..TailLength : Draws[k] = seed.tail[k] % ranges.ProbePoolSize
  BY DEF Draws
<1>5. \A k \in 1..TailLength : seed.tail[k] % ranges.ProbePoolSize \in 0..ranges.ProbePoolSize - 1
  BY <1>1, <1>2, <1>3, RemainderBound
<1> QED
  BY <1>1, <1>4, <1>5

\* Every step keeps the order.
LEMMA OrderKept == IInv /\ OrderInv /\ [Next]_vars => OrderInv'
<1> SUFFICES ASSUME IInv, OrderInv, [Next]_vars, pc' # "derive", seed' # ShortSeed, Wanted' > 0
             PROVE  /\ Ordered(Draws', ranges'.ProbePoolSize, i', selected', idx', indices')
                    /\ pc' # "draw" =>
                          \/ i' = TailLength
                          \/ /\ Len(indices') = Cardinality(Firsts(Draws', i'))
                             /\ Len(indices') >= Wanted'
  <2>1. ASSUME [Next]_vars, pc' = "derive" PROVE pc = "derive" /\ i' = i
    <3>1. ~DeriveMinimum /\ ~Derive /\ ~Draw
      BY <2>1 DEF DeriveMinimum, Derive, Draw
    <3>2. ~DrawEnd /\ ~Fill /\ ~FillEnd
      BY <2>1 DEF DrawEnd, Fill, FillEnd
    <3> QED
      BY <2>1, <3>1, <3>2 DEF Next, vars
  <2> QED
    BY <2>1 DEF OrderInv
<1>1. ranges' = ranges /\ seed' = seed
  BY DEF Next, DeriveMinimum, Derive, Draw, DrawEnd, Fill, FillEnd, vars
<1>2. Draws' = Draws /\ Wanted' = Wanted /\ Wanted > 0 /\ seed # ShortSeed
  BY <1>1 DEF Draws, Wanted
<1>3. TypeOK /\ LoopInv /\ Wanted \in Int /\ ranges.ProbePoolSize > 0
  BY <1>2, WantedType DEF IInv
<1>4. /\ ranges.ProbePoolSize \in Nat /\ i \in 0..TailLength /\ idx \in Nat
      /\ indices \in Seq(Nat) /\ TailLength \in Nat
  BY <1>2, <1>3, DrawsAre, SeedAssumption DEF TypeOK
<1>5. CASE Derive
  <2>1. /\ i = 0 /\ idx = 0 /\ selected = {} /\ indices = <<>>
        /\ i' = i /\ idx' = idx /\ selected' = selected /\ indices' = indices
        /\ pc' = "draw"
    <3>1. ranges.ProbePoolSize \in Int /\ ranges.ProbeCount \in Int
      BY <1>3, RangeTypes DEF TypeOK, ParameterRanges
    <3>2. ~(ranges.ProbePoolSize <= 0 \/ ranges.ProbeCount <= 0)
      BY <1>2, <1>3, <3>1 DEF Wanted
    <3>3. i = 0 /\ idx = 0 /\ selected = {} /\ indices = <<>>
      BY <1>3, <1>5 DEF Derive, LoopInv, OrderInv
    <3> QED
      BY <1>5, <3>2, <3>3 DEF Derive
  <2>2. Ordered(Draws, ranges.ProbePoolSize, 0, {}, 0, <<>>)
    BY <1>4, OrderedAtFirst
  <2> QED
    BY <1>1, <1>2, <2>1, <2>2
<1>6. CASE Draw
  <2>1. /\ pc = "draw" /\ pc' = "draw" /\ i' = i + 1 /\ i < TailLength /\ idx = 0 /\ idx' = idx
    BY <1>3, <1>6 DEF Draw, Drawing, LoopInv
  <2>2. i + 1 \in 1..TailLength /\ i \in Nat
    BY <1>4, <2>1
  <2>3. Draws[i + 1] = seed.tail[i + 1] % ranges.ProbePoolSize /\ Draws[i + 1] \in Nat
    BY <1>2, <1>3, <2>2, DrawsAre
  <2>4. Ordered(Draws, ranges.ProbePoolSize, i, selected, 0, indices)
    BY <1>2, <2>1 DEF OrderInv
  <2>5. CASE Draws[i + 1] \in selected
    <3>1. selected' = selected /\ indices' = indices
      BY <1>6, <2>3, <2>5 DEF Draw
    <3>2. Ordered(Draws, ranges.ProbePoolSize, i + 1, selected, 0, indices)
      BY <1>4, <2>2, <2>4, <2>5, OrderedRepeats
    <3> QED
      BY <1>1, <1>2, <2>1, <3>1, <3>2
  <2>6. CASE Draws[i + 1] \notin selected
    <3>1. selected' = selected \cup {Draws[i + 1]} /\ indices' = Append(indices, Draws[i + 1])
      BY <1>6, <2>3, <2>6 DEF Draw
    <3>2. Ordered(Draws, ranges.ProbePoolSize, i + 1, selected \cup {Draws[i + 1]}, 0,
                  Append(indices, Draws[i + 1]))
      BY <1>4, <2>2, <2>3, <2>4, <2>6, OrderedDraws
    <3> QED
      BY <1>1, <1>2, <2>1, <3>1, <3>2
  <2> QED
    BY <2>5, <2>6
<1>7. CASE DrawEnd
  <2>1. /\ pc = "draw" /\ ~Drawing /\ i' = i /\ idx' = idx /\ idx = 0
        /\ selected' = selected /\ indices' = indices
    BY <1>3, <1>7 DEF DrawEnd, LoopInv
  <2>2. Ordered(Draws, ranges.ProbePoolSize, i, selected, 0, indices)
    BY <1>2, <2>1 DEF OrderInv
  <2>3. Len(indices) = Cardinality(Firsts(Draws, i))
    <3>1. Rank(0, Others(ranges.ProbePoolSize, selected)) = 0
      BY <1>4, RankOfNext
    <3>2. Cardinality(Firsts(Draws, i)) \in Nat
      BY <1>4, FirstsAre
    <3>3. Len(indices) \in Nat
      BY <1>4
    <3>4. 0 = Len(indices) - Cardinality(Firsts(Draws, i))
      BY <2>2, <3>1 DEF Ordered
    <3> QED
      BY <3>2, <3>3, <3>4
  <2>4. i = TailLength \/ Len(indices) >= Wanted
    <3>1. Len(indices) \in Nat
      BY <1>4
    <3> QED
      BY <1>3, <1>4, <2>1, <3>1 DEF Drawing
  <2> QED
    BY <1>1, <1>2, <2>1, <2>2, <2>3, <2>4
<1>8. CASE Fill
  <2>1. /\ pc = "fill" /\ pc' = "fill" /\ i' = i /\ idx' = idx + 1 /\ selected' = selected
        /\ idx < ranges.ProbePoolSize /\ Len(indices) < Wanted
    BY <1>8 DEF Fill, Filling
  <2>2. Ordered(Draws, ranges.ProbePoolSize, i, selected, idx, indices)
    BY <1>2, <2>1 DEF OrderInv
  <2>3. i = TailLength
    <3>1. Len(indices) \in Nat
      BY <1>4
    <3>2. i = TailLength \/ Len(indices) >= Wanted
      BY <1>2, <2>1 DEF OrderInv
    <3> QED
      BY <1>3, <2>1, <3>1, <3>2
  <2>4. CASE idx \in selected
    <3>1. indices' = indices
      BY <1>8, <2>4 DEF Fill
    <3>2. Ordered(Draws, ranges.ProbePoolSize, i, selected, idx + 1, indices)
      BY <1>4, <2>2, <2>4, OrderedSkips
    <3> QED
      BY <1>1, <1>2, <2>1, <2>3, <3>1, <3>2
  <2>5. CASE idx \notin selected
    <3>1. indices' = Append(indices, idx)
      BY <1>8, <2>5 DEF Fill
    <3>2. i \in Nat
      BY <1>4
    <3>3. Ordered(Draws, ranges.ProbePoolSize, i, selected, idx + 1, Append(indices, idx))
      BY <1>4, <2>1, <2>2, <2>5, <3>2, OrderedFills
    <3> QED
      BY <1>1, <1>2, <2>1, <2>3, <3>1, <3>3
  <2> QED
    BY <2>4, <2>5
<1>9. CASE FillEnd \/ UNCHANGED vars
  <2>1. /\ pc # "derive" /\ (pc = "draw" <=> pc' = "draw") /\ i' = i /\ idx' = idx
        /\ selected' = selected /\ indices' = indices
    BY <1>9 DEF FillEnd, vars
  <2> QED
    BY <1>1, <1>2, <2>1 DEF OrderInv
<1>10. CASE DeriveMinimum
  BY <1>2, <1>10 DEF DeriveMinimum
<1> QED
  BY <1>5, <1>6, <1>7, <1>8, <1>9, <1>10 DEF Next

\* Where the loops end, the order is that of the selection.
LEMMA OrderOfSelection == IInv /\ OrderInv => SelectsInOrder
<1> SUFFICES ASSUME IInv, OrderInv, pc = "done", seed # ShortSeed, Wanted > 0,
                    NEW j \in DOMAIN indices
             PROVE  LET first  == Firsts(Draws, TailLength)
                        others == (0..ranges.ProbePoolSize - 1) \ {Draws[k] : k \in first}
                        drawn  == Cardinality(first)
                    IN  IF j <= drawn
                        THEN \E k \in first : Rank(k, first) = j - 1 /\ indices[j] = Draws[k]
                        ELSE indices[j] \in others /\ Rank(indices[j], others) = j - drawn - 1
  BY DEF SelectsInOrder, Firsts, Draws
<1> DEFINE first == Firsts(Draws, TailLength)
           F == Firsts(Draws, i)
<1>1. /\ Ordered(Draws, ranges.ProbePoolSize, i, selected, idx, indices)
      /\ i = TailLength \/ Len(indices) = Cardinality(F)
  BY DEF OrderInv
<1>2. TypeOK /\ i \in 0..TailLength /\ TailLength \in Nat /\ i \in Nat /\ indices \in Seq(Nat)
  BY SeedAssumption DEF IInv, TypeOK
<1>3. j \in 1..Len(indices) /\ Len(indices) \in Nat
  BY <1>2
<1>4. IsFiniteSet(F) /\ Cardinality(F) \in Nat /\ F \subseteq 1..i
  BY <1>2, FirstsAre
<1>5. IsFiniteSet(first) /\ Cardinality(first) \in Nat /\ first \subseteq 1..TailLength
  BY <1>2, FirstsAre
<1>6. F \subseteq first /\ \A k \in first : k <= i => k \in F
  BY <1>2 DEF Firsts
<1>7. Cardinality(F) <= Cardinality(first)
  BY <1>5, <1>6, FS_Subset
<1>8. ASSUME j <= Cardinality(F)
      PROVE  \E k \in first : Rank(k, first) = j - 1 /\ indices[j] = Draws[k]
  <2>1. j \in 1..Cardinality(F)
    BY <1>3, <1>4, <1>8
  <2>2. PICK k \in F : Rank(k, F) = j - 1 /\ indices[j] = Draws[k]
    BY <1>1, <2>1 DEF Ordered, NamedFirst
  <2>3. \A y \in first \cup F : y < k => (y \in first <=> y \in F)
    BY <1>2, <1>4, <1>5, <1>6
  <2>4. Rank(k, first) = Rank(k, F)
    BY <2>3, RankSame
  <2> QED
    BY <1>6, <2>2, <2>4
<1>9. CASE i # TailLength
  <2>1. j <= Cardinality(F)
    BY <1>1, <1>3, <1>9
  <2> HIDE DEF first, F
  <2>2. j <= Cardinality(first)
    BY <1>3, <1>4, <1>5, <1>7, <2>1
  <2> QED
    BY <1>8, <2>1, <2>2 DEF first
<1>10. CASE i = TailLength
  <2>1. F = first
    BY <1>10
  <2>2. selected = {Draws[k] : k \in 1..TailLength}
    BY <1>1, <1>10 DEF Ordered
  <2>3. {Draws[k] : k \in first} = {Draws[k] : k \in 1..TailLength}
    BY <1>2, FirstsCover
  <2>4. ASSUME ~(j <= Cardinality(first))
        PROVE  LET others == Others(ranges.ProbePoolSize, selected)
               IN  indices[j] \in others /\ Rank(indices[j], others) = j - Cardinality(first) - 1
    <3>1. j \in Cardinality(first) + 1..Len(indices)
      BY <1>3, <1>5, <2>4
    <3> QED
      BY <1>1, <2>1, <3>1 DEF Ordered, Filled
  <2>5. Others(ranges.ProbePoolSize, selected)
           = (0..ranges.ProbePoolSize - 1) \ {Draws[k] : k \in first}
    BY <2>2, <2>3 DEF Others
  <2> HIDE DEF first, F
  <2> QED
    BY <1>8, <2>1, <2>4, <2>5 DEF first
<1> QED
  BY <1>9, <1>10

\* For every seed the probes are those it names, in the order it first names
\* them, and then the lowest of the others.
THEOREM SelectionOrdered == Spec => []SelectsInOrder
<1>1. Init => OrderInv
  BY DEF Init, OrderInv
<1>2. Spec => []OrderInv
  BY <1>1, Invariant, OrderKept, PTL DEF Spec
<1> QED
  BY <1>2, Invariant, OrderOfSelection, PTL
=============================================================================

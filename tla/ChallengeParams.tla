--------------------------- MODULE ChallengeParams ---------------------------
(***************************************************************************)
(* challenge.DeriveParams and selectProbes: how a seed picks a challenge's *)
(* parameters within the ranges of a bucket.  The two loops that select    *)
(* the probes are one action per iteration, so that what each iteration    *)
(* keeps true can be stated.                                               *)
(*                                                                         *)
(* A seed is the byte and the two big-endian words the code extracts and   *)
(* the bytes that follow.  The first parameter is a uint8 and the others   *)
(* are uint32: widths and sums are taken modulo the size of the type.      *)
(***************************************************************************)
EXTENDS Integers, Sequences, FiniteSets

CONSTANTS
    Ranges,               \* the ParameterRanges DeriveParams is called with
    ByteSize, WordSize,   \* 2^8 and 2^32
    Bytes, Words,         \* bound: the bytes and words a seed may hold
    TailLength,           \* bytes of a seed after the ninth, 23 in the code
    ShortSeed,            \* a seed of fewer than nine bytes
    PoolLength            \* len(environment.ProbePool)

ParameterRanges ==
    [ HashCashBitsMin: Nat,     HashCashBitsMax: Nat,
      Argon2MemoryMinKiB: Nat,  Argon2MemoryMaxKiB: Nat,
      Argon2IterationsMin: Nat, Argon2IterationsMax: Nat,
      ProbePoolSize: Int,       ProbeCount: Int ]

\* min <= max, both fit the type, and so does the number of values between.
Fits(min, max, size) == min <= max /\ max < size /\ max - min + 1 < size

ASSUME RangesAssumption ==
    /\ Ranges \subseteq ParameterRanges
    /\ \A r \in Ranges :
          /\ Fits(r.HashCashBitsMin, r.HashCashBitsMax, ByteSize)
          /\ Fits(r.Argon2MemoryMinKiB, r.Argon2MemoryMaxKiB, WordSize)
          /\ Fits(r.Argon2IterationsMin, r.Argon2IterationsMax, WordSize)
          /\ r.ProbePoolSize <= PoolLength

ASSUME SeedAssumption ==
    /\ ByteSize \in Nat /\ Bytes \subseteq 0..ByteSize-1
    /\ WordSize \in Nat /\ Words \subseteq 0..WordSize-1
    /\ TailLength \in Nat
    /\ PoolLength \in Nat

Seed == [bits: Bytes, memory: Words, iterations: Words, tail: [1..TailLength -> Bytes]]

ASSUME ShortSeedAssumption == ShortSeed \notin Seed

Params == [HashCashBits: Nat, Argon2Memory: Nat, Argon2Iterations: Nat]

VARIABLES
    pc,        \* derive, draw (first loop), fill (second loop), done
    ranges, seed, params,
    i, idx,    \* the counters of the two loops
    selected,  \* indices the first loop has drawn
    indices    \* what selectProbes returns

vars == <<pc, ranges, seed, params, i, idx, selected, indices>>

Init ==
    /\ pc = "derive"
    /\ ranges \in Ranges
    /\ seed \in Seed \cup {ShortSeed}
    /\ params = [HashCashBits |-> 0, Argon2Memory |-> 0, Argon2Iterations |-> 0]
    /\ i = 0 /\ idx = 0
    /\ selected = {}
    /\ indices = <<>>

\* How many probes are wanted: no more than the pool has.
Wanted_Uncapped == ranges.ProbeCount
Wanted ==
    IF ranges.ProbeCount > ranges.ProbePoolSize
    THEN ranges.ProbePoolSize ELSE ranges.ProbeCount

\* Every variable holds a value of its kind; the loops stop in time.
TypeOK ==
    /\ pc \in {"derive", "draw", "fill", "done"}
    /\ ranges \in Ranges
    /\ seed \in Seed \cup {ShortSeed}
    /\ params \in Params
    /\ i \in 0..TailLength
    /\ idx \in 0..PoolLength
    /\ selected \subseteq Nat
    /\ indices \in Seq(Nat)
    /\ indices # <<>> => Len(indices) <= Wanted

-----------------------------------------------------------------------------
\* min + x % (max - min + 1), in the parameter's own width.
Pick_UpToMax(min, max, x, size) == (min + (x % max)) % size
Pick(min, max, x, size) == (min + (x % ((max - min + 1) % size))) % size

DeriveMinimum ==
    /\ pc = "derive"
    /\ seed = ShortSeed
    /\ params' = [ HashCashBits |-> ranges.HashCashBitsMin,
                   Argon2Memory |-> ranges.Argon2MemoryMinKiB,
                   Argon2Iterations |-> ranges.Argon2IterationsMin ]
    /\ pc' = "done"
    /\ UNCHANGED <<ranges, seed, i, idx, selected, indices>>

Derive ==
    /\ pc = "derive"
    /\ seed # ShortSeed
    /\ params' =
         [ HashCashBits |->
             Pick(ranges.HashCashBitsMin, ranges.HashCashBitsMax, seed.bits, ByteSize),
           Argon2Memory |->
             Pick(ranges.Argon2MemoryMinKiB, ranges.Argon2MemoryMaxKiB, seed.memory, WordSize),
           Argon2Iterations |->
             Pick(ranges.Argon2IterationsMin, ranges.Argon2IterationsMax, seed.iterations, WordSize) ]
    /\ pc' = IF ranges.ProbePoolSize <= 0 \/ ranges.ProbeCount <= 0 THEN "done" ELSE "draw"
    /\ UNCHANGED <<ranges, seed, i, idx, selected, indices>>

Drawing == i < TailLength /\ Len(indices) < Wanted

Draw ==
    /\ pc = "draw"
    /\ Drawing
    /\ LET drawn == seed.tail[i + 1] % ranges.ProbePoolSize
       IN  \/ drawn \in selected /\ UNCHANGED <<selected, indices>>
           \/ /\ drawn \notin selected
              /\ selected' = selected \cup {drawn}
              /\ indices' = Append(indices, drawn)
    /\ i' = i + 1
    /\ UNCHANGED <<pc, ranges, seed, params, idx>>

DrawEnd_Resumes ==
    /\ pc = "draw"
    /\ ~Drawing
    /\ pc' = "fill"
    /\ idx' = i
    /\ UNCHANGED <<ranges, seed, params, i, selected, indices>>

DrawEnd ==
    /\ pc = "draw"
    /\ ~Drawing
    /\ pc' = "fill"
    /\ UNCHANGED <<ranges, seed, params, i, idx, selected, indices>>

Filling_Whole == idx < ranges.ProbePoolSize
Filling == Len(indices) < Wanted /\ idx < ranges.ProbePoolSize

\* The second loop fills up from the lowest indices and does not mark them.
Fill_Unchecked ==
    /\ pc = "fill"
    /\ Filling
    /\ indices' = Append(indices, idx)
    /\ idx' = idx + 1
    /\ UNCHANGED <<pc, ranges, seed, params, i, selected>>

Fill ==
    /\ pc = "fill"
    /\ Filling
    /\ indices' = IF idx \in selected THEN indices ELSE Append(indices, idx)
    /\ idx' = idx + 1
    /\ UNCHANGED <<pc, ranges, seed, params, i, selected>>

FillEnd ==
    /\ pc = "fill"
    /\ ~Filling
    /\ pc' = "done"
    /\ UNCHANGED <<ranges, seed, params, i, idx, selected, indices>>

Next == DeriveMinimum \/ Derive \/ Draw \/ DrawEnd \/ Fill \/ FillEnd

Spec == Init /\ [][Next]_vars

\* The probes of the challenge sent: challenge.New names those in its pool.
Named == {k \in DOMAIN indices : indices[k] < PoolLength}

-----------------------------------------------------------------------------
\* Whatever the seed, every parameter is within the bucket's range: no
\* width or sum wraps.
WithinRanges ==
    pc # "derive" =>
        /\ ranges.HashCashBitsMin <= params.HashCashBits
        /\ params.HashCashBits <= ranges.HashCashBitsMax
        /\ ranges.Argon2MemoryMinKiB <= params.Argon2Memory
        /\ params.Argon2Memory <= ranges.Argon2MemoryMaxKiB
        /\ ranges.Argon2IterationsMin <= params.Argon2Iterations
        /\ params.Argon2Iterations <= ranges.Argon2IterationsMax

\* No probe is asked for twice, and each is one New can name: the indices
\* of the second loop repeat neither its own nor those of the first.
ProbesDistinct ==
    /\ \A j, k \in DOMAIN indices : j # k => indices[j] # indices[k]
    /\ Named = DOMAIN indices

\* However few distinct probes the seed names, the challenge asks for as
\* many as the bucket wants, or for the whole pool.
EnoughProbes ==
    (pc = "done" /\ seed # ShortSeed /\ Wanted > 0) => Len(indices) = Wanted

Rank(x, S) == Cardinality({y \in S : y < x})

\* What selectProbes selects, said without its loops: first the distinct
\* values the seed names, in the order of their first occurrence, then the
\* values it does not name, in ascending order, as many as are wanted.
SelectsInOrder ==
    (pc = "done" /\ seed # ShortSeed /\ Wanted > 0) =>
        LET pool   == 0..(ranges.ProbePoolSize - 1)
            draw   == [k \in 1..TailLength |-> seed.tail[k] % ranges.ProbePoolSize]
            first  == {k \in 1..TailLength : \A j \in 1..k-1 : draw[j] # draw[k]}
            others == pool \ {draw[k] : k \in first}
            drawn  == Cardinality(first)
        IN  \A j \in DOMAIN indices :
                IF j <= drawn
                THEN \E k \in first : Rank(k, first) = j - 1 /\ indices[j] = draw[k]
                ELSE indices[j] \in others /\ Rank(indices[j], others) = j - drawn - 1
=============================================================================

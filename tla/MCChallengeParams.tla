-------------------------- MODULE MCChallengeParams --------------------------
(***************************************************************************)
(* DeriveParams on the ranges of the four buckets, which TempScore defines,*)
(* on ranges at the edges of their types and on pools smaller than the     *)
(* count.  Words are 24 bits wide instead of 32 to fit TLC's integers.     *)
(***************************************************************************)
EXTENDS ChallengeParams

CONSTANTS IpUnit, SubnetUnit, BurnDivisor

Scoring == INSTANCE TempScore

MCWordSize == 16777216
MCWords == {0, 65536, MCWordSize - 1}

Edge(pool, count) ==
    [ Scoring!BucketRanges(0) EXCEPT
        !.HashCashBitsMin = 1, !.HashCashBitsMax = 255,
        !.Argon2MemoryMinKiB = 1, !.Argon2MemoryMaxKiB = MCWordSize - 1,
        !.ProbePoolSize = pool, !.ProbeCount = count ]

MCRanges ==
    {Scoring!BucketRanges(b) : b \in 0..3}
    \cup {Edge(pool, count) : pool \in {0, 1, 3, 10}, count \in {0, 2, 4}}
=============================================================================

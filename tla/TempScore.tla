------------------------------ MODULE TempScore ------------------------------
(***************************************************************************)
(* The scoring arithmetic of internal/temperature: five signals, each      *)
(* brought to 0..100, are weighted into one abuse score, the score is cut  *)
(* into a temperature bucket 0..3, and the bucket selects the ranges the   *)
(* challenge parameters are drawn from.                                    *)
(*                                                                         *)
(* The three conversion factors are constants so that a small instance can *)
(* reach every bucket with a handful of requests; the code's values are    *)
(* IpUnit = 5, SubnetUnit = 2 and BurnDivisor = 10.  Go's int is 64 bits   *)
(* wide and no count comes near it, so the arithmetic is unbounded here.   *)
(***************************************************************************)
EXTENDS Integers

CONSTANTS
    IpUnit,      \* points per request of the address in the window
    SubnetUnit,  \* points per request of the subnet in the window
    BurnDivisor  \* tokens issued to a site key per point

ASSUME ScoreUnitsAssumption ==
    /\ IpUnit \in Nat
    /\ SubnetUnit \in Nat
    /\ BurnDivisor \in Nat \ {0}

Percent == 0..100
Bucket == 0..3

min100_Uncapped(v) == v
min100(v) == IF v > 100 THEN 100 ELSE v

(***************************************************************************)
(* int(float64(fails) / float64(total) * 100).  With at most 20 results    *)
(* the float computation truncates to the same integer as exact division.  *)
(***************************************************************************)
probeSignal(fails, total) == IF total = 0 THEN 0 ELSE (100 * fails) \div total

Weighted(ipReqs, subnetReqs, burns, probe, reputation) ==
    ( min100(ipReqs * IpUnit) * 30
    + min100(subnetReqs * SubnetUnit) * 20
    + min100(burns \div BurnDivisor) * 20
    + probe * 10
    + reputation * 20 ) \div 100

Score(ipReqs, subnetReqs, burns, probe, reputation) ==
    min100(Weighted(ipReqs, subnetReqs, burns, probe, reputation))

scoreToBucket(score) ==
    CASE score <= 20 -> 0
      [] 20 < score /\ score <= 50 -> 1
      [] 50 < score /\ score <= 80 -> 2
      [] OTHER -> 3

-----------------------------------------------------------------------------
(***************************************************************************)
(* The ranges a bucket allows (scorer.go).  Memory is in KiB.              *)
(***************************************************************************)
Range3(bitsMin, bitsMax, memMin, memMax, iterMin, iterMax, probes) ==
    [ HashCashBitsMin |-> bitsMin,     HashCashBitsMax |-> bitsMax,
      Argon2MemoryMinKiB |-> memMin,   Argon2MemoryMaxKiB |-> memMax,
      Argon2IterationsMin |-> iterMin, Argon2IterationsMax |-> iterMax,
      ProbePoolSize |-> 10,            ProbeCount |-> probes ]

BucketRanges(bucket) ==
    CASE bucket = 0 -> Range3(16, 18,  65536,  98304, 2, 3, 3)
      [] bucket = 1 -> Range3(18, 20,  98304, 131072, 2, 4, 4)
      [] bucket = 2 -> Range3(20, 22, 131072, 196608, 3, 5, 5)
      [] OTHER      -> Range3(22, 22, 196608, 262144, 4, 5, 5)
=============================================================================

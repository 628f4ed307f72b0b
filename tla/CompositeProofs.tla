---------------------------- MODULE CompositeProofs ----------------------------
(***************************************************************************)
(* What challenge.Verify decides, for every table of payloads and every    *)
(* set of readings: a client passes only with fewer than five anomalies in *)
(* eight answers, and fails only with four in eight or more.               *)
(*                                                                         *)
(* The loop invariant counts.  After the probes before "at", evaluated is  *)
(* the number of those that were answered, and the sum of their scores     *)
(* lies between 8 and 10 tenths for each that looks anomalous, because     *)
(* these are the least and the greatest score the table gives one.         *)
(***************************************************************************)
EXTENDS CompositeVerify, FiniteSetTheorems, TLAPS

\* The probes the loop has passed.
Passed == {k \in Answered : k < at}
PassedAnomalous == {k \in Anomalous : k < at}

RequestOK ==
    /\ request.probes \in Seq(ProbePool)
    /\ request.hashcash \in {"missing", "wrong", "right"}
    /\ request.argon2 \in {"missing", "wrong", "right"}

Counted ==
    /\ evaluated = Cardinality(Passed)
    /\ 8 * Cardinality(PassedAnomalous) <= totalScore
    /\ totalScore <= 10 * Cardinality(PassedAnomalous)

\* A response is judged when all its probes are passed, or when none of
\* them was answered.
Judged == pc = "done" /\ ~failed => at = Len(request.probes) + 1 \/ Answered = {}

VerifyInv == TypeOK /\ RequestOK /\ Counted /\ Judged

-----------------------------------------------------------------------------
\* The scores the table gives: none, or at least 8 tenths.
LEMMA Scores ==
    ASSUME NEW name, NEW reading
    PROVE  Validate(name, reading) \in {0, 8, 9, 10}
BY DEF Validate

\* The sets the loop counts are finite: they are positions of the payload.
LEMMA PassedFinite ==
    ASSUME RequestOK
    PROVE  /\ IsFiniteSet(Answered) /\ IsFiniteSet(Anomalous)
           /\ IsFiniteSet(Passed) /\ IsFiniteSet(PassedAnomalous)
<1>1. /\ Len(request.probes) \in Nat
      /\ DOMAIN request.probes = 1..Len(request.probes)
  BY DEF RequestOK
<1>2. ASSUME NEW S \in SUBSET (1..Len(request.probes)) PROVE IsFiniteSet(S)
  <2>1. IsFiniteSet(1..Len(request.probes))
    BY <1>1, FS_Interval
  <2> QED
    BY <2>1, FS_Subset
<1>3. /\ Answered \in SUBSET (1..Len(request.probes))
      /\ Anomalous \in SUBSET (1..Len(request.probes))
      /\ Passed \in SUBSET (1..Len(request.probes))
      /\ PassedAnomalous \in SUBSET (1..Len(request.probes))
  BY <1>1 DEF Answered, Anomalous, Passed, PassedAnomalous
<1> QED
  BY <1>2, <1>3

\* Counts of some of n probes fit their types.
LEMMA CountsFit ==
    ASSUME NEW n \in Nat, NEW P \in SUBSET (1..n), NEW A \in SUBSET P,
           NEW total \in Nat, total <= 10 * Cardinality(A)
    PROVE  Cardinality(P) \in 0..n /\ total \in 0..(10 * Cardinality(P))
<1>1. IsFiniteSet(1..n) /\ Cardinality(1..n) = n
  <2>1. 1 \in Int /\ n \in Int
    OBVIOUS
  <2>2. IsFiniteSet(1..n) /\ Cardinality(1..n) = IF 1 > n THEN 0 ELSE n - 1 + 1
    BY <2>1, FS_Interval, Zenon
  <2> QED
    BY <2>2
<1>2. IsFiniteSet(P) /\ Cardinality(P) <= n /\ Cardinality(P) \in Nat
  BY <1>1, FS_Subset, FS_CardinalityType
<1>3. Cardinality(A) <= Cardinality(P) /\ Cardinality(A) \in Nat
  BY <1>2, FS_Subset, FS_CardinalityType
<1> QED
  BY <1>2, <1>3

LEMMA VerifyInit == Init => VerifyInv
<1> SUFFICES ASSUME Init PROVE VerifyInv
  OBVIOUS
<1>1. PICK p \in Payloads :
         \E given \in [{p[k] : k \in DOMAIN p} -> Reading], expired \in BOOLEAN,
            hashcash \in {"missing", "wrong", "right"},
            argon2 \in {"missing", "wrong", "right"} :
               request = [ probes |-> p, expired |-> expired,
                           hashcash |-> hashcash, argon2 |-> argon2,
                           results |-> [n \in ProbePool |->
                               IF n \in {p[k] : k \in DOMAIN p} THEN given[n]
                               ELSE [kind |-> "missing"]] ]
  BY DEF Init
<1>2. RequestOK
  BY <1>1, PayloadsAssumption DEF RequestOK
<1>3. /\ pc = "check" /\ at = 1 /\ totalScore = 0 /\ evaluated = 0
      /\ class = 0 /\ failed = FALSE
  BY DEF Init
<1>4. Len(request.probes) \in Nat /\ DOMAIN request.probes = 1..Len(request.probes)
  BY <1>2 DEF RequestOK
<1>5. TypeOK
  <2>1. 1 \in 1..(Len(request.probes) + 1) /\ 0 \in 0..Len(request.probes)
    BY <1>4
  <2>2. 0 \in 0..(10 * 0) /\ 0 \in 0..2 /\ FALSE \in BOOLEAN
    OBVIOUS
  <2> QED
    BY <1>3, <2>1, <2>2 DEF TypeOK
<1>6. Passed = {} /\ PassedAnomalous = {}
  BY <1>3, <1>4 DEF Passed, PassedAnomalous, Answered, Anomalous
<1>7. Counted
  BY <1>3, <1>6, FS_EmptySet DEF Counted
<1> QED
  BY <1>2, <1>3, <1>5, <1>7
  DEF VerifyInv, Judged

\* Passing an answered probe counts it; an anomalous one weighs 8 to 10.
LEMMA VerifyProbe ==
    ASSUME VerifyInv, Probe
    PROVE  VerifyInv'
<1> DEFINE k == at
           name == request.probes[at]
           score == Validate(name, request.results[name])
<1>1. /\ Len(request.probes) \in Nat
      /\ DOMAIN request.probes = 1..Len(request.probes)
      /\ k \in 1..Len(request.probes)
      /\ pc = "probes" /\ at' = k + 1
      /\ UNCHANGED <<request, pc, class, failed>>
      /\ totalScore \in Nat /\ evaluated \in Nat
  BY DEF VerifyInv, TypeOK, RequestOK, Probe
<1>2. /\ Cardinality(Passed) \in Nat /\ Cardinality(PassedAnomalous) \in Nat
      /\ IsFiniteSet(Passed) /\ IsFiniteSet(PassedAnomalous)
  <2>1. IsFiniteSet(Passed) /\ IsFiniteSet(PassedAnomalous)
    BY PassedFinite DEF VerifyInv
  <2> QED
    BY <2>1, FS_CardinalityType
<1>3. k \notin Passed /\ k \notin PassedAnomalous
  <2>1. ~(k < at)
    BY <1>1
  <2> QED
    BY <2>1 DEF Passed, PassedAnomalous
<1>4. /\ Cardinality(Passed \cup {k}) = Cardinality(Passed) + 1
      /\ Cardinality(PassedAnomalous \cup {k}) = Cardinality(PassedAnomalous) + 1
  <2>1. ASSUME NEW S, IsFiniteSet(S), k \notin S
        PROVE  Cardinality(S \cup {k}) = Cardinality(S) + 1
    BY <2>1, FS_AddElement
  <2> QED
    BY <1>2, <1>3, <2>1
<1>5. UNCHANGED <<Answered, Anomalous>>
  BY <1>1 DEF Answered, Anomalous, Given
<1>6. \A i \in 1..Len(request.probes) : i < at' <=> i < at \/ i = k
  BY <1>1
<1>7. score \in {0, 8, 9, 10}
  BY Scores
<1>8. Counted' /\ evaluated' \in Nat /\ totalScore' \in Nat
  <2>1. CASE Given(name) /\ score > 0
    <3>1. k \in Answered /\ k \in Anomalous
      BY <1>1, <2>1 DEF Answered, Anomalous
    <3>2. Passed' = Passed \cup {k} /\ PassedAnomalous' = PassedAnomalous \cup {k}
      BY <1>1, <1>5, <1>6, <3>1 DEF Passed, PassedAnomalous, Answered, Anomalous
    <3>3. totalScore' = totalScore + score /\ evaluated' = evaluated + 1
      BY <2>1 DEF Probe
    <3> HIDE DEF score
    <3> QED
      BY <1>1, <1>2, <1>4, <1>7, <2>1, <3>2, <3>3 DEF VerifyInv, Counted
  <2>2. CASE Given(name) /\ ~(score > 0)
    <3>1. k \in Answered /\ k \notin Anomalous
      BY <1>1, <2>2 DEF Answered, Anomalous
    <3>2. Passed' = Passed \cup {k} /\ PassedAnomalous' = PassedAnomalous
      BY <1>1, <1>5, <1>6, <3>1 DEF Passed, PassedAnomalous, Answered, Anomalous
    <3>3. totalScore' = totalScore + score /\ evaluated' = evaluated + 1
      BY <2>2 DEF Probe
    <3>4. score = 0
      BY <1>7, <2>2
    <3> HIDE DEF score
    <3> QED
      BY <1>1, <1>2, <1>4, <3>2, <3>3, <3>4 DEF VerifyInv, Counted
  <2>3. CASE ~Given(name)
    <3>1. k \notin Answered /\ k \notin Anomalous
      BY <2>3 DEF Answered, Anomalous
    <3>2. Passed' = Passed /\ PassedAnomalous' = PassedAnomalous
      BY <1>1, <1>5, <1>6, <3>1 DEF Passed, PassedAnomalous, Answered, Anomalous
    <3>3. UNCHANGED <<totalScore, evaluated>>
      BY <2>3 DEF Probe
    <3> QED
      BY <1>1, <3>2, <3>3 DEF VerifyInv, Counted
  <2> QED
    BY <2>1, <2>2, <2>3
<1>9. TypeOK'
  <2>1. /\ Passed' \in SUBSET (1..Len(request.probes))
        /\ PassedAnomalous' \in SUBSET (Passed')
    BY <1>1 DEF Passed, PassedAnomalous, Answered, Anomalous
  <2>2. /\ Cardinality(Passed') \in 0..Len(request.probes)
        /\ totalScore' \in 0..(10 * Cardinality(Passed'))
    BY <1>1, <1>8, <2>1, CountsFit DEF Counted
  <2>3. evaluated' = Cardinality(Passed')
    BY <1>8 DEF Counted
  <2> QED
    BY <1>1, <2>2, <2>3 DEF VerifyInv, TypeOK
<1> QED
  BY <1>1, <1>8, <1>9 DEF VerifyInv, RequestOK, Judged

LEMMA VerifyNext == VerifyInv /\ [Next]_vars => VerifyInv'
<1> SUFFICES ASSUME VerifyInv, [Next]_vars PROVE VerifyInv'
  OBVIOUS
<1>1. Len(request.probes) \in Nat
  BY DEF VerifyInv, RequestOK
<1>2. ASSUME UNCHANGED <<request, at, totalScore, evaluated>>
      PROVE  RequestOK' /\ Counted'
  BY <1>2
  DEF VerifyInv, RequestOK, Counted, Passed, PassedAnomalous, Answered, Anomalous, Given
<1>3. CASE CheckFails
  BY <1>2, <1>3
  DEF CheckFails, VerifyInv, TypeOK, Judged
<1>4. CASE CheckPasses
  <2>1. pc' = "done" => Answered' = {}
    <3> SUFFICES ASSUME pc' = "done" PROVE Answered' = {}
      OBVIOUS
    <3>1. request.probes = <<>> \/ ~\E n \in ProbePool : Given(n)
      BY <1>4 DEF CheckPasses
    <3>2. \A k \in DOMAIN request.probes : request.probes[k] \in ProbePool
      BY DEF VerifyInv, RequestOK
    <3>3. Answered = {}
      BY <3>1, <3>2 DEF Answered
    <3> QED
      BY <1>4, <3>3 DEF CheckPasses, Answered, Given
  <2> QED
    BY <1>2, <1>4, <2>1
    DEF CheckPasses, VerifyInv, TypeOK, Judged
<1>5. CASE Probe
  BY <1>5, VerifyProbe
<1>6. CASE ProbesEnd
  BY <1>1, <1>2, <1>6
  DEF ProbesEnd, VerifyInv, TypeOK, Judged
<1>7. CASE UNCHANGED vars
  BY <1>2, <1>7
  DEF vars, VerifyInv, TypeOK, Judged, Answered, Given
<1> QED
  BY <1>3, <1>4, <1>5, <1>6, <1>7 DEF Next

LEMMA VerifyAlways == Spec => []VerifyInv
BY VerifyInit, VerifyNext, PTL DEF Spec

-----------------------------------------------------------------------------
\* The counts stay in their ranges whatever a challenge asks for.
THEOREM VerifyTypeCorrect == Spec => []TypeOK
<1>1. VerifyInv => TypeOK
  BY DEF VerifyInv
<1> QED
  BY <1>1, VerifyAlways, PTL

\* For every table of payloads and all readings, a client passes only if
\* fewer than five in eight of the probes it answered look anomalous, and
\* fails only if at least half of them do.
THEOREM VerdictFollowsCounts == Spec => []CountsDecide
<1>1. VerifyInv => CountsDecide
  <2> SUFFICES ASSUME VerifyInv, pc = "done", ~failed
               PROVE  LET n == Cardinality(Answered)
                          a == Cardinality(Anomalous)
                      IN  IF probePass THEN n = 0 \/ 8 * a < 5 * n
                          ELSE n > 0 /\ 2 * a >= n
    BY DEF CountsDecide
  <2>1. /\ Len(request.probes) \in Nat
        /\ DOMAIN request.probes = 1..Len(request.probes)
    BY DEF VerifyInv, RequestOK
  <2>2. Passed = Answered /\ PassedAnomalous = Anomalous
    BY <2>1 DEF VerifyInv, Judged, Passed, PassedAnomalous, Answered, Anomalous
  <2>3. Cardinality(Answered) \in Nat /\ Cardinality(Anomalous) \in Nat
    BY PassedFinite, FS_CardinalityType DEF VerifyInv
  <2>4. /\ evaluated = Cardinality(Answered)
        /\ 8 * Cardinality(Anomalous) <= totalScore
        /\ totalScore <= 10 * Cardinality(Anomalous)
    BY <2>2 DEF VerifyInv, Counted
  <2>5. totalScore \in Nat
    BY DEF VerifyInv, TypeOK
  <2> QED
    BY <2>3, <2>4, <2>5 DEF probePass
<1> QED
  BY <1>1, VerifyAlways, PTL
================================================================================

--------------------------- MODULE CompositeVerify ---------------------------
(***************************************************************************)
(* challenge.Verify with environment.Validate as its validator, the way    *)
(* handleVerify calls them: the checks in their order, then one step per   *)
(* probe the challenge asked for.  TrustServer uses the outcome only; this *)
(* module is about how the probe results make the verdict it records.      *)
(*                                                                         *)
(* Readings are in hundredths of a millisecond and anomalies in tenths.    *)
(* The sums of at most five scores from the table are exact enough in      *)
(* float64 to compare with 0.5 as the integers here do.                    *)
(***************************************************************************)
EXTENDS Integers, Sequences, FiniteSets

CONSTANTS
    Payloads,  \* the probe names a challenge may ask for, in order
    Millis     \* bound: the numbers a probe may report, in hundredths

Timing(min, max, below) == [MinMS |-> min, MaxMS |-> max, SuspiciousBelow |-> below]
\* The two probes that report a value: their MaxMS is never read.
Value == Timing(0, 50000, -100)

probeSpecs ==
    [ webcrypto_timing      |-> Timing(50, 50000, 100),
      dom_computation       |-> Timing(10, 50000, 30),
      memory_allocation     |-> Timing(50, 200000, 20),
      canvas_timing         |-> Timing(20, 100000, 10),
      audio_latency         |-> Value,
      font_measurement      |-> Timing(5, 50000, 2),
      animation_frame       |-> Timing(100, 20000, 50),
      intersection_observer |-> Timing(10, 50000, 5),
      webgl_query           |-> Timing(5, 50000, 2),
      performance_heap      |-> Value ]

ProbePool == DOMAIN probeSpecs

\* What a client reports: nothing, text, "NaN", or a number.
Reading == [kind: {"missing", "text", "NaN"}] \cup [kind: {"number"}, ms: Millis]

ASSUME PayloadsAssumption ==
    /\ \A p \in Payloads : p \in Seq(ProbePool) /\ Len(p) <= 5
    /\ Millis \subseteq Int

VARIABLES
    request,     \* the challenge and the response to it
    pc,          \* check, probes, done
    at,          \* the probe of the payload that comes next
    totalScore, evaluated,
    class, failed  \* what Verify returns, besides the anomaly; handleVerify drops the class

vars == <<request, pc, at, totalScore, evaluated, class, failed>>

\* Bound: results the challenge does not ask for are missing.
Init ==
    /\ \E p \in Payloads :
          LET asked == {p[k] : k \in DOMAIN p}
          IN  \E given \in [asked -> Reading], expired \in BOOLEAN,
                 hashcash \in {"missing", "wrong", "right"},
                 argon2 \in {"missing", "wrong", "right"} :
                request = [ probes |-> p, expired |-> expired,
                            hashcash |-> hashcash, argon2 |-> argon2,
                            results |-> [n \in ProbePool |->
                                IF n \in asked THEN given[n] ELSE [kind |-> "missing"]] ]
    /\ pc = "check" /\ at = 1
    /\ totalScore = 0 /\ evaluated = 0
    /\ class = 0 /\ failed = FALSE

-----------------------------------------------------------------------------
\* Every comparison with NaN is false.
Below(reading, ms) == reading.kind = "number" /\ reading.ms < ms
Above(reading, ms) == reading.kind = "number" /\ reading.ms > ms

OutOfRange(spec, reading) == Below(reading, spec.MinMS) \/ Above(reading, spec.MaxMS)

\* Validate's anomaly score of a result that was given.  Every name a
\* challenge asks for is in the table.
Validate(name, reading) ==
    LET spec == probeSpecs[name]
    IN  IF reading.kind = "text" THEN 10
        ELSE IF spec.SuspiciousBelow < 0 THEN (IF Below(reading, 0) THEN 9 ELSE 0)
        ELSE IF OutOfRange(spec, reading) THEN 8
        ELSE IF Below(reading, spec.SuspiciousBelow) THEN 9 ELSE 0

Solved ==
    /\ ~request.expired
    /\ request.hashcash = "right"
    /\ request.argon2 # "wrong"

CheckFails ==
    /\ pc = "check"
    /\ ~Solved
    /\ failed' = TRUE
    /\ class' = 0
    /\ pc' = "done"
    /\ UNCHANGED <<request, at, totalScore, evaluated>>

Given(name) == request.results[name].kind # "missing"

CheckPasses ==
    /\ pc = "check"
    /\ Solved
    /\ class' = IF request.argon2 = "right" THEN 2 ELSE 1
    /\ pc' = IF request.probes # <<>> /\ \E n \in ProbePool : Given(n)
             THEN "probes" ELSE "done"
    /\ UNCHANGED <<request, at, totalScore, evaluated, failed>>

\* A probe that was asked for and not answered is skipped.
Probe_CountsMissing ==
    /\ pc = "probes"
    /\ at <= Len(request.probes)
    /\ LET name == request.probes[at]
       IN  /\ totalScore' = totalScore +
                 (IF Given(name) THEN Validate(name, request.results[name]) ELSE 0)
           /\ evaluated' = evaluated + 1
    /\ at' = at + 1
    /\ UNCHANGED <<request, pc, class, failed>>

Probe_Uncounted ==
    /\ pc = "probes"
    /\ at <= Len(request.probes)
    /\ LET name == request.probes[at]
       IN  totalScore' = totalScore +
              (IF Given(name) THEN Validate(name, request.results[name]) ELSE 0)
    /\ at' = at + 1
    /\ UNCHANGED <<request, pc, class, failed, evaluated>>

Probe ==
    /\ pc = "probes"
    /\ at <= Len(request.probes)
    /\ LET name == request.probes[at]
       IN  \/ /\ Given(name)
              /\ totalScore' = totalScore + Validate(name, request.results[name])
              /\ evaluated' = evaluated + 1
           \/ ~Given(name) /\ UNCHANGED <<totalScore, evaluated>>
    /\ at' = at + 1
    /\ UNCHANGED <<request, pc, class, failed>>

ProbesEnd ==
    /\ pc = "probes"
    /\ at > Len(request.probes)
    /\ pc' = "done"
    /\ UNCHANGED <<request, at, totalScore, evaluated, class, failed>>

Next == CheckFails \/ CheckPasses \/ Probe \/ ProbesEnd

Spec == Init /\ [][Next]_vars

\* The mean anomaly is below a half, or there is none: what handleVerify
\* records for the address.
probePass == evaluated = 0 \/ totalScore < 5 * evaluated

-----------------------------------------------------------------------------
\* Every variable holds a value of its kind, the mean a value in [0, 1].
TypeOK ==
    /\ pc \in {"check", "probes", "done"}
    /\ at \in 1..(Len(request.probes) + 1)
    /\ evaluated \in 0..Len(request.probes)
    /\ totalScore \in 0..(10 * evaluated)
    /\ class \in 0..2
    /\ failed \in BOOLEAN

Answered == {k \in DOMAIN request.probes : Given(request.probes[k])}
Anomalous ==
    {k \in Answered : Validate(request.probes[k], request.results[request.probes[k]]) > 0}

\* A client passes only if fewer than five in eight of the probes it
\* answered look anomalous, and fails only if at least half of them do:
\* neither the order of the probes nor an unanswered one tips the verdict.
\* This is no vote of the majority: of five answers, three that score 0.8
\* are a mean of 0.48, and pass.
CountsDecide ==
    (pc = "done" /\ ~failed) =>
        LET n == Cardinality(Answered)
            a == Cardinality(Anomalous)
        IN  IF probePass THEN n = 0 \/ 8 * a < 5 * n ELSE n > 0 /\ 2 * a >= n
=============================================================================

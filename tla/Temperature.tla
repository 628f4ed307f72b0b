----------------------------- MODULE Temperature -----------------------------
(***************************************************************************)
(* The state of temperature.Store and the effect of each of its critical   *)
(* sections.  Every operation of the store runs under one mutex, so each   *)
(* is a single action on these variables; the modules that extend this one *)
(* add the threads and decide when a thread reads the clock.               *)
(*                                                                         *)
(* A slice of request times is represented by how often each time occurs   *)
(* in it: the code never uses the order of a slice.  A key absent from a   *)
(* Go map reads as the empty slice, so absence is the all-zero function.   *)
(***************************************************************************)
EXTENDS TempScore, Sequences, FiniteSetsExt

CONSTANTS
    IP,           \* client addresses as extractIP returns them
    Site,         \* site keys
    Subnet,       \* values of subnetKey
    SubnetOf,     \* subnetKey, as a function on IP
    Reputation,   \* Reputation.Score, as a function on IP
    Window,       \* windowDuration
    ProbeWindow,  \* probe results kept per address (20 in the code)
    MaxTime       \* bound: the last tick of the clock

ASSUME TemperatureAssumption ==
    /\ SubnetOf \in [IP -> Subnet]
    /\ Reputation \in [IP -> {0, 80, 100}]
    /\ Window \in Nat \ {0}
    /\ ProbeWindow \in Nat \ {0}
    /\ MaxTime \in Nat

Time == 0..MaxTime

VARIABLES
    ipRequests,   \* ipRequests[ip][t]: requests of ip stamped t
    subnetReqs,   \* subnetReqs[subnet][t]
    tokenBurns,   \* tokens signed per site key
    probeHistory  \* last probe verdicts per address, oldest first

tempVars == <<ipRequests, subnetReqs, tokenBurns, probeHistory>>

Times == [Time -> Nat]
NoRequests == [t \in Time |-> 0]

TempTypeOK ==
    /\ ipRequests \in [IP -> Times]
    /\ subnetReqs \in [Subnet -> Times]
    /\ tokenBurns \in [Site -> Nat]
    /\ probeHistory \in [IP -> Seq(BOOLEAN)]

TempInit ==
    /\ ipRequests = [ip \in IP |-> NoRequests]
    /\ subnetReqs = [s \in Subnet |-> NoRequests]
    /\ tokenBurns = [s \in Site |-> 0]
    /\ probeHistory = [ip \in IP |-> <<>>]

-----------------------------------------------------------------------------
LastN_Oldest(s, n) == IF Len(s) > n THEN SubSeq(s, 1, n) ELSE s
LastN(s, n) == IF Len(s) > n THEN SubSeq(s, Len(s) - n + 1, Len(s)) ELSE s

(***************************************************************************)
(* Record(ip, siteKey, nil) and Record(ip, siteKey, &pass): t is the time  *)
(* the caller read before taking the mutex.  The site key is not used.     *)
(***************************************************************************)
RecordRequest(ip, t) ==
    /\ ipRequests' = [ipRequests EXCEPT ![ip][t] = @ + 1]
    /\ subnetReqs' = [subnetReqs EXCEPT ![SubnetOf[ip]][t] = @ + 1]

Record(ip, t) ==
    /\ RecordRequest(ip, t)
    /\ UNCHANGED <<tokenBurns, probeHistory>>

RecordProbe(ip, t, pass) ==
    /\ RecordRequest(ip, t)
    /\ probeHistory' =
           [probeHistory EXCEPT ![ip] = LastN(Append(@, pass), ProbeWindow)]
    /\ UNCHANGED tokenBurns

RecordTokenBurn(site) ==
    /\ tokenBurns' = [tokenBurns EXCEPT ![site] = @ + 1]
    /\ UNCHANGED <<ipRequests, subnetReqs, probeHistory>>

(***************************************************************************)
(* countAfter and the score the store reports to a caller that read the    *)
(* clock at t.  Scoring reads the store and changes nothing.               *)
(***************************************************************************)
countAfter_All(times, cutoff) == MapThenSumSet(LAMBDA t : times[t], Time)
countAfter(times, cutoff) ==
    MapThenSumSet(LAMBDA t : times[t], {t \in Time : t > cutoff})

Fails(history) ==
    Cardinality({i \in DOMAIN history : ~history[i]})

ScoreOf(ip, site, t) ==
    Score( countAfter(ipRequests[ip], t - Window),
           countAfter(subnetReqs[SubnetOf[ip]], t - Window),
           tokenBurns[site],
           probeSignal(Fails(probeHistory[ip]), Len(probeHistory[ip])),
           Reputation[ip] )

(***************************************************************************)
(* cleanup: forget the requests stamped at or before the cutoff.  Token    *)
(* counts and probe histories are not touched.                             *)
(***************************************************************************)
After(times, cutoff) == [t \in Time |-> IF t > cutoff THEN times[t] ELSE 0]

Cleanup_SubnetsOnly(cutoff) ==
    /\ subnetReqs' = [s \in Subnet |-> After(subnetReqs[s], cutoff)]
    /\ UNCHANGED <<ipRequests, tokenBurns, probeHistory>>

Cleanup(cutoff) ==
    /\ ipRequests' = [ip \in IP |-> After(ipRequests[ip], cutoff)]
    /\ subnetReqs' = [s \in Subnet |-> After(subnetReqs[s], cutoff)]
    /\ UNCHANGED <<tokenBurns, probeHistory>>
=============================================================================

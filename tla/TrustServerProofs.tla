-------------------------- MODULE TrustServerProofs --------------------------
(***************************************************************************)
(* What holds of TrustServer for every number of handlers, challenges,     *)
(* nonces, addresses and sites, and every choice of its times.             *)
(***************************************************************************)
EXTENDS TrustServer, SequenceTheorems, TLAPS

-----------------------------------------------------------------------------
(***************************************************************************)
(* Type correctness.                                                       *)
(***************************************************************************)

\* The buckets are 0..3 whatever the score: the last branch is a default.
LEMMA BucketType == \A score : scoreToBucket(score) \in Bucket
BY DEF scoreToBucket, Bucket

\* Hours are natural numbers.
LEMMA HourType == \A t \in Nat : TimeBucketFromTime(t) \in Nat
BY ServerAssumption DEF TimeBucketFromTime

\* Truncating a history keeps it one.
LEMMA LastNType ==
    ASSUME NEW s \in Seq(BOOLEAN), NEW n \in Nat
    PROVE  LastN(s, n) \in Seq(BOOLEAN)
<1>1. CASE Len(s) > n
  <2>1. Len(s) \in Nat /\ Len(s) - n + 1 \in 1..(Len(s) + 1)
    BY <1>1
  <2>2. \A i \in (Len(s) - n + 1)..Len(s) : s[i] \in BOOLEAN
    BY <2>1
  <2> DEFINE first == Len(s) - n + 1
             last == Len(s)
  <2>3. first \in Int /\ last \in Int /\ \A i \in first..last : s[i] \in BOOLEAN
    BY <2>1, <2>2
  <2> HIDE DEF first, last
  <2>4. SubSeq(s, first, last) \in Seq(BOOLEAN)
    BY <2>3, SubSeqProperties, Zenon
  <2> QED
    BY <1>1, <2>4 DEF LastN, first, last
<1>2. CASE ~(Len(s) > n)
  BY <1>2 DEF LastN
<1> QED
  BY <1>1, <1>2

\* The operations of the store keep its types.
LEMMA RecordType ==
    ASSUME TempTypeOK, NEW ip \in IP, NEW t \in Time, Record(ip, t)
    PROVE  TempTypeOK'
<1>1. SubnetOf[ip] \in Subnet
  BY TemperatureAssumption
<1>2. ipRequests'[ip] \in Times /\ subnetReqs'[SubnetOf[ip]] \in Times
  BY <1>1 DEF TempTypeOK, Record, RecordRequest, Times
<1> QED
  BY <1>1, <1>2 DEF TempTypeOK, Record, RecordRequest

LEMMA RecordProbeType ==
    ASSUME TempTypeOK, NEW ip \in IP, NEW t \in Time, NEW pass \in BOOLEAN,
           RecordProbe(ip, t, pass)
    PROVE  TempTypeOK'
<1>1. SubnetOf[ip] \in Subnet
  BY TemperatureAssumption
<1>2. ipRequests'[ip] \in Times /\ subnetReqs'[SubnetOf[ip]] \in Times
  BY <1>1 DEF TempTypeOK, RecordProbe, RecordRequest, Times
<1> DEFINE longer == Append(probeHistory[ip], pass)
<1>3. longer \in Seq(BOOLEAN)
  BY DEF TempTypeOK
<1>4. LastN(longer, ProbeWindow) \in Seq(BOOLEAN)
  BY <1>3, LastNType, TemperatureAssumption
<1>5. probeHistory' \in [IP -> Seq(BOOLEAN)]
  BY <1>4 DEF TempTypeOK, RecordProbe
<1> QED
  BY <1>1, <1>2, <1>5 DEF TempTypeOK, RecordProbe, RecordRequest

LEMMA RecordTokenBurnType ==
    ASSUME TempTypeOK, NEW site \in Site, RecordTokenBurn(site)
    PROVE  TempTypeOK'
BY DEF TempTypeOK, RecordTokenBurn

LEMMA CleanupType ==
    ASSUME TempTypeOK, NEW cutoff \in Int, Cleanup(cutoff)
    PROVE  TempTypeOK'
BY DEF TempTypeOK, Cleanup, After, Times

LEMMA TempUnchangedType ==
    ASSUME TempTypeOK, UNCHANGED tempVars
    PROVE  TempTypeOK'
BY DEF TempTypeOK, tempVars

\* Metadata made for a known bucket at a known time is metadata.
LEMMA MetaType ==
    ASSUME NEW b \in Bucket, NEW t \in Nat
    PROVE  PredictedMeta(b, t) \in Meta
BY HourType DEF PredictedMeta, Meta

LEMMA EntryType ==
    ASSUME NEW b \in Bucket, NEW e \in Nat, NEW t \in Nat
    PROVE  EntryFor(b, e, t) \in Entry
BY MetaType, ServerAssumption DEF EntryFor, Entry

\* The clock only takes natural values.
LEMMA TimeIsNat == Time \subseteq Nat
BY TemperatureAssumption DEF Time

\* The types hold at the start.
LEMMA InitType == Init => TypeOK
<1> SUFFICES ASSUME Init PROVE TypeOK
  OBVIOUS
<1>1. TempTypeOK
  BY DEF Init, TempInit, TempTypeOK, Times, NoRequests
<1>2. now \in Time
  BY TemperatureAssumption DEF Init, Time
<1>3. sweep \in Sweep
  BY DEF Init, Sweep
<1>4. task \in [Handler -> Task]
  BY DEF Init, Task
<1> QED
  BY <1>1, <1>2, <1>3, <1>4 DEF Init, TypeOK

\* The types hold after every step of a handler.
LEMMA ServeType ==
    ASSUME TypeOK, NEW h \in Handler, Serve(h)
    PROVE  TypeOK'
<1> USE TimeIsNat
<1>1. now \in Nat /\ task[h] \in Task
  BY DEF TypeOK
<1>2. CASE Refuse(h)
  BY <1>2 DEF Refuse, vars, TypeOK, TempTypeOK, mapVars, history, tempVars
<1>3. CASE ChallengeRecord(h)
  <2>1. PICK id \in ChallengeID, ip \in IP, site \in Site :
           /\ Record(ip, now)
           /\ Goto(h, [stage |-> "score", id |-> id, ip |-> ip, site |-> site,
                       since |-> now])
    BY <1>3 DEF ChallengeRecord
  <2>2. TempTypeOK'
    BY <2>1, RecordType DEF TypeOK
  <2>3. task' \in [Handler -> Task]
    BY <1>1, <2>1 DEF TypeOK, Goto, Task
  <2> QED
    BY <1>3, <2>2, <2>3 DEF TypeOK, ChallengeRecord, mapVars, history
<1>4. CASE ChallengeScore(h)
  <2>1. task[h].id \in ChallengeID /\ task[h].since \in Nat
    BY <1>1, <1>4 DEF ChallengeScore, Task, Idle
  <2>2. now + ChallengeTTL \in Nat
    BY <1>1, ServerAssumption
  <2>3. task' \in [Handler -> Task]
    BY <1>4, <2>1, <2>2, BucketType DEF TypeOK, ChallengeScore, Goto, Task
  <2> QED
    BY <1>4, <2>3 DEF TypeOK, TempTypeOK, ChallengeScore, mapVars, history, tempVars
<1>5. CASE ChallengeOffer(h)
  <2>1. /\ task[h].id \in ChallengeID
        /\ task[h].bucket \in Bucket
        /\ task[h].expiresAt \in Nat
    BY <1>1, <1>5 DEF ChallengeOffer, Task, Idle
  <2> DEFINE entry == EntryFor(task[h].bucket, task[h].expiresAt, now)
  <2>2. entry \in Entry
    BY <1>1, <2>1, EntryType
  <2>3. entry.predictedMeta \in Meta /\ entry.expiresAt \in Nat
    BY <2>2 DEF Entry
  <2> HIDE DEF entry
  <2>4. challenges' = [challenges EXCEPT ![task[h].id] = entry]
    BY <1>5 DEF ChallengeOffer, entry
  <2>5. offers' = offers \cup {[ id |-> task[h].id, meta |-> entry.predictedMeta,
                                 expiresAt |-> entry.expiresAt, at |-> now ]}
    BY <1>5 DEF ChallengeOffer, entry
  <2>6. challenges' \in [ChallengeID -> Entry \cup {Absent}]
    BY <2>2, <2>4 DEF TypeOK
  <2>7. offers' \subseteq Offer
    BY <1>1, <2>1, <2>3, <2>5 DEF TypeOK, Offer
  <2>8. task' \in [Handler -> Task]
    BY <1>5 DEF TypeOK, ChallengeOffer, Answer, Goto, Task
  <2> QED
    BY <1>5, <2>6, <2>7, <2>8 DEF TypeOK, TempTypeOK, ChallengeOffer, tempVars
<1>6. CASE VerifyLoad(h)
  <2>1. PICK id \in ChallengeID :
           /\ challenges[id] # Absent
           /\ Goto(h, [stage |-> "delete", id |-> id, entry |-> challenges[id],
                       since |-> now])
    BY <1>6 DEF VerifyLoad
  <2>2. challenges[id] \in Entry
    BY <2>1 DEF TypeOK
  <2>3. task' \in [Handler -> Task]
    BY <1>1, <2>1, <2>2 DEF TypeOK, Goto, Task
  <2> QED
    BY <1>6, <2>3 DEF TypeOK, TempTypeOK, VerifyLoad, mapVars, history, tempVars
<1>7. CASE VerifyDelete(h)
  <2>1. /\ task[h].id \in ChallengeID
        /\ [task[h] EXCEPT !.stage = "check"] \in Task
    BY <1>1, <1>7 DEF VerifyDelete, Task, Idle
  <2>2. challenges' \in [ChallengeID -> Entry \cup {Absent}]
    BY <1>7 DEF TypeOK, VerifyDelete, Without
  <2>3. task' \in [Handler -> Task]
    BY <1>7, <2>1 DEF TypeOK, VerifyDelete, Goto
  <2> QED
    BY <1>7, <2>1, <2>2, <2>3 DEF TypeOK, TempTypeOK, VerifyDelete, tempVars
<1>8. CASE VerifyPass(h)
  <2>1. PICK proof \in Proof :
           Goto(h, [stage |-> "record", id |-> task[h].id, entry |-> task[h].entry,
                    class |-> ClassReached(proof), pass |-> proof.probePass,
                    since |-> task[h].since])
    BY <1>8 DEF VerifyPass
  <2>2. ClassReached(proof) \in 1..2 /\ proof.probePass \in BOOLEAN
    BY DEF ClassReached, Proof
  <2>3. /\ task[h].id \in ChallengeID
        /\ task[h].entry \in Entry
        /\ task[h].since \in Nat
    BY <1>1, <1>8 DEF VerifyPass, Task, Idle
  <2>4. task' \in [Handler -> Task]
    BY <2>1, <2>2, <2>3 DEF TypeOK, Goto, Task
  <2> QED
    BY <1>8, <2>4 DEF TypeOK, TempTypeOK, VerifyPass, mapVars, history, tempVars
<1>9. CASE VerifyReject(h)
  <2>1. task' \in [Handler -> Task]
    BY <1>9 DEF TypeOK, VerifyReject, Answer, Goto, Task
  <2> QED
    BY <1>9, <2>1 DEF TypeOK, TempTypeOK, VerifyReject, mapVars, history, tempVars
<1>10. CASE VerifyRecord(h)
  <2>1. /\ task[h].id \in ChallengeID
        /\ task[h].entry \in Entry
        /\ task[h].class \in 1..2
        /\ task[h].pass \in BOOLEAN
        /\ task[h].since \in Nat
    BY <1>1, <1>10 DEF VerifyRecord, Task, Idle
  <2>2. TempTypeOK'
    BY <1>10, <2>1, RecordProbeType DEF TypeOK, VerifyRecord
  <2>3. task' \in [Handler -> Task]
    BY <1>10, <2>1 DEF TypeOK, VerifyRecord, Goto, Task
  <2> QED
    BY <1>10, <2>2, <2>3 DEF TypeOK, VerifyRecord, mapVars, history
<1>11. CASE VerifyUnsigned(h)
  <2>1. task' \in [Handler -> Task]
    BY <1>11 DEF TypeOK, VerifyUnsigned, Answer, Goto, Task
  <2> QED
    BY <1>11, <2>1 DEF TypeOK, TempTypeOK, VerifyUnsigned, mapVars, history, tempVars
<1>12. CASE VerifyIssue(h)
  <2>1. task[h].id \in ChallengeID /\ SignedMeta(task[h].entry, now) \in Meta
    BY <1>1, <1>12 DEF VerifyIssue, Task, Idle, SignedMeta, Entry
  <2>2. PICK nonce \in Nonce, site \in Site :
           /\ RecordTokenBurn(site)
           /\ issuances' = issuances \cup
                  {[ id |-> task[h].id, nonce |-> nonce,
                     meta |-> SignedMeta(task[h].entry, now), by |-> h ]}
    BY <1>12 DEF VerifyIssue
  <2>3. TempTypeOK'
    BY <2>2, RecordTokenBurnType DEF TypeOK
  <2>4. issuances' \subseteq Issuance
    BY <2>1, <2>2 DEF TypeOK, Issuance
  <2>5. task' \in [Handler -> Task]
    BY <1>12 DEF TypeOK, VerifyIssue, Answer, Goto, Task
  <2> QED
    BY <1>12, <2>3, <2>4, <2>5 DEF TypeOK, VerifyIssue, mapVars
<1>13. CASE SiteverifyLoad(h)
  <2>1. PICK nonce \in Nonce, meta \in {o.meta : o \in offers} :
           Goto(h, Redeeming(nonce, meta))
    BY <1>13 DEF SiteverifyLoad
  <2>2. meta \in Meta
    BY <2>1 DEF TypeOK, Offer
  <2>3. Genuine(nonce, meta) \in BOOLEAN
    BY DEF Genuine
  <2>4. Redeeming(nonce, meta) \in Task
    BY <1>1, <2>2, <2>3 DEF Redeeming, Task, Token
  <2>5. task' \in [Handler -> Task]
    BY <2>1, <2>4 DEF TypeOK, Goto
  <2> QED
    BY <1>13, <2>5 DEF TypeOK, TempTypeOK, SiteverifyLoad, mapVars, history, tempVars
<1>14. CASE SiteverifyInvalid(h)
  <2>1. task' \in [Handler -> Task]
    BY <1>14 DEF TypeOK, SiteverifyInvalid, Answer, Goto, Task
  <2> QED
    BY <1>14, <2>1 DEF TypeOK, TempTypeOK, SiteverifyInvalid, mapVars, history, tempVars
<1>15. CASE SiteverifyRedeem(h)
  <2>1. task[h].token.nonce \in Nonce /\ task[h].token.meta \in Meta
    BY <1>1, <1>15 DEF SiteverifyRedeem, Task, Idle, Token
  <2> DEFINE expiry == now + TokenTTL
  <2>2. expiry \in Nat
    BY <1>1, ServerAssumption
  <2>3. tokens' = [tokens EXCEPT ![task[h].token.nonce] = expiry]
    BY <1>15 DEF SiteverifyRedeem
  <2> HIDE DEF expiry
  <2>4. tokens' \in [Nonce -> Nat \cup {Absent}]
    BY <2>1, <2>2, <2>3 DEF TypeOK
  <2>5. redemptions' \subseteq Redemption
    BY <1>1, <1>15, <2>1 DEF TypeOK, SiteverifyRedeem, Redemption
  <2>6. task' \in [Handler -> Task]
    BY <1>15 DEF TypeOK, SiteverifyRedeem, Answer, Goto, Task
  <2> QED
    BY <1>15, <2>4, <2>5, <2>6 DEF TypeOK, TempTypeOK, SiteverifyRedeem, tempVars
<1> QED
  BY <1>2, <1>3, <1>4, <1>5, <1>6, <1>7, <1>8, <1>9, <1>10, <1>11, <1>12, <1>13,
     <1>14, <1>15
  DEF Serve, Continue

\* The types hold after every step of the sweep.
LEMMA SweepType ==
    ASSUME TypeOK, CleanupLoop
    PROVE  TypeOK'
<1> USE TimeIsNat
<1>1. now \in Nat
  BY DEF TypeOK
<1>2. CASE SweepStart
  <2>1. sweep' \in Sweep
    BY <1>1, <1>2 DEF TypeOK, SweepStart, Sweep
  <2> QED
    BY <1>2, <2>1 DEF TypeOK, TempTypeOK, SweepStart, mapVars, history, tempVars
<1>3. CASE SweepChallenge
  <2>1. challenges' \in [ChallengeID -> Entry \cup {Absent}]
    BY <1>3 DEF TypeOK, SweepChallenge, Without, ExpiredChallenges
  <2> QED
    BY <1>3, <2>1 DEF TypeOK, TempTypeOK, SweepChallenge, history, tempVars
<1>4. CASE SweepTurn
  <2>1. sweep' \in Sweep
    BY <1>4 DEF TypeOK, SweepTurn, Sweep
  <2> QED
    BY <1>4, <2>1 DEF TypeOK, TempTypeOK, SweepTurn, mapVars, history, tempVars
<1>5. CASE SweepToken
  <2>1. sweep' \in Sweep
    BY <1>5 DEF TypeOK, SweepToken, Sweep, ExpiredTokens
  <2> QED
    BY <1>5, <2>1 DEF TypeOK, TempTypeOK, SweepToken, mapVars, history, tempVars
<1>6. CASE SweepDelete
  <2>1. sweep' \in Sweep
    BY <1>6 DEF TypeOK, SweepDelete, Sweep
  <2>2. tokens' \in [Nonce -> Nat \cup {Absent}]
    BY <1>6 DEF TypeOK, SweepDelete, Without
  <2> QED
    BY <1>6, <2>1, <2>2 DEF TypeOK, TempTypeOK, SweepDelete, history, tempVars
<1>7. CASE SweepEnd
  <2>1. sweep' \in Sweep
    BY <1>7 DEF TypeOK, SweepEnd, Sweep
  <2> QED
    BY <1>7, <2>1 DEF TypeOK, TempTypeOK, SweepEnd, mapVars, history, tempVars
<1> QED
  BY <1>2, <1>3, <1>4, <1>5, <1>6, <1>7 DEF CleanupLoop

\* The types hold after every step of the system.
LEMMA NextType == TypeOK /\ [Next]_vars => TypeOK'
<1> SUFFICES ASSUME TypeOK, [Next]_vars PROVE TypeOK'
  OBVIOUS
<1>1. CASE Tick
  <2>1. now' \in Time
    BY <1>1, TemperatureAssumption DEF Tick, TypeOK, Time
  <2>2. sweep' \in Sweep
    BY <1>1 DEF Tick, TypeOK, Sweep
  <2> QED
    BY <1>1, <2>1, <2>2 DEF Tick, TypeOK, TempTypeOK, mapVars, history, tempVars
<1>2. CASE CleanupLoop
  BY <1>2, SweepType
<1>3. CASE CleanupStore
  <2>1. now - Window \in Int
    BY TimeIsNat, TemperatureAssumption DEF TypeOK
  <2>2. TempTypeOK'
    BY <1>3, <2>1, CleanupType DEF CleanupStore, TypeOK
  <2> QED
    BY <1>3, <2>2 DEF CleanupStore, TypeOK, mapVars, history
<1>4. CASE \E h \in Handler : Serve(h)
  BY <1>4, ServeType
<1>5. CASE UNCHANGED vars
  BY <1>5 DEF vars, TypeOK, TempTypeOK, mapVars, history, tempVars
<1> QED
  BY <1>1, <1>2, <1>3, <1>4, <1>5 DEF Next

\* Every reachable state is well typed: in particular no handler works on a
\* challenge it did not load, and no bucket is outside 0..3.
THEOREM TypeCorrect == Spec => []TypeOK
BY InitType, NextType, PTL DEF Spec

-----------------------------------------------------------------------------
(***************************************************************************)
(* An accepted nonce is remembered for TokenTTL.                           *)
(*                                                                         *)
(* The sweep deletes a key it judged earlier, so the expiry it read must   *)
(* still be there when it deletes: no handler may store the key between.   *)
(* A handler that may still store it found it absent when it began, so     *)
(* what is in the map now was stored since, and expires TokenTTL after the *)
(* handler began or later; the handler itself is younger than that.        *)
(***************************************************************************)

\* A handler is at most MaxHandlerTime old.
Timely ==
    \A h \in Handler : task[h] # Idle =>
        task[h].since <= now /\ now <= task[h].since + MaxHandlerTime

\* What a handler that may still accept a nonce would overwrite is new.
RedeemsOnlyNew ==
    \A h \in Handler : task[h].stage = "redeem" =>
        (tokens[task[h].token.nonce] # Absent =>
             tokens[task[h].token.nonce] >= task[h].since + TokenTTL)

\* The entry the sweep is about to delete is the expired one it read.
SweepsOnlyOld ==
    /\ sweep.cutoff <= now
    /\ sweep.doomed # Absent =>
          tokens[sweep.doomed] # Absent /\ tokens[sweep.doomed] < sweep.cutoff

\* A nonce accepted within TokenTTL is in the map, to stay until then.
Remembered ==
    \A r \in redemptions :
        /\ r.at <= now
        /\ \/ now > r.at + TokenTTL
           \/ tokens[r.nonce] # Absent /\ tokens[r.nonce] >= r.at + TokenTTL

MemoryInv == Timely /\ RedeemsOnlyNew /\ SweepsOnlyOld /\ Remembered /\ ReplayNeedsOverlap

\* An idle handler is not at any stage of a request.
LEMMA IdleStage == Idle.stage = "idle"
BY DEF Idle

LEMMA MemoryInit == Init => MemoryInv
BY ServerAssumption, IdleStage
DEF Init, MemoryInv, Timely, RedeemsOnlyNew, SweepsOnlyOld, Remembered, ReplayNeedsOverlap

\* Steps of a handler that touch neither map nor history of /siteverify:
\* it answers, begins a request, or goes on with one at the same age.
LEMMA MemoryLocal ==
    ASSUME TypeOK, MemoryInv, NEW h \in Handler, NEW next, Goto(h, next),
           \/ next = Idle
           \/ /\ next.stage # "redeem"
              /\ \/ next.since = now
                 \/ task[h] # Idle /\ next.since = task[h].since,
           UNCHANGED <<now, tokens, sweep, redemptions>>
    PROVE  MemoryInv'
<1> USE TimeIsNat, ServerAssumption, IdleStage
<1>1. /\ task' \in [Handler -> {task'[g] : g \in Handler}]
      /\ task'[h] = next
      /\ \A g \in Handler : g # h => task'[g] = task[g]
  BY DEF Goto, TypeOK
<1>2. Timely'
  BY <1>1 DEF MemoryInv, Timely, TypeOK
<1>3. RedeemsOnlyNew'
  BY <1>1 DEF MemoryInv, RedeemsOnlyNew
<1>4. SweepsOnlyOld' /\ Remembered'
  BY DEF MemoryInv, SweepsOnlyOld, Remembered
<1>5. ReplayNeedsOverlap'
  BY <1>1 DEF MemoryInv, ReplayNeedsOverlap
<1> QED
  BY <1>2, <1>3, <1>4, <1>5 DEF MemoryInv

\* A token is taken up: the nonce is not in the map, so every acceptance
\* of it is more than TokenTTL ago.
LEMMA MemoryLoad ==
    ASSUME TypeOK, MemoryInv, NEW h \in Handler, SiteverifyLoad(h)
    PROVE  MemoryInv'
<1> USE TimeIsNat, ServerAssumption, IdleStage
<1>1. PICK nonce \in Nonce, meta \in {o.meta : o \in offers} :
         tokens[nonce] = Absent /\ Goto(h, Redeeming(nonce, meta))
  BY DEF SiteverifyLoad, Seen
<1>2. UNCHANGED <<now, tokens, sweep, redemptions>>
  BY DEF SiteverifyLoad, mapVars, history
<1>3. /\ task'[h] = Redeeming(nonce, meta)
      /\ \A g \in Handler : g # h => task'[g] = task[g]
  BY <1>1 DEF Goto, TypeOK
<1>4. /\ task'[h].stage = "redeem"
      /\ task'[h].since = now
      /\ task'[h].token.nonce = nonce
  BY <1>3 DEF Redeeming
<1>5. Timely'
  BY <1>2, <1>3, <1>4 DEF MemoryInv, Timely, TypeOK
<1>6. RedeemsOnlyNew'
  BY <1>1, <1>2, <1>3, <1>4 DEF MemoryInv, RedeemsOnlyNew
<1>7. SweepsOnlyOld' /\ Remembered'
  BY <1>2 DEF MemoryInv, SweepsOnlyOld, Remembered
<1>8. \A r \in redemptions : r.nonce = nonce => now > r.at + TokenTTL
  BY <1>1 DEF MemoryInv, Remembered
<1>9. ReplayNeedsOverlap'
  BY <1>2, <1>3, <1>4, <1>8 DEF MemoryInv, ReplayNeedsOverlap
<1> QED
  BY <1>5, <1>6, <1>7, <1>9 DEF MemoryInv

\* A token is accepted.  The sweep is not about to delete its nonce: that
\* entry would be older than the handler that accepts it may be.
LEMMA MemoryRedeem ==
    ASSUME TypeOK, MemoryInv, NEW h \in Handler, SiteverifyRedeem(h)
    PROVE  MemoryInv'
<1> USE TimeIsNat, ServerAssumption, IdleStage
<1> DEFINE nonce == task[h].token.nonce
           expiry == now + TokenTTL
           accepted == [nonce |-> nonce, meta |-> task[h].token.meta, at |-> now, by |-> h]
<1>1. /\ now \in Nat /\ expiry \in Nat /\ expiry # Absent
      /\ task[h].stage = "redeem" /\ task[h] # Idle
      /\ nonce \in Nonce /\ task[h].since \in Nat
  <2>1. task[h].stage = "redeem" /\ task[h] \in Task
    BY DEF SiteverifyRedeem, TypeOK
  <2>2. nonce \in Nonce /\ task[h].since \in Nat
    BY <2>1 DEF Task, Token, Idle
  <2> QED
    BY <2>1, <2>2 DEF TypeOK
<1>2. /\ tokens' = [tokens EXCEPT ![nonce] = expiry]
      /\ redemptions' = redemptions \cup {accepted}
      /\ UNCHANGED <<now, sweep>>
  BY DEF SiteverifyRedeem
<1>3. /\ task'[h] = Idle
      /\ \A g \in Handler : g # h => task'[g] = task[g]
  BY DEF SiteverifyRedeem, Answer, Goto, TypeOK
<1>4. /\ tokens'[nonce] = expiry
      /\ \A n \in Nonce : n # nonce => tokens'[n] = tokens[n]
  BY <1>1, <1>2 DEF TypeOK
<1>5. accepted.nonce = nonce /\ accepted.at = now /\ accepted.by = h
  OBVIOUS
<1> HIDE DEF nonce, expiry, accepted
<1>6. Timely'
  BY <1>2, <1>3 DEF MemoryInv, Timely
<1>7. RedeemsOnlyNew'
  <2> SUFFICES ASSUME NEW g \in Handler, g # h, task[g].stage = "redeem",
                      tokens'[task[g].token.nonce] # Absent
               PROVE  tokens'[task[g].token.nonce] >= task[g].since + TokenTTL
    BY <1>3 DEF RedeemsOnlyNew
  <2>1. task[g].token.nonce \in Nonce /\ task[g].since \in Nat
    BY DEF TypeOK, Task, Token, Idle
  <2>2. task[g].since <= now
    BY DEF MemoryInv, Timely
  <2> QED
    BY <1>1, <1>4, <2>1, <2>2 DEF MemoryInv, RedeemsOnlyNew, expiry
<1>8. sweep.doomed # Absent => sweep.doomed # nonce
  <2> SUFFICES ASSUME sweep.doomed # Absent, sweep.doomed = nonce
               PROVE  FALSE
    OBVIOUS
  <2>1. /\ tokens[nonce] # Absent
        /\ tokens[nonce] < sweep.cutoff
        /\ sweep.cutoff <= now
    BY DEF MemoryInv, SweepsOnlyOld
  <2>2. tokens[nonce] >= task[h].since + TokenTTL
    BY <1>1, <2>1 DEF MemoryInv, RedeemsOnlyNew, nonce
  <2>3. now <= task[h].since + MaxHandlerTime
    BY <1>1 DEF MemoryInv, Timely
  <2>4. tokens[nonce] \in Nat /\ sweep.cutoff \in Nat
    BY <1>1, <2>1 DEF TypeOK, Sweep
  <2> QED
    BY <1>1, <2>1, <2>2, <2>3, <2>4, HandlersAreTimely
<1>9. SweepsOnlyOld'
  <2>1. sweep.doomed # Absent => sweep.doomed \in Nonce
    BY DEF TypeOK, Sweep
  <2> QED
    BY <1>2, <1>4, <1>8, <2>1 DEF MemoryInv, SweepsOnlyOld
<1>10. Remembered'
  <2> SUFFICES ASSUME NEW r \in redemptions'
               PROVE  /\ r.at <= now
                      /\ \/ now > r.at + TokenTTL
                         \/ /\ tokens'[r.nonce] # Absent
                            /\ tokens'[r.nonce] >= r.at + TokenTTL
    BY <1>2 DEF Remembered
  <2>1. CASE r = accepted
    BY <1>1, <1>4, <1>5, <2>1 DEF expiry
  <2>2. CASE r \in redemptions
    <3>1. r.nonce \in Nonce /\ r.at \in Nat
      BY <2>2 DEF TypeOK, Redemption
    <3>2. r.at <= now
      BY <2>2 DEF MemoryInv, Remembered
    <3>3. CASE r.nonce = nonce
      BY <1>1, <1>4, <3>1, <3>2, <3>3 DEF expiry
    <3>4. CASE r.nonce # nonce
      BY <1>4, <2>2, <3>1, <3>4 DEF MemoryInv, Remembered
    <3> QED
      BY <3>3, <3>4
  <2> QED
    BY <1>2, <2>1, <2>2
<1>11. ReplayNeedsOverlap'
  <2> SUFFICES ASSUME NEW g \in Handler, g # h, task[g].stage = "redeem",
                      NEW r \in redemptions', r.nonce = task[g].token.nonce, r.by = g
               PROVE  now > r.at + TokenTTL
    BY <1>2, <1>3 DEF ReplayNeedsOverlap
  <2>1. r \in redemptions
    BY <1>2, <1>5
  <2> QED
    BY <2>1 DEF MemoryInv, ReplayNeedsOverlap
<1> QED
  BY <1>6, <1>7, <1>9, <1>10, <1>11 DEF MemoryInv

LEMMA MemoryServe ==
    ASSUME TypeOK, MemoryInv, NEW h \in Handler, Serve(h)
    PROVE  MemoryInv'
<1> USE IdleStage
<1>1. CASE Refuse(h)
  BY <1>1
  DEF Refuse, vars, mapVars, history, MemoryInv, Timely, RedeemsOnlyNew, SweepsOnlyOld,
      Remembered, ReplayNeedsOverlap
<1>2. CASE ChallengeRecord(h)
  <2>1. PICK id \in ChallengeID, ip \in IP, site \in Site :
           Goto(h, [stage |-> "score", id |-> id, ip |-> ip, site |-> site, since |-> now])
    BY <1>2 DEF ChallengeRecord
  <2> QED
    BY <1>2, <2>1, MemoryLocal DEF ChallengeRecord, mapVars, history
<1>3. CASE ChallengeScore(h)
  <2>1. PICK b, e :
           Goto(h, [stage |-> "offer", id |-> task[h].id, bucket |-> b,
                    expiresAt |-> e, since |-> task[h].since])
    BY <1>3 DEF ChallengeScore
  <2> QED
    BY <1>3, <2>1, MemoryLocal DEF ChallengeScore, mapVars, history
<1>4. CASE ChallengeOffer(h)
  BY <1>4, MemoryLocal DEF ChallengeOffer, Answer
<1>5. CASE VerifyLoad(h)
  <2>1. PICK id \in ChallengeID :
           Goto(h, [stage |-> "delete", id |-> id, entry |-> challenges[id], since |-> now])
    BY <1>5 DEF VerifyLoad
  <2> QED
    BY <1>5, <2>1, MemoryLocal DEF VerifyLoad, mapVars, history
<1>6. CASE VerifyDelete(h)
  <2> DEFINE next == [task[h] EXCEPT !.stage = "check"]
  <2>1. task[h] # Idle /\ next.stage # "redeem" /\ next.since = task[h].since
    BY <1>6 DEF VerifyDelete, TypeOK, Task, Idle
  <2>2. Goto(h, next)
    BY <1>6 DEF VerifyDelete
  <2> HIDE DEF next
  <2> QED
    BY <1>6, <2>1, <2>2, MemoryLocal DEF VerifyDelete
<1>7. CASE VerifyPass(h)
  <2>1. PICK c, p :
           Goto(h, [stage |-> "record", id |-> task[h].id, entry |-> task[h].entry,
                    class |-> c, pass |-> p, since |-> task[h].since])
    BY <1>7 DEF VerifyPass
  <2> QED
    BY <1>7, <2>1, MemoryLocal DEF VerifyPass, mapVars, history
<1>8. CASE VerifyReject(h)
  BY <1>8, MemoryLocal DEF VerifyReject, Answer, mapVars, history
<1>9. CASE VerifyRecord(h)
  BY <1>9, MemoryLocal DEF VerifyRecord, mapVars, history
<1>10. CASE VerifyUnsigned(h)
  BY <1>10, MemoryLocal DEF VerifyUnsigned, Answer, mapVars, history
<1>11. CASE VerifyIssue(h)
  BY <1>11, MemoryLocal DEF VerifyIssue, Answer, mapVars
<1>12. CASE SiteverifyLoad(h)
  BY <1>12, MemoryLoad
<1>13. CASE SiteverifyInvalid(h)
  BY <1>13, MemoryLocal DEF SiteverifyInvalid, Answer, mapVars, history
<1>14. CASE SiteverifyRedeem(h)
  BY <1>14, MemoryRedeem
<1> QED
  BY <1>1, <1>2, <1>3, <1>4, <1>5, <1>6, <1>7, <1>8, <1>9, <1>10, <1>11, <1>12, <1>13,
     <1>14
  DEF Serve, Continue

\* The sweep only drops what has expired.
LEMMA MemorySweep ==
    ASSUME TypeOK, MemoryInv, CleanupLoop
    PROVE  MemoryInv'
<1> USE TimeIsNat, ServerAssumption
<1>1. now \in Nat /\ sweep.cutoff \in Nat
  BY DEF TypeOK, Sweep
<1>2. UNCHANGED <<now, task, redemptions>>
  BY DEF CleanupLoop, SweepStart, SweepChallenge, SweepTurn, SweepToken, SweepDelete,
         SweepEnd, history
<1>3. Timely' /\ ReplayNeedsOverlap'
  BY <1>2 DEF MemoryInv, Timely, ReplayNeedsOverlap
<1>4. CASE SweepDelete
  <2> DEFINE n == sweep.doomed
  <2>1. n \in Nonce /\ tokens[n] \in Nat /\ tokens[n] < sweep.cutoff /\ sweep.cutoff <= now
    BY <1>4 DEF SweepDelete, TypeOK, Sweep, MemoryInv, SweepsOnlyOld
  <2>2. tokens'[n] = Absent /\ \A m \in Nonce : m # n => tokens'[m] = tokens[m]
    BY <1>4, <2>1 DEF SweepDelete, Without, TypeOK
  <2>3. sweep'.doomed = Absent /\ sweep'.cutoff = sweep.cutoff
    BY <1>4 DEF SweepDelete, TypeOK, Sweep
  <2> HIDE DEF n
  <2>4. RedeemsOnlyNew'
    <3> SUFFICES ASSUME NEW h \in Handler, task[h].stage = "redeem",
                        tokens'[task[h].token.nonce] # Absent
                 PROVE  tokens'[task[h].token.nonce] >= task[h].since + TokenTTL
      BY <1>2 DEF RedeemsOnlyNew
    <3>1. task[h].token.nonce \in Nonce
      BY DEF TypeOK, Task, Token, Idle
    <3> QED
      BY <2>2, <3>1 DEF MemoryInv, RedeemsOnlyNew
  <2>5. SweepsOnlyOld'
    BY <1>2, <2>1, <2>3 DEF SweepsOnlyOld
  <2>6. Remembered'
    <3> SUFFICES ASSUME NEW r \in redemptions
                 PROVE  /\ r.at <= now
                        /\ \/ now > r.at + TokenTTL
                           \/ /\ tokens'[r.nonce] # Absent
                              /\ tokens'[r.nonce] >= r.at + TokenTTL
      BY <1>2 DEF Remembered
    <3>1. r.nonce \in Nonce /\ r.at \in Nat
      BY DEF TypeOK, Redemption
    <3>2. CASE r.nonce = n
      BY <1>1, <2>1, <3>1, <3>2 DEF MemoryInv, Remembered
    <3>3. CASE r.nonce # n
      BY <2>2, <3>1, <3>3 DEF MemoryInv, Remembered
    <3> QED
      BY <3>2, <3>3
  <2> QED
    BY <1>3, <2>4, <2>5, <2>6 DEF MemoryInv
<1>5. CASE ~SweepDelete
  <2>1. UNCHANGED tokens
    BY <1>5 DEF CleanupLoop, SweepStart, SweepChallenge, SweepTurn, SweepToken, SweepEnd,
                mapVars
  <2>2. RedeemsOnlyNew' /\ Remembered'
    BY <1>2, <2>1 DEF MemoryInv, RedeemsOnlyNew, Remembered
  <2>3. SweepsOnlyOld'
    <3>1. CASE SweepStart
      <4>1. sweep'.cutoff = now /\ sweep'.doomed = sweep.doomed
        BY <3>1 DEF SweepStart, TypeOK, Sweep
      <4>2. sweep.doomed # Absent => tokens[sweep.doomed] \in Nat
        BY DEF TypeOK, Sweep, MemoryInv, SweepsOnlyOld
      <4> QED
        BY <1>1, <1>2, <2>1, <4>1, <4>2 DEF MemoryInv, SweepsOnlyOld
    <3>2. CASE SweepChallenge
      BY <1>2, <2>1, <3>2 DEF SweepChallenge, MemoryInv, SweepsOnlyOld
    <3>3. CASE SweepTurn
      BY <1>2, <2>1, <3>3 DEF SweepTurn, MemoryInv, SweepsOnlyOld, TypeOK, Sweep
    <3>4. CASE SweepToken
      <4>1. PICK n \in ExpiredTokens : sweep' = [sweep EXCEPT !.doomed = n]
        BY <3>4 DEF SweepToken
      <4>2. sweep'.doomed = n /\ sweep'.cutoff = sweep.cutoff
        BY <4>1 DEF TypeOK, Sweep
      <4> QED
        BY <1>2, <2>1, <4>1, <4>2
        DEF ExpiredTokens, Expired, MemoryInv, SweepsOnlyOld
    <3>5. CASE SweepEnd
      <4>1. sweep'.doomed = Absent /\ sweep'.cutoff = 0
        BY <3>5 DEF SweepEnd, TypeOK, Sweep
      <4> QED
        BY <1>1, <1>2, <4>1 DEF SweepsOnlyOld
    <3> QED
      BY <1>5, <3>1, <3>2, <3>3, <3>4, <3>5 DEF CleanupLoop
  <2> QED
    BY <1>3, <2>2, <2>3 DEF MemoryInv
<1> QED
  BY <1>4, <1>5

\* Time passes only while every running handler may still grow older.
LEMMA MemoryTick ==
    ASSUME TypeOK, MemoryInv, Tick
    PROVE  MemoryInv'
<1> USE TimeIsNat, ServerAssumption
<1>1. now \in Nat /\ now' = now + 1 /\ UNCHANGED <<tokens, task, redemptions>>
  BY DEF Tick, TypeOK, mapVars, history
<1>2. sweep'.cutoff = sweep.cutoff /\ sweep'.doomed = sweep.doomed
  BY DEF Tick, TypeOK, Sweep
<1>3. sweep.cutoff \in Nat
  BY DEF TypeOK, Sweep
<1>4. Timely'
  <2> SUFFICES ASSUME NEW h \in Handler, task[h] # Idle
               PROVE  task[h].since <= now + 1 /\ now + 1 <= task[h].since + MaxHandlerTime
    BY <1>1 DEF Timely
  <2>1. task[h].since \in Nat
    BY DEF TypeOK, Task
  <2>2. now - task[h].since < MaxHandlerTime
    BY DEF Tick
  <2>3. task[h].since <= now
    BY DEF MemoryInv, Timely
  <2> QED
    BY <1>1, <2>1, <2>2, <2>3
<1>5. RedeemsOnlyNew'
  BY <1>1 DEF MemoryInv, RedeemsOnlyNew
<1>6. SweepsOnlyOld'
  BY <1>1, <1>2, <1>3 DEF MemoryInv, SweepsOnlyOld
<1>7. \A r \in redemptions : r.at \in Nat /\ r.nonce \in Nonce
  BY DEF TypeOK, Redemption
<1>8. Remembered'
  BY <1>1, <1>7 DEF MemoryInv, Remembered
<1>9. ReplayNeedsOverlap'
  BY <1>1, <1>7 DEF MemoryInv, ReplayNeedsOverlap
<1> QED
  BY <1>4, <1>5, <1>6, <1>8, <1>9 DEF MemoryInv

LEMMA MemoryNext == TypeOK /\ MemoryInv /\ [Next]_vars => MemoryInv'
<1> SUFFICES ASSUME TypeOK, MemoryInv, [Next]_vars PROVE MemoryInv'
  OBVIOUS
<1>1. CASE Tick
  BY <1>1, MemoryTick
<1>2. CASE CleanupLoop
  BY <1>2, MemorySweep
<1>3. CASE CleanupStore \/ UNCHANGED vars
  BY <1>3
  DEF CleanupStore, vars, mapVars, history, MemoryInv, Timely, RedeemsOnlyNew,
      SweepsOnlyOld, Remembered, ReplayNeedsOverlap
<1>4. CASE \E h \in Handler : Serve(h)
  BY <1>4, MemoryServe
<1> QED
  BY <1>1, <1>2, <1>3, <1>4 DEF Next

LEMMA MemoryAlways == Spec => []MemoryInv
<1>1. TypeOK /\ TypeOK' /\ MemoryInv /\ [Next]_vars => MemoryInv'
  BY MemoryNext
<1> QED
  BY <1>1, MemoryInit, TypeCorrect, PTL DEF Spec

\* For TokenTTL after its acceptance a nonce is in the map, whatever the
\* sweep is doing, as long as no handler runs longer than TokenTTL.
THEOREM NoncesRemembered == Spec => []AcceptedNonceRemembered
<1>1. TypeOK /\ MemoryInv => AcceptedNonceRemembered
  <2> SUFFICES ASSUME TypeOK, MemoryInv, NEW r \in redemptions, now <= r.at + TokenTTL
               PROVE  tokens[r.nonce] # Absent
    BY DEF AcceptedNonceRemembered
  <2>1. now \in Nat /\ r.at \in Nat
    BY TimeIsNat DEF TypeOK, Redemption
  <2> QED
    BY <2>1, ServerAssumption DEF MemoryInv, Remembered
<1> QED
  BY <1>1, TypeCorrect, MemoryAlways, PTL

\* A second acceptance of a nonce within TokenTTL comes from a handler that
\* began before the first: replays sent one after the other are refused.
THEOREM ReplaysNeedOverlap == Spec => []ReplayNeedsOverlap
<1>1. MemoryInv => ReplayNeedsOverlap
  BY DEF MemoryInv
<1> QED
  BY <1>1, MemoryAlways, PTL

-----------------------------------------------------------------------------
(***************************************************************************)
(* From challenge to token: a challenge is kept for the client until its   *)
(* deadline or until it is taken, nothing is signed but what was offered   *)
(* with it, nothing is signed long after its deadline, and nothing is      *)
(* accepted but what was signed.                                           *)
(***************************************************************************)
\* The client was sent this challenge: its metadata and its deadline.
Offered(id, entry) ==
    \E o \in offers :
        o.id = id /\ o.meta = entry.predictedMeta /\ o.expiresAt = entry.expiresAt

\* What a request in progress knows is true, and stays true: everything it
\* mentions only grows.
TaskFine(k) ==
    /\ k.stage = "offer" => k.expiresAt <= now + ChallengeTTL
    /\ k.stage \in {"delete", "check", "record", "sign"} => Offered(k.id, k.entry)
    /\ k.stage \in {"check", "record", "sign"} => k.id \in taken
    /\ k.stage \in {"record", "sign"} => k.since <= k.entry.expiresAt
    /\ k.stage = "redeem" /\ k.token.genuine => Genuine(k.token.nonce, k.token.meta)

TasksFine == \A h \in Handler : TaskFine(task[h])

EntriesOffered ==
    \A id \in ChallengeID : challenges[id] # Absent => Offered(id, challenges[id])

\* Offers are in the past and their deadlines at most ChallengeTTL ahead.
OffersFine ==
    \A o \in offers : o.at <= now /\ o.expiresAt <= now + ChallengeTTL

\* A challenge that is still good has an entry that outlives its deadline.
OffersKept ==
    \A o \in offers :
        \/ o.id \in taken
        \/ now > o.expiresAt
        \/ challenges[o.id] # Absent /\ challenges[o.id].expiry >= o.expiresAt

IssuancesTaken == \A i \in issuances : i.id \in taken

IssueInv ==
    /\ TasksFine /\ EntriesOffered /\ OffersFine /\ OffersKept
    /\ IssuancesTaken /\ SignedUnderOfferedMeta /\ AcceptedWasIssued

-----------------------------------------------------------------------------
LEMMA IssueInit == Init => IssueInv
BY IdleStage
DEF Init, IssueInv, TasksFine, TaskFine, EntriesOffered, OffersFine, OffersKept,
    IssuancesTaken, SignedUnderOfferedMeta, AcceptedWasIssued

\* What is fine stays fine when time passes and history grows.
LEMMA StaysFine ==
    ASSUME TypeOK, IssueInv, NEW g \in Handler, task'[g] = task[g],
           now' \in Nat, now <= now', offers \subseteq offers', taken \subseteq taken',
           issuances \subseteq issuances'
    PROVE  TaskFine(task[g])'
<1> USE TimeIsNat, ServerAssumption
<1>1. TaskFine(task[g])
  BY DEF IssueInv, TasksFine
<1>2. now \in Nat /\ task[g] \in Task
  BY DEF TypeOK
<1>3. task[g].stage = "offer" => task[g].expiresAt <= now' + ChallengeTTL
  BY <1>1, <1>2 DEF TaskFine, Task, Idle
<1>4. ASSUME Offered(task[g].id, task[g].entry)
      PROVE  Offered(task[g].id, task[g].entry)'
  BY <1>4 DEF Offered
<1>5. ASSUME Genuine(task[g].token.nonce, task[g].token.meta)
      PROVE  Genuine(task[g].token.nonce, task[g].token.meta)'
  BY <1>5 DEF Genuine
<1> QED
  BY <1>1, <1>3, <1>4, <1>5 DEF TaskFine

\* Steps of a handler that change nothing but its own task.
LEMMA IssueLocal ==
    ASSUME TypeOK, IssueInv, NEW h \in Handler, NEW next, Goto(h, next), TaskFine(next),
           UNCHANGED <<now, challenges, offers, taken, issuances, redemptions>>
    PROVE  IssueInv'
<1>1. task'[h] = next /\ \A g \in Handler : g # h => task'[g] = task[g]
  BY DEF Goto, TypeOK
<1>2. now \in Nat
  BY TimeIsNat DEF TypeOK
<1>3. TaskFine(task[h])'
  BY <1>1 DEF TaskFine, Offered, Genuine
<1>4. \A g \in Handler : g # h => TaskFine(task[g])'
  BY <1>1, <1>2, StaysFine
<1>5. TasksFine'
  BY <1>3, <1>4 DEF TasksFine
<1> QED
  BY <1>5 DEF IssueInv, EntriesOffered, Offered, OffersFine, OffersKept,
              IssuancesTaken, SignedUnderOfferedMeta, AcceptedWasIssued

\* A challenge is offered: its entry outlives every deadline sent so far.
LEMMA IssueOffer ==
    ASSUME TypeOK, IssueInv, NEW h \in Handler, ChallengeOffer(h)
    PROVE  IssueInv'
<1> USE TimeIsNat, ServerAssumption
<1> DEFINE id == task[h].id
           entry == EntryFor(task[h].bucket, task[h].expiresAt, now)
           offer == [ id |-> id, meta |-> entry.predictedMeta,
                      expiresAt |-> entry.expiresAt, at |-> now ]
<1>1. /\ now \in Nat
      /\ id \in ChallengeID
      /\ entry \in Entry
      /\ entry.expiresAt \in Nat
      /\ entry.expiry = now + ChallengeTTL
      /\ entry.expiresAt <= now + ChallengeTTL
  <2>1. /\ task[h].stage = "offer"
        /\ task[h] \in Task
        /\ task[h].bucket \in Bucket
        /\ task[h].expiresAt \in Nat
        /\ id \in ChallengeID
    BY DEF ChallengeOffer, TypeOK, Task, Idle
  <2>2. task[h].expiresAt <= now + ChallengeTTL
    BY <2>1 DEF IssueInv, TasksFine, TaskFine
  <2>3. now \in Nat
    BY DEF TypeOK
  <2>4. entry \in Entry
    BY <2>1, <2>3, EntryType
  <2> QED
    BY <2>1, <2>2, <2>3, <2>4 DEF EntryFor
<1>2. /\ challenges' = [challenges EXCEPT ![id] = entry]
      /\ offers' = offers \cup {offer}
      /\ UNCHANGED <<now, taken, issuances, redemptions>>
  BY DEF ChallengeOffer
<1>3. /\ task'[h] = Idle
      /\ \A g \in Handler : g # h => task'[g] = task[g]
  BY DEF ChallengeOffer, Answer, Goto, TypeOK
<1>4. /\ offer.id = id
      /\ offer.meta = entry.predictedMeta
      /\ offer.expiresAt = entry.expiresAt
      /\ offer.at = now
  OBVIOUS
<1>5. /\ challenges'[id] = entry
      /\ entry # Absent
      /\ \A i \in ChallengeID : i # id => challenges'[i] = challenges[i]
  BY <1>1, <1>2, AbsentIsNoEntry DEF TypeOK
<1> HIDE DEF id, entry, offer
<1>6. TasksFine'
  <2>1. TaskFine(task[h])'
    BY <1>3, IdleStage DEF TaskFine
  <2>2. \A g \in Handler : g # h => TaskFine(task[g])'
    BY <1>1, <1>2, <1>3, StaysFine
  <2> QED
    BY <2>1, <2>2 DEF TasksFine
<1>7. EntriesOffered'
  BY <1>2, <1>4, <1>5 DEF IssueInv, EntriesOffered, Offered
<1>8. OffersFine'
  BY <1>1, <1>2, <1>4 DEF IssueInv, OffersFine
<1>9. OffersKept'
  <2> SUFFICES ASSUME NEW o \in offers'
               PROVE  \/ o.id \in taken
                      \/ now > o.expiresAt
                      \/ challenges'[o.id] # Absent /\ challenges'[o.id].expiry >= o.expiresAt
    BY <1>2 DEF OffersKept
  <2>1. CASE o.id = id
    <3>1. o.expiresAt <= now + ChallengeTTL
      BY <1>1, <1>2, <1>4 DEF IssueInv, OffersFine
    <3>2. o.expiresAt \in Nat
      BY <1>1, <1>2, <1>4 DEF TypeOK, Offer
    <3> QED
      BY <1>1, <1>5, <2>1, <3>1, <3>2
  <2>2. CASE o.id # id
    <3>1. o \in offers /\ o.id \in ChallengeID
      BY <1>2, <1>4, <2>2 DEF TypeOK, Offer
    <3> QED
      BY <1>5, <2>2, <3>1 DEF IssueInv, OffersKept
  <2> QED
    BY <2>1, <2>2
<1>10. IssuancesTaken' /\ SignedUnderOfferedMeta' /\ AcceptedWasIssued'
  BY <1>2 DEF IssueInv, IssuancesTaken, SignedUnderOfferedMeta, AcceptedWasIssued
<1> QED
  BY <1>6, <1>7, <1>8, <1>9, <1>10 DEF IssueInv

\* A challenge is taken out of the map.
LEMMA IssueDelete ==
    ASSUME TypeOK, IssueInv, NEW h \in Handler, VerifyDelete(h)
    PROVE  IssueInv'
<1> DEFINE id == task[h].id
           next == [task[h] EXCEPT !.stage = "check"]
<1>1. /\ now \in Nat
      /\ id \in ChallengeID
      /\ task[h].stage = "delete"
      /\ next.stage = "check" /\ next.id = id /\ next.entry = task[h].entry
  BY TimeIsNat DEF VerifyDelete, TypeOK, Task, Idle
<1>2. /\ challenges' = [challenges EXCEPT ![id] = Absent]
      /\ taken' = taken \cup {id}
      /\ UNCHANGED <<now, offers, issuances, redemptions>>
  BY DEF VerifyDelete, Without
<1>3. /\ task'[h] = next
      /\ \A g \in Handler : g # h => task'[g] = task[g]
  BY DEF VerifyDelete, Goto, TypeOK
<1>4. Offered(id, task[h].entry)
  BY <1>1 DEF IssueInv, TasksFine, TaskFine
<1>5. \A i \in ChallengeID :
         challenges'[i] = IF i = id THEN Absent ELSE challenges[i]
  BY <1>1, <1>2 DEF TypeOK
<1> HIDE DEF id, next
<1>6. TasksFine'
  <2>1. TaskFine(task[h])'
    BY <1>1, <1>2, <1>3, <1>4 DEF TaskFine, Offered
  <2>2. \A g \in Handler : g # h => TaskFine(task[g])'
    BY <1>1, <1>2, <1>3, StaysFine
  <2> QED
    BY <2>1, <2>2 DEF TasksFine
<1>7. EntriesOffered'
  BY <1>2, <1>5 DEF IssueInv, EntriesOffered, Offered
<1>8. OffersFine'
  BY <1>2 DEF IssueInv, OffersFine
<1>9. OffersKept'
  <2>1. \A o \in offers : o.id \in ChallengeID
    BY DEF TypeOK, Offer
  <2> QED
    BY <1>2, <1>5, <2>1 DEF IssueInv, OffersKept
<1>10. IssuancesTaken' /\ SignedUnderOfferedMeta' /\ AcceptedWasIssued'
  BY <1>2 DEF IssueInv, IssuancesTaken, SignedUnderOfferedMeta, AcceptedWasIssued
<1> QED
  BY <1>6, <1>7, <1>8, <1>9, <1>10 DEF IssueInv

\* A blind signature is sent, under the metadata of the entry.
LEMMA IssueIssue ==
    ASSUME TypeOK, IssueInv, NEW h \in Handler, VerifyIssue(h)
    PROVE  IssueInv'
<1>1. PICK nonce \in Nonce :
         issuances' = issuances \cup
             {[ id |-> task[h].id, nonce |-> nonce,
                meta |-> SignedMeta(task[h].entry, now), by |-> h ]}
  BY DEF VerifyIssue
<1> DEFINE issuance == [ id |-> task[h].id, nonce |-> nonce,
                         meta |-> SignedMeta(task[h].entry, now), by |-> h ]
<1>2. UNCHANGED <<now, challenges, offers, taken, redemptions>>
  BY DEF VerifyIssue, mapVars
<1>3. /\ task'[h] = Idle
      /\ \A g \in Handler : g # h => task'[g] = task[g]
  BY DEF VerifyIssue, Answer, Goto, TypeOK
<1>4. /\ issuance.id \in taken
      /\ \E o \in offers : o.id = issuance.id /\ o.meta = issuance.meta
  <2>1. task[h].id \in taken /\ Offered(task[h].id, task[h].entry)
    BY DEF VerifyIssue, IssueInv, TasksFine, TaskFine
  <2> QED
    BY <2>1 DEF Offered, SignedMeta
<1>5. issuances' = issuances \cup {issuance}
  BY <1>1
<1> HIDE DEF issuance
<1>6. TasksFine'
  <2>1. TaskFine(task[h])'
    BY <1>3, IdleStage DEF TaskFine
  <2>2. now \in Nat
    BY TimeIsNat DEF TypeOK
  <2>3. \A g \in Handler : g # h => TaskFine(task[g])'
    BY <1>2, <1>3, <1>5, <2>2, StaysFine
  <2> QED
    BY <2>1, <2>3 DEF TasksFine
<1>7. EntriesOffered' /\ OffersFine' /\ OffersKept'
  BY <1>2 DEF IssueInv, EntriesOffered, Offered, OffersFine, OffersKept
<1>8. IssuancesTaken' /\ SignedUnderOfferedMeta'
  BY <1>2, <1>4, <1>5 DEF IssueInv, IssuancesTaken, SignedUnderOfferedMeta
<1>9. AcceptedWasIssued'
  BY <1>2, <1>5 DEF IssueInv, AcceptedWasIssued
<1> QED
  BY <1>6, <1>7, <1>8, <1>9 DEF IssueInv

\* A token is accepted: it verified, so its signature was sent.
LEMMA IssueRedeem ==
    ASSUME TypeOK, IssueInv, NEW h \in Handler, SiteverifyRedeem(h)
    PROVE  IssueInv'
<1> DEFINE nonce == task[h].token.nonce
           meta == task[h].token.meta
           accepted == [nonce |-> nonce, meta |-> meta, at |-> now, by |-> h]
<1>1. /\ redemptions' = redemptions \cup {accepted}
      /\ UNCHANGED <<now, challenges, offers, taken, issuances>>
  BY DEF SiteverifyRedeem
<1>2. /\ task'[h] = Idle
      /\ \A g \in Handler : g # h => task'[g] = task[g]
  BY DEF SiteverifyRedeem, Answer, Goto, TypeOK
<1>3. Genuine(nonce, meta)
  BY DEF SiteverifyRedeem, Verifies, IssueInv, TasksFine, TaskFine
<1>4. accepted.nonce = nonce /\ accepted.meta = meta /\ accepted.at = now
  OBVIOUS
<1> HIDE DEF nonce, meta, accepted
<1>5. TasksFine'
  <2>1. TaskFine(task[h])'
    BY <1>2, IdleStage DEF TaskFine
  <2>2. now \in Nat
    BY TimeIsNat DEF TypeOK
  <2>3. \A g \in Handler : g # h => TaskFine(task[g])'
    BY <1>1, <1>2, <2>2, StaysFine
  <2> QED
    BY <2>1, <2>3 DEF TasksFine
<1>6. EntriesOffered' /\ OffersFine' /\ OffersKept'
  BY <1>1 DEF IssueInv, EntriesOffered, Offered, OffersFine, OffersKept
<1>7. IssuancesTaken' /\ SignedUnderOfferedMeta'
  BY <1>1 DEF IssueInv, IssuancesTaken, SignedUnderOfferedMeta
<1>8. AcceptedWasIssued'
  <2>1. \E i \in issuances, o \in offers :
           /\ i.nonce = nonce /\ i.meta = meta
           /\ o.id = i.id /\ o.meta = meta /\ o.at <= now
           /\ i.id \in taken
    BY <1>3 DEF Genuine, IssueInv, OffersFine, IssuancesTaken
  <2> QED
    BY <1>1, <1>4, <2>1 DEF IssueInv, AcceptedWasIssued
<1> QED
  BY <1>5, <1>6, <1>7, <1>8 DEF IssueInv

LEMMA IssueServe ==
    ASSUME TypeOK, MemoryInv, IssueInv, NEW h \in Handler, Serve(h)
    PROVE  IssueInv'
<1> USE IdleStage, TimeIsNat, ServerAssumption
<1>1. TaskFine(Idle)
  BY DEF TaskFine
<1>2. task[h] \in Task /\ now \in Nat /\ TaskFine(task[h])
  BY DEF TypeOK, IssueInv, TasksFine
<1>3. CASE Refuse(h)
  BY <1>3
  DEF Refuse, vars, mapVars, history, IssueInv, TasksFine, TaskFine, EntriesOffered,
      Offered, OffersFine, OffersKept, IssuancesTaken, SignedUnderOfferedMeta,
      AcceptedWasIssued, Genuine
<1>4. CASE ChallengeRecord(h)
  <2>1. PICK id \in ChallengeID, ip \in IP, site \in Site :
           Goto(h, [stage |-> "score", id |-> id, ip |-> ip, site |-> site, since |-> now])
    BY <1>4 DEF ChallengeRecord
  <2> DEFINE next == [stage |-> "score", id |-> id, ip |-> ip, site |-> site, since |-> now]
  <2>2. TaskFine(next)
    BY DEF TaskFine
  <2> QED
    BY <1>4, <2>1, <2>2, IssueLocal DEF ChallengeRecord, mapVars, history
<1>5. CASE ChallengeScore(h)
  <2>1. PICK b :
           Goto(h, [stage |-> "offer", id |-> task[h].id, bucket |-> b,
                    expiresAt |-> now + ChallengeTTL, since |-> task[h].since])
    BY <1>5 DEF ChallengeScore
  <2> DEFINE next == [stage |-> "offer", id |-> task[h].id, bucket |-> b,
                      expiresAt |-> now + ChallengeTTL, since |-> task[h].since]
  <2>2. TaskFine(next)
    BY <1>2 DEF TaskFine
  <2> QED
    BY <1>5, <2>1, <2>2, IssueLocal DEF ChallengeScore, mapVars, history
<1>6. CASE ChallengeOffer(h)
  BY <1>6, IssueOffer
<1>7. CASE VerifyLoad(h)
  <2>1. PICK id \in ChallengeID :
           /\ challenges[id] # Absent
           /\ Goto(h, [stage |-> "delete", id |-> id, entry |-> challenges[id],
                       since |-> now])
    BY <1>7 DEF VerifyLoad
  <2> DEFINE next == [stage |-> "delete", id |-> id, entry |-> challenges[id], since |-> now]
  <2>2. Offered(id, challenges[id])
    BY <2>1 DEF IssueInv, EntriesOffered
  <2>3. TaskFine(next)
    BY <2>2 DEF TaskFine
  <2> QED
    BY <1>7, <2>1, <2>3, IssueLocal DEF VerifyLoad, mapVars, history
<1>8. CASE VerifyDelete(h)
  BY <1>8, IssueDelete
<1>9. CASE VerifyPass(h)
  <2>1. PICK proof \in Proof :
           /\ Accepts(task[h].entry, proof, now)
           /\ Goto(h, [stage |-> "record", id |-> task[h].id, entry |-> task[h].entry,
                       class |-> ClassReached(proof), pass |-> proof.probePass,
                       since |-> task[h].since])
    BY <1>9 DEF VerifyPass
  <2> DEFINE next == [stage |-> "record", id |-> task[h].id, entry |-> task[h].entry,
                      class |-> ClassReached(proof), pass |-> proof.probePass,
                      since |-> task[h].since]
  <2>2. /\ task[h].stage = "check" /\ task[h] # Idle
        /\ task[h].since \in Nat
        /\ task[h].entry \in Entry
    BY <1>2, <1>9 DEF VerifyPass, Task, Idle
  <2>3. task[h].since <= now
    BY <2>2 DEF MemoryInv, Timely
  <2>4. now <= task[h].entry.expiresAt /\ task[h].entry.expiresAt \in Nat
    BY <2>1, <2>2 DEF Accepts, Entry
  <2>5. task[h].since <= task[h].entry.expiresAt
    BY <1>2, <2>2, <2>3, <2>4
  <2>6. TaskFine(next)
    BY <1>2, <2>2, <2>5 DEF TaskFine
  <2> QED
    BY <1>9, <2>1, <2>6, IssueLocal DEF VerifyPass, mapVars, history
<1>10. CASE VerifyRecord(h)
  <2> DEFINE next == [stage |-> "sign", id |-> task[h].id, entry |-> task[h].entry,
                      class |-> task[h].class, since |-> task[h].since]
  <2>1. TaskFine(next)
    BY <1>2, <1>10 DEF VerifyRecord, TaskFine
  <2>2. Goto(h, next)
    BY <1>10 DEF VerifyRecord
  <2> QED
    BY <1>10, <2>1, <2>2, IssueLocal DEF VerifyRecord, mapVars, history
<1>11. CASE VerifyIssue(h)
  BY <1>11, IssueIssue
<1>12. CASE VerifyReject(h) \/ VerifyUnsigned(h) \/ SiteverifyInvalid(h)
  BY <1>1, <1>12, IssueLocal
  DEF VerifyReject, VerifyUnsigned, SiteverifyInvalid, Answer, mapVars, history
<1>13. CASE SiteverifyLoad(h)
  <2>1. PICK nonce \in Nonce, meta \in {o.meta : o \in offers} :
           Goto(h, Redeeming(nonce, meta))
    BY <1>13 DEF SiteverifyLoad
  <2>2. TaskFine(Redeeming(nonce, meta))
    BY DEF TaskFine, Redeeming
  <2> QED
    BY <1>13, <2>1, <2>2, IssueLocal DEF SiteverifyLoad, mapVars, history
<1>14. CASE SiteverifyRedeem(h)
  BY <1>14, IssueRedeem
<1> QED
  BY <1>3, <1>4, <1>5, <1>6, <1>7, <1>8, <1>9, <1>10, <1>11, <1>12, <1>13, <1>14
  DEF Serve, Continue

\* The sweep drops a challenge only after every deadline sent with it.
LEMMA IssueSweep ==
    ASSUME TypeOK, MemoryInv, IssueInv, CleanupLoop
    PROVE  IssueInv'
<1> USE TimeIsNat
<1>1. /\ now \in Nat
      /\ UNCHANGED <<now, task, offers, taken, issuances, redemptions>>
  BY DEF TypeOK, CleanupLoop, SweepStart, SweepChallenge, SweepTurn, SweepToken,
         SweepDelete, SweepEnd, history
<1>2. /\ TasksFine' /\ OffersFine' /\ IssuancesTaken'
      /\ SignedUnderOfferedMeta' /\ AcceptedWasIssued'
  BY <1>1 DEF IssueInv, TasksFine, TaskFine, Offered, Genuine, OffersFine,
              IssuancesTaken, SignedUnderOfferedMeta, AcceptedWasIssued
<1>3. CASE SweepChallenge
  <2>1. PICK id \in ExpiredChallenges : challenges' = [challenges EXCEPT ![id] = Absent]
    BY <1>3 DEF SweepChallenge, Without
  <2>2. id \in ChallengeID /\ challenges[id] \in Entry /\ challenges[id].expiry < sweep.cutoff
    BY <2>1 DEF ExpiredChallenges, Expired, TypeOK
  <2>3. sweep.cutoff \in Nat /\ sweep.cutoff <= now
    BY DEF TypeOK, Sweep, MemoryInv, SweepsOnlyOld
  <2>4. \A i \in ChallengeID :
           challenges'[i] = IF i = id THEN Absent ELSE challenges[i]
    BY <2>1, <2>2 DEF TypeOK
  <2>5. EntriesOffered'
    BY <1>1, <2>4 DEF IssueInv, EntriesOffered, Offered
  <2>6. OffersKept'
    <3> SUFFICES ASSUME NEW o \in offers
                 PROVE  \/ o.id \in taken
                        \/ now > o.expiresAt
                        \/ /\ challenges'[o.id] # Absent
                           /\ challenges'[o.id].expiry >= o.expiresAt
      BY <1>1 DEF OffersKept
    <3>1. o.id \in ChallengeID /\ o.expiresAt \in Nat
      BY DEF TypeOK, Offer
    <3>2. CASE o.id = id
      <4>1. challenges[id].expiry \in Nat
        BY <2>2 DEF Entry
      <4>2. challenges[id].expiry >= o.expiresAt => now > o.expiresAt
        BY <1>1, <2>2, <2>3, <3>1, <4>1
      <4> QED
        BY <3>2, <4>2 DEF IssueInv, OffersKept
    <3>3. CASE o.id # id
      BY <2>4, <3>1, <3>3 DEF IssueInv, OffersKept
    <3> QED
      BY <3>2, <3>3
  <2> QED
    BY <1>2, <2>5, <2>6 DEF IssueInv
<1>4. CASE ~SweepChallenge
  <2>1. UNCHANGED challenges
    BY <1>4 DEF CleanupLoop, SweepStart, SweepTurn, SweepToken, SweepDelete, SweepEnd,
                mapVars
  <2>2. EntriesOffered' /\ OffersKept'
    BY <1>1, <2>1 DEF IssueInv, EntriesOffered, Offered, OffersKept
  <2> QED
    BY <1>2, <2>2 DEF IssueInv
<1> QED
  BY <1>3, <1>4

LEMMA IssueTick ==
    ASSUME TypeOK, IssueInv, Tick
    PROVE  IssueInv'
<1> USE TimeIsNat, ServerAssumption
<1>1. /\ now \in Nat /\ now' = now + 1 /\ now' \in Nat /\ now <= now'
      /\ UNCHANGED <<task, challenges, offers, taken, issuances, redemptions>>
  BY DEF Tick, TypeOK, mapVars, history
<1>2. TasksFine'
  BY <1>1, StaysFine DEF TasksFine
<1>3. \A o \in offers : o.at \in Nat /\ o.expiresAt \in Nat
  BY DEF TypeOK, Offer
<1>4. OffersFine' /\ OffersKept'
  BY <1>1, <1>3 DEF IssueInv, OffersFine, OffersKept
<1>5. EntriesOffered' /\ IssuancesTaken' /\ SignedUnderOfferedMeta' /\ AcceptedWasIssued'
  BY <1>1 DEF IssueInv, EntriesOffered, Offered, IssuancesTaken,
              SignedUnderOfferedMeta, AcceptedWasIssued
<1> QED
  BY <1>2, <1>4, <1>5 DEF IssueInv

LEMMA IssueNext == TypeOK /\ MemoryInv /\ IssueInv /\ [Next]_vars => IssueInv'
<1> SUFFICES ASSUME TypeOK, MemoryInv, IssueInv, [Next]_vars PROVE IssueInv'
  OBVIOUS
<1>1. CASE Tick
  BY <1>1, IssueTick
<1>2. CASE CleanupLoop
  BY <1>2, IssueSweep
<1>3. CASE CleanupStore \/ UNCHANGED vars
  BY <1>3
  DEF CleanupStore, vars, mapVars, history, IssueInv, TasksFine, TaskFine,
      EntriesOffered, Offered, OffersFine, OffersKept, IssuancesTaken,
      SignedUnderOfferedMeta, AcceptedWasIssued, Genuine
<1>4. CASE \E h \in Handler : Serve(h)
  BY <1>4, IssueServe
<1> QED
  BY <1>1, <1>2, <1>3, <1>4 DEF Next

LEMMA IssueAlways == Spec => []IssueInv
BY IssueInit, IssueNext, TypeCorrect, MemoryAlways, PTL DEF Spec

-----------------------------------------------------------------------------
\* The server never signs under other metadata than it sent with the
\* challenge, so the token a client unblinds verifies.
THEOREM MetadataBound == Spec => []SignedUnderOfferedMeta
<1>1. IssueInv => SignedUnderOfferedMeta
  BY DEF IssueInv
<1> QED
  BY <1>1, IssueAlways, PTL

\* Every accepted token goes back to a signature and to the challenge that
\* offered its metadata.
THEOREM AcceptanceIsFounded == Spec => []AcceptedWasIssued
<1>1. IssueInv => AcceptedWasIssued
  BY DEF IssueInv
<1> QED
  BY <1>1, IssueAlways, PTL

\* The sweep never takes a challenge from a client before its deadline.
THEOREM DeadlinesKept == Spec => []KeptUntilDeadline
<1>1. TypeOK /\ IssueInv => KeptUntilDeadline
  <2> SUFFICES ASSUME TypeOK, IssueInv, NEW o \in offers, now <= o.expiresAt
               PROVE  challenges[o.id] # Absent \/ o.id \in taken
    BY DEF KeptUntilDeadline
  <2>1. now \in Nat /\ o.expiresAt \in Nat
    BY TimeIsNat DEF TypeOK, Offer
  <2> QED
    BY <2>1 DEF IssueInv, OffersKept
<1> QED
  BY <1>1, TypeCorrect, IssueAlways, PTL

\* A deadline checked before the slow part of /verify bounds the signature
\* that comes after it, by the longest time a handler runs.
THEOREM SignaturesAreTimely == Spec => []SignedByDeadline
<1>1. TypeOK /\ MemoryInv /\ IssueInv => SignedByDeadline
  <2> SUFFICES ASSUME TypeOK, MemoryInv, IssueInv,
                      NEW h \in Handler, task[h].stage = "sign"
               PROVE  \E o \in offers :
                         o.id = task[h].id /\ now <= o.expiresAt + MaxHandlerTime
    BY DEF SignedByDeadline
  <2>1. /\ task[h] # Idle
        /\ task[h].since \in Nat
        /\ task[h].entry.expiresAt \in Nat
        /\ now \in Nat
    BY IdleStage, TimeIsNat DEF TypeOK, Task, Entry
  <2>2. now <= task[h].since + MaxHandlerTime
    BY <2>1 DEF MemoryInv, Timely
  <2>3. task[h].since <= task[h].entry.expiresAt /\ Offered(task[h].id, task[h].entry)
    BY DEF IssueInv, TasksFine, TaskFine
  <2>4. now <= task[h].entry.expiresAt + MaxHandlerTime
    BY <2>1, <2>2, <2>3, ServerAssumption
  <2> QED
    BY <2>3, <2>4 DEF Offered
<1> QED
  BY <1>1, TypeCorrect, MemoryAlways, IssueAlways, PTL

-----------------------------------------------------------------------------
(***************************************************************************)
(* A challenge gives a handler at most one signature, for every value of   *)
(* TrustServer's constants: a second one needs a request that overlaps.    *)
(*                                                                         *)
(* A handler that loads a challenge finds it in the map.  Had the handler  *)
(* signed for it before, it would have deleted it then, and a challenge    *)
(* once deleted does not come back: it is stored only when it is offered,  *)
(* and it is offered once, because its id was drawn for one request.       *)
(***************************************************************************)

\* At work on a new challenge, and at work on a challenge of a client.
Making == {"score", "offer"}
Working == {"delete", "check", "record", "sign"}

\* The id of a challenge being made is nobody else's.
Fresh ==
    \A h \in Handler : task[h].stage \in Making =>
        /\ \A o \in offers : o.id # task[h].id
        /\ \A g \in Handler :
              g # h /\ task[g].stage \in Making => task[g].id # task[h].id

TakenOffered == \A id \in taken : \E o \in offers : o.id = id

TakenGone == \A id \in taken : challenges[id] = Absent

ReuseInv == Fresh /\ TakenOffered /\ TakenGone /\ ReuseNeedsOverlap

LEMMA ReuseInit == Init => ReuseInv
BY IdleStage
DEF Init, ReuseInv, Fresh, Making, TakenOffered, TakenGone, ReuseNeedsOverlap

\* Steps of a handler that change nothing shared: it answers, takes up a
\* token, or goes on with the challenge it is at work on.
LEMMA ReuseLocal ==
    ASSUME TypeOK, ReuseInv, NEW h \in Handler, NEW next, Goto(h, next),
           \/ next.stage \notin Making \cup Working
           \/ /\ next.stage \in Making /\ task[h].stage \in Making
              /\ next.id = task[h].id
           \/ /\ next.stage \in Working /\ task[h].stage \in Working
              /\ next.id = task[h].id,
           UNCHANGED <<challenges, offers, taken, issuances>>
    PROVE  ReuseInv'
<1>1. task'[h] = next /\ \A g \in Handler : g # h => task'[g] = task[g]
  BY DEF Goto, TypeOK
<1>2. Making \cap Working = {}
  BY DEF Making, Working
<1>3. Fresh'
  BY <1>1, <1>2 DEF ReuseInv, Fresh
<1>4. ReuseNeedsOverlap'
  BY <1>1, <1>2 DEF ReuseInv, ReuseNeedsOverlap, Working
<1> QED
  BY <1>3, <1>4 DEF ReuseInv, TakenOffered, TakenGone

\* The id drawn for a challenge is new.
LEMMA ReuseDraw ==
    ASSUME TypeOK, ReuseInv, NEW h \in Handler, ChallengeRecord(h)
    PROVE  ReuseInv'
<1>1. PICK id \in ChallengeID \ Drawn, ip \in IP, site \in Site :
         Goto(h, [stage |-> "score", id |-> id, ip |-> ip, site |-> site, since |-> now])
  BY DEF ChallengeRecord
<1>2. UNCHANGED <<challenges, offers, taken, issuances>>
  BY DEF ChallengeRecord, mapVars, history
<1>3. /\ task'[h].stage = "score" /\ task'[h].id = id
      /\ \A g \in Handler : g # h => task'[g] = task[g]
  BY <1>1 DEF Goto, TypeOK
<1>4. /\ \A o \in offers : o.id # id
      /\ \A g \in Handler : task[g].stage \in Making => task[g].id # id
  BY <1>1 DEF Drawn, Making
<1>5. Fresh'
  BY <1>2, <1>3, <1>4 DEF ReuseInv, Fresh
<1>6. ReuseNeedsOverlap'
  BY <1>2, <1>3 DEF ReuseInv, ReuseNeedsOverlap
<1> QED
  BY <1>2, <1>5, <1>6 DEF ReuseInv, TakenOffered, TakenGone

LEMMA ReuseOffer ==
    ASSUME TypeOK, ReuseInv, NEW h \in Handler, ChallengeOffer(h)
    PROVE  ReuseInv'
<1> DEFINE id == task[h].id
           entry == EntryFor(task[h].bucket, task[h].expiresAt, now)
           offer == [ id |-> id, meta |-> entry.predictedMeta,
                      expiresAt |-> entry.expiresAt, at |-> now ]
<1>1. /\ challenges' = [challenges EXCEPT ![id] = entry]
      /\ offers' = offers \cup {offer}
      /\ UNCHANGED <<taken, issuances>>
  BY DEF ChallengeOffer
<1>2. task[h].stage \in Making
  BY DEF ChallengeOffer, Making
<1>3. task'[h] = Idle /\ \A g \in Handler : g # h => task'[g] = task[g]
  BY DEF ChallengeOffer, Answer, Goto, TypeOK
<1>4. offer.id = id
  OBVIOUS
<1>5. id \notin taken
  BY <1>2 DEF ReuseInv, Fresh, TakenOffered
<1> HIDE DEF offer, entry
<1>6. Fresh'
  BY <1>1, <1>2, <1>3, <1>4, IdleStage DEF ReuseInv, Fresh, Making
<1>7. TakenOffered'
  BY <1>1 DEF ReuseInv, TakenOffered
<1>8. TakenGone'
  BY <1>1, <1>5 DEF ReuseInv, TakenGone, TypeOK
<1>9. ReuseNeedsOverlap'
  BY <1>1, <1>3, IdleStage DEF ReuseInv, ReuseNeedsOverlap
<1> QED
  BY <1>6, <1>7, <1>8, <1>9 DEF ReuseInv

\* A challenge found in the map has not been taken, so nobody signed for it.
LEMMA ReuseLoad ==
    ASSUME TypeOK, IssueInv, ReuseInv, NEW h \in Handler, VerifyLoad(h)
    PROVE  ReuseInv'
<1>1. PICK id \in ChallengeID :
         /\ challenges[id] # Absent
         /\ Goto(h, [stage |-> "delete", id |-> id, entry |-> challenges[id], since |-> now])
  BY DEF VerifyLoad
<1>2. UNCHANGED <<challenges, offers, taken, issuances>>
  BY DEF VerifyLoad, mapVars, history
<1>3. /\ task'[h].stage = "delete" /\ task'[h].id = id
      /\ \A g \in Handler : g # h => task'[g] = task[g]
  BY <1>1 DEF Goto, TypeOK
<1>4. \A i \in issuances : i.id # id
  BY <1>1 DEF ReuseInv, TakenGone, IssueInv, IssuancesTaken
<1>5. Fresh'
  BY <1>2, <1>3 DEF ReuseInv, Fresh, Making
<1>6. ReuseNeedsOverlap'
  BY <1>2, <1>3, <1>4 DEF ReuseInv, ReuseNeedsOverlap
<1> QED
  BY <1>2, <1>5, <1>6 DEF ReuseInv, TakenOffered, TakenGone

LEMMA ReuseDelete ==
    ASSUME TypeOK, IssueInv, ReuseInv, NEW h \in Handler, VerifyDelete(h)
    PROVE  ReuseInv'
<1> DEFINE id == task[h].id
           next == [task[h] EXCEPT !.stage = "check"]
<1>1. /\ task[h].stage = "delete" /\ id \in ChallengeID
      /\ next.stage = "check" /\ next.id = id
  BY DEF VerifyDelete, TypeOK, Task, Idle
<1>2. /\ challenges' = [challenges EXCEPT ![id] = Absent]
      /\ taken' = taken \cup {id}
      /\ UNCHANGED <<offers, issuances>>
  BY DEF VerifyDelete, Without
<1>3. Goto(h, next)
  BY DEF VerifyDelete
<1> HIDE DEF next
<1>4. task'[h] = next /\ \A g \in Handler : g # h => task'[g] = task[g]
  BY <1>3 DEF Goto, TypeOK
<1>5. \E o \in offers : o.id = id
  BY <1>1 DEF IssueInv, TasksFine, TaskFine, Offered
<1>6. Fresh'
  BY <1>1, <1>2, <1>4 DEF ReuseInv, Fresh, Making
<1>7. TakenOffered'
  BY <1>2, <1>5 DEF ReuseInv, TakenOffered
<1>8. TakenGone'
  BY <1>1, <1>2 DEF ReuseInv, TakenGone, TypeOK
<1>9. ReuseNeedsOverlap'
  BY <1>1, <1>2, <1>4 DEF ReuseInv, ReuseNeedsOverlap
<1> QED
  BY <1>6, <1>7, <1>8, <1>9 DEF ReuseInv

LEMMA ReuseIssue ==
    ASSUME TypeOK, ReuseInv, NEW h \in Handler, VerifyIssue(h)
    PROVE  ReuseInv'
<1>1. PICK i : issuances' = issuances \cup {i} /\ i.by = h
  <2>1. PICK nonce \in Nonce :
           issuances' = issuances \cup
               {[ id |-> task[h].id, nonce |-> nonce,
                  meta |-> SignedMeta(task[h].entry, now), by |-> h ]}
    BY DEF VerifyIssue
  <2> DEFINE issuance == [ id |-> task[h].id, nonce |-> nonce,
                           meta |-> SignedMeta(task[h].entry, now), by |-> h ]
  <2>2. issuance.by = h
    OBVIOUS
  <2>3. issuances' = issuances \cup {issuance}
    BY <2>1
  <2> HIDE DEF issuance
  <2> QED
    BY <2>2, <2>3
<1>2. task'[h] = Idle /\ \A g \in Handler : g # h => task'[g] = task[g]
  BY DEF VerifyIssue, Answer, Goto, TypeOK
<1>3. UNCHANGED <<challenges, offers, taken>>
  BY DEF VerifyIssue, mapVars
<1>4. Fresh'
  BY <1>2, <1>3, IdleStage DEF ReuseInv, Fresh, Making
<1>5. ReuseNeedsOverlap'
  BY <1>1, <1>2, IdleStage DEF ReuseInv, ReuseNeedsOverlap
<1> QED
  BY <1>3, <1>4, <1>5 DEF ReuseInv, TakenOffered, TakenGone

LEMMA ReuseServe ==
    ASSUME TypeOK, IssueInv, ReuseInv, NEW h \in Handler, Serve(h)
    PROVE  ReuseInv'
<1> USE IdleStage DEF Making, Working
<1>1. CASE Refuse(h)
  BY <1>1 DEF Refuse, vars, mapVars, history, ReuseInv, Fresh, TakenOffered, TakenGone,
              ReuseNeedsOverlap
<1>2. CASE ChallengeScore(h)
  <2>1. PICK b, e :
           Goto(h, [stage |-> "offer", id |-> task[h].id, bucket |-> b,
                    expiresAt |-> e, since |-> task[h].since])
    BY <1>2 DEF ChallengeScore
  <2> QED
    BY <1>2, <2>1, ReuseLocal DEF ChallengeScore, mapVars, history
<1>3. CASE VerifyPass(h)
  <2>1. PICK c, p :
           Goto(h, [stage |-> "record", id |-> task[h].id, entry |-> task[h].entry,
                    class |-> c, pass |-> p, since |-> task[h].since])
    BY <1>3 DEF VerifyPass
  <2> QED
    BY <1>3, <2>1, ReuseLocal DEF VerifyPass, mapVars, history
<1>4. CASE VerifyReject(h)
  BY <1>4, ReuseLocal DEF VerifyReject, Answer, mapVars, history
<1>5. CASE VerifyRecord(h)
  BY <1>5, ReuseLocal DEF VerifyRecord, mapVars, history
<1>6. CASE VerifyUnsigned(h)
  BY <1>6, ReuseLocal DEF VerifyUnsigned, Answer, mapVars, history
<1>7. CASE SiteverifyLoad(h)
  <2>1. PICK n, m : Goto(h, Redeeming(n, m))
    BY <1>7 DEF SiteverifyLoad
  <2>2. Redeeming(n, m).stage = "redeem"
    BY DEF Redeeming
  <2> QED
    BY <1>7, <2>1, <2>2, ReuseLocal DEF SiteverifyLoad, mapVars, history
<1>8. CASE SiteverifyInvalid(h)
  BY <1>8, ReuseLocal DEF SiteverifyInvalid, Answer, mapVars, history
<1>9. CASE SiteverifyRedeem(h)
  BY <1>9, ReuseLocal DEF SiteverifyRedeem, Answer
<1> QED
  BY <1>1, <1>2, <1>3, <1>4, <1>5, <1>6, <1>7, <1>8, <1>9, ReuseDraw, ReuseOffer,
     ReuseLoad, ReuseDelete, ReuseIssue
  DEF Serve, Continue

\* The sweep and the clock offer nothing, take nothing and sign nothing;
\* what the sweep does to a challenge is to remove it.
LEMMA ReuseNext == TypeOK /\ IssueInv /\ ReuseInv /\ [Next]_vars => ReuseInv'
<1> SUFFICES ASSUME TypeOK, IssueInv, ReuseInv, [Next]_vars PROVE ReuseInv'
  OBVIOUS
<1>1. CASE \E h \in Handler : Serve(h)
  BY <1>1, ReuseServe
<1>2. CASE Tick \/ CleanupLoop \/ CleanupStore \/ UNCHANGED vars
  <2>1. UNCHANGED <<task, offers, taken, issuances>>
    BY <1>2 DEF Tick, CleanupLoop, SweepStart, SweepChallenge, SweepTurn, SweepToken,
                SweepDelete, SweepEnd, CleanupStore, vars, mapVars, history
  <2>2. Fresh' /\ TakenOffered' /\ ReuseNeedsOverlap'
    BY <2>1 DEF ReuseInv, Fresh, TakenOffered, ReuseNeedsOverlap
  <2>3. CASE SweepChallenge
    <3>1. PICK id \in ChallengeID : challenges' = [challenges EXCEPT ![id] = Absent]
      BY <2>3 DEF SweepChallenge, ExpiredChallenges, Without
    <3>2. TakenGone'
      BY <2>1, <3>1 DEF ReuseInv, TakenGone, TypeOK
    <3> QED
      BY <2>2, <3>2 DEF ReuseInv
  <2>4. CASE ~SweepChallenge
    <3>1. UNCHANGED challenges
      BY <1>2, <2>4 DEF Tick, CleanupLoop, SweepStart, SweepTurn, SweepToken,
                        SweepDelete, SweepEnd, CleanupStore, vars, mapVars, history
    <3> QED
      BY <2>1, <2>2, <3>1 DEF ReuseInv, TakenGone
  <2> QED
    BY <2>3, <2>4
<1> QED
  BY <1>1, <1>2 DEF Next

\* A handler working on a challenge has not itself signed for it before:
\* one solution gives several signatures only to overlapping requests.
THEOREM ReusesNeedOverlap == Spec => []ReuseNeedsOverlap
<1>1. TypeOK /\ IssueInv /\ ReuseInv /\ [Next]_vars => ReuseInv'
  BY ReuseNext
<1>2. ReuseInv => ReuseNeedsOverlap
  BY DEF ReuseInv
<1> QED
  BY <1>1, <1>2, ReuseInit, TypeCorrect, IssueAlways, PTL DEF Spec

-----------------------------------------------------------------------------
(***************************************************************************)
(* TrustServer implements TokenLedger, for every value of the constants.   *)
(*                                                                         *)
(* Each step of the server is a step of the ledger or changes none of its  *)
(* variables.  The one that needs the timing of TrustServerProofs is the   *)
(* sweep's deletion: what it deletes has expired, so it was stored more    *)
(* than TokenTTL ago, and a handler with a check of that nonce open would  *)
(* have begun before that and be older than any handler gets.              *)
(***************************************************************************)

\* A handler at any other stage than redeem has no check open.
LEMMA NoCheckOpen ==
    ASSUME TypeOK, NEW h \in Handler
    PROVE  /\ task[h].stage # "redeem" <=> Checking[h] = Idle
           /\ task[h].stage = "redeem" =>
                 /\ Checking[h] = task[h].token
                 /\ task[h].token \in Token
                 /\ task[h].token # Idle
<1>1. task[h].stage = "redeem" => task[h].token \in Token
  BY IdleStage DEF TypeOK, Task, Idle
<1>2. \A t \in Token : t # Idle
  BY DEF Token, Idle
<1> QED
  BY <1>1, <1>2 DEF Checking

\* A step from and to a stage without a check changes no check.
LEMMA CheckingKept ==
    ASSUME TypeOK, NEW h \in Handler, NEW next, Goto(h, next),
           task[h].stage # "redeem", next.stage # "redeem"
    PROVE  Checking' = Checking
BY DEF Goto, TypeOK, Checking

\* The answer of a handler that has a check open closes that check.
LEMMA CheckEnds ==
    ASSUME TypeOK, NEW h \in Handler, Answer(h)
    PROVE  Checking' = [Checking EXCEPT ![h] = Idle]
BY IdleStage DEF Answer, Goto, TypeOK, Checking

\* A token verifies exactly when it has been minted.
LEMMA GenuineIsMinted ==
    ASSUME SignedUnderOfferedMeta, NEW n, NEW m
    PROVE  Genuine(n, m) <=> [nonce |-> n, meta |-> m] \in Minted
<1>1. ASSUME Genuine(n, m) PROVE [nonce |-> n, meta |-> m] \in Minted
  <2>1. PICK i \in issuances : i.nonce = n /\ i.meta = m
    BY <1>1 DEF Genuine
  <2> QED
    BY <2>1 DEF Minted
<1>2. ASSUME [nonce |-> n, meta |-> m] \in Minted PROVE Genuine(n, m)
  <2>1. PICK i \in issuances : [nonce |-> n, meta |-> m] = [nonce |-> i.nonce, meta |-> i.meta]
    BY <1>2 DEF Minted
  <2>2. i.nonce = n /\ i.meta = m
    BY <2>1
  <2> QED
    BY <2>2 DEF Genuine, SignedUnderOfferedMeta
<1> QED
  BY <1>1, <1>2

\* Nothing of the ledger changes.
LEMMA LedgerKept ==
    ASSUME Checking' = Checking, UNCHANGED <<tokens, issuances, redemptions>>
    PROVE  UNCHANGED Ledger!ledger
BY DEF Ledger!ledger, Minted, Redeemed, Remembering

-----------------------------------------------------------------------------
LEMMA LedgerInit == Init => Ledger!Init
<1> SUFFICES ASSUME Init PROVE Ledger!Init
  OBVIOUS
<1>1. Minted = {} /\ Redeemed = {} /\ Remembering = {}
  BY DEF Init, Minted, Redeemed, Remembering
<1>2. Checking = [h \in Handler |-> Idle]
  BY IdleStage DEF Init, Checking
<1> QED
  BY <1>1, <1>2 DEF Ledger!Init

\* A signature mints the token its client will unblind.
LEMMA IssueMints ==
    ASSUME TypeOK, NEW h \in Handler, VerifyIssue(h)
    PROVE  Ledger!Mint
<1>1. PICK nonce \in Nonce :
         issuances' = issuances \cup
             {[ id |-> task[h].id, nonce |-> nonce,
                meta |-> SignedMeta(task[h].entry, now), by |-> h ]}
  BY DEF VerifyIssue
<1> DEFINE meta == SignedMeta(task[h].entry, now)
           token == [nonce |-> nonce, meta |-> meta]
<1>2. meta \in Meta
  BY DEF VerifyIssue, TypeOK, Task, Entry, SignedMeta, Idle
<1>3. Minted' = Minted \cup {token}
  <2> DEFINE issuance == [id |-> task[h].id, nonce |-> nonce, meta |-> meta, by |-> h]
  <2>1. issuances' = issuances \cup {issuance}
    BY <1>1
  <2>2. issuance.nonce = nonce /\ issuance.meta = meta
    OBVIOUS
  <2> HIDE DEF issuance, meta
  <2>3. \A t : t \in Minted' <=>
          t \in Minted \/ t = [nonce |-> issuance.nonce, meta |-> issuance.meta]
    BY <2>1 DEF Minted
  <2> QED
    BY <2>2, <2>3
<1>4. token \in Ledger!Token
  BY <1>2 DEF Ledger!Token
<1>5. Checking' = Checking
  BY CheckingKept, IdleStage DEF VerifyIssue, Answer
<1>6. UNCHANGED <<Remembering, Redeemed>>
  BY DEF VerifyIssue, mapVars, Remembering, Redeemed
<1> QED
  BY <1>3, <1>4, <1>5, <1>6 DEF Ledger!Mint

\* A handler that finds no entry for the nonce opens a check of a nonce
\* that is not spent.
LEMMA LoadBegins ==
    ASSUME TypeOK, SignedUnderOfferedMeta, NEW h \in Handler, SiteverifyLoad(h)
    PROVE  Ledger!BeginCheck(h)
<1>1. PICK nonce \in Nonce, meta \in {o.meta : o \in offers} :
         tokens[nonce] = Absent /\ Goto(h, Redeeming(nonce, meta))
  BY DEF SiteverifyLoad, Seen
<1> DEFINE check == [nonce |-> nonce, meta |-> meta, genuine |-> Genuine(nonce, meta)]
<1>2. meta \in Meta /\ nonce \in Nonce \ Remembering
  BY <1>1 DEF TypeOK, Offer, Remembering
<1>3. Checking[h] = Idle
  BY IdleStage, NoCheckOpen DEF SiteverifyLoad
<1>4. Checking' = [Checking EXCEPT ![h] = check]
  BY <1>1 DEF Goto, Redeeming, TypeOK, Checking
<1>5. Checking'[h] = check
  BY <1>4 DEF Checking
<1>6. Genuine(nonce, meta) \in BOOLEAN
  BY DEF Genuine
<1>7. check \in [nonce: Nonce \ Remembering, meta: Meta, genuine: BOOLEAN]
  BY <1>2, <1>6
<1>8. check.genuine <=> Ledger!TokenOf(check) \in Minted
  BY GenuineIsMinted DEF Ledger!TokenOf
<1>9. UNCHANGED <<Minted, Remembering, Redeemed>>
  BY DEF SiteverifyLoad, mapVars, history, Minted, Remembering, Redeemed
<1> HIDE DEF check
<1> QED
  BY <1>3, <1>4, <1>5, <1>7, <1>8, <1>9 DEF Ledger!BeginCheck

LEMMA InvalidTurnsDown ==
    ASSUME TypeOK, NEW h \in Handler, SiteverifyInvalid(h)
    PROVE  Ledger!TurnDown(h)
<1>1. Checking[h] # Idle /\ ~Checking[h].genuine
  BY NoCheckOpen DEF SiteverifyInvalid, Verifies
<1>2. Checking' = [Checking EXCEPT ![h] = Idle]
  BY CheckEnds DEF SiteverifyInvalid
<1>3. UNCHANGED <<Minted, Remembering, Redeemed>>
  BY DEF SiteverifyInvalid, mapVars, history, Minted, Remembering, Redeemed
<1> QED
  BY <1>1, <1>2, <1>3 DEF Ledger!TurnDown, Ledger!EndCheck

LEMMA RedeemAccepts ==
    ASSUME TypeOK, NEW h \in Handler, SiteverifyRedeem(h)
    PROVE  Ledger!Accept(h)
<1> DEFINE token == task[h].token
<1>1. task[h].stage = "redeem" /\ token.genuine
  BY DEF SiteverifyRedeem, Verifies
<1>2. Checking[h] = token /\ Checking[h] # Idle /\ token.nonce \in Nonce
  BY <1>1, NoCheckOpen DEF Token
<1>3. Checking' = [Checking EXCEPT ![h] = Idle]
  BY CheckEnds DEF SiteverifyRedeem
<1>4. Remembering' = Remembering \cup {token.nonce}
  <2>1. tokens' = [tokens EXCEPT ![token.nonce] = now + TokenTTL] /\ now + TokenTTL \in Nat
    BY TimeIsNat, ServerAssumption DEF SiteverifyRedeem, TypeOK
  <2> QED
    BY <1>2, <2>1, ServerAssumption DEF Remembering, TypeOK
<1>5. Redeemed' = Redeemed \cup {[nonce |-> token.nonce, meta |-> token.meta]}
  <2> DEFINE redemption == [nonce |-> token.nonce, meta |-> token.meta, at |-> now, by |-> h]
  <2>1. redemptions' = redemptions \cup {redemption}
    BY DEF SiteverifyRedeem
  <2>2. redemption.nonce = token.nonce /\ redemption.meta = token.meta
    OBVIOUS
  <2> HIDE DEF redemption, token
  <2>3. \A t : t \in Redeemed' <=>
          t \in Redeemed \/ t = [nonce |-> redemption.nonce, meta |-> redemption.meta]
    BY <2>1 DEF Redeemed
  <2> QED
    BY <2>2, <2>3
<1>6. Minted' = Minted
  BY DEF SiteverifyRedeem, Minted
<1> QED
  BY <1>1, <1>2, <1>3, <1>4, <1>5, <1>6
  DEF Ledger!Accept, Ledger!EndCheck, Ledger!TokenOf

\* The sweep forgets a nonce only when no handler is at work on it.
LEMMA DeleteForgets ==
    ASSUME TypeOK, MemoryInv, SweepDelete
    PROVE  Ledger!Forget
<1> DEFINE n == sweep.doomed
<1>1. n \in Nonce /\ tokens[n] \in Nat /\ tokens[n] < sweep.cutoff /\ sweep.cutoff <= now
  BY DEF SweepDelete, TypeOK, Sweep, MemoryInv, SweepsOnlyOld
<1>2. n \in Remembering /\ Remembering' = Remembering \ {n}
  <2>1. tokens' = [tokens EXCEPT ![n] = Absent]
    BY DEF SweepDelete, Without
  <2> HIDE DEF n
  <2> QED
    BY <1>1, <2>1, ServerAssumption DEF TypeOK, Remembering
<1>3. UNCHANGED <<Minted, Checking, Redeemed>>
  BY DEF SweepDelete, history, Minted, Checking, Redeemed
<1>4. ASSUME NEW h \in Handler, Checking[h] # Idle
      PROVE  Checking[h].nonce # n
  <2>1. task[h].stage = "redeem" /\ Checking[h] = task[h].token
    BY <1>4, NoCheckOpen
  <2>2. task[h] # Idle /\ task[h].since \in Nat
    BY <2>1, IdleStage DEF TypeOK, Task
  <2>3. now <= task[h].since + MaxHandlerTime
    BY <2>2 DEF MemoryInv, Timely
  <2>4. SUFFICES ASSUME task[h].token.nonce = n PROVE FALSE
    BY <2>1
  <2>5. tokens[n] >= task[h].since + TokenTTL
    BY <1>1, <2>1, <2>4, ServerAssumption DEF MemoryInv, RedeemsOnlyNew
  <2>6. now \in Nat /\ sweep.cutoff \in Nat
    BY TimeIsNat DEF TypeOK, Sweep
  <2> HIDE DEF n
  <2> QED
    BY <1>1, <2>2, <2>3, <2>5, <2>6, ServerAssumption, HandlersAreTimely
<1> HIDE DEF n
<1> QED
  BY <1>2, <1>3, <1>4 DEF Ledger!Forget

-----------------------------------------------------------------------------
\* A step of a handler that neither mints nor checks leaves the ledger alone.
LEMMA ServeStutters ==
    ASSUME TypeOK, NEW h \in Handler,
           \/ Refuse(h) \/ ChallengeRecord(h) \/ ChallengeScore(h) \/ ChallengeOffer(h)
           \/ VerifyLoad(h) \/ VerifyDelete(h) \/ VerifyPass(h) \/ VerifyReject(h)
           \/ VerifyRecord(h) \/ VerifyUnsigned(h)
    PROVE  UNCHANGED Ledger!ledger
<1> USE IdleStage
<1>1. CASE Refuse(h)
  BY <1>1, LedgerKept DEF Refuse, vars, mapVars, history, Checking
<1>2. CASE ChallengeRecord(h)
  <2>1. PICK id \in ChallengeID, ip \in IP, site \in Site :
           Goto(h, [stage |-> "score", id |-> id, ip |-> ip, site |-> site, since |-> now])
    BY <1>2 DEF ChallengeRecord
  <2>2. Checking' = Checking
    BY <1>2, <2>1, CheckingKept DEF ChallengeRecord
  <2> QED
    BY <1>2, <2>2, LedgerKept DEF ChallengeRecord, mapVars, history
<1>3. CASE ChallengeScore(h)
  <2>1. PICK b, e :
           Goto(h, [stage |-> "offer", id |-> task[h].id, bucket |-> b,
                    expiresAt |-> e, since |-> task[h].since])
    BY <1>3 DEF ChallengeScore
  <2>2. Checking' = Checking
    BY <1>3, <2>1, CheckingKept DEF ChallengeScore
  <2> QED
    BY <1>3, <2>2, LedgerKept DEF ChallengeScore, mapVars, history
<1>4. CASE ChallengeOffer(h)
  BY <1>4, CheckingKept, LedgerKept DEF ChallengeOffer, Answer
<1>5. CASE VerifyLoad(h)
  <2>1. PICK id \in ChallengeID :
           Goto(h, [stage |-> "delete", id |-> id, entry |-> challenges[id], since |-> now])
    BY <1>5 DEF VerifyLoad
  <2>2. Checking' = Checking
    BY <1>5, <2>1, CheckingKept DEF VerifyLoad
  <2> QED
    BY <1>5, <2>2, LedgerKept DEF VerifyLoad, mapVars, history
<1>6. CASE VerifyDelete(h)
  <2> DEFINE next == [task[h] EXCEPT !.stage = "check"]
  <2>1. next.stage # "redeem"
    BY <1>6 DEF VerifyDelete, TypeOK, Task, Idle
  <2>2. Goto(h, next) /\ task[h].stage # "redeem"
    BY <1>6 DEF VerifyDelete
  <2> HIDE DEF next
  <2>3. Checking' = Checking
    BY <2>1, <2>2, CheckingKept
  <2> QED
    BY <1>6, <2>3, LedgerKept DEF VerifyDelete
<1>7. CASE VerifyPass(h)
  <2>1. PICK c, p :
           Goto(h, [stage |-> "record", id |-> task[h].id, entry |-> task[h].entry,
                    class |-> c, pass |-> p, since |-> task[h].since])
    BY <1>7 DEF VerifyPass
  <2>2. Checking' = Checking
    BY <1>7, <2>1, CheckingKept DEF VerifyPass
  <2> QED
    BY <1>7, <2>2, LedgerKept DEF VerifyPass, mapVars, history
<1>8. CASE VerifyReject(h)
  BY <1>8, CheckingKept, LedgerKept DEF VerifyReject, Answer, mapVars, history
<1>9. CASE VerifyRecord(h)
  BY <1>9, CheckingKept, LedgerKept DEF VerifyRecord, mapVars, history
<1>10. CASE VerifyUnsigned(h)
  BY <1>10, CheckingKept, LedgerKept DEF VerifyUnsigned, Answer, mapVars, history
<1> QED
  BY <1>1, <1>2, <1>3, <1>4, <1>5, <1>6, <1>7, <1>8, <1>9, <1>10

\* Every step of the server is a step of the ledger or a stutter.
LEMMA LedgerNext ==
    ASSUME TypeOK, MemoryInv, IssueInv, [Next]_vars
    PROVE  [Ledger!Next]_(Ledger!ledger)
<1>1. CASE Tick
  BY <1>1, LedgerKept DEF Tick, mapVars, history, Checking
<1>2. CASE CleanupLoop
  <2>1. CASE SweepDelete
    BY <2>1, DeleteForgets DEF Ledger!Next
  <2>2. CASE ~SweepDelete
    <3>1. UNCHANGED <<tokens, task, issuances, redemptions>>
      BY <1>2, <2>2 DEF CleanupLoop, SweepStart, SweepChallenge, SweepTurn, SweepToken,
                        SweepEnd, mapVars, history
    <3> QED
      BY <3>1, LedgerKept DEF Checking
  <2> QED
    BY <2>1, <2>2
<1>3. CASE CleanupStore \/ UNCHANGED vars
  <2>1. UNCHANGED <<tokens, task, issuances, redemptions>>
    BY <1>3 DEF CleanupStore, vars, mapVars, history
  <2> QED
    BY <2>1, LedgerKept DEF Checking
<1>4. CASE \E h \in Handler : Serve(h)
  <2>1. PICK h \in Handler : Serve(h)
    BY <1>4
  <2>2. CASE VerifyIssue(h)
    BY <2>2, IssueMints DEF Ledger!Next
  <2>3. CASE SiteverifyLoad(h)
    BY <2>3, LoadBegins DEF Ledger!Next, IssueInv
  <2>4. CASE SiteverifyInvalid(h)
    BY <2>4, InvalidTurnsDown DEF Ledger!Next
  <2>5. CASE SiteverifyRedeem(h)
    BY <2>5, RedeemAccepts DEF Ledger!Next
  <2>6. CASE ~(VerifyIssue(h) \/ SiteverifyLoad(h) \/ SiteverifyInvalid(h)
               \/ SiteverifyRedeem(h))
    BY <2>1, <2>6, ServeStutters DEF Serve, Continue
  <2> QED
    BY <2>2, <2>3, <2>4, <2>5, <2>6
<1> QED
  BY <1>1, <1>2, <1>3, <1>4 DEF Next

\* The server implements the ledger: a token is accepted only once minted,
\* and a nonce is forgotten only when no request that could still accept it
\* is under way.
THEOREM ServerImplementsLedger == Spec => ImplementsLedger
<1>1. TypeOK /\ MemoryInv /\ IssueInv /\ [Next]_vars => [Ledger!Next]_(Ledger!ledger)
  BY LedgerNext
<1> QED
  BY <1>1, LedgerInit, TypeCorrect, MemoryAlways, IssueAlways, PTL
  DEF Spec, ImplementsLedger, Ledger!Spec

\* In the ledger a nonce is spent only by the acceptance of a token with it,
\* so no other nonce is refused by the server as a duplicate.
THEOREM RefusalsAreFounded == Spec => []OnlyAcceptedNoncesRefused
<1> DEFINE SpentWasAccepted == \A n \in Remembering : \E t \in Redeemed : t.nonce = n
<1>1. Ledger!Init => SpentWasAccepted
  BY DEF Ledger!Init
<1>2. ASSUME SpentWasAccepted, [Ledger!Next]_(Ledger!ledger)
      PROVE  SpentWasAccepted'
  <2>1. CASE UNCHANGED Ledger!ledger
    BY <1>2, <2>1 DEF Ledger!ledger
  <2>2. CASE Ledger!Mint \/ Ledger!Forget
    BY <1>2, <2>2 DEF Ledger!Mint, Ledger!Forget
  <2>3. ASSUME NEW h \in Handler, Ledger!BeginCheck(h) \/ Ledger!TurnDown(h)
        PROVE  SpentWasAccepted'
    BY <1>2, <2>3 DEF Ledger!BeginCheck, Ledger!TurnDown
  <2>4. ASSUME NEW h \in Handler, Ledger!Accept(h)
        PROVE  SpentWasAccepted'
    <3>1. Remembering' = Remembering \cup {Checking[h].nonce}
      BY <2>4 DEF Ledger!Accept
    <3>2. Redeemed' = Redeemed \cup {Ledger!TokenOf(Checking[h])}
      BY <2>4 DEF Ledger!Accept
    <3>3. Ledger!TokenOf(Checking[h]).nonce = Checking[h].nonce
      BY DEF Ledger!TokenOf
    <3> QED
      BY <1>2, <3>1, <3>2, <3>3
  <2> QED
    BY <1>2, <2>1, <2>2, <2>3, <2>4 DEF Ledger!Next
<1>3. SpentWasAccepted => OnlyAcceptedNoncesRefused
  <2> SUFFICES ASSUME SpentWasAccepted, NEW n \in Nonce, tokens[n] # Absent
               PROVE  \E r \in redemptions : r.nonce = n
    BY DEF OnlyAcceptedNoncesRefused
  <2>1. PICK t \in Redeemed : t.nonce = n
    BY DEF Remembering
  <2>2. PICK r \in redemptions : t = [nonce |-> r.nonce, meta |-> r.meta]
    BY DEF Redeemed
  <2> QED
    BY <2>1, <2>2
<1> HIDE DEF SpentWasAccepted
<1> QED
  BY <1>1, <1>2, <1>3, ServerImplementsLedger, PTL DEF ImplementsLedger, Ledger!Spec
=============================================================================

----------------------------- MODULE TrustServer -----------------------------
(***************************************************************************)
(* cmd/server: the three HTTP handlers, the two sync.Maps they share, the  *)
(* temperature store they feed and the background sweep of the maps.       *)
(*                                                                         *)
(*   GET  /challenge   record, score, derive a challenge, store it         *)
(*   POST /verify      take a challenge, check its solutions, sign blindly *)
(*   POST /siteverify  accept a token unless its nonce is remembered       *)
(*                                                                         *)
(* net/http runs every request on a goroutine of its own.  A handler is a  *)
(* slot such a goroutine runs in; the calls it makes on shared state are   *)
(* steps of their own, because nothing but each call is atomic.  Steps     *)
(* that only compute on local data are merged with the next shared one,    *)
(* unless they read the clock.  The finer grain of the temperature store   *)
(* (its clock is read before its mutex is taken) is in TempStore.          *)
(*                                                                         *)
(* The signature scheme is modelled by what it promises: a token verifies  *)
(* exactly when its nonce was blinded by a client for a challenge and the  *)
(* server signed that blinded nonce under the metadata the token carries.  *)
(***************************************************************************)
EXTENDS Temperature

CONSTANTS
    Handler,         \* slots for concurrently running requests
    ChallengeID,     \* bound: challenge ids the generator may draw
    Nonce,           \* bound: client nonces
    TestSiteKey,     \* the server's site key and siteverify secret
    Absent,          \* what a map holds for a key that is not in it
    ChallengeTTL, TokenTTL,
    HourLength,      \* ticks in an hour, the unit of TimeBucket
    SweepPeriod,     \* ticks between two firings of the sweep's ticker
    MaxHandlerTime   \* timing assumption: a handler answers within this time

ASSUME ServerAssumption ==
    /\ TestSiteKey \in Site
    /\ Absent \notin Nat
    /\ ChallengeTTL \in Nat
    /\ TokenTTL \in Nat
    /\ HourLength \in Nat \ {0}
    /\ SweepPeriod \in Nat \ {0}
    /\ MaxHandlerTime \in Nat

(***************************************************************************)
(* The server sets no timeouts on its handlers.  What the memory of nonces *)
(* needs is that none outlives the time a nonce is remembered, 5 minutes.  *)
(***************************************************************************)
ASSUME HandlersAreTimely == MaxHandlerTime <= TokenTTL

Meta == [ challengeClass: 0..3, temperatureBucket: Bucket,
          deviceClass: 0..2, timeBucket: Nat ]

\* challengeEntry: of the payload only its deadline matters here.
Entry == [expiresAt: Nat, predictedMeta: Meta, expiry: Nat]

ASSUME AbsentIsNoEntry == Absent \notin Entry

\* A nonce with metadata, and whether its signature bytes verify for them.
Token == [nonce: Nonce, meta: Meta, genuine: BOOLEAN]

(***************************************************************************)
(* What a request proves.  A solution is right or wrong; an Argon2 result  *)
(* may be left out; the probes give an anomaly below 0.5 or not.           *)
(***************************************************************************)
Proof == [hashcash: BOOLEAN, argon2: {"omitted", "right", "wrong"}, probePass: BOOLEAN]

VARIABLES
    now,           \* the wall clock
    challenges,    \* sync.Map: challenge id -> Entry
    tokens,        \* sync.Map: nonce -> expiry
    sweep,         \* cleanupLoop: its ticker's channel, phase and locals
    task,          \* task[h]: where handler h is, with its locals
    \* History, read only by Genuine and by the properties:
    offers,        \* challenges sent to clients
    taken,         \* ids removed by /verify
    issuances,     \* blind signatures sent to clients
    redemptions    \* tokens accepted by /siteverify

mapVars == <<challenges, tokens>>
history == <<offers, taken, issuances, redemptions>>
vars == <<now, challenges, tokens, sweep, task, history, tempVars>>

Idle == [stage |-> "idle"]

Task ==
    {Idle}
    \cup [stage: {"score"}, id: ChallengeID, ip: IP, site: Site, since: Nat]
    \cup [stage: {"offer"}, id: ChallengeID, bucket: Bucket, expiresAt: Nat, since: Nat]
    \cup [stage: {"delete", "check"}, id: ChallengeID, entry: Entry, since: Nat]
    \cup [stage: {"record"}, id: ChallengeID, entry: Entry, class: 1..2,
          pass: BOOLEAN, since: Nat]
    \cup [stage: {"sign"}, id: ChallengeID, entry: Entry, class: 1..2, since: Nat]
    \cup [stage: {"redeem"}, token: Token, since: Nat]

Offer == [id: ChallengeID, meta: Meta, expiresAt: Nat, at: Nat]
Issuance == [id: ChallengeID, nonce: Nonce, meta: Meta, by: Handler]
Redemption == [nonce: Nonce, meta: Meta, at: Nat, by: Handler]
Sweep == [phase: {"idle", "challenges", "tokens"}, due: BOOLEAN, cutoff: Nat,
          doomed: Nonce \cup {Absent}]

\* Every variable holds a value of its kind.
TypeOK ==
    /\ TempTypeOK
    /\ now \in Time
    /\ challenges \in [ChallengeID -> Entry \cup {Absent}]
    /\ tokens \in [Nonce -> Nat \cup {Absent}]
    /\ sweep \in Sweep
    /\ task \in [Handler -> Task]
    /\ offers \subseteq Offer
    /\ taken \subseteq ChallengeID
    /\ issuances \subseteq Issuance
    /\ redemptions \subseteq Redemption

Init ==
    /\ TempInit
    /\ now = 0
    /\ challenges = [id \in ChallengeID |-> Absent]
    /\ tokens = [n \in Nonce |-> Absent]
    /\ sweep = [phase |-> "idle", due |-> FALSE, cutoff |-> 0, doomed |-> Absent]
    /\ task = [h \in Handler |-> Idle]
    /\ offers = {}
    /\ taken = {}
    /\ issuances = {}
    /\ redemptions = {}

Goto(h, next) == task' = [task EXCEPT ![h] = next]
Answer(h) == Goto(h, Idle)

TimeBucketFromTime(t) == t \div HourLength

(***************************************************************************)
(* Entries are dropped when expiry.Before(cutoff).                         *)
(***************************************************************************)
Expired_Inclusive(expiry, t) == expiry <= t
Expired(expiry, t) == expiry < t

-----------------------------------------------------------------------------
(***************************************************************************)
(* A request refused before it touches shared state: wrong method,         *)
(* undecodable body, no site key, wrong secret, malformed token, a         *)
(* challenge id that is not in the map, a nonce that is remembered.        *)
(***************************************************************************)
Refuse(h) ==
    /\ task[h] = Idle
    /\ UNCHANGED vars

(***************************************************************************)
(* GET /challenge.  The request counts against its address before it is    *)
(* scored.  The id is 16 random bytes: one never drawn before.             *)
(***************************************************************************)
Drawn ==
    {o.id : o \in offers}
    \cup {task[h].id : h \in {g \in Handler : task[g].stage \in {"score", "offer"}}}

ChallengeRecord(h) ==
    /\ task[h] = Idle
    /\ \E id \in ChallengeID \ Drawn, ip \in IP, site \in Site :
          /\ Record(ip, now)
          /\ Goto(h, [stage |-> "score", id |-> id, ip |-> ip, site |-> site,
                      since |-> now])
    /\ UNCHANGED <<now, mapVars, sweep, history>>

\* Score picks the bucket; challenge.New stamps the deadline.
ChallengeScore(h) ==
    /\ task[h].stage = "score"
    /\ LET score == ScoreOf(task[h].ip, task[h].site, now)
       IN  Goto(h, [stage |-> "offer", id |-> task[h].id,
                    bucket |-> scoreToBucket(score),
                    expiresAt |-> now + ChallengeTTL, since |-> task[h].since])
    /\ UNCHANGED <<now, mapVars, sweep, history, tempVars>>

PredictedMeta(bucket, t) ==
    [ challengeClass |-> 2, temperatureBucket |-> bucket,
      deviceClass |-> 1, timeBucket |-> TimeBucketFromTime(t) ]

EntryFor_Short(bucket, expiresAt, t) ==
    [ expiresAt |-> expiresAt, predictedMeta |-> PredictedMeta(bucket, t), expiry |-> t ]
EntryFor(bucket, expiresAt, t) ==
    [ expiresAt |-> expiresAt, predictedMeta |-> PredictedMeta(bucket, t),
      expiry |-> t + ChallengeTTL ]

ChallengeOffer(h) ==
    /\ task[h].stage = "offer"
    /\ LET id    == task[h].id
           entry == EntryFor(task[h].bucket, task[h].expiresAt, now)
       IN  /\ challenges' = [challenges EXCEPT ![id] = entry]
           /\ offers' = offers \cup {[ id |-> id, meta |-> entry.predictedMeta,
                                       expiresAt |-> entry.expiresAt, at |-> now ]}
    /\ Answer(h)
    /\ UNCHANGED <<now, tokens, sweep, taken, issuances, redemptions, tempVars>>

-----------------------------------------------------------------------------
(***************************************************************************)
(* POST /verify.  The challenge is loaded and deleted by two calls.  Its   *)
(* deadline is read once, when the solutions are checked; recording,       *)
(* signing and counting the token come after and do not look at it again.  *)
(***************************************************************************)
VerifyLoad(h) ==
    /\ task[h] = Idle
    /\ \E id \in ChallengeID :
          /\ challenges[id] # Absent
          /\ Goto(h, [stage |-> "delete", id |-> id, entry |-> challenges[id],
                      since |-> now])
    /\ UNCHANGED <<now, mapVars, sweep, history, tempVars>>

Without_Kept(map, key) == map
Without(map, key) == [map EXCEPT ![key] = Absent]

VerifyDelete(h) ==
    /\ task[h].stage = "delete"
    /\ challenges' = Without(challenges, task[h].id)
    /\ taken' = taken \cup {task[h].id}
    /\ Goto(h, [task[h] EXCEPT !.stage = "check"])
    /\ UNCHANGED <<now, tokens, sweep, offers, issuances, redemptions, tempVars>>

(***************************************************************************)
(* challenge.Verify.  An omitted Argon2 result is not an error: the client *)
(* then reached class 1 only.  The class returned is dropped by its caller *)
(* and carried here for the properties.                                    *)
(***************************************************************************)
Accepts_Late(entry, proof, t) == proof.hashcash /\ proof.argon2 # "wrong"
Accepts(entry, proof, t) ==
    /\ t <= entry.expiresAt
    /\ proof.hashcash
    /\ proof.argon2 # "wrong"

ClassReached_Unset(proof) == IF proof.argon2 = "right" THEN 2 ELSE 0
ClassReached(proof) == IF proof.argon2 = "right" THEN 2 ELSE 1

VerifyPass(h) ==
    /\ task[h].stage = "check"
    /\ \E proof \in Proof :
          /\ Accepts(task[h].entry, proof, now)
          /\ Goto(h, [stage |-> "record", id |-> task[h].id, entry |-> task[h].entry,
                      class |-> ClassReached(proof), pass |-> proof.probePass,
                      since |-> task[h].since])
    /\ UNCHANGED <<now, mapVars, sweep, history, tempVars>>

VerifyReject_Silent(h) ==
    /\ task[h].stage = "check"
    /\ now <= task[h].entry.expiresAt
    /\ \E proof \in Proof : ~Accepts(task[h].entry, proof, now)
    /\ Answer(h)
    /\ UNCHANGED <<now, mapVars, sweep, history, tempVars>>

VerifyReject(h) ==
    /\ task[h].stage = "check"
    /\ \E proof \in Proof : ~Accepts(task[h].entry, proof, now)
    /\ Answer(h)
    /\ UNCHANGED <<now, mapVars, sweep, history, tempVars>>

\* The address is that of this request, which need not be the challenge's.
VerifyRecord(h) ==
    /\ task[h].stage = "record"
    /\ \E ip \in IP : RecordProbe(ip, now, task[h].pass)
    /\ Goto(h, [stage |-> "sign", id |-> task[h].id, entry |-> task[h].entry,
                class |-> task[h].class, since |-> task[h].since])
    /\ UNCHANGED <<now, mapVars, sweep, history>>

\* The blinded message does not decode, or is not below the modulus.
VerifyUnsigned(h) ==
    /\ task[h].stage = "sign"
    /\ Answer(h)
    /\ UNCHANGED <<now, mapVars, sweep, history, tempVars>>

\* Never recompute: the metadata the client blinded with is the stored one.
SignedMeta_Recomputed(entry, t) ==
    [entry.predictedMeta EXCEPT !.timeBucket = TimeBucketFromTime(t)]
SignedMeta(entry, t) == entry.predictedMeta

VerifyIssue(h) ==
    /\ task[h].stage = "sign"
    /\ \E nonce \in Nonce, site \in Site :
          /\ RecordTokenBurn(site)
          /\ issuances' = issuances \cup
                 {[ id |-> task[h].id, nonce |-> nonce,
                    meta |-> SignedMeta(task[h].entry, now), by |-> h ]}
    /\ Answer(h)
    /\ UNCHANGED <<now, mapVars, sweep, offers, taken, redemptions>>

-----------------------------------------------------------------------------
(***************************************************************************)
(* POST /siteverify.  A client that blinded a nonce with the metadata of   *)
(* the challenge it solved gets a signature valid for that pair when the   *)
(* server signed under the same metadata, and for nothing else.            *)
(***************************************************************************)
Genuine(nonce, meta) ==
    \E i \in issuances :
        /\ i.nonce = nonce
        /\ i.meta = meta
        /\ \E o \in offers : o.id = i.id /\ o.meta = meta

Seen_Never(nonce) == FALSE
Seen(nonce) == tokens[nonce] # Absent

Redeeming(nonce, meta) ==
    [ stage |-> "redeem", since |-> now,
      token |-> [nonce |-> nonce, meta |-> meta, genuine |-> Genuine(nonce, meta)] ]

\* A nonce marked as used before its signature is verified.
SiteverifyLoad_Marks(h) ==
    /\ task[h] = Idle
    /\ \E nonce \in Nonce, meta \in {o.meta : o \in offers} :
          /\ ~Seen(nonce)
          /\ tokens' = [tokens EXCEPT ![nonce] = now + TokenTTL]
          /\ Goto(h, Redeeming(nonce, meta))
    /\ UNCHANGED <<now, challenges, sweep, history, tempVars>>

\* Bound: a token carries metadata some client was sent.
SiteverifyLoad(h) ==
    /\ task[h] = Idle
    /\ \E nonce \in Nonce, meta \in {o.meta : o \in offers} :
          /\ ~Seen(nonce)
          /\ Goto(h, Redeeming(nonce, meta))
    /\ UNCHANGED <<now, mapVars, sweep, history, tempVars>>

Verifies_Any(token) == TRUE
Verifies(token) == token.genuine

SiteverifyInvalid(h) ==
    /\ task[h].stage = "redeem"
    /\ ~Verifies(task[h].token)
    /\ Answer(h)
    /\ UNCHANGED <<now, mapVars, sweep, history, tempVars>>

SiteverifyRedeem(h) ==
    /\ task[h].stage = "redeem"
    /\ Verifies(task[h].token)
    /\ LET nonce == task[h].token.nonce
       IN  /\ tokens' = [tokens EXCEPT ![nonce] = now + TokenTTL]
           /\ redemptions' = redemptions \cup
                  {[ nonce |-> nonce, meta |-> task[h].token.meta, at |-> now, by |-> h ]}
    /\ Answer(h)
    /\ UNCHANGED <<now, challenges, sweep, offers, taken, issuances, tempVars>>

-----------------------------------------------------------------------------
(***************************************************************************)
(* cleanupLoop.  One clock reading serves both maps.  Range hands each     *)
(* entry to a callback that deletes the key unconditionally, whatever the  *)
(* key maps to by then.  Range visits every key that stays in the map, so  *)
(* a pass ends only when no entry expired by the cutoff is left.           *)
(***************************************************************************)
SweepStart_Stale ==
    /\ sweep.phase = "idle"
    /\ sweep.due
    /\ sweep' = [sweep EXCEPT !.phase = "challenges", !.due = FALSE]
    /\ UNCHANGED <<now, mapVars, task, history, tempVars>>

SweepStart ==
    /\ sweep.phase = "idle"
    /\ sweep.due
    /\ sweep' = [sweep EXCEPT !.phase = "challenges", !.due = FALSE, !.cutoff = now]
    /\ UNCHANGED <<now, mapVars, task, history, tempVars>>

ExpiredChallenges ==
    {id \in ChallengeID : /\ challenges[id] # Absent
                          /\ Expired(challenges[id].expiry, sweep.cutoff)}

ExpiredTokens ==
    {n \in Nonce : tokens[n] # Absent /\ Expired(tokens[n], sweep.cutoff)}

\* An id is stored once, so reading its entry and deleting it can be one step.
SweepChallenge ==
    /\ sweep.phase = "challenges"
    /\ \E id \in ExpiredChallenges : challenges' = Without(challenges, id)
    /\ UNCHANGED <<now, tokens, sweep, task, history, tempVars>>

SweepTurn ==
    /\ sweep.phase = "challenges"
    /\ ExpiredChallenges = {}
    /\ sweep' = [sweep EXCEPT !.phase = "tokens"]
    /\ UNCHANGED <<now, mapVars, task, history, tempVars>>

SweepToken ==
    /\ sweep.phase = "tokens"
    /\ sweep.doomed = Absent
    /\ \E n \in ExpiredTokens : sweep' = [sweep EXCEPT !.doomed = n]
    /\ UNCHANGED <<now, mapVars, task, history, tempVars>>

SweepDelete ==
    /\ sweep.doomed # Absent
    /\ tokens' = Without(tokens, sweep.doomed)
    /\ sweep' = [sweep EXCEPT !.doomed = Absent]
    /\ UNCHANGED <<now, challenges, task, history, tempVars>>

SweepEnd ==
    /\ sweep.phase = "tokens"
    /\ sweep.doomed = Absent
    /\ ExpiredTokens = {}
    /\ sweep' = [sweep EXCEPT !.phase = "idle", !.cutoff = 0]
    /\ UNCHANGED <<now, mapVars, task, history, tempVars>>

(***************************************************************************)
(* The store's own cleanup goroutine, whose interleavings are in TempStore *)
(***************************************************************************)
CleanupStore ==
    /\ Cleanup(now - Window)
    /\ UNCHANGED <<now, mapVars, sweep, task, history>>

-----------------------------------------------------------------------------
(***************************************************************************)
(* Time passes while handlers run, but none runs past MaxHandlerTime.  The *)
(* ticker's channel holds one firing: a slow sweep drops the others.       *)
(***************************************************************************)
Tick ==
    /\ now < MaxTime
    /\ \A h \in Handler : task[h] # Idle => now - task[h].since < MaxHandlerTime
    /\ now' = now + 1
    /\ sweep' = [sweep EXCEPT !.due = @ \/ (now + 1) % SweepPeriod = 0]
    /\ UNCHANGED <<mapVars, task, history, tempVars>>

Continue(h) ==
    \/ ChallengeScore(h) \/ ChallengeOffer(h)
    \/ VerifyDelete(h) \/ VerifyPass(h) \/ VerifyReject(h) \/ VerifyRecord(h)
    \/ VerifyUnsigned(h) \/ VerifyIssue(h)
    \/ SiteverifyInvalid(h) \/ SiteverifyRedeem(h)

Serve(h) ==
    \/ Refuse(h) \/ ChallengeRecord(h) \/ VerifyLoad(h) \/ SiteverifyLoad(h)
    \/ Continue(h)

CleanupLoop ==
    SweepStart \/ SweepChallenge \/ SweepTurn \/ SweepToken \/ SweepDelete \/ SweepEnd

Next == Tick \/ CleanupLoop \/ CleanupStore \/ \E h \in Handler : Serve(h)

(***************************************************************************)
(* A request once begun runs to its answer, the sweep runs when its ticker *)
(* fires, and time passes.  No client need ever send a request.            *)
(***************************************************************************)
Spec ==
    /\ Init /\ [][Next]_vars
    /\ WF_vars(Tick)
    /\ WF_vars(CleanupLoop)
    /\ \A h \in Handler : WF_vars(Continue(h))

-----------------------------------------------------------------------------
(***************************************************************************)
(* Remembering accepted tokens.                                            *)
(***************************************************************************)

\* For TokenTTL after a token is accepted its nonce is in the map, whatever
\* the sweep is in the middle of: the sweep deletes without looking again,
\* so this rests on no handler storing a key the sweep has already judged.
AcceptedNonceRemembered ==
    \A r \in redemptions : now <= r.at + TokenTTL => tokens[r.nonce] # Absent

\* A handler about to accept a token has not itself accepted that nonce in
\* the last TokenTTL: requests that do not overlap cannot both be accepted.
\* (Requests that do overlap can: see AcceptedOnce.)
ReplayNeedsOverlap ==
    \A h \in Handler : task[h].stage = "redeem" =>
        \A r \in redemptions :
            r.nonce = task[h].token.nonce /\ r.by = h => now > r.at + TokenTTL

\* A nonce is only ever refused as a duplicate because a genuine token with
\* it was accepted before: submitting forged tokens cannot burn a nonce.
OnlyAcceptedNoncesRefused ==
    \A n \in Nonce : tokens[n] # Absent => \E r \in redemptions : r.nonce = n

(***************************************************************************)
(* From challenge to token.                                                *)
(***************************************************************************)

\* A client that solves its challenge by the deadline it was sent finds it
\* in the map, unless a /verify already took it.
KeptUntilDeadline ==
    \A o \in offers : now <= o.expiresAt => challenges[o.id] # Absent \/ o.id \in taken

\* The metadata under a blind signature is what the client was sent with
\* the challenge, however much time passed in between: otherwise the
\* unblinded token would not verify.
SignedUnderOfferedMeta ==
    \A i \in issuances : \E o \in offers : o.id = i.id /\ o.meta = i.meta

\* The deadline is checked before the slow part of a /verify, yet no
\* handler is still about to sign more than one handler's time after it.
SignedByDeadline ==
    \A h \in Handler : task[h].stage = "sign" =>
        \E o \in offers : o.id = task[h].id /\ now <= o.expiresAt + MaxHandlerTime

\* A handler working on a challenge has not itself signed for it before:
\* one solution gives several signatures only to overlapping requests.
ReuseNeedsOverlap ==
    \A h \in Handler : task[h].stage \in {"delete", "check", "record", "sign"} =>
        \A i \in issuances : i.id = task[h].id => i.by # h

\* Every accepted token goes back to a signature sent for its nonce, under
\* its metadata, for a challenge that /verify took and that offered it.
AcceptedWasIssued ==
    \A r \in redemptions : \E i \in issuances, o \in offers :
        /\ i.nonce = r.nonce /\ i.meta = r.meta
        /\ o.id = i.id /\ o.meta = r.meta /\ o.at <= r.at
        /\ i.id \in taken

(***************************************************************************)
(* The ledger a relying party may think of instead: a handler that is      *)
(* about to redeem has a check open, and a nonce in the map is spent.      *)
(***************************************************************************)
Minted == {[nonce |-> i.nonce, meta |-> i.meta] : i \in issuances}
Redeemed == {[nonce |-> r.nonce, meta |-> r.meta] : r \in redemptions}
Remembering == {n \in Nonce : tokens[n] # Absent}
Checking == [h \in Handler |-> IF task[h].stage = "redeem" THEN task[h].token ELSE Idle]

Ledger == INSTANCE TokenLedger WITH
    minted <- Minted, checking <- Checking, spent <- Remembering,
    accepted <- Redeemed, NoCheck <- Idle

\* Every behaviour of the server is one of the ledger: what it remembers of
\* a token outlives every check begun before, so a nonce is spent by checks
\* that overlap and by no other, for as long as it is remembered.
ImplementsLedger == Ledger!Spec

(***************************************************************************)
(* Progress.                                                               *)
(***************************************************************************)

\* Every request that is begun is answered.
EveryRequestAnswered ==
    \A h \in Handler : task[h] # Idle ~> task[h] = Idle

\* What expires before the sweep's last firing within the bound is dropped.
LastFiring == SweepPeriod * (MaxTime \div SweepPeriod)

ExpiredDropped ==
    /\ \A n \in Nonce :
         LET Stale == tokens[n] # Absent /\ tokens[n] < LastFiring
         IN  Stale ~> ~Stale
    /\ \A id \in ChallengeID :
         LET Stale == challenges[id] # Absent /\ challenges[id].expiry < LastFiring
         IN  Stale ~> ~Stale

(***************************************************************************)
(* What the repository says and the code does not do: see the README.      *)
(***************************************************************************)

\* "Replay protection - same token must fail": no nonce is accepted twice
\* while it is remembered.
AcceptedOnce ==
    \A r, s \in redemptions :
        r.nonce = s.nonce /\ r # s => r.at > s.at + TokenTTL \/ s.at > r.at + TokenTTL

\* "It encodes what the client proved": the challenge class a handler is
\* about to sign is the class challenge.Verify found.
ClassIsProved ==
    \A h \in Handler : task[h].stage = "sign" =>
        SignedMeta(task[h].entry, now).challengeClass = task[h].class
=============================================================================

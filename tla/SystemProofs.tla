----------------------------- MODULE SystemProofs -----------------------------
(***************************************************************************)
(* What the pages of TrustSystem are told is founded, for every number of  *)
(* pages, handlers, challenges and nonces, and for every number of lost    *)
(* answers and of restarts.                                                *)
(*                                                                         *)
(* What a page holds does not rest on the memory of nonces, which a        *)
(* restart empties, nor on handlers being timely.  It rests on three       *)
(* things.  What is signed is what was offered, and both are only added    *)
(* to.  A handler at work is heard by the page it serves, or that page has *)
(* lost an answer.  And a page has at most one request under way that it   *)
(* hears, so what is accepted of its nonce beyond the verdict it saw is    *)
(* paid for by a loss each.  Only that a page which hears everything fails *)
(* late rests on more: on what the server keeps until its first restart.   *)
(***************************************************************************)
EXTENDS TrustSystem, TrustServerProofs, FiniteSetTheorems

-----------------------------------------------------------------------------
(***************************************************************************)
(* The server: what is signed was offered, across restarts.                *)
(***************************************************************************)
\* What a request in progress knows of challenges and of signatures.
Founded(k) ==
    /\ k.stage \in Working => Offered(k.id, k.entry)
    /\ k.stage = "redeem" /\ k.token.genuine => Genuine(k.token.nonce, k.token.meta)

TasksFounded == \A h \in Handler : Founded(task[h])

SignInv ==
    /\ TasksFounded /\ EntriesOffered /\ SignedUnderOfferedMeta
    /\ OnlyAcceptedNoncesRefused

LEMMA SignInit == Init => SignInv
BY IdleStage
DEF Init, SignInv, TasksFounded, Founded, Working, EntriesOffered,
    SignedUnderOfferedMeta, OnlyAcceptedNoncesRefused

\* Offers and signatures are only added to, so a handler that goes on with
\* what it knows still knows it.
LEMMA StaysFounded ==
    ASSUME TypeOK, SignInv, NEW h \in Handler, NEW next, Goto(h, next), Founded(next),
           offers \subseteq offers', issuances \subseteq issuances'
    PROVE  TasksFounded'
<1>1. task'[h] = next /\ \A g \in Handler : g # h => task'[g] = task[g]
  BY DEF Goto, TypeOK
<1>2. Founded(task'[h]) /\ \A g \in Handler : g # h => Founded(task'[g])
  BY <1>1 DEF SignInv, TasksFounded
<1>3. ASSUME NEW k, Founded(k)
      PROVE  /\ k.stage \in Working =>
                    \E o \in offers' : /\ o.id = k.id /\ o.meta = k.entry.predictedMeta
                                       /\ o.expiresAt = k.entry.expiresAt
             /\ k.stage = "redeem" /\ k.token.genuine =>
                    \E i \in issuances' :
                        /\ i.nonce = k.token.nonce /\ i.meta = k.token.meta
                        /\ \E o \in offers' : o.id = i.id /\ o.meta = k.token.meta
  BY <1>3 DEF Founded, Offered, Genuine
<1> QED
  BY <1>2, <1>3 DEF TasksFounded, Founded, Offered, Genuine

\* Steps of a handler that change nothing shared.
LEMMA SignLocal ==
    ASSUME TypeOK, SignInv, NEW h \in Handler, NEW next, Goto(h, next), Founded(next),
           UNCHANGED <<challenges, tokens, offers, issuances, redemptions>>
    PROVE  SignInv'
<1>1. TasksFounded'
  BY StaysFounded
<1> QED
  BY <1>1 DEF SignInv, EntriesOffered, Offered, SignedUnderOfferedMeta,
              OnlyAcceptedNoncesRefused

LEMMA SignServe ==
    ASSUME TypeOK, SignInv, NEW h \in Handler, Serve(h)
    PROVE  SignInv'
<1> USE IdleStage DEF Working
<1>1. Founded(Idle)
  BY DEF Founded
<1>2. task[h] \in Task /\ Founded(task[h])
  BY DEF TypeOK, SignInv, TasksFounded
<1>3. CASE Refuse(h)
  BY <1>3
  DEF Refuse, vars, mapVars, history, SignInv, TasksFounded, Founded, EntriesOffered,
      Offered, Genuine, SignedUnderOfferedMeta, OnlyAcceptedNoncesRefused
<1>4. CASE ChallengeRecord(h)
  <2>1. PICK id \in ChallengeID, ip \in IP, site \in Site :
           Goto(h, [stage |-> "score", id |-> id, ip |-> ip, site |-> site, since |-> now])
    BY <1>4 DEF ChallengeRecord
  <2>2. Founded([stage |-> "score", id |-> id, ip |-> ip, site |-> site, since |-> now])
    BY DEF Founded
  <2> QED
    BY <1>4, <2>1, <2>2, SignLocal DEF ChallengeRecord, mapVars, history
<1>5. CASE ChallengeScore(h)
  <2>1. PICK b :
           Goto(h, [stage |-> "offer", id |-> task[h].id, bucket |-> b,
                    expiresAt |-> now + ChallengeTTL, since |-> task[h].since])
    BY <1>5 DEF ChallengeScore
  <2>2. Founded([stage |-> "offer", id |-> task[h].id, bucket |-> b,
                 expiresAt |-> now + ChallengeTTL, since |-> task[h].since])
    BY DEF Founded
  <2> QED
    BY <1>5, <2>1, <2>2, SignLocal DEF ChallengeScore, mapVars, history
<1>6. CASE ChallengeOffer(h)
  <2> DEFINE id == task[h].id
             entry == EntryFor(task[h].bucket, task[h].expiresAt, now)
             offer == [ id |-> id, meta |-> entry.predictedMeta,
                        expiresAt |-> entry.expiresAt, at |-> now ]
  <2>1. /\ challenges' = [challenges EXCEPT ![id] = entry]
        /\ offers' = offers \cup {offer}
        /\ Goto(h, Idle)
        /\ UNCHANGED <<tokens, issuances, redemptions>>
    BY <1>6 DEF ChallengeOffer, Answer
  <2>2. /\ offer.id = id /\ offer.meta = entry.predictedMeta
        /\ offer.expiresAt = entry.expiresAt
    OBVIOUS
  <2> HIDE DEF id, entry, offer
  <2>3. \A i \in ChallengeID :
           challenges'[i] = challenges[i] \/ (i = id /\ challenges'[i] = entry)
    BY <2>1 DEF TypeOK
  <2>4. EntriesOffered'
    BY <2>1, <2>2, <2>3 DEF SignInv, EntriesOffered, Offered
  <2>5. TasksFounded'
    BY <1>1, <2>1, StaysFounded
  <2> QED
    BY <2>1, <2>4, <2>5 DEF SignInv, SignedUnderOfferedMeta, OnlyAcceptedNoncesRefused
<1>7. CASE VerifyLoad(h)
  <2>1. PICK id \in ChallengeID :
           /\ challenges[id] # Absent
           /\ Goto(h, [stage |-> "delete", id |-> id, entry |-> challenges[id],
                       since |-> now])
    BY <1>7 DEF VerifyLoad
  <2>2. Founded([stage |-> "delete", id |-> id, entry |-> challenges[id], since |-> now])
    BY <2>1 DEF Founded, SignInv, EntriesOffered
  <2> QED
    BY <1>7, <2>1, <2>2, SignLocal DEF VerifyLoad, mapVars, history
<1>8. CASE VerifyDelete(h)
  <2> DEFINE next == [task[h] EXCEPT !.stage = "check"]
  <2>1. /\ challenges' = [challenges EXCEPT ![task[h].id] = Absent]
        /\ Goto(h, next)
        /\ UNCHANGED <<tokens, offers, issuances, redemptions>>
    BY <1>8 DEF VerifyDelete, Without
  <2>2. /\ task[h].stage = "delete" /\ next.stage = "check"
        /\ next.id = task[h].id /\ next.entry = task[h].entry
    BY <1>2, <1>8 DEF VerifyDelete, Task, Idle
  <2> HIDE DEF next
  <2>3. Founded(next)
    BY <1>2, <2>2 DEF Founded
  <2>4. TasksFounded'
    BY <2>1, <2>3, StaysFounded
  <2>5. \A i \in ChallengeID : challenges'[i] # Absent => challenges'[i] = challenges[i]
    BY <2>1 DEF TypeOK
  <2>6. EntriesOffered'
    BY <2>1, <2>5 DEF SignInv, EntriesOffered, Offered
  <2> QED
    BY <2>1, <2>4, <2>6 DEF SignInv, SignedUnderOfferedMeta, OnlyAcceptedNoncesRefused
<1>9. CASE VerifyPass(h)
  <2>1. PICK class, pass :
           Goto(h, [stage |-> "record", id |-> task[h].id, entry |-> task[h].entry,
                    class |-> class, pass |-> pass, since |-> task[h].since])
    BY <1>9 DEF VerifyPass
  <2>2. Founded([stage |-> "record", id |-> task[h].id, entry |-> task[h].entry,
                 class |-> class, pass |-> pass, since |-> task[h].since])
    BY <1>2, <1>9 DEF VerifyPass, Founded
  <2> QED
    BY <1>9, <2>1, <2>2, SignLocal DEF VerifyPass, mapVars, history
<1>10. CASE VerifyRecord(h)
  <2> DEFINE next == [stage |-> "sign", id |-> task[h].id, entry |-> task[h].entry,
                      class |-> task[h].class, since |-> task[h].since]
  <2>1. Founded(next)
    BY <1>2, <1>10 DEF VerifyRecord, Founded
  <2>2. Goto(h, next)
    BY <1>10 DEF VerifyRecord
  <2> QED
    BY <1>10, <2>1, <2>2, SignLocal DEF VerifyRecord, mapVars, history
<1>11. CASE VerifyIssue(h)
  <2>1. PICK nonce \in Nonce :
           issuances' = issuances \cup
               {[ id |-> task[h].id, nonce |-> nonce,
                  meta |-> SignedMeta(task[h].entry, now), by |-> h ]}
    BY <1>11 DEF VerifyIssue
  <2>2. Goto(h, Idle) /\ UNCHANGED <<challenges, tokens, offers, redemptions>>
    BY <1>11 DEF VerifyIssue, Answer, mapVars
  <2>3. TasksFounded'
    BY <1>1, <2>1, <2>2, StaysFounded
  <2>4. Offered(task[h].id, task[h].entry)
    BY <1>2, <1>11 DEF VerifyIssue, Founded
  <2>5. SignedUnderOfferedMeta'
    BY <2>1, <2>2, <2>4 DEF SignInv, SignedUnderOfferedMeta, Offered, SignedMeta
  <2> QED
    BY <2>2, <2>3, <2>5 DEF SignInv, EntriesOffered, Offered, OnlyAcceptedNoncesRefused
<1>12. CASE VerifyReject(h) \/ VerifyUnsigned(h) \/ SiteverifyInvalid(h)
  BY <1>1, <1>12, SignLocal
  DEF VerifyReject, VerifyUnsigned, SiteverifyInvalid, Answer, mapVars, history
<1>13. CASE SiteverifyLoad(h)
  <2>1. PICK nonce \in Nonce, meta \in {o.meta : o \in offers} :
           Goto(h, Redeeming(nonce, meta))
    BY <1>13 DEF SiteverifyLoad
  <2>2. Founded(Redeeming(nonce, meta))
    BY DEF Founded, Redeeming
  <2> QED
    BY <1>13, <2>1, <2>2, SignLocal DEF SiteverifyLoad, mapVars, history
<1>14. CASE SiteverifyRedeem(h)
  <2> DEFINE nonce == task[h].token.nonce
  <2>1. /\ tokens' = [tokens EXCEPT ![nonce] = now + TokenTTL]
        /\ redemptions' = redemptions \cup
               {[ nonce |-> nonce, meta |-> task[h].token.meta, at |-> now, by |-> h ]}
        /\ Goto(h, Idle)
        /\ UNCHANGED <<challenges, offers, issuances>>
    BY <1>14 DEF SiteverifyRedeem, Answer
  <2>2. TasksFounded'
    BY <1>1, <2>1, StaysFounded
  <2>3. \A n \in Nonce : tokens'[n] = tokens[n] \/ n = nonce
    BY <2>1 DEF TypeOK
  <2>4. OnlyAcceptedNoncesRefused'
    BY <2>1, <2>3 DEF SignInv, OnlyAcceptedNoncesRefused
  <2> QED
    BY <2>1, <2>2, <2>4 DEF SignInv, EntriesOffered, Offered, SignedUnderOfferedMeta
<1> QED
  BY <1>3, <1>4, <1>5, <1>6, <1>7, <1>8, <1>9, <1>10, <1>11, <1>12, <1>13, <1>14
  DEF Serve, Continue

\* The sweep and the clock add nothing.
LEMMA SignBackground ==
    ASSUME TypeOK, SignInv, Tick \/ CleanupLoop \/ CleanupStore \/ UNCHANGED vars
    PROVE  SignInv'
<1>1. UNCHANGED <<task, offers, issuances, redemptions>>
  BY DEF Tick, CleanupLoop, SweepStart, SweepChallenge, SweepTurn, SweepToken,
         SweepDelete, SweepEnd, CleanupStore, vars, history
<1>2. \A i \in ChallengeID : challenges'[i] # Absent => challenges'[i] = challenges[i]
  BY DEF Tick, CleanupLoop, SweepStart, SweepChallenge, SweepTurn, SweepToken,
         SweepDelete, SweepEnd, CleanupStore, vars, mapVars, Without, TypeOK
<1>3. \A n \in Nonce : tokens'[n] # Absent => tokens'[n] = tokens[n]
  BY DEF Tick, CleanupLoop, SweepStart, SweepChallenge, SweepTurn, SweepToken,
         SweepDelete, SweepEnd, CleanupStore, vars, mapVars, Without, TypeOK
<1>4. EntriesOffered' /\ OnlyAcceptedNoncesRefused'
  BY <1>1, <1>2, <1>3 DEF SignInv, EntriesOffered, Offered, OnlyAcceptedNoncesRefused
<1> QED
  BY <1>1, <1>4 DEF SignInv, TasksFounded, Founded, Offered, Genuine,
                    SignedUnderOfferedMeta

\* A restart forgets challenges and accepted nonces, and nothing signed.
LEMMA SignRestart ==
    ASSUME SignInv, Restart
    PROVE  SignInv'
BY IdleStage
DEF Restart, newServer, loadDevKey, SignInv, TasksFounded, Founded, Working,
    EntriesOffered, SignedUnderOfferedMeta, OnlyAcceptedNoncesRefused

LEMMA RestartType ==
    ASSUME TypeOK, Restart
    PROVE  TypeOK'
<1>1. TempTypeOK'
  BY TemperatureAssumption
  DEF Restart, newServer, TempTypeOK, Times, NoRequests
<1>2. sweep' \in Sweep
  BY DEF Restart, newServer, Sweep
<1>3. task' \in [Handler -> Task]
  BY DEF Restart, Task
<1> QED
  BY <1>1, <1>2, <1>3 DEF Restart, newServer, loadDevKey, TypeOK

-----------------------------------------------------------------------------
(***************************************************************************)
(* Pages and handlers: who waits for whom.                                 *)
(***************************************************************************)

\* A handler at work is heard by the page it serves, or that page has lost
\* an answer.
Heard ==
    \A h \in Handler : task[h] # Idle =>
        serving[h] \in Page /\ (Listening(h) \/ losses[serving[h]] > 0)

LinkInv == SystemTypeOK /\ Heard

LEMMA LinkInit == SystemInit => LinkInv
BY PagesAssumption DEF SystemInit, Init, LinkInv, SystemTypeOK, Heard, PageState, Waiting

\* A page that awaits nothing sends a request.
LEMMA LinkSend ==
    ASSUME TypeOK, LinkInv, NEW p \in Page, NEW h \in Handler, NEW next, NEW state,
           page[p].stage \notin Waiting, task[h] = Idle,
           next # Idle, state \in PageState, state.stage \in Waiting, state.from = h,
           Goto(h, next), Send(p, h, state)
    PROVE  LinkInv'
<1> USE PagesAssumption
<1>1. /\ task'[h] = next
      /\ \A g \in Handler : g # h => task'[g] = task[g]
  BY DEF Goto, TypeOK
<1>2. /\ page'[p] = state
      /\ \A q \in Page : q # p => page'[q] = page[q]
      /\ serving'[h] = p
      /\ \A g \in Handler : g # h => serving'[g] = serving[g]
      /\ page' \in [Page -> PageState]
      /\ serving' \in [Handler -> Page \cup {Nobody}]
      /\ UNCHANGED <<losses, restarts>>
  BY DEF Send, LinkInv, SystemTypeOK
<1>3. \A q \in Page : page[q].stage \in Waiting => page[q].from \in Handler
  BY DEF LinkInv, SystemTypeOK, PageState, Waiting
<1>4. SystemTypeOK'
  BY <1>1, <1>2, <1>3 DEF LinkInv, SystemTypeOK
<1>5. Heard'
  BY <1>1, <1>2 DEF LinkInv, Heard, Listening
<1> QED
  BY <1>4, <1>5 DEF LinkInv

\* A handler answers, to the page that still listens or to nobody.
LEMMA LinkReply ==
    ASSUME TypeOK, LinkInv, NEW h \in Handler, NEW state,
           Listening(h) => state \in PageState /\ state.stage \notin Waiting,
           Answer(h), Reply(h, state)
    PROVE  LinkInv'
<1> USE PagesAssumption
<1>1. /\ task'[h] = Idle
      /\ \A g \in Handler : g # h => task'[g] = task[g]
  BY DEF Answer, Goto, TypeOK
<1>2. /\ serving'[h] = Nobody
      /\ \A g \in Handler : g # h => serving'[g] = serving[g]
      /\ serving' \in [Handler -> Page \cup {Nobody}]
      /\ UNCHANGED <<losses, restarts>>
  BY DEF Reply, LinkInv, SystemTypeOK
<1>3. \A q \in Page : page[q].stage \in Waiting => page[q].from \in Handler
  BY DEF LinkInv, SystemTypeOK, PageState, Waiting
<1>4. CASE ~Listening(h)
  <2>1. UNCHANGED page
    BY <1>4 DEF Reply
  <2>2. \A q \in Page : page[q].stage \in Waiting => page[q].from # h
    BY <1>4 DEF LinkInv, SystemTypeOK, Listening
  <2>3. SystemTypeOK'
    BY <1>1, <1>2, <1>3, <2>1, <2>2 DEF LinkInv, SystemTypeOK
  <2>4. Heard'
    BY <1>1, <1>2, <2>1 DEF LinkInv, Heard, Listening
  <2> QED
    BY <2>3, <2>4 DEF LinkInv
<1>5. CASE Listening(h)
  <2>1. PICK p \in Page : p = serving[h]
    BY <1>5 DEF Listening, LinkInv, SystemTypeOK
  <2>2. /\ page[p].stage \in Waiting
        /\ page[p].from = h
        /\ page'[p] = state
        /\ \A q \in Page : q # p => page'[q] = page[q]
        /\ page' \in [Page -> PageState]
    BY <1>5, <2>1 DEF Listening, Reply, LinkInv, SystemTypeOK
  <2>3. \A q \in Page : q # p /\ page[q].stage \in Waiting => page[q].from # h
    BY <2>1 DEF LinkInv, SystemTypeOK
  <2>4. SystemTypeOK'
    BY <1>1, <1>2, <1>3, <1>5, <2>2, <2>3 DEF LinkInv, SystemTypeOK
  <2>5. Heard'
    BY <1>1, <1>2, <2>1, <2>2 DEF LinkInv, Heard, Listening
  <2> QED
    BY <2>4, <2>5 DEF LinkInv
<1> QED
  BY <1>4, <1>5

\* A page that awaits nothing is refused at once.
LEMMA LinkTold ==
    ASSUME TypeOK, LinkInv, NEW p \in Page, NEW h \in Handler, NEW state,
           page[p].stage \notin Waiting, state \in PageState, state.stage \notin Waiting,
           ToldAtOnce(p, h, state)
    PROVE  LinkInv'
<1>1. /\ page'[p] = state
      /\ \A q \in Page : q # p => page'[q] = page[q]
      /\ page' \in [Page -> PageState]
      /\ UNCHANGED <<task, serving, losses, restarts>>
  BY DEF ToldAtOnce, Refuse, vars, LinkInv, SystemTypeOK
<1>2. SystemTypeOK'
  BY <1>1 DEF LinkInv, SystemTypeOK
<1>3. Heard'
  BY <1>1 DEF LinkInv, Heard, Listening
<1> QED
  BY <1>2, <1>3 DEF LinkInv

\* What no page notices: the handler it waits for goes on.
LEMMA LinkOnward ==
    ASSUME TypeOK, LinkInv, UNCHANGED pageVars,
           \A g \in Handler : (task'[g] = Idle) <=> (task[g] = Idle)
    PROVE  LinkInv'
<1>1. \A q \in Page : page[q].stage \in Waiting => page[q].from \in Handler
  BY DEF LinkInv, SystemTypeOK, PageState, Waiting
<1>2. SystemTypeOK'
  BY <1>1 DEF LinkInv, SystemTypeOK, pageVars
<1>3. Heard'
  BY DEF LinkInv, Heard, Listening, pageVars
<1> QED
  BY <1>2, <1>3 DEF LinkInv

LEMMA LinkStops ==
    ASSUME TypeOK, LinkInv, NEW p \in Page, StopsHearing(p)
    PROVE  LinkInv'
<1> USE PagesAssumption
<1>1. /\ page'[p] = Unanswered(p)
      /\ \A q \in Page : q # p => page'[q] = page[q]
      /\ losses'[p] = losses[p] + 1
      /\ \A q \in Page : q # p => losses'[q] = losses[q]
      /\ losses' \in [Page -> 0..MaxLosses]
      /\ \A q \in Page : losses[q] \in Nat
      /\ UNCHANGED <<task, serving, restarts>>
  BY DEF StopsHearing, vars, LinkInv, SystemTypeOK
<1>2. Unanswered(p) \in PageState /\ Unanswered(p).stage \notin Waiting
  BY DEF LinkInv, SystemTypeOK, PageState, Unanswered, Waiting
<1>3. page' \in [Page -> PageState]
  BY <1>2 DEF StopsHearing, LinkInv, SystemTypeOK
<1>4. SystemTypeOK'
  BY <1>1, <1>2, <1>3 DEF LinkInv, SystemTypeOK
<1>5. Heard'
  BY <1>1 DEF LinkInv, Heard, Listening
<1> QED
  BY <1>4, <1>5 DEF LinkInv

LEMMA LinkRestart ==
    ASSUME TypeOK, LinkInv, Restart
    PROVE  LinkInv'
<1> USE PagesAssumption
<1>1. \A p \in Page : Unanswered(p).stage \notin Waiting
  BY DEF Unanswered, Waiting
<1>2. \A p \in Page : page[p] \in PageState /\ Unanswered(p) \in PageState
  BY DEF LinkInv, SystemTypeOK, PageState, Unanswered
<1>3. /\ \A p \in Page : page'[p].stage \notin Waiting
      /\ page' \in [Page -> PageState]
  BY <1>1, <1>2 DEF Restart
<1>4. SystemTypeOK'
  BY <1>3 DEF Restart, LinkInv, SystemTypeOK
<1>5. Heard'
  BY DEF Restart, Heard
<1> QED
  BY <1>4, <1>5 DEF LinkInv

-----------------------------------------------------------------------------
(***************************************************************************)
(* What pages hold and what is accepted of it.                             *)
(***************************************************************************)
Holding == {"token", "submitting", "duplicate", "unanswered", "invalid", "verified"}

\* A token under way to be redeemed verifies, and is its page's.
Owned(h) ==
    task[h].stage = "redeem" =>
        task[h].token.genuine /\ task[h].token.nonce = NonceOf[serving[h]]

HoldsGenuine(p) == page[p].stage \in Holding => Genuine(NonceOf[p], page[p].meta)

TokenInv ==
    /\ \A h \in Handler : Owned(h)
    /\ \A p \in Page : HoldsGenuine(p)

\* The acceptances of a page's nonce; those still to come that the page
\* will not hear of; and the one verdict it hears.
AcceptedOf(p) == {r \in redemptions : r.nonce = NonceOf[p]}
Unheard(p) ==
    {h \in Handler : task[h].stage = "redeem" /\ serving[h] = p /\ ~Listening(h)}
Verdict(p) == IF page[p].stage = "verified" THEN 1 ELSE 0

\* Every acceptance but the one a page hears of is paid for by a loss.
Paid(p) ==
    /\ IsFiniteSet(AcceptedOf(p))
    /\ IsFiniteSet(Unheard(p))
    /\ Cardinality(AcceptedOf(p)) + Cardinality(Unheard(p)) <= losses[p] + Verdict(p)

PaidInv == DuplicateNeedsLoss /\ \A p \in Page : Paid(p)

SystemInv == TypeOK /\ SignInv /\ LinkInv /\ TokenInv /\ PaidInv

LEMMA SystemInvInit == SystemInit => SystemInv
<1> SUFFICES ASSUME SystemInit PROVE SystemInv
  OBVIOUS
<1>1. TypeOK /\ SignInv /\ LinkInv
  BY InitType, SignInit, LinkInit DEF SystemInit
<1>2. TokenInv
  BY IdleStage DEF SystemInit, Init, TokenInv, Owned, HoldsGenuine, Holding
<1>3. \A p \in Page : Paid(p)
  <2> TAKE p \in Page
  <2>1. AcceptedOf(p) = {} /\ Unheard(p) = {} /\ losses[p] = 0
    BY IdleStage DEF SystemInit, Init, AcceptedOf, Unheard
  <2> QED
    BY <2>1, FS_EmptySet DEF Paid, Verdict
<1>4. DuplicateNeedsLoss
  BY DEF SystemInit, DuplicateNeedsLoss
<1> QED
  BY <1>1, <1>2, <1>3, <1>4 DEF SystemInv, PaidInv

(***************************************************************************)
(* The kinds of steps.                                                     *)
(***************************************************************************)

\* A page that awaits nothing has handler h take up a request.
Sends(p, h, next, state) ==
    /\ page[p].stage \notin Waiting \cup {"verified"}
    /\ task[h] = Idle /\ next # Idle
    /\ state \in PageState /\ state.stage \in Waiting /\ state.from = h
    /\ Goto(h, next) /\ Send(p, h, state)
    /\ next.stage = "redeem" => next.token.genuine /\ next.token.nonce = NonceOf[p]
    /\ state.stage \in Holding =>
          page[p].stage \in Holding /\ state.meta = page[p].meta
    /\ UNCHANGED <<offers, issuances, redemptions>>

\* Handler h answers; a token it was redeeming is accepted.
Replies(h, state) ==
    /\ task[h] # Idle
    /\ Answer(h) /\ Reply(h, state)
    /\ Listening(h) =>
          /\ state \in PageState /\ state.stage \notin Waiting \cup {"duplicate"}
          /\ state.stage \in Holding =>
                \E n, m : n = NonceOf[serving[h]] /\ m = state.meta /\ Genuine(n, m)'
    /\ offers \subseteq offers' /\ issuances \subseteq issuances'
    /\ \/ task[h].stage # "redeem" /\ UNCHANGED redemptions
       \/ /\ task[h].stage = "redeem" /\ state.stage = "verified"
          /\ \E r : r.nonce = NonceOf[serving[h]] /\ redemptions' = redemptions \cup {r}

\* A page that awaits nothing is refused at once.
Told(p, h, state) ==
    /\ page[p].stage \notin Waiting \cup {"verified"}
    /\ state \in PageState /\ state.stage \notin Waiting \cup {"verified"}
    /\ ToldAtOnce(p, h, state)
    /\ state.stage \in Holding =>
          page[p].stage \in Holding /\ state.meta = page[p].meta
    /\ state.stage = "duplicate" => Seen(NonceOf[p])

\* No page notices, and nothing is redeemed.
Unnoticed ==
    /\ UNCHANGED <<pageVars, redemptions>>
    /\ \A g \in Handler : (task'[g] = Idle) <=> (task[g] = Idle)
    /\ \A g \in Handler :
          task'[g] = task[g] \/ (task[g].stage # "redeem" /\ task'[g].stage # "redeem")
    /\ offers \subseteq offers' /\ issuances \subseteq issuances'

Step ==
    \/ Unnoticed \/ Restart
    \/ \E p \in Page : StopsHearing(p)
    \/ \E p \in Page, h \in Handler : \E next, state : Sends(p, h, next, state)
    \/ \E h \in Handler : \E state : Replies(h, state)
    \/ \E p \in Page, h \in Handler : \E state : Told(p, h, state)

LEMMA NewRequests ==
    ASSUME SystemInv, NEW p \in Page, NEW h \in Handler,
           FetchChallenge(p, h) \/ PostVerify(p, h) \/ Submit(p, h)
    PROVE  \E next, state : Sends(p, h, next, state)
<1>1. page[p] \in PageState
  BY DEF SystemInv, LinkInv, SystemTypeOK
<1>2. CASE FetchChallenge(p, h)
  <2>1. PICK id, ip, site :
           Goto(h, [stage |-> "score", id |-> id, ip |-> ip, site |-> site, since |-> now])
    BY <1>2 DEF FetchChallenge, ChallengeRecord
  <2> DEFINE next == [stage |-> "score", id |-> id, ip |-> ip, site |-> site, since |-> now]
             state == [stage |-> "asking", from |-> h]
  <2>2. state \in PageState /\ next # Idle
    BY DEF PageState, Idle
  <2>3. Sends(p, h, next, state)
    BY <1>2, <2>1, <2>2
    DEF Sends, FetchChallenge, ChallengeRecord, Waiting, Holding, history
  <2> QED
    BY <2>3
<1>3. CASE PostVerify(p, h)
  <2>1. PICK id, entry :
           Goto(h, [stage |-> "delete", id |-> id, entry |-> entry, since |-> now])
    BY <1>3 DEF PostVerify, VerifyLoad
  <2> DEFINE next == [stage |-> "delete", id |-> id, entry |-> entry, since |-> now]
             state == [ stage |-> "signing", id |-> page[p].id, meta |-> page[p].meta,
                        due |-> page[p].due, from |-> h ]
  <2>2. page[p].id \in ChallengeID /\ page[p].meta \in Meta /\ page[p].due \in Nat
    BY <1>1, <1>3 DEF PostVerify, PageState
  <2>3. state \in PageState /\ next # Idle
    BY <2>2 DEF PageState, Idle
  <2>4. Sends(p, h, next, state)
    BY <1>3, <2>1, <2>3
    DEF Sends, PostVerify, VerifyLoad, Waiting, Holding, history
  <2> QED
    BY <2>4
<1>4. CASE Submit(p, h)
  <2>1. PICK nonce, meta : Goto(h, Redeeming(nonce, meta))
    BY <1>4 DEF Submit, SiteverifyLoad
  <2>2. task'[h] = Redeeming(nonce, meta)
    BY <2>1 DEF Goto, SystemInv, TypeOK
  <2>3. nonce = NonceOf[p] /\ meta = page[p].meta
    BY <1>4, <2>2 DEF Submit, Redeeming
  <2>4. /\ page[p].stage \in {"token", "duplicate", "unanswered", "invalid"}
        /\ page[p].meta \in Meta
    BY <1>1, <1>4 DEF Submit, MaySubmit, PageState
  <2>5. Genuine(nonce, meta)
    BY <2>3, <2>4 DEF SystemInv, TokenInv, HoldsGenuine, Holding
  <2> DEFINE state == [stage |-> "submitting", meta |-> page[p].meta, from |-> h]
             next == Redeeming(nonce, meta)
  <2>6. state \in PageState
    BY <2>4 DEF PageState
  <2>7. /\ next # Idle
        /\ next.token.genuine /\ next.token.nonce = NonceOf[p]
    BY <2>3, <2>5 DEF Idle, Redeeming
  <2>8. /\ task[h] = Idle
        /\ UNCHANGED <<offers, issuances, redemptions>>
        /\ Send(p, h, state)
    BY <1>4 DEF Submit, SiteverifyLoad, history
  <2> HIDE DEF next
  <2>9. Goto(h, next)
    BY <2>1 DEF next
  <2>10. Sends(p, h, next, state)
    BY <2>4, <2>6, <2>7, <2>8, <2>9 DEF Sends, Waiting, Holding
  <2> QED
    BY <2>10
<1> QED
  BY <1>2, <1>3, <1>4

LEMMA RefusedAtOnce ==
    ASSUME SystemInv, NEW p \in Page, NEW h \in Handler,
           PostVerifyLate(p, h) \/ SubmitDuplicate(p, h)
    PROVE  \E state : Told(p, h, state)
<1>1. page[p] \in PageState
  BY DEF SystemInv, LinkInv, SystemTypeOK
<1>2. CASE PostVerifyLate(p, h)
  <2> DEFINE state == [stage |-> "failed", due |-> page[p].due]
  <2>1. page[p].stage = "solving" /\ page[p].due \in Nat
    BY <1>1, <1>2 DEF PostVerifyLate, PageState
  <2>2. state \in PageState
    BY <2>1 DEF PageState
  <2>3. Told(p, h, state)
    BY <1>2, <2>1, <2>2 DEF Told, PostVerifyLate, Waiting, Holding
  <2> QED
    BY <2>3
<1>3. CASE SubmitDuplicate(p, h)
  <2> DEFINE state == [stage |-> "duplicate", meta |-> page[p].meta]
  <2>1. /\ page[p].stage \in {"token", "duplicate", "unanswered", "invalid"}
        /\ page[p].meta \in Meta
    BY <1>1, <1>3 DEF SubmitDuplicate, MaySubmit, PageState
  <2>2. state \in PageState
    BY <2>1 DEF PageState
  <2>3. Told(p, h, state)
    BY <1>3, <2>1, <2>2 DEF Told, SubmitDuplicate, Waiting, Holding
  <2> QED
    BY <2>3
<1> QED
  BY <1>2, <1>3

LEMMA Answers ==
    ASSUME SystemInv, TypeOK', SignInv', NEW h \in Handler,
           ChallengeArrives(h) \/ SolutionsLate(h) \/ TokenArrives(h) \/ VerdictArrives(h)
    PROVE  \E state : Replies(h, state)
<1> USE IdleStage
<1>1. task[h] \in Task /\ Founded(task[h]) /\ Owned(h)
  BY DEF SystemInv, TypeOK, SignInv, TasksFounded, TokenInv
<1>2. CASE ChallengeArrives(h)
  <2> DEFINE entry == challenges'[task[h].id]
             state == [ stage |-> "solving", id |-> task[h].id,
                        meta |-> entry.predictedMeta, due |-> entry.expiresAt ]
  <2>1. /\ task[h].stage = "offer"
        /\ task[h].id \in ChallengeID
        /\ task[h].bucket \in Bucket
        /\ task[h].expiresAt \in Nat
    BY <1>1, <1>2 DEF ChallengeArrives, ChallengeOffer, Task, Idle
  <2>2. entry = EntryFor(task[h].bucket, task[h].expiresAt, now)
    BY <1>2, <2>1 DEF ChallengeArrives, ChallengeOffer, SystemInv, TypeOK
  <2>3. entry \in Entry
    BY <2>1, <2>2, EntryType, TimeIsNat DEF SystemInv, TypeOK
  <2>4. state \in PageState
    BY <2>1, <2>3 DEF PageState, Entry
  <2>5. /\ Answer(h) /\ Reply(h, state)
        /\ UNCHANGED <<issuances, redemptions>> /\ offers \subseteq offers'
    BY <1>2 DEF ChallengeArrives, ChallengeOffer
  <2>6. state.stage = "solving"
    OBVIOUS
  <2> HIDE DEF state, entry
  <2>7. Replies(h, state)
    BY <2>1, <2>4, <2>5, <2>6 DEF Replies, Waiting, Holding
  <2> QED
    BY <2>7
<1>3. CASE SolutionsLate(h)
  <2> DEFINE state == [stage |-> "failed", due |-> task[h].entry.expiresAt]
  <2>1. task[h].stage = "check" /\ task[h].entry.expiresAt \in Nat
    BY <1>1, <1>3 DEF SolutionsLate, VerifyReject, Task, Idle, Entry
  <2>2. state \in PageState
    BY <2>1 DEF PageState
  <2>3. /\ Answer(h) /\ Reply(h, state)
        /\ UNCHANGED <<offers, issuances, redemptions>>
    BY <1>3 DEF SolutionsLate, VerifyReject, history
  <2>4. Replies(h, state)
    BY <2>1, <2>2, <2>3 DEF Replies, Waiting, Holding
  <2> QED
    BY <2>4
<1>4. CASE TokenArrives(h)
  <2>1. PICK i \in issuances' :
           /\ i.nonce = NonceOf[serving[h]]
           /\ Reply(h, [stage |-> "token", meta |-> i.meta])
    BY <1>4 DEF TokenArrives
  <2> DEFINE state == [stage |-> "token", meta |-> i.meta]
  <2>2. i.meta \in Meta
    BY <2>1 DEF TypeOK, Issuance
  <2>3. state \in PageState
    BY <2>2 DEF PageState
  <2>4. \E o \in offers' : o.id = i.id /\ o.meta = i.meta
    BY <2>1 DEF SignInv, SignedUnderOfferedMeta
  <2>5. \E n, m : n = NonceOf[serving[h]] /\ m = state.meta /\ Genuine(n, m)'
    <3> SUFFICES ASSUME NEW n, NEW m, n = NonceOf[serving[h]], m = state.meta
                 PROVE  Genuine(n, m)'
      OBVIOUS
    <3> QED
      BY <2>1, <2>4 DEF Genuine
  <2>6. /\ task[h].stage = "sign" /\ Answer(h)
        /\ UNCHANGED <<offers, redemptions>> /\ issuances \subseteq issuances'
    BY <1>4 DEF TokenArrives, VerifyIssue
  <2>7. Replies(h, state)
    BY <2>1, <2>3, <2>5, <2>6 DEF Replies, Waiting, Holding
  <2> QED
    BY <2>7
<1>5. CASE VerdictArrives(h)
  <2>1. /\ task[h].stage = "redeem" /\ task[h].token \in Token
        /\ task[h].token.genuine /\ task[h].token.nonce = NonceOf[serving[h]]
        /\ Genuine(task[h].token.nonce, task[h].token.meta)
    BY <1>1, <1>5
    DEF VerdictArrives, SiteverifyRedeem, SiteverifyInvalid, Owned, Founded, Task, Idle
  <2>2. SiteverifyRedeem(h)
    BY <1>5, <2>1 DEF VerdictArrives, SiteverifyInvalid, Verifies
  <2> DEFINE state == [stage |-> "verified", meta |-> task[h].token.meta]
             r == [ nonce |-> task[h].token.nonce, meta |-> task[h].token.meta,
                    at |-> now, by |-> h ]
  <2>3. Reply(h, state)
    BY <1>5, <2>1 DEF VerdictArrives, Verifies
  <2>4. state \in PageState
    BY <2>1 DEF PageState, Token
  <2>5. /\ Answer(h) /\ UNCHANGED <<offers, issuances>>
        /\ redemptions' = redemptions \cup {r}
    BY <2>2 DEF SiteverifyRedeem
  <2>6. r.nonce = NonceOf[serving[h]]
    BY <2>1
  <2>7. \E n, m : n = NonceOf[serving[h]] /\ m = state.meta /\ Genuine(n, m)'
    <3> SUFFICES ASSUME NEW n, NEW m, n = NonceOf[serving[h]], m = state.meta
                 PROVE  Genuine(n, m)'
      OBVIOUS
    <3> QED
      BY <2>1, <2>5 DEF Genuine
  <2>8. state.stage = "verified"
    OBVIOUS
  <2> HIDE DEF state, r
  <2>9. Replies(h, state)
    BY <2>1, <2>3, <2>4, <2>5, <2>6, <2>7, <2>8 DEF Replies, Waiting, Holding
  <2> QED
    BY <2>9
<1> QED
  BY <1>2, <1>3, <1>4, <1>5

LEMMA Unnoticeable ==
    ASSUME SystemInv,
           \/ (Tick \/ CleanupLoop \/ CleanupStore) /\ UNCHANGED pageVars
           \/ UNCHANGED systemVars
           \/ \E h \in Handler : Unseen(h) /\ UNCHANGED pageVars
           \/ \E h \in Handler : SolutionsPass(h)
    PROVE  Unnoticed
<1> USE IdleStage
<1>1. CASE \/ (Tick \/ CleanupLoop \/ CleanupStore) /\ UNCHANGED pageVars
           \/ UNCHANGED systemVars
  BY <1>1
  DEF Tick, CleanupLoop, SweepStart, SweepChallenge, SweepTurn, SweepToken, SweepDelete,
      SweepEnd, CleanupStore, systemVars, vars, history, Unnoticed
<1>2. ASSUME NEW h \in Handler, NEW next, Goto(h, next), UNCHANGED pageVars,
             task[h].stage \notin {"idle", "redeem"}, next.stage \notin {"idle", "redeem"},
             UNCHANGED <<offers, issuances, redemptions>>
      PROVE  Unnoticed
  BY <1>2 DEF Goto, Unnoticed, SystemInv, TypeOK
<1>3. ASSUME NEW h \in Handler, Unseen(h), UNCHANGED pageVars PROVE Unnoticed
  <2>1. CASE ChallengeScore(h)
    BY <1>2, <1>3, <2>1 DEF ChallengeScore, history
  <2>2. CASE VerifyDelete(h)
    <3>1. [task[h] EXCEPT !.stage = "check"].stage = "check"
      BY <2>2 DEF VerifyDelete, SystemInv, TypeOK, Task, Idle
    <3> QED
      BY <1>2, <1>3, <2>2, <3>1 DEF VerifyDelete, history
  <2>3. CASE VerifyRecord(h)
    BY <1>2, <1>3, <2>3 DEF VerifyRecord, history
  <2> QED
    BY <1>3, <2>1, <2>2, <2>3 DEF Unseen
<1>4. ASSUME NEW h \in Handler, SolutionsPass(h) PROVE Unnoticed
  BY <1>2, <1>4 DEF SolutionsPass, VerifyPass, history
<1> QED
  BY <1>1, <1>3, <1>4

\* Every step of the system is of one of the kinds.
LEMMA StepKinds ==
    ASSUME SystemInv, TypeOK', SignInv', [SystemNext]_systemVars
    PROVE  Step
BY NewRequests, RefusedAtOnce, Answers, Unnoticeable DEF Step, SystemNext

\* The server's part of a step is a step of the server, or a restart.
LEMMA ServerStep ==
    ASSUME [SystemNext]_systemVars, ~Restart
    PROVE  [Next]_vars
BY DEF SystemNext, systemVars, Next, Serve, Continue, Unseen, ChallengeArrives,
   SolutionsPass, SolutionsLate, TokenArrives, VerdictArrives, FetchChallenge,
   PostVerify, PostVerifyLate, Submit, SubmitDuplicate, ToldAtOnce, StopsHearing

LEMMA ServerSteps ==
    ASSUME SystemInv, [SystemNext]_systemVars
    PROVE  TypeOK' /\ SignInv'
<1>1. CASE Restart
  BY <1>1, RestartType, SignRestart DEF SystemInv
<1>2. CASE ~Restart
  <2>1. [Next]_vars
    BY <1>2, ServerStep
  <2> QED
    BY <2>1, NextType, SignServe, SignBackground DEF SystemInv, Next
<1> QED
  BY <1>1, <1>2

LEMMA LinkNext ==
    ASSUME SystemInv, Step
    PROVE  LinkInv'
<1> USE DEF SystemInv
<1>1. CASE Unnoticed
  BY <1>1, LinkOnward DEF Unnoticed
<1>2. CASE Restart
  BY <1>2, LinkRestart
<1>3. ASSUME NEW p \in Page, StopsHearing(p) PROVE LinkInv'
  BY <1>3, LinkStops
<1>4. ASSUME NEW p \in Page, NEW h \in Handler, NEW next, NEW state,
             Sends(p, h, next, state)
      PROVE  LinkInv'
  BY <1>4, LinkSend DEF Sends
<1>5. ASSUME NEW h \in Handler, NEW state, Replies(h, state) PROVE LinkInv'
  BY <1>5, LinkReply DEF Replies
<1>6. ASSUME NEW p \in Page, NEW h \in Handler, NEW state, Told(p, h, state)
      PROVE  LinkInv'
  BY <1>6, LinkTold DEF Told
<1> QED
  BY <1>1, <1>2, <1>3, <1>4, <1>5, <1>6 DEF Step

(***************************************************************************)
(* What pages hold stays genuine: what is signed is never forgotten.       *)
(***************************************************************************)
LEMMA TokenStep ==
    ASSUME TokenInv, offers \subseteq offers', issuances \subseteq issuances',
           \A h \in Handler : task'[h].stage = "redeem" =>
               \/ task'[h] = task[h] /\ serving'[h] = serving[h]
               \/ task'[h].token.genuine /\ task'[h].token.nonce = NonceOf[serving'[h]],
           \A p \in Page : page'[p].stage \in Holding =>
               \/ page[p].stage \in Holding /\ page'[p].meta = page[p].meta
               \/ \E n, m : n = NonceOf[p] /\ m = page'[p].meta /\ Genuine(n, m)'
    PROVE  TokenInv'
<1>1. ASSUME NEW n, NEW m, Genuine(n, m) PROVE Genuine(n, m)'
  BY <1>1 DEF Genuine
<1>2. ASSUME NEW h \in Handler PROVE Owned(h)'
  BY <1>2 DEF TokenInv, Owned
<1>3. ASSUME NEW p \in Page PROVE HoldsGenuine(p)'
  <2>1. SUFFICES ASSUME page'[p].stage \in Holding
                 PROVE  \E n, m : n = NonceOf[p] /\ m = page'[p].meta /\ Genuine(n, m)'
    BY DEF HoldsGenuine
  <2>2. CASE page[p].stage \in Holding /\ page'[p].meta = page[p].meta
    <3>1. Genuine(NonceOf[p], page[p].meta)
      BY <2>2 DEF TokenInv, HoldsGenuine
    <3>2. PICK n, m : n = NonceOf[p] /\ m = page[p].meta /\ Genuine(n, m)
      BY <3>1
    <3> QED
      BY <1>1, <2>2, <3>2
  <2> QED
    BY <2>1, <2>2
<1> QED
  BY <1>2, <1>3 DEF TokenInv

LEMMA TokenNext ==
    ASSUME SystemInv, Step
    PROVE  TokenInv'
<1> USE IdleStage DEF SystemInv
<1>1. CASE Unnoticed
  BY <1>1, TokenStep DEF Unnoticed, pageVars
<1>2. CASE Restart
  <2>1. \A p \in Page : page'[p].stage \in Holding =>
           page[p].stage \in Holding /\ page'[p].meta = page[p].meta
    BY <1>2 DEF Restart, Unanswered, Holding, LinkInv, SystemTypeOK
  <2> QED
    BY <1>2, <2>1, TokenStep DEF Restart, loadDevKey
<1>3. ASSUME NEW q \in Page, StopsHearing(q) PROVE TokenInv'
  <2>1. \A p \in Page : page'[p].stage \in Holding =>
           page[p].stage \in Holding /\ page'[p].meta = page[p].meta
    BY <1>3 DEF StopsHearing, Unanswered, Holding, LinkInv, SystemTypeOK
  <2> QED
    BY <1>3, <2>1, TokenStep DEF StopsHearing, vars, history
<1>4. ASSUME NEW q \in Page, NEW h \in Handler, NEW next, NEW state,
             Sends(q, h, next, state)
      PROVE  TokenInv'
  <2>1. /\ task'[h] = next /\ serving'[h] = q
        /\ \A g \in Handler : g # h => task'[g] = task[g] /\ serving'[g] = serving[g]
        /\ page'[q] = state
        /\ \A p \in Page : p # q => page'[p] = page[p]
    BY <1>4 DEF Sends, Send, Goto, TypeOK, LinkInv, SystemTypeOK
  <2> QED
    BY <1>4, <2>1, TokenStep DEF Sends
<1>5. ASSUME NEW h \in Handler, NEW state, Replies(h, state) PROVE TokenInv'
  <2>1. /\ task'[h] = Idle
        /\ \A g \in Handler : g # h => task'[g] = task[g] /\ serving'[g] = serving[g]
    BY <1>5 DEF Replies, Reply, Answer, Goto, TypeOK, LinkInv, SystemTypeOK
  <2>2. \A p \in Page :
           \/ page'[p] = page[p]
           \/ Listening(h) /\ p = serving[h] /\ page'[p] = state
    BY <1>5 DEF Replies, Reply, LinkInv, SystemTypeOK
  <2>3. \A p \in Page : page'[p].stage \in Holding =>
           \/ page[p].stage \in Holding /\ page'[p].meta = page[p].meta
           \/ \E n, m : n = NonceOf[p] /\ m = page'[p].meta /\ Genuine(n, m)'
    BY <1>5, <2>2 DEF Replies
  <2> QED
    BY <1>5, <2>1, <2>3, TokenStep DEF Replies
<1>6. ASSUME NEW q \in Page, NEW h \in Handler, NEW state, Told(q, h, state)
      PROVE  TokenInv'
  <2>1. /\ page'[q] = state
        /\ \A p \in Page : p # q => page'[p] = page[p]
        /\ UNCHANGED <<task, serving, offers, issuances>>
    BY <1>6
    DEF Told, ToldAtOnce, Refuse, vars, history, LinkInv, SystemTypeOK
  <2> QED
    BY <1>6, <2>1, TokenStep DEF Told
<1> QED
  BY <1>1, <1>2, <1>3, <1>4, <1>5, <1>6 DEF Step

(***************************************************************************)
(* Acceptances are paid for.                                               *)
(***************************************************************************)

\* Nothing accepted, nothing more to come unheard, and no verdict withdrawn.
LEMMA PaidStays ==
    ASSUME NEW p \in Page, Paid(p), LinkInv, LinkInv',
           AcceptedOf(p)' = AcceptedOf(p), Unheard(p)' \subseteq Unheard(p),
           losses'[p] = losses[p],
           page[p].stage = "verified" => page'[p].stage = "verified"
    PROVE  Paid(p)'
<1>1. IsFiniteSet(Unheard(p)') /\ Cardinality(Unheard(p)') <= Cardinality(Unheard(p))
  BY FS_Subset DEF Paid
<1>2. /\ Cardinality(AcceptedOf(p)) \in Nat /\ Cardinality(Unheard(p)) \in Nat
      /\ Cardinality(Unheard(p)') \in Nat
  BY <1>1, FS_CardinalityType DEF Paid
<1>3. losses[p] \in Nat /\ Verdict(p) <= Verdict(p)'
      /\ Verdict(p) \in 0..1 /\ Verdict(p)' \in 0..1
  BY DEF LinkInv, SystemTypeOK, Verdict
<1> QED
  BY <1>1, <1>2, <1>3 DEF Paid

\* One more element is at most one more.
LEMMA OneMore ==
    ASSUME NEW S, NEW x, IsFiniteSet(S)
    PROVE  /\ IsFiniteSet(S \cup {x})
           /\ Cardinality(S) \in Nat /\ Cardinality(S \cup {x}) \in Nat
           /\ Cardinality(S \cup {x}) <= Cardinality(S) + 1
<1>1. IsFiniteSet(S \cup {x})
  BY FS_AddElement
<1>2. Cardinality(S) \in Nat /\ Cardinality(S \cup {x}) \in Nat
  BY <1>1, FS_CardinalityType
<1>3. Cardinality(S \cup {x}) = IF x \in S THEN Cardinality(S) ELSE Cardinality(S) + 1
  BY FS_AddElement
<1> QED
  BY <1>1, <1>2, <1>3

\* A page that stops hearing from its request pays for what may come of it.
LEMMA PaidStops ==
    ASSUME SystemInv, LinkInv', NEW p \in Page, StopsHearing(p)
    PROVE  Paid(p)'
<1>1. /\ losses'[p] = losses[p] + 1
      /\ losses[p] \in Nat
      /\ UNCHANGED <<task, serving, redemptions>>
      /\ page[p].stage # "verified"
  BY DEF StopsHearing, vars, history, SystemInv, LinkInv, SystemTypeOK, Waiting
<1>2. Paid(p)
  BY DEF SystemInv, PaidInv
<1> DEFINE more == Unheard(p) \cup {page[p].from}
<1>3. Unheard(p)' \subseteq more
  BY <1>1 DEF Unheard, Listening
<1>4. IsFiniteSet(more) /\ Cardinality(more) <= Cardinality(Unheard(p)) + 1
      /\ Cardinality(more) \in Nat /\ Cardinality(Unheard(p)) \in Nat
  BY <1>2, OneMore DEF Paid
<1>5. /\ IsFiniteSet(Unheard(p)')
      /\ Cardinality(Unheard(p)') <= Cardinality(more)
      /\ Cardinality(Unheard(p)') \in Nat
  BY <1>3, <1>4, FS_Subset, FS_CardinalityType
<1>6. AcceptedOf(p)' = AcceptedOf(p) /\ Cardinality(AcceptedOf(p)) \in Nat
  BY <1>1, <1>2, FS_CardinalityType DEF AcceptedOf, Paid
<1>7. Verdict(p) = 0 /\ Verdict(p)' \in 0..1
  BY <1>1 DEF Verdict
<1> HIDE DEF more
<1>8. Cardinality(AcceptedOf(p)) + Cardinality(Unheard(p)) <= losses[p] + Verdict(p)
  BY <1>2 DEF Paid
<1>9. Cardinality(AcceptedOf(p)') + Cardinality(Unheard(p)') <= losses'[p] + Verdict(p)'
  BY <1>1, <1>4, <1>5, <1>6, <1>7, <1>8
<1> QED
  BY <1>2, <1>5, <1>6, <1>9 DEF Paid

\* An acceptance is the verdict the page hears, or was paid for.
LEMMA PaidAccepted ==
    ASSUME SystemInv, LinkInv', NEW h \in Handler, NEW state, Replies(h, state),
           NEW p \in Page, serving[h] = p, task[h].stage = "redeem"
    PROVE  Paid(p)'
<1> USE PagesAssumption, IdleStage
<1>1. PICK r : r.nonce = NonceOf[p] /\ redemptions' = redemptions \cup {r}
  BY DEF Replies
<1>2. /\ losses'[p] = losses[p] /\ losses[p] \in Nat
      /\ task'[h] = Idle /\ state.stage = "verified"
      /\ serving'[h] = Nobody
      /\ \A g \in Handler : g # h => task'[g] = task[g] /\ serving'[g] = serving[g]
  BY DEF Replies, Reply, Answer, Goto, SystemInv, TypeOK, LinkInv, SystemTypeOK
<1>3. Paid(p)
  BY DEF SystemInv, PaidInv
<1>4. AcceptedOf(p)' = AcceptedOf(p) \cup {r}
  BY <1>1 DEF AcceptedOf
<1>5. /\ IsFiniteSet(AcceptedOf(p)')
      /\ Cardinality(AcceptedOf(p)') <= Cardinality(AcceptedOf(p)) + 1
      /\ Cardinality(AcceptedOf(p)') \in Nat
      /\ Cardinality(AcceptedOf(p)) \in Nat
      /\ Cardinality(Unheard(p)) \in Nat
  <2>1. IsFiniteSet(AcceptedOf(p)) /\ IsFiniteSet(Unheard(p))
    BY <1>3 DEF Paid
  <2>2. Cardinality(AcceptedOf(p)) \in Nat /\ Cardinality(Unheard(p)) \in Nat
    BY <2>1, FS_CardinalityType
  <2>3. /\ IsFiniteSet(AcceptedOf(p) \cup {r})
        /\ Cardinality(AcceptedOf(p) \cup {r}) <= Cardinality(AcceptedOf(p)) + 1
        /\ Cardinality(AcceptedOf(p) \cup {r}) \in Nat
    BY <2>1, OneMore
  <2> QED
    BY <1>4, <2>2, <2>3
<1>6. Cardinality(AcceptedOf(p)) + Cardinality(Unheard(p)) <= losses[p] + Verdict(p)
  BY <1>3 DEF Paid
<1>7. CASE Listening(h)
  <2>1. /\ page[p].stage # "verified" /\ page[p].from = h
        /\ page'[p].stage = "verified"
    BY <1>2, <1>7
    DEF Listening, Waiting, Replies, Reply, SystemInv, LinkInv, SystemTypeOK
  <2>2. Unheard(p)' \subseteq Unheard(p)
    BY <1>2, <2>1 DEF Unheard, Listening
  <2>3. /\ IsFiniteSet(Unheard(p)')
        /\ Cardinality(Unheard(p)') <= Cardinality(Unheard(p))
        /\ Cardinality(Unheard(p)') \in Nat
    BY <1>3, <2>2, FS_Subset, FS_CardinalityType DEF Paid
  <2>4. Verdict(p) = 0 /\ Verdict(p)' = 1
    BY <2>1 DEF Verdict
  <2>5. Cardinality(AcceptedOf(p)') + Cardinality(Unheard(p)') <= losses'[p] + Verdict(p)'
    BY <1>2, <1>5, <1>6, <2>3, <2>4
  <2> QED
    BY <1>5, <2>3, <2>5 DEF Paid
<1>8. CASE ~Listening(h)
  <2>1. UNCHANGED page
    BY <1>8 DEF Replies, Reply
  <2>2. h \in Unheard(p)
    BY <1>8 DEF Unheard
  <2> DEFINE fewer == Unheard(p) \ {h}
  <2>3. Unheard(p)' \subseteq fewer
    BY <1>2, <2>1 DEF Unheard, Listening
  <2>4. /\ IsFiniteSet(fewer)
        /\ Cardinality(fewer) = Cardinality(Unheard(p)) - 1
        /\ Cardinality(fewer) \in Nat
    BY <1>3, <2>2, FS_RemoveElement, FS_CardinalityType DEF Paid
  <2>5. /\ IsFiniteSet(Unheard(p)')
        /\ Cardinality(Unheard(p)') <= Cardinality(fewer)
        /\ Cardinality(Unheard(p)') \in Nat
    BY <2>3, <2>4, FS_Subset, FS_CardinalityType
  <2> HIDE DEF fewer
  <2>6. Verdict(p)' = Verdict(p) /\ Verdict(p) \in 0..1
    BY <2>1 DEF Verdict
  <2>7. Cardinality(AcceptedOf(p)') + Cardinality(Unheard(p)') <= losses'[p] + Verdict(p)'
    BY <1>2, <1>5, <1>6, <2>4, <2>5, <2>6
  <2> QED
    BY <1>5, <2>5, <2>7 DEF Paid
<1> QED
  BY <1>7, <1>8

LEMMA PaidNext ==
    ASSUME SystemInv, LinkInv', Step, NEW p \in Page
    PROVE  Paid(p)'
<1> USE IdleStage, PagesAssumption DEF SystemInv
<1>1. Paid(p)
  BY DEF PaidInv
<1>2. CASE Unnoticed
  <2>1. Unheard(p)' \subseteq Unheard(p)
    BY <1>2 DEF Unnoticed, pageVars, Unheard, Listening
  <2> QED
    BY <1>1, <1>2, <2>1, PaidStays DEF Unnoticed, pageVars, AcceptedOf
<1>3. CASE Restart
  <2>1. Unheard(p)' \subseteq Unheard(p)
    BY <1>3 DEF Restart, Unheard
  <2>2. page[p].stage = "verified" => page'[p].stage = "verified"
    BY <1>3 DEF Restart, Waiting
  <2> QED
    BY <1>1, <1>3, <2>1, <2>2, PaidStays DEF Restart, AcceptedOf
<1>4. ASSUME NEW q \in Page, StopsHearing(q) PROVE Paid(p)'
  <2>1. CASE p = q
    BY <1>4, <2>1, PaidStops
  <2>2. CASE p # q
    <3>1. /\ page'[p] = page[p] /\ losses'[p] = losses[p]
          /\ UNCHANGED <<task, serving, redemptions>>
      BY <1>4, <2>2 DEF StopsHearing, vars, history, LinkInv, SystemTypeOK
    <3>2. Unheard(p)' \subseteq Unheard(p)
      BY <3>1 DEF Unheard, Listening
    <3> QED
      BY <1>1, <3>1, <3>2, PaidStays DEF AcceptedOf
  <2> QED
    BY <2>1, <2>2
<1>5. ASSUME NEW q \in Page, NEW h \in Handler, NEW next, NEW state,
             Sends(q, h, next, state)
      PROVE  Paid(p)'
  <2>1. /\ task'[h] = next /\ serving'[h] = q
        /\ \A g \in Handler : g # h => task'[g] = task[g] /\ serving'[g] = serving[g]
        /\ page'[q] = state
        /\ \A o \in Page : o # q => page'[o] = page[o]
        /\ UNCHANGED <<losses, redemptions>>
    BY <1>5 DEF Sends, Send, Goto, TypeOK, LinkInv, SystemTypeOK
  <2>2. h \notin Unheard(p)'
    BY <1>5, <2>1 DEF Sends, Unheard, Listening
  <2>3. Unheard(p)' \subseteq Unheard(p)
    BY <1>5, <2>1, <2>2 DEF Sends, Unheard, Listening
  <2>4. page[p].stage = "verified" => page'[p].stage = "verified"
    BY <1>5, <2>1 DEF Sends
  <2> QED
    BY <1>1, <2>1, <2>3, <2>4, PaidStays DEF AcceptedOf
<1>6. ASSUME NEW h \in Handler, NEW state, Replies(h, state) PROVE Paid(p)'
  <2>1. CASE serving[h] = p /\ task[h].stage = "redeem"
    BY <1>6, <2>1, PaidAccepted
  <2>2. CASE ~(serving[h] = p /\ task[h].stage = "redeem")
    <3>1. /\ task'[h] = Idle /\ losses' = losses
          /\ \A g \in Handler : g # h => task'[g] = task[g] /\ serving'[g] = serving[g]
      BY <1>6 DEF Replies, Reply, Answer, Goto, TypeOK, LinkInv, SystemTypeOK
    <3>2. \/ page'[p] = page[p]
          \/ Listening(h) /\ p = serving[h] /\ page'[p] = state
      BY <1>6 DEF Replies, Reply, LinkInv, SystemTypeOK
    <3>3. Unheard(p)' \subseteq Unheard(p)
      BY <3>1, <3>2 DEF Unheard, Listening
    <3>4. page[p].stage = "verified" => page'[p].stage = "verified"
      BY <3>2 DEF Listening, Waiting
    <3>5. serving[h] \in Page
      BY <1>6 DEF Replies, LinkInv, Heard
    <3>6. AcceptedOf(p)' = AcceptedOf(p)
      <4>1. CASE UNCHANGED redemptions
        BY <4>1 DEF AcceptedOf
      <4>2. ASSUME NEW r, r.nonce = NonceOf[serving[h]], redemptions' = redemptions \cup {r},
                   serving[h] # p
            PROVE  AcceptedOf(p)' = AcceptedOf(p)
        BY <3>5, <4>2 DEF AcceptedOf
      <4> QED
        BY <1>6, <2>2, <4>1, <4>2 DEF Replies
    <3> QED
      BY <1>1, <3>1, <3>3, <3>4, <3>6, PaidStays
  <2> QED
    BY <2>1, <2>2
<1>7. ASSUME NEW q \in Page, NEW h \in Handler, NEW state, Told(q, h, state)
      PROVE  Paid(p)'
  <2>1. /\ page'[q] = state
        /\ \A o \in Page : o # q => page'[o] = page[o]
        /\ UNCHANGED <<task, serving, losses, redemptions>>
    BY <1>7
    DEF Told, ToldAtOnce, Refuse, vars, history, LinkInv, SystemTypeOK
  <2>2. Unheard(p)' \subseteq Unheard(p)
    BY <1>7, <2>1 DEF Told, Unheard, Listening
  <2>3. page[p].stage = "verified" => page'[p].stage = "verified"
    BY <1>7, <2>1 DEF Told
  <2> QED
    BY <1>1, <2>1, <2>2, <2>3, PaidStays DEF AcceptedOf
<1> QED
  BY <1>2, <1>3, <1>4, <1>5, <1>6, <1>7 DEF Step

\* What a page is refused as a duplicate was accepted unheard.
LEMMA SeenIsPaid ==
    ASSUME SystemInv, NEW p \in Page, Seen(NonceOf[p]), page[p].stage # "verified"
    PROVE  losses[p] > 0 /\ \E r \in redemptions : r.nonce = NonceOf[p]
<1>1. \E r \in redemptions : r.nonce = NonceOf[p]
  BY PagesAssumption DEF SystemInv, SignInv, OnlyAcceptedNoncesRefused, Seen
<1>2. AcceptedOf(p) # {}
  BY <1>1 DEF AcceptedOf
<1>3. Paid(p)
  BY DEF SystemInv, PaidInv
<1>4. /\ Cardinality(AcceptedOf(p)) \in Nat /\ Cardinality(AcceptedOf(p)) # 0
      /\ Cardinality(Unheard(p)) \in Nat
  BY <1>2, <1>3, FS_CardinalityType, FS_EmptySet DEF Paid
<1>5. Verdict(p) = 0 /\ losses[p] \in Nat
  BY DEF Verdict, SystemInv, LinkInv, SystemTypeOK
<1>6. Cardinality(AcceptedOf(p)) + Cardinality(Unheard(p)) <= losses[p] + Verdict(p)
  BY <1>3 DEF Paid
<1> QED
  BY <1>1, <1>4, <1>5, <1>6

LEMMA DuplicateNext ==
    ASSUME SystemInv, Step
    PROVE  DuplicateNeedsLoss'
<1> USE DEF SystemInv
<1>1. ASSUME redemptions \subseteq redemptions',
             \A p \in Page : losses'[p] = losses[p] \/ losses'[p] = losses[p] + 1,
             \A p \in Page : page'[p].stage = "duplicate" =>
                 page[p].stage = "duplicate" \/ (Seen(NonceOf[p]) /\ page[p].stage # "verified")
      PROVE  DuplicateNeedsLoss'
  <2>1. \A p \in Page : losses[p] \in Nat
    BY DEF LinkInv, SystemTypeOK
  <2>2. ASSUME NEW p \in Page, page'[p].stage = "duplicate"
        PROVE  losses[p] > 0 /\ \E r \in redemptions : r.nonce = NonceOf[p]
    BY <1>1, <2>2, SeenIsPaid DEF PaidInv, DuplicateNeedsLoss
  <2> QED
    BY <1>1, <2>1, <2>2 DEF DuplicateNeedsLoss
<1>2. CASE Unnoticed
  BY <1>1, <1>2 DEF Unnoticed, pageVars
<1>3. CASE Restart
  <2>1. \A p \in Page : page'[p].stage = "duplicate" => page[p].stage = "duplicate"
    BY <1>3 DEF Restart, Unanswered
  <2> QED
    BY <1>1, <1>3, <2>1 DEF Restart
<1>4. ASSUME NEW q \in Page, StopsHearing(q) PROVE DuplicateNeedsLoss'
  <2>1. \A p \in Page : page'[p].stage = "duplicate" => page[p].stage = "duplicate"
    BY <1>4 DEF StopsHearing, Unanswered, LinkInv, SystemTypeOK
  <2>2. \A p \in Page : losses'[p] = losses[p] \/ losses'[p] = losses[p] + 1
    BY <1>4 DEF StopsHearing, LinkInv, SystemTypeOK
  <2> QED
    BY <1>1, <1>4, <2>1, <2>2 DEF StopsHearing, vars, history
<1>5. ASSUME NEW q \in Page, NEW h \in Handler, NEW next, NEW state,
             Sends(q, h, next, state)
      PROVE  DuplicateNeedsLoss'
  <2>1. \A p \in Page : page'[p].stage = "duplicate" => page[p].stage = "duplicate"
    BY <1>5 DEF Sends, Send, Waiting, LinkInv, SystemTypeOK
  <2> QED
    BY <1>1, <1>5, <2>1 DEF Sends, Send
<1>6. ASSUME NEW h \in Handler, NEW state, Replies(h, state) PROVE DuplicateNeedsLoss'
  <2>1. \A p \in Page : page'[p].stage = "duplicate" => page[p].stage = "duplicate"
    BY <1>6 DEF Replies, Reply, LinkInv, SystemTypeOK
  <2> QED
    BY <1>1, <1>6, <2>1 DEF Replies, Reply
<1>7. ASSUME NEW q \in Page, NEW h \in Handler, NEW state, Told(q, h, state)
      PROVE  DuplicateNeedsLoss'
  <2>1. \A p \in Page : page'[p].stage = "duplicate" =>
           page[p].stage = "duplicate" \/ (Seen(NonceOf[p]) /\ page[p].stage # "verified")
    BY <1>7 DEF Told, ToldAtOnce, LinkInv, SystemTypeOK
  <2> QED
    BY <1>1, <1>7, <2>1 DEF Told, ToldAtOnce, Refuse, vars, history
<1> QED
  BY <1>2, <1>3, <1>4, <1>5, <1>6, <1>7 DEF Step

LEMMA SystemAlways == SystemSpec => []SystemInv
<1>1. SystemInv /\ [SystemNext]_systemVars => SystemInv'
  <2> SUFFICES ASSUME SystemInv, [SystemNext]_systemVars PROVE SystemInv'
    OBVIOUS
  <2>1. TypeOK' /\ SignInv'
    BY ServerSteps
  <2>2. Step
    BY <2>1, StepKinds
  <2>3. LinkInv' /\ TokenInv' /\ DuplicateNeedsLoss'
    BY <2>2, LinkNext, TokenNext, DuplicateNext
  <2>4. \A p \in Page : Paid(p)'
    BY <2>2, <2>3, PaidNext
  <2> QED
    BY <2>1, <2>3, <2>4 DEF SystemInv, PaidInv
<1> QED
  BY <1>1, SystemInvInit, PTL DEF SystemSpec

-----------------------------------------------------------------------------
\* A page that waits for an answer waits for a handler at work for it, for
\* any number of pages and handlers.
THEOREM PagesAreServed == SystemSpec => []SystemTypeOK
<1>1. SystemInv => SystemTypeOK
  BY DEF SystemInv, LinkInv
<1> QED
  BY <1>1, SystemAlways, PTL

\* The token a page holds verifies, across hours and restarts.
THEOREM HeldTokensVerify == SystemSpec => []TokenIsGood
<1>1. SystemInv => TokenIsGood
  BY DEF SystemInv, TokenInv, HoldsGenuine, Holding, TokenIsGood
<1> QED
  BY <1>1, SystemAlways, PTL

\* A page is told "duplicate" only after it lost an answer.
THEOREM DuplicatesFollowLosses == SystemSpec => []DuplicateNeedsLoss
<1>1. SystemInv => DuplicateNeedsLoss
  BY DEF SystemInv, PaidInv
<1> QED
  BY <1>1, SystemAlways, PTL

\* A page's token is accepted at most once more than answers were lost to
\* it, whatever overlaps and however often the server forgets.
THEOREM AcceptancesArePaid == SystemSpec => []AcceptedOncePerLoss
<1>1. SystemInv => AcceptedOncePerLoss
  <2> SUFFICES ASSUME SystemInv, NEW p \in Page
               PROVE  Cardinality(AcceptedOf(p)) <= 1 + losses[p]
    BY DEF AcceptedOncePerLoss, AcceptedOf
  <2>1. Paid(p)
    BY DEF SystemInv, PaidInv
  <2>2. Cardinality(AcceptedOf(p)) \in Nat /\ Cardinality(Unheard(p)) \in Nat
    BY <2>1, FS_CardinalityType DEF Paid
  <2>3. losses[p] \in Nat /\ Verdict(p) \in 0..1
    BY DEF SystemInv, LinkInv, SystemTypeOK, Verdict
  <2>4. Cardinality(AcceptedOf(p)) + Cardinality(Unheard(p)) <= losses[p] + Verdict(p)
    BY <2>1 DEF Paid
  <2> QED
    BY <2>2, <2>3, <2>4
<1> QED
  BY <1>1, SystemAlways, PTL

-----------------------------------------------------------------------------
(***************************************************************************)
(* A page that hears from all its requests fails only late.  Until the     *)
(* first restart the server keeps what TrustServerProofs shows of it,      *)
(* which rests on handlers that are timely; after it nothing is said.      *)
(***************************************************************************)

\* The challenge a page is solving was offered to it, and nobody else is
\* at work on it or has been.
SolvesOwn(p) ==
    page[p].stage = "solving" =>
        /\ \E o \in offers : o.id = page[p].id /\ o.expiresAt = page[p].due
        /\ page[p].id \notin taken
        /\ \A h \in Handler : task[h].stage \in Working => task[h].id # page[p].id
        /\ \A q \in Page : q # p /\ page[q].stage = "solving" => page[q].id # page[p].id

KeptInv == MemoryInv /\ IssueInv /\ ReuseInv /\ \A p \in Page : SolvesOwn(p)

PromptInv == (restarts = 0 => KeptInv) /\ FailsOnlyLate

LEMMA PromptInit == SystemInit => PromptInv
<1> SUFFICES ASSUME SystemInit PROVE PromptInv
  OBVIOUS
<1>1. MemoryInv /\ IssueInv /\ ReuseInv
  BY MemoryInit, IssueInit, ReuseInit DEF SystemInit
<1>2. FailsOnlyLate /\ \A p \in Page : SolvesOwn(p)
  BY DEF SystemInit, FailsOnlyLate, SolvesOwn
<1> QED
  BY <1>1, <1>2 DEF PromptInv, KeptInv

\* What is solved stays a page's own while nobody new sets to work on it.
LEMMA SolvesOwnStays ==
    ASSUME TypeOK, ReuseInv, \A p \in Page : SolvesOwn(p),
           offers \subseteq offers',
           \A id \in taken' \ taken :
               \E h \in Handler : task[h].stage \in Working /\ task[h].id = id,
           \A h \in Handler : task'[h].stage \in Working =>
               \/ task[h].stage \in Working /\ task'[h].id = task[h].id
               \/ \E p \in Page : /\ page[p].stage = "solving" /\ task'[h].id = page[p].id
                                  /\ page'[p].stage # "solving",
           \A p \in Page : page'[p].stage = "solving" => page'[p] = page[p]
    PROVE  \A p \in Page : SolvesOwn(p)'
BY DEF SolvesOwn

\* A challenge that arrives is new to everybody.
LEMMA SolvesOwnArrives ==
    ASSUME SystemInv, KeptInv, NEW h \in Handler, ChallengeArrives(h)
    PROVE  \A p \in Page : SolvesOwn(p)'
<1> USE IdleStage
<1> DEFINE id == task[h].id
           entry == challenges'[task[h].id]
           state == [ stage |-> "solving", id |-> id,
                      meta |-> entry.predictedMeta, due |-> entry.expiresAt ]
<1>1. /\ task[h].stage = "offer" /\ id \in ChallengeID
      /\ UNCHANGED taken
  BY DEF ChallengeArrives, ChallengeOffer, SystemInv, TypeOK, Task, Idle
<1>2. /\ \A o \in offers : o.id # id
      /\ id \notin taken
  BY <1>1 DEF KeptInv, ReuseInv, Fresh, Making, TakenOffered
<1>3. /\ task'[h] = Idle
      /\ \A g \in Handler : g # h => task'[g] = task[g]
  BY DEF ChallengeArrives, ChallengeOffer, Answer, Goto, SystemInv, TypeOK
<1>4. \A g \in Handler : task[g].stage \in Working => task[g].id # id
  BY <1>2 DEF KeptInv, IssueInv, TasksFine, TaskFine, Offered, Working
<1>5. /\ offers \subseteq offers'
      /\ \E o \in offers' : o.id = id /\ o.expiresAt = entry.expiresAt
  <2> DEFINE stored == EntryFor(task[h].bucket, task[h].expiresAt, now)
             offer == [ id |-> id, meta |-> stored.predictedMeta,
                        expiresAt |-> stored.expiresAt, at |-> now ]
  <2>1. entry = stored
    BY <1>1 DEF ChallengeArrives, ChallengeOffer, SystemInv, TypeOK
  <2>2. offers' = offers \cup {offer}
    BY DEF ChallengeArrives, ChallengeOffer
  <2>3. offer.id = id /\ offer.expiresAt = stored.expiresAt
    OBVIOUS
  <2> HIDE DEF stored, offer, entry
  <2> QED
    BY <2>1, <2>2, <2>3
<1>6. \A q \in Page : page[q].stage = "solving" => page[q].id # id
  BY <1>2 DEF KeptInv, SolvesOwn
<1>7. \A p \in Page :
         \/ page'[p] = page[p]
         \/ Listening(h) /\ p = serving[h] /\ page'[p] = state
  BY DEF ChallengeArrives, Reply, SystemInv, LinkInv, SystemTypeOK
<1>8. state.stage = "solving" /\ state.id = id /\ state.due = entry.expiresAt
  OBVIOUS
<1> HIDE DEF id, entry, state
<1> SUFFICES ASSUME NEW p \in Page, page'[p].stage = "solving"
             PROVE  /\ \E o \in offers' : o.id = page'[p].id /\ o.expiresAt = page'[p].due
                    /\ page'[p].id \notin taken'
                    /\ \A g \in Handler :
                          task'[g].stage \in Working => task'[g].id # page'[p].id
                    /\ \A q \in Page :
                          q # p /\ page'[q].stage = "solving" => page'[q].id # page'[p].id
  BY DEF SolvesOwn
<1>9. CASE page'[p] = state
  <2>1. page[p] # state
    BY <1>6, <1>8
  <2>2. \A q \in Page : q # p => page'[q] = page[q]
    BY <1>7, <1>9, <2>1
  <2>3. page'[p].id = id /\ page'[p].due = entry.expiresAt
    BY <1>8, <1>9
  <2>4. \A g \in Handler : task'[g].stage \in Working => task'[g].id # id
    BY <1>3, <1>4 DEF Working
  <2> QED
    BY <1>1, <1>2, <1>5, <1>6, <2>2, <2>3, <2>4
<1>10. CASE page'[p] = page[p] /\ page'[p] # state
  BY <1>1, <1>3, <1>5, <1>6, <1>7, <1>8, <1>10 DEF KeptInv, SolvesOwn, Working
<1> QED
  BY <1>7, <1>9, <1>10

\* Until the first restart a page's challenge stays its own.
LEMMA SolvesOwnNext ==
    ASSUME SystemInv, KeptInv, [SystemNext]_systemVars, ~Restart
    PROVE  \A p \in Page : SolvesOwn(p)'
<1> USE IdleStage DEF Working
<1>1. /\ TypeOK /\ ReuseInv /\ LinkInv /\ SystemTypeOK
      /\ \A p \in Page : SolvesOwn(p)
  BY DEF SystemInv, LinkInv, KeptInv
<1>2. CASE \/ (Tick \/ CleanupLoop \/ CleanupStore) /\ UNCHANGED pageVars
           \/ UNCHANGED systemVars
  <2>1. UNCHANGED <<task, offers, taken, page>>
    BY <1>2
    DEF Tick, CleanupLoop, SweepStart, SweepChallenge, SweepTurn, SweepToken,
        SweepDelete, SweepEnd, CleanupStore, systemVars, vars, history, pageVars
  <2> QED
    BY <1>1, <2>1, SolvesOwnStays
<1>3. ASSUME NEW p \in Page, StopsHearing(p) PROVE \A q \in Page : SolvesOwn(q)'
  <2>1. /\ UNCHANGED <<task, offers, taken>>
        /\ \A q \in Page : page'[q].stage = "solving" => page'[q] = page[q]
    BY <1>1, <1>3 DEF StopsHearing, Unanswered, vars, history, SystemTypeOK
  <2> QED
    BY <1>1, <2>1, SolvesOwnStays
<1>4. ASSUME NEW h \in Handler, NEW next, Goto(h, next),
             \/ next.stage \notin Working
             \/ task[h].stage \in Working /\ next.id = task[h].id,
             offers \subseteq offers',
             taken' \subseteq taken \cup {task[h].id},
             taken' = taken \/ task[h].stage \in Working,
             \A q \in Page : page'[q].stage = "solving" => page'[q] = page[q]
      PROVE  \A q \in Page : SolvesOwn(q)'
  <2>1. /\ task'[h] = next
        /\ \A g \in Handler : g # h => task'[g] = task[g]
    BY <1>1, <1>4 DEF Goto, TypeOK
  <2> QED
    BY <1>1, <1>4, <2>1, SolvesOwnStays
<1>5. ASSUME NEW h \in Handler, Unseen(h), UNCHANGED pageVars
      PROVE  \A q \in Page : SolvesOwn(q)'
  <2>1. CASE ChallengeScore(h)
    BY <1>4, <1>5, <2>1 DEF ChallengeScore, history, pageVars
  <2>2. CASE VerifyDelete(h)
    <3> DEFINE next == [task[h] EXCEPT !.stage = "check"]
    <3>1. next.id = task[h].id /\ task[h].stage = "delete"
      BY <1>1, <2>2 DEF VerifyDelete, TypeOK, Task, Idle
    <3>2. Goto(h, next) /\ taken' = taken \cup {task[h].id} /\ UNCHANGED offers
      BY <2>2 DEF VerifyDelete
    <3> HIDE DEF next
    <3> QED
      BY <1>4, <1>5, <3>1, <3>2 DEF pageVars
  <2>3. CASE VerifyRecord(h)
    BY <1>4, <1>5, <2>3 DEF VerifyRecord, history, pageVars
  <2> QED
    BY <1>5, <2>1, <2>2, <2>3 DEF Unseen
<1>6. ASSUME NEW h \in Handler, SolutionsPass(h) PROVE \A q \in Page : SolvesOwn(q)'
  BY <1>4, <1>6 DEF SolutionsPass, VerifyPass, history, pageVars
<1>7. ASSUME NEW h \in Handler,
             SolutionsLate(h) \/ TokenArrives(h) \/ VerdictArrives(h)
      PROVE  \A q \in Page : SolvesOwn(q)'
  <2>1. /\ Goto(h, Idle) /\ UNCHANGED <<offers, taken>>
    BY <1>7
    DEF SolutionsLate, VerifyReject, TokenArrives, VerifyIssue, VerdictArrives,
        SiteverifyRedeem, SiteverifyInvalid, Answer, history
  <2>2. \A q \in Page : page'[q].stage = "solving" => page'[q] = page[q]
    BY <1>1, <1>7
    DEF SolutionsLate, TokenArrives, VerdictArrives, Reply, SystemTypeOK
  <2> QED
    BY <1>4, <2>1, <2>2
<1>8. ASSUME NEW h \in Handler, ChallengeArrives(h) PROVE \A q \in Page : SolvesOwn(q)'
  BY <1>8, SolvesOwnArrives
<1>9. ASSUME NEW p \in Page, NEW h \in Handler, FetchChallenge(p, h) \/ Submit(p, h)
      PROVE  \A q \in Page : SolvesOwn(q)'
  <2>1. PICK next : Goto(h, next) /\ next.stage \notin Working
    <3>1. CASE FetchChallenge(p, h)
      <4>1. PICK id, ip, site :
               Goto(h, [stage |-> "score", id |-> id, ip |-> ip, site |-> site,
                        since |-> now])
        BY <3>1 DEF FetchChallenge, ChallengeRecord
      <4> QED
        BY <4>1
    <3>2. CASE Submit(p, h)
      <4>1. PICK nonce, meta : Goto(h, Redeeming(nonce, meta))
        BY <3>2 DEF Submit, SiteverifyLoad
      <4>2. Redeeming(nonce, meta).stage = "redeem"
        BY DEF Redeeming
      <4> QED
        BY <4>1, <4>2
    <3> QED
      BY <1>9, <3>1, <3>2
  <2>2. \A q \in Page : page'[q].stage = "solving" => page'[q] = page[q]
    BY <1>1, <1>9 DEF FetchChallenge, Submit, Send, SystemTypeOK
  <2>3. UNCHANGED <<offers, taken>>
    BY <1>9 DEF FetchChallenge, ChallengeRecord, Submit, SiteverifyLoad, history
  <2> QED
    BY <1>4, <2>1, <2>2, <2>3
<1>10. ASSUME NEW p \in Page, NEW h \in Handler, PostVerify(p, h)
       PROVE  \A q \in Page : SolvesOwn(q)'
  <2>1. /\ page[p].stage = "solving" /\ task'[h].id = page[p].id
        /\ page'[p].stage # "solving"
        /\ \A q \in Page : q # p => page'[q] = page[q]
        /\ \A g \in Handler : g # h => task'[g] = task[g]
        /\ UNCHANGED <<offers, taken>>
    BY <1>1, <1>10
    DEF PostVerify, VerifyLoad, Goto, Send, history, TypeOK, SystemTypeOK
  <2> QED
    BY <1>1, <2>1, SolvesOwnStays
<1>11. ASSUME NEW p \in Page, NEW h \in Handler,
              PostVerifyLate(p, h) \/ SubmitDuplicate(p, h)
       PROVE  \A q \in Page : SolvesOwn(q)'
  <2>1. /\ UNCHANGED <<task, offers, taken>>
        /\ \A q \in Page : page'[q].stage = "solving" => page'[q] = page[q]
    BY <1>1, <1>11
    DEF PostVerifyLate, SubmitDuplicate, ToldAtOnce, Refuse, vars, history, SystemTypeOK
  <2> QED
    BY <1>1, <2>1, SolvesOwnStays
<1> QED
  BY <1>2, <1>3, <1>5, <1>6, <1>7, <1>8, <1>9, <1>10, <1>11 DEF SystemNext

\* Losses and restarts are counted where they happen and nowhere else.
LEMMA Counts ==
    ASSUME [SystemNext]_systemVars
    PROVE  UNCHANGED <<losses, restarts>> \/ Restart \/ \E p \in Page : StopsHearing(p)
<1>1. ASSUME NEW h \in Handler,
             \/ ChallengeArrives(h) \/ SolutionsPass(h) \/ SolutionsLate(h)
             \/ TokenArrives(h) \/ VerdictArrives(h)
      PROVE  UNCHANGED <<losses, restarts>>
  BY <1>1 DEF ChallengeArrives, SolutionsPass, SolutionsLate, TokenArrives,
              VerdictArrives, Reply, pageVars
<1>2. ASSUME NEW p \in Page, NEW h \in Handler,
             \/ FetchChallenge(p, h) \/ PostVerify(p, h) \/ PostVerifyLate(p, h)
             \/ Submit(p, h) \/ SubmitDuplicate(p, h)
      PROVE  UNCHANGED <<losses, restarts>>
  BY <1>2 DEF FetchChallenge, PostVerify, PostVerifyLate, Submit, SubmitDuplicate,
              Send, ToldAtOnce
<1> QED
  BY <1>1, <1>2 DEF SystemNext, systemVars, pageVars

\* A page that fails has lost an answer, or its challenge has run out.
LEMMA FailsLateNext ==
    ASSUME SystemInv, PromptInv, [SystemNext]_systemVars
    PROVE  FailsOnlyLate'
<1> USE IdleStage, TimeIsNat, PagesAssumption
<1>1. /\ now \in Nat /\ now' \in Nat /\ now <= now'
  <2>1. now \in Nat /\ now' \in Nat
    BY ServerSteps DEF SystemInv, TypeOK
  <2>2. now' = now \/ now' = now + 1
    BY DEF SystemNext, Tick, CleanupLoop, SweepStart, SweepChallenge, SweepTurn,
       SweepToken, SweepDelete, SweepEnd, CleanupStore, Restart, StopsHearing, Unseen,
       ChallengeScore, VerifyDelete, VerifyRecord, ChallengeArrives, ChallengeOffer,
       SolutionsPass, VerifyPass, SolutionsLate, VerifyReject, TokenArrives, VerifyIssue,
       VerdictArrives, SiteverifyRedeem, SiteverifyInvalid, FetchChallenge,
       ChallengeRecord, PostVerify, VerifyLoad, PostVerifyLate, Submit, SiteverifyLoad,
       SubmitDuplicate, ToldAtOnce, Refuse, vars, systemVars
  <2> QED
    BY <2>1, <2>2
<1>2. /\ restarts \in Nat
      /\ \A p \in Page : losses[p] \in Nat /\ page[p] \in PageState
      /\ SystemTypeOK /\ \A p \in Page : page[p].stage = "failed" => page[p].due \in Nat
  BY DEF SystemInv, LinkInv, SystemTypeOK, PageState
<1>3. /\ restarts' = restarts \/ restarts' = restarts + 1
      /\ \A p \in Page : losses'[p] = losses[p] \/ losses'[p] = losses[p] + 1
  BY <1>2, Counts DEF Restart, StopsHearing, SystemTypeOK
<1> DEFINE Late(p) == losses'[p] > 0 \/ restarts' > 0 \/ now' > page'[p].due
<1> SUFFICES ASSUME NEW p \in Page, page'[p].stage = "failed" PROVE Late(p)
  BY DEF FailsOnlyLate
<1>4. CASE page'[p] = page[p]
  BY <1>1, <1>2, <1>3, <1>4 DEF PromptInv, FailsOnlyLate
<1>5. CASE Restart
  BY <1>2, <1>5 DEF Restart
<1>6. ASSUME NEW q \in Page, StopsHearing(q), page'[p] # page[p] PROVE Late(p)
  BY <1>2, <1>6 DEF StopsHearing, SystemTypeOK
<1>7. ASSUME NEW h \in Handler, SolutionsLate(h), page'[p] # page[p] PROVE Late(p)
  <2>1. /\ page'[p] = [stage |-> "failed", due |-> task[h].entry.expiresAt]
        /\ now' = now
    BY <1>2, <1>7 DEF SolutionsLate, Reply, VerifyReject, SystemTypeOK
  <2>2. task[h].entry.expiresAt \in Nat
    BY <1>7 DEF SolutionsLate, VerifyReject, SystemInv, TypeOK, Task, Idle, Entry
  <2> DEFINE proof == [hashcash |-> TRUE, argon2 |-> "right", probePass |-> TRUE]
  <2>3. proof \in Proof /\ Solved(proof)
    BY DEF Proof, Solved
  <2>4. ~Accepts(task[h].entry, proof, now)
    BY <1>7, <2>3 DEF SolutionsLate
  <2>5. now > task[h].entry.expiresAt
    BY <1>1, <2>2, <2>4 DEF Accepts
  <2> QED
    BY <2>1, <2>5
<1>8. ASSUME NEW q \in Page, NEW h \in Handler, PostVerifyLate(q, h),
             page'[p] # page[p]
      PROVE  Late(p)
  <2>1. /\ page'[p] = [stage |-> "failed", due |-> page[p].due]
        /\ page[p].stage = "solving" /\ challenges[page[p].id] = Absent
        /\ UNCHANGED <<now, restarts>>
    BY <1>2, <1>8 DEF PostVerifyLate, ToldAtOnce, Refuse, vars, SystemTypeOK
  <2>2. CASE restarts = 0
    <3>1. PICK o \in offers : o.id = page[p].id /\ o.expiresAt = page[p].due
      BY <2>1, <2>2 DEF PromptInv, KeptInv, SolvesOwn
    <3>2. page[p].id \notin taken
      BY <2>1, <2>2 DEF PromptInv, KeptInv, SolvesOwn
    <3>3. now > o.expiresAt
      BY <2>1, <2>2, <3>1, <3>2 DEF PromptInv, KeptInv, IssueInv, OffersKept
    <3> QED
      BY <2>1, <3>1, <3>3
  <2>3. CASE restarts # 0
    BY <1>2, <2>1, <2>3
  <2> QED
    BY <2>2, <2>3
<1>9. CASE UNCHANGED page
  BY <1>4, <1>9
<1>10. ASSUME NEW h \in Handler,
              ChallengeArrives(h) \/ TokenArrives(h) \/ VerdictArrives(h)
       PROVE  page'[p] = page[p]
  BY <1>2, <1>10 DEF ChallengeArrives, TokenArrives, VerdictArrives, Reply, SystemTypeOK
<1>11. ASSUME NEW q \in Page, NEW h \in Handler,
              \/ FetchChallenge(q, h) \/ PostVerify(q, h)
              \/ Submit(q, h) \/ SubmitDuplicate(q, h)
       PROVE  page'[p] = page[p]
  BY <1>2, <1>11
  DEF FetchChallenge, PostVerify, Submit, SubmitDuplicate, Send, ToldAtOnce, SystemTypeOK
<1>12. UNCHANGED page \/ Restart
       \/ (\E q \in Page : StopsHearing(q))
       \/ (\E h \in Handler : \/ SolutionsLate(h) \/ ChallengeArrives(h)
                              \/ TokenArrives(h) \/ VerdictArrives(h))
       \/ (\E q \in Page, h \in Handler :
              \/ FetchChallenge(q, h) \/ PostVerify(q, h) \/ PostVerifyLate(q, h)
              \/ Submit(q, h) \/ SubmitDuplicate(q, h))
  BY DEF SystemNext, systemVars, pageVars, SolutionsPass
<1> HIDE DEF Late
<1> QED
  BY <1>4, <1>5, <1>6, <1>7, <1>8, <1>9, <1>10, <1>11, <1>12

LEMMA PromptAlways == SystemSpec => []PromptInv
<1>1. SystemInv /\ PromptInv /\ [SystemNext]_systemVars => PromptInv'
  <2> SUFFICES ASSUME SystemInv, PromptInv, [SystemNext]_systemVars PROVE PromptInv'
    OBVIOUS
  <2>1. FailsOnlyLate'
    BY FailsLateNext
  <2>2. ASSUME restarts' = 0 PROVE KeptInv'
    <3>1. restarts = 0 /\ ~Restart
      BY <2>2, Counts DEF SystemInv, LinkInv, SystemTypeOK, Restart, StopsHearing
    <3>2. KeptInv
      BY <3>1 DEF PromptInv
    <3>3. [Next]_vars
      BY <3>1, ServerStep
    <3>4. MemoryInv' /\ IssueInv' /\ ReuseInv'
      BY <3>2, <3>3, MemoryNext, IssueNext, ReuseNext DEF SystemInv, KeptInv
    <3> QED
      BY <3>1, <3>2, <3>4, SolvesOwnNext DEF KeptInv
  <2> QED
    BY <2>1, <2>2 DEF PromptInv
<1> QED
  BY <1>1, PromptInit, SystemAlways, PTL DEF SystemSpec

\* A page that hears from all its requests, of a server that is not
\* restarted, fails only after the deadline of its challenge.
THEOREM FailuresAreLate == SystemSpec => []FailsOnlyLate
<1>1. PromptInv => FailsOnlyLate
  BY DEF PromptInv
<1> QED
  BY <1>1, PromptAlways, PTL
=============================================================================

----------------------------- MODULE TrustSystem -----------------------------
(***************************************************************************)
(* Pages that run the widget and the demo form against TrustServer.  A     *)
(* page fetches a challenge, solves it, has its nonce signed, and submits  *)
(* the token until it is told that it was verified.  Every step of the     *)
(* server is a step of TrustServer; this module says which requests come,  *)
(* and what the pages make of the answers.                                 *)
(*                                                                         *)
(* A page may stop hearing from a request that the server goes on with: a  *)
(* connection breaks, an answer is lost.  The widget then gives up, and    *)
(* the form offers to retry with the same token.  The server may crash and *)
(* be started again: all it keeps is in memory, except its key.            *)
(***************************************************************************)
EXTENDS TrustServer

CONSTANTS
    Page,       \* page loads, each of which draws one nonce
    NonceOf,    \* the nonce a page draws
    Nobody,     \* a handler that serves no page
    MaxLosses,  \* bound: requests a page may stop hearing from
    MaxRestarts \* bound: restarts of the server

ASSUME PagesAssumption ==
    /\ NonceOf \in [Page -> Nonce]
    /\ \A p, q \in Page : NonceOf[p] = NonceOf[q] => p = q
    /\ Nobody \notin Page
    /\ MaxLosses \in Nat
    /\ MaxRestarts \in Nat

VARIABLES
    page,     \* page[p]: how far p has come, with what it holds
    serving,  \* whose request a handler is running
    losses,   \* requests p stopped hearing from
    restarts  \* restarts of the server

pageVars == <<page, serving, losses, restarts>>
systemVars == <<vars, pageVars>>

\* Stages in which a page awaits the answer of the handler in "from".
Waiting == {"asking", "signing", "submitting"}

PageState ==
    [stage: {"start"}]
    \cup [stage: {"asking"}, from: Handler]
    \cup [stage: {"solving"}, id: ChallengeID, meta: Meta, due: Nat]
    \cup [stage: {"signing"}, id: ChallengeID, meta: Meta, due: Nat, from: Handler]
    \cup [stage: {"failed"}, due: Nat]
    \cup [stage: {"token", "duplicate", "unanswered", "invalid", "verified"}, meta: Meta]
    \cup [stage: {"submitting"}, meta: Meta, from: Handler]

\* Every variable holds a value of its kind, and a page that waits for an
\* answer waits for a handler that is at work for it.
SystemTypeOK ==
    /\ page \in [Page -> PageState]
    /\ serving \in [Handler -> Page \cup {Nobody}]
    /\ losses \in [Page -> 0..MaxLosses]
    /\ restarts \in 0..MaxRestarts
    /\ \A p \in Page : page[p].stage \in Waiting =>
          serving[page[p].from] = p /\ task[page[p].from] # Idle

SystemInit ==
    /\ Init
    /\ page = [p \in Page |-> [stage |-> "start"]]
    /\ serving = [h \in Handler |-> Nobody]
    /\ losses = [p \in Page |-> 0]
    /\ restarts = 0

-----------------------------------------------------------------------------
(***************************************************************************)
(* The page sends a request, which handler h takes up.                     *)
(***************************************************************************)
Send(p, h, state) ==
    /\ page' = [page EXCEPT ![p] = state]
    /\ serving' = [serving EXCEPT ![h] = p]
    /\ UNCHANGED <<losses, restarts>>

\* Handler h answers.  Who no longer listens does not hear it.
Listening(h) ==
    /\ serving[h] # Nobody
    /\ page[serving[h]].stage \in Waiting
    /\ page[serving[h]].from = h

\* A handler that returns without writing an answer.
Reply_Unsent(h, state) ==
    /\ serving' = [serving EXCEPT ![h] = Nobody]
    /\ UNCHANGED <<page, losses, restarts>>

Reply(h, state) ==
    /\ page' = IF Listening(h) THEN [page EXCEPT ![serving[h]] = state] ELSE page
    /\ serving' = [serving EXCEPT ![h] = Nobody]
    /\ UNCHANGED <<losses, restarts>>

\* An answer given at once, in the step that takes the request up.
ToldAtOnce(p, h, state) ==
    /\ Refuse(h)
    /\ page' = [page EXCEPT ![p] = state]
    /\ UNCHANGED <<serving, losses, restarts>>

-----------------------------------------------------------------------------
(***************************************************************************)
(* render: fetch, solve, blind, POST /verify, unblind.                     *)
(***************************************************************************)
FetchChallenge(p, h) ==
    /\ page[p].stage = "start"
    /\ ChallengeRecord(h)
    /\ Send(p, h, [stage |-> "asking", from |-> h])

ChallengeArrives(h) ==
    /\ ChallengeOffer(h)
    /\ LET entry == challenges'[task[h].id]
       IN  Reply(h, [ stage |-> "solving", id |-> task[h].id,
                      meta |-> entry.predictedMeta, due |-> entry.expiresAt ])

\* Solved, the nonce blinded under the predicted metadata.
PostVerify(p, h) ==
    /\ page[p].stage = "solving"
    /\ VerifyLoad(h)
    /\ task'[h].id = page[p].id
    /\ Send(p, h, [ stage |-> "signing", id |-> page[p].id, meta |-> page[p].meta,
                    due |-> page[p].due, from |-> h ])

PostVerifyLate(p, h) ==
    /\ page[p].stage = "solving"
    /\ challenges[page[p].id] = Absent
    /\ ToldAtOnce(p, h, [stage |-> "failed", due |-> page[p].due])

\* The widget solves every part; what its probes measure is not its choice.
Solved(proof) == proof.hashcash /\ proof.argon2 = "right"

SolutionsPass(h) ==
    /\ VerifyPass(h)
    /\ task'[h].class = 2
    /\ UNCHANGED pageVars

SolutionsLate(h) ==
    /\ VerifyReject(h)
    /\ \A proof \in Proof : Solved(proof) => ~Accepts(task[h].entry, proof, now)
    /\ Reply(h, [stage |-> "failed", due |-> task[h].entry.expiresAt])

\* The page keeps the metadata of the answer, which is what was signed.
TokenArrives(h) ==
    /\ VerifyIssue(h)
    /\ \E i \in issuances' :
          /\ i.id = task[h].id /\ i.by = h
          /\ i.nonce = NonceOf[serving[h]]
          /\ Reply(h, [stage |-> "token", meta |-> i.meta])

-----------------------------------------------------------------------------
(***************************************************************************)
(* The form: submit, and Retry after an error.  The button is disabled     *)
(* while an answer is awaited and after success.                           *)
(***************************************************************************)
MaySubmit_Enabled(p) == page[p].stage \in {"token", "submitting", "duplicate", "unanswered", "invalid"}
MaySubmit(p) == page[p].stage \in {"token", "duplicate", "unanswered", "invalid"}

Submit(p, h) ==
    /\ MaySubmit(p)
    /\ SiteverifyLoad(h)
    /\ task'[h].token.nonce = NonceOf[p]
    /\ task'[h].token.meta = page[p].meta
    /\ Send(p, h, [stage |-> "submitting", meta |-> page[p].meta, from |-> h])

SubmitDuplicate(p, h) ==
    /\ MaySubmit(p)
    /\ Seen(NonceOf[p])
    /\ ToldAtOnce(p, h, [stage |-> "duplicate", meta |-> page[p].meta])

VerdictArrives(h) ==
    /\ SiteverifyRedeem(h) \/ SiteverifyInvalid(h)
    /\ Reply(h, [ stage |-> IF Verifies(task[h].token) THEN "verified" ELSE "invalid",
                  meta |-> task[h].token.meta ])

\* The page stops hearing from its request, which the server goes on with,
\* or from the one for the script that solves the Argon2 part.
Unanswered(p) ==
    IF page[p].stage = "submitting"
    THEN [stage |-> "unanswered", meta |-> page[p].meta]
    ELSE [stage |-> "failed", due |-> 0]

StopsHearing(p) ==
    /\ page[p].stage \in Waiting \cup {"solving"}
    /\ losses[p] < MaxLosses
    /\ page' = [page EXCEPT ![p] = Unanswered(p)]
    /\ losses' = [losses EXCEPT ![p] = @ + 1]
    /\ UNCHANGED <<serving, restarts, vars>>

-----------------------------------------------------------------------------
(***************************************************************************)
(* The server crashes, with every request it was running, and main runs    *)
(* again: newServer makes empty maps and an empty temperature store, and   *)
(* loadDevKey returns the same key pair, so what was signed still verifies *)
(***************************************************************************)
newServer ==
    /\ challenges' = [id \in ChallengeID |-> Absent]
    /\ tokens' = [n \in Nonce |-> Absent]
    /\ sweep' = [phase |-> "idle", due |-> FALSE, cutoff |-> 0, doomed |-> Absent]
    /\ ipRequests' = [ip \in IP |-> NoRequests]
    /\ subnetReqs' = [s \in Subnet |-> NoRequests]
    /\ tokenBurns' = [s \in Site |-> 0]
    /\ probeHistory' = [ip \in IP |-> <<>>]

\* A key pair generated at every start, as for the tests, forgets what the
\* one before it signed.
loadDevKey_Generated == issuances' = {}
loadDevKey == UNCHANGED issuances

Restart ==
    /\ restarts < MaxRestarts
    /\ restarts' = restarts + 1
    /\ newServer
    /\ loadDevKey
    /\ task' = [h \in Handler |-> Idle]
    /\ page' = [p \in Page |->
           IF page[p].stage \in Waiting THEN Unanswered(p) ELSE page[p]]
    /\ serving' = [h \in Handler |-> Nobody]
    /\ UNCHANGED <<now, offers, taken, redemptions, losses>>

-----------------------------------------------------------------------------
Unseen(h) == ChallengeScore(h) \/ VerifyDelete(h) \/ VerifyRecord(h)

SystemNext ==
    \/ (Tick \/ CleanupLoop \/ CleanupStore) /\ UNCHANGED pageVars
    \/ Restart
    \/ \E p \in Page : StopsHearing(p)
    \/ \E h \in Handler :
          \/ Unseen(h) /\ UNCHANGED pageVars
          \/ ChallengeArrives(h) \/ SolutionsPass(h) \/ SolutionsLate(h)
          \/ TokenArrives(h) \/ VerdictArrives(h)
    \/ \E p \in Page, h \in Handler :
          \/ FetchChallenge(p, h)
          \/ PostVerify(p, h) \/ PostVerifyLate(p, h)
          \/ Submit(p, h) \/ SubmitDuplicate(p, h)

SystemSpec == SystemInit /\ [][SystemNext]_systemVars

-----------------------------------------------------------------------------
\* The token a page holds verifies: the metadata it was blinded under with
\* the challenge is what the server signed it under, an hour boundary later
\* or after a restart.
TokenIsGood ==
    \A p \in Page :
        page[p].stage \in {"token", "submitting", "duplicate", "unanswered", "verified"} =>
            Genuine(NonceOf[p], page[p].meta)

\* A page is told its token is a duplicate only after an answer of the
\* server was lost to it, and the token was accepted then.  A request that
\* a restart cut off leaves nothing behind to be a duplicate of.
DuplicateNeedsLoss ==
    \A p \in Page : page[p].stage = "duplicate" =>
        losses[p] > 0 /\ \E r \in redemptions : r.nonce = NonceOf[p]

\* The server's two-call check lets overlapping requests through, but the
\* form sends the next only after an answer or a loss: a page's token is
\* accepted at most once more than answers were lost to it, however often
\* the server forgets the nonces it accepted.
AcceptedOncePerLoss ==
    \A p \in Page :
        Cardinality({r \in redemptions : r.nonce = NonceOf[p]}) <= 1 + losses[p]

\* A /verify that fails has used its challenge up.  It does not happen to a
\* page that solved its challenge, hears from all its requests and is in
\* time, unless the server was restarted.
FailsOnlyLate ==
    \A p \in Page : page[p].stage = "failed" =>
        losses[p] > 0 \/ restarts > 0 \/ now > page[p].due
=============================================================================

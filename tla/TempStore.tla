------------------------------ MODULE TempStore ------------------------------
(***************************************************************************)
(* temperature.Store under concurrent callers and its own cleanup          *)
(* goroutine.  Every operation holds the mutex while it touches the maps,  *)
(* but Record, Score and cleanup read the clock before they take it: a     *)
(* call is a step that reads the clock and a later step, after any number  *)
(* of other critical sections and any time, that uses what was read.       *)
(***************************************************************************)
EXTENDS Temperature

CONSTANTS
    Thread,      \* goroutines that call the store
    MaxRecords,  \* bound: calls of Record
    MaxBurns     \* bound: calls of RecordTokenBurn

\* The addresses are finitely many: a header holds so many and no more.
ASSUME StoreAssumption ==
    /\ MaxRecords \in Nat
    /\ MaxBurns \in Nat
    /\ IsFiniteSet(IP)

Verdict == {"none", "pass", "fail"}  \* nil, &true, &false

VARIABLES
    now,      \* the wall clock
    thread,   \* thread[th]: the call th is in, with its locals
    cleaner,  \* cleanupLoop: idle, waiting for the mutex with a cutoff, stopped
    \* History, read only by the bounds and the properties:
    log,      \* log[ip][t]: every request of ip ever recorded with stamp t
    verdicts, \* every probe verdict ever recorded per address, oldest first
    burned    \* every token ever counted per site key

history == <<log, verdicts, burned>>
vars == <<now, thread, cleaner, history, tempVars>>

Idle == [op |-> "idle"]

Call ==
    {Idle}
    \cup [op: {"record"}, ip: IP, verdict: Verdict, since: Time]
    \cup [op: {"score"}, ip: IP, site: Site, since: Time]
    \cup [op: {"scored"}, ip: IP, score: Percent, bucket: Bucket]

Cleaner ==
    [state: {"idle", "stopped"}] \cup [state: {"locking"}, cutoff: Int]

\* Every variable holds a value of its kind; a score is a percentage.
TypeOK ==
    /\ TempTypeOK
    /\ now \in Time
    /\ thread \in [Thread -> Call]
    /\ cleaner \in Cleaner
    /\ log \in [IP -> Times]
    /\ verdicts \in [IP -> Seq(BOOLEAN)]
    /\ burned \in [Site -> Nat]

Init ==
    /\ TempInit
    /\ now = 0
    /\ thread = [th \in Thread |-> Idle]
    /\ cleaner = [state |-> "idle"]
    /\ log = [ip \in IP |-> NoRequests]
    /\ verdicts = [ip \in IP |-> <<>>]
    /\ burned = [s \in Site |-> 0]

Goto(th, call) == thread' = [thread EXCEPT ![th] = call]

Total(times) == MapThenSumSet(LAMBDA t : times[t], Time)
Recorded == MapThenSumSet(LAMBDA ip : Total(log[ip]), IP)
Recording == Cardinality({th \in Thread : thread[th].op = "record"})

-----------------------------------------------------------------------------
CallRecord(th) ==
    /\ thread[th] = Idle
    /\ Recorded + Recording < MaxRecords
    /\ \E ip \in IP, verdict \in Verdict :
          Goto(th, [op |-> "record", ip |-> ip, verdict |-> verdict, since |-> now])
    /\ UNCHANGED <<now, cleaner, history, tempVars>>

LockRecord(th) ==
    /\ thread[th].op = "record"
    /\ LET ip == thread[th].ip
           t == thread[th].since
           pass == thread[th].verdict = "pass"
       IN  /\ log' = [log EXCEPT ![ip][t] = @ + 1]
           /\ \/ /\ thread[th].verdict = "none"
                 /\ Record(ip, t)
                 /\ UNCHANGED verdicts
              \/ /\ thread[th].verdict # "none"
                 /\ RecordProbe(ip, t, pass)
                 /\ verdicts' = [verdicts EXCEPT ![ip] = Append(@, pass)]
    /\ Goto(th, Idle)
    /\ UNCHANGED <<now, cleaner, burned>>

BurnToken(th) ==
    /\ thread[th] = Idle
    /\ \E site \in Site :
          /\ burned[site] < MaxBurns
          /\ RecordTokenBurn(site)
          /\ burned' = [burned EXCEPT ![site] = @ + 1]
    /\ UNCHANGED <<now, thread, cleaner, log, verdicts>>

CallScore(th) ==
    /\ thread[th] = Idle
    /\ \E ip \in IP, site \in Site :
          Goto(th, [op |-> "score", ip |-> ip, site |-> site, since |-> now])
    /\ UNCHANGED <<now, cleaner, history, tempVars>>

LockScore(th) ==
    /\ thread[th].op = "score"
    /\ LET score == ScoreOf(thread[th].ip, thread[th].site, thread[th].since)
       IN  Goto(th, [ op |-> "scored", ip |-> thread[th].ip, score |-> score,
                      bucket |-> scoreToBucket(score) ])
    /\ UNCHANGED <<now, cleaner, history, tempVars>>

ReturnScore(th) ==
    /\ thread[th].op = "scored"
    /\ Goto(th, Idle)
    /\ UNCHANGED <<now, cleaner, history, tempVars>>

-----------------------------------------------------------------------------
(***************************************************************************)
(* cleanupLoop.  The ticker may fire whenever the loop waits for it.       *)
(***************************************************************************)
CutoffAt_Now(t) == t
CutoffAt(t) == t - Window

CallCleanup ==
    /\ cleaner.state = "idle"
    /\ cleaner' = [state |-> "locking", cutoff |-> CutoffAt(now)]
    /\ UNCHANGED <<now, thread, history, tempVars>>

LockCleanup ==
    /\ cleaner.state = "locking"
    /\ Cleanup(cleaner.cutoff)
    /\ cleaner' = [state |-> "idle"]
    /\ UNCHANGED <<now, thread, history>>

\* Close, and the loop's select taking the closed channel.
Close ==
    /\ cleaner.state = "idle"
    /\ cleaner' = [state |-> "stopped"]
    /\ UNCHANGED <<now, thread, history, tempVars>>

Tick ==
    /\ now < MaxTime
    /\ now' = now + 1
    /\ UNCHANGED <<thread, cleaner, history, tempVars>>

Return(th) == LockRecord(th) \/ LockScore(th) \/ ReturnScore(th)

Next ==
    \/ Tick
    \/ CallCleanup \/ LockCleanup \/ Close
    \/ \E th \in Thread : CallRecord(th) \/ CallScore(th) \/ BurnToken(th) \/ Return(th)

(***************************************************************************)
(* The mutex is held for a bounded time and handed on fairly, so a call    *)
(* gets it; the ticker keeps firing.  No caller need ever call.            *)
(***************************************************************************)
Spec ==
    /\ Init /\ [][Next]_vars
    /\ WF_vars(Tick)
    /\ WF_vars(CallCleanup)
    /\ WF_vars(LockCleanup)
    /\ \A th \in Thread : WF_vars(Return(th))

-----------------------------------------------------------------------------
Within(times, t) == countAfter(times, t - Window)

Neighbours(subnet) == {ip \in IP : SubnetOf[ip] = subnet}
InSubnet(all, subnet) ==
    [t \in Time |-> MapThenSumSet(LAMBDA ip : all[ip][t], Neighbours(subnet))]
SubnetLog(subnet) == InSubnet(log, subnet)

\* No request is lost while it still counts: for every stamp inside the
\* window the store holds exactly the requests recorded, per address and
\* per subnet, whatever cutoff a delayed cleanup comes with.
WindowIntact ==
    \A t \in Time : t > now - Window =>
        /\ \A ip \in IP : ipRequests[ip][t] = log[ip][t]
        /\ \A s \in Subnet : subnetReqs[s][t] = SubnetLog(s)[t]

\* A score read with a stale clock lies between the score of the requests
\* still in the window when it is computed and that of the requests in the
\* window when it was called: a cleanup in between can only move it inside.
ScoreIn(ip, site, t) ==
    Score( Within(log[ip], t), Within(SubnetLog(SubnetOf[ip]), t), burned[site],
           probeSignal(Fails(probeHistory[ip]), Len(probeHistory[ip])), Reputation[ip] )

ScoreWithinWindow ==
    [][\A th \in Thread :
          (thread[th].op = "score" /\ thread'[th].op = "scored") =>
              LET ip == thread[th].ip
                  site == thread[th].site
              IN  /\ ScoreIn(ip, site, now) <= thread'[th].score
                  /\ thread'[th].score <= ScoreIn(ip, site, thread[th].since)]_vars

\* What is kept of an address's probes is exactly its latest verdicts, in
\* the order the mutex admitted them.
ProbesAreLatest ==
    \A ip \in IP :
        LET kept == probeHistory[ip]
            all  == verdicts[ip]
        IN  /\ kept = SubSeq(all, Len(all) - Len(kept) + 1, Len(all))
            /\ Len(kept) = ProbeWindow \/ kept = all

\* Unless the store is closed, requests that have left the window for good
\* are dropped for good, also those that were recorded late.
OldRequestsDropped ==
    [](cleaner.state # "stopped") =>
        \A ip \in IP, t \in 0..(MaxTime - Window) : <>[](ipRequests[ip][t] = 0)

\* "Token burn rate (total for this site key, decays slowly)": tokens once
\* counted do not count for ever.
BurnsDecay ==
    [](cleaner.state # "stopped") =>
        \A s \in Site : tokenBurns[s] > 0 ~> tokenBurns[s] < burned[s]
=============================================================================

------------------------------- MODULE Exchange -------------------------------
(***************************************************************************)
(* One page load in bytes: the challenge the server makes, the widget's    *)
(* two proofs of work, the answer /verify gives to them, the token built   *)
(* from it, and what /siteverify reads out of the token it is sent.  It    *)
(* says that the two programs agree on every encoding, and under which     *)
(* address the server counts the requests.  TrustServer and TrustSystem    *)
(* have the interleavings, and CompositeVerify the rest of Verify: here    *)
(* one client is alone and in time.                                        *)
(***************************************************************************)
EXTENDS Puzzles, Address, PowersOfTwo

CONSTANTS
    Loads,  \* bound: the page loads, as far as they matter here (see Load)
    Hosts   \* bound: the other addresses a page may be loaded from

\* The host of a connection, as net/http has it: an IPv4 address, or an IPv6
\* text, which it writes without a dotted part.
IsPeer(host) ==
    /\ host \in Seq(Token)
    /\ \/ Len(host) = 1 /\ host[1].kind = "dotted"
       \/ Len(host) > 1 /\ \A i \in DOMAIN host : host[i].kind \in {"hex", ":"}

\* The IPv4 address a text stands for, if any: a dotted one, alone or after
\* the prefix of the mapped addresses.
IPv4In(text) ==
    {ip \in {text[i] : i \in DOMAIN text} :
        ip.kind = "dotted" /\ text \in {<<ip>>, Mapped(ip)}}

\* What chance, the clock, the network and the abuse score bring to a load.
\* The two requests come over connections with ports of their own; origin
\* is the IPv4 address they come from, as the number of its /24, or -1 for
\* what is no such address.
\* Bound: only a load that is not "honest" sends anything but the widget's
\* solutions and the token as it was issued.
LoadOK(load) ==
    /\ load.random.nonce \in [1..nonceBytes -> Byte]
    /\ load.random.digests \in Seq(Digest)
    /\ load.salt \in [1..nonceBytes -> Byte]
    /\ load.bits \in Byte
    /\ {load.memory, load.iterations} \subseteq Word
    /\ load.bucket \in 0..3
    /\ load.at \in Nat
    /\ load.nonce \in [1..nonceLen -> Byte]
    /\ load.sig \in [1..sigLen -> Byte]
    /\ load.ports \in [{1, 2} -> Nat]
    /\ load.honest \in BOOLEAN
    /\ IsPeer(load.host)
    /\ load.forwarded \in Seq(Token)
    /\ load.origin \in -1..Net24(255, 255, 255)
    /\ LET text == IF load.forwarded # <<>> THEN load.forwarded ELSE load.host
       IN  IF IPv4In(text) = {} THEN load.origin = -1
           ELSE \E ip \in IPv4In(text) : load.origin = ip.net

ASSUME LoadsAssumption == \A load \in Loads : LoadOK(load)

ASSUME HostsAssumption == \A host \in Hosts : IsPeer(host)

VARIABLES
    load,
    stage,     \* start, hashcash, argon2, verify, token, done, rejected
    challenge, \* hashcash, argon2 and predicted_metadata of the answer
    counter,   \* of the loop in solveHashCash
    response,  \* hashcash_solution and argon2_result as the server gets them
    issued,    \* the token whose signature verifies
    presented, \* the token as /siteverify gets it
    verdict,   \* its answer
    counted,   \* the addresses tempStore.Record was called with
    reputation \* what the address adds to the score of the challenge

vars == <<load, stage, challenge, counter, response, issued, presented, verdict,
          counted, reputation>>

None == <<>>
Refused == [success |-> FALSE]

Init ==
    /\ load \in Loads
    /\ stage = "start"
    /\ challenge = None /\ counter = 0 /\ response = None
    /\ issued = None /\ presented = None /\ verdict = Refused
    /\ counted = {} /\ reputation = 0

RequestIP(k) == extractIP(load.forwarded, RemoteAddr(load.host, load.ports[k]))

-----------------------------------------------------------------------------
HandleChallenge ==
    /\ stage = "start"
    /\ counted' = counted \cup {RequestIP(1)}
    /\ reputation' = Score(RequestIP(1))
    /\ challenge' =
         [ HashCash |-> NewHashCashChallenge(load.random.nonce, load.bits),
           Argon2 |-> NewArgon2Challenge(load.salt, load.memory, load.iterations),
           PredictedMetadata |->
             Encode([ ChallengeClass |-> 2, TemperatureBucket |-> load.bucket,
                      DeviceClass |-> 1, TimeBucket |-> TimeBucketFromTime(load.at) ]) ]
    /\ stage' = "hashcash"
    /\ UNCHANGED <<load, counter, response, issued, presented, verdict>>

\* One turn of solveHashCash, and its return.
NextCounter ==
    /\ stage = "hashcash"
    /\ ~Solves(load.random, challenge.HashCash, counter)
    /\ counter' = counter + 1
    /\ UNCHANGED <<load, stage, challenge, response, issued, presented, verdict, counted, reputation>>

solveHashCash ==
    /\ stage = "hashcash"
    /\ Solves(load.random, challenge.HashCash, counter)
    /\ stage' = "argon2"
    /\ UNCHANGED <<load, challenge, counter, response, issued, presented, verdict, counted, reputation>>

\* The widget's own solutions, or those of a client that does not run it:
\* another counter, a digit too few, another result or none.
Solutions ==
    LET found == bytesToHex(uint64BE(counter))
        right == solveArgon2(challenge.Argon2)
    IN  [ hashcash: {found, Tail(found)} \cup {bytesToHex(uint64BE(c)) : c \in 0..2},
          argon2: {right, [right EXCEPT !.length = @ - 1], NoResult}
                  \cup {solveArgon2([challenge.Argon2 EXCEPT !.Iterations = @ + 1])},
          byWidget: {FALSE} ]
        \cup {[hashcash |-> found, argon2 |-> right, byWidget |-> TRUE]}

Respond ==
    /\ stage = "argon2"
    /\ response' \in Solutions
    /\ load.honest => response'.byWidget
    /\ stage' = "verify"
    /\ UNCHANGED <<load, challenge, counter, issued, presented, verdict, counted, reputation>>

Passes ==
    /\ VerifyHashCash(load.random, challenge.HashCash, response.hashcash)
    /\ response.argon2 # NoResult => VerifyArgon2(challenge.Argon2, response.argon2)

\* The only signature that verifies is the one made for the nonce that was
\* blinded and the predicted metadata.
HandleVerify ==
    /\ stage = "verify"
    /\ Passes
    /\ counted' = counted \cup {RequestIP(2)}
    /\ issued' = buildToken(load.sig, challenge.PredictedMetadata, load.nonce)
    /\ stage' = "token"
    /\ UNCHANGED <<load, challenge, counter, response, presented, verdict, reputation>>

HandleVerifyFails ==
    /\ stage = "verify"
    /\ ~Passes
    /\ stage' = "rejected"
    /\ UNCHANGED <<load, challenge, counter, response, issued, presented, verdict, counted, reputation>>

\* The token as issued, cut short at either end, longer, or with a byte or
\* the order of its parts changed.
Tokens ==
    {issued, Tail(issued), SubSeq(issued, 1, tokenLen - 1), Append(issued, 0)}
    \cup {[issued EXCEPT ![i] = (@ + 1) % ByteSize] : i \in DOMAIN issued}
    \cup {buildToken(sigOf(issued), nonceOf(issued), metaOf(issued))}

Present ==
    /\ stage = "token"
    /\ presented' \in Tokens
    /\ load.honest => presented' = issued
    /\ stage' = "presented"
    /\ UNCHANGED <<load, challenge, counter, response, issued, verdict, counted, reputation>>

Verifies(sig, metadata, nonce) ==
    sig = load.sig /\ metadata = challenge.PredictedMetadata /\ nonce = load.nonce

Accepted(token) ==
    Len(token) = tokenLen /\ Verifies(sigOf(token), metaOf(token), nonceOf(token))

HandleSiteverify ==
    /\ stage = "presented"
    /\ LET meta == DecodeMetadata(metaOf(presented))
       IN  verdict' =
             IF Accepted(presented)
             THEN [ success |-> TRUE, timestamp |-> Timestamp(meta),
                    challenge_class |-> meta.ChallengeClass,
                    temperature_bucket |-> meta.TemperatureBucket ]
             ELSE Refused
    /\ stage' = "done"
    /\ UNCHANGED <<load, challenge, counter, response, issued, presented, counted, reputation>>

Next ==
    \/ HandleChallenge
    \/ NextCounter \/ solveHashCash \/ Respond
    \/ HandleVerify \/ HandleVerifyFails
    \/ Present \/ HandleSiteverify

Spec == Init /\ [][Next]_vars

-----------------------------------------------------------------------------
\* Every variable holds a value of its kind.
TypeOK ==
    /\ LoadOK(load)
    /\ stage \in {"start", "hashcash", "argon2", "verify", "token", "presented",
                  "done", "rejected"}
    /\ challenge # None => challenge.PredictedMetadata \in [1..metaLen -> Byte]
    /\ counter \in Nat
    /\ response # None => response.byWidget \in BOOLEAN
    /\ issued # None => issued \in [1..tokenLen -> Byte]
    /\ presented \in Seq(Byte)
    /\ verdict.success \in BOOLEAN
    /\ reputation \in {0, 80, 100}

\* A digest, read as one number, is below 2^(its bits - d) just when it
\* begins with d zero bits.
DigestNumber(digest) ==
    LET number[i \in 0..digestBytes] ==
            IF i = 0 THEN 0 ELSE ByteSize * number[i - 1] + digest[i]
    IN  number[digestBytes]

Worked(solution) ==
    LET digest == sha256(load.random, load.random.nonce \o hexToBytes(solution))
    IN  /\ Len(solution) = 16
        /\ load.bits <= ByteBits * digestBytes
        /\ DigestNumber(digest) < Pow2[ByteBits * digestBytes - load.bits]

\* The first proof of work is always asked for, the second only checked: a
\* response may leave its Argon2 result out and is signed for all the same
\* (composite.go:66), although Verify is said to check all solutions
\* (composite.go:42).  Within this the server signs for exactly the right
\* ones: its count of zero bits, the widget's and the meaning of the
\* difficulty agree on every digest, and both sides spell the counter and
\* the parameters of Argon2 the same.  It never turns the widget away,
\* which passes over no counter that would have done.
SolutionAccepted ==
    LET right == /\ Worked(response.hashcash)
                 /\ response.argon2 \in {NoResult, solveArgon2(challenge.Argon2)}
    IN  /\ stage = "rejected" => ~right /\ ~response.byWidget
        /\ issued # None => right
        /\ stage = "hashcash" =>
              \A c \in 0..counter - 1 : ~Worked(bytesToHex(uint64BE(c)))

\* A token is accepted only whole and unchanged, and its answer says what
\* the server put in it: the class and the temperature of the challenge and
\* the beginning of the hour it was made in, as far as 32 bits hold it.
TokenReadsBack ==
    stage = "done" =>
        /\ verdict.success <=> presented = issued
        /\ verdict.success =>
              /\ verdict.challenge_class = 2
              /\ verdict.temperature_bucket = load.bucket
              /\ verdict.timestamp = (load.at - (load.at % Hour)) % WordSize

SameNet(a, b) == a[1].kind = "dotted" /\ b[1].kind = "dotted" /\ a[1].net = b[1].net

\* The two requests of a page count for one address, which is the address
\* of no other host, and for the subnet of exactly the hosts in its /24.
PeersKeptApart ==
    /\ Cardinality(counted) <= 1
    /\ load.forwarded = <<>> =>
         \A ip \in counted, host \in Hosts, k \in {1, 2} :
            LET other == extractIP(<<>>, RemoteAddr(host, load.ports[k]))
            IN  /\ ip = other <=> load.host = host
                /\ subnetKey(ip) = subnetKey(other) <=>
                       load.host = host \/ SameNet(load.host, host)

LiesIn(table, n) == \E cidr \in table : cidr.net <= n /\ n < cidr.net + 2 ^ (24 - cidr.len)

\* An address is scored by the network it lies in, from the first address
\* of a listed network to its last, as a Tor exit first, and whichever way
\* its text is written; what is no IPv4 address is not suspicious.
ScoredByItsNetwork ==
    (stage = "hashcash" /\ counter = 0) =>
        reputation = IF LiesIn(torCIDRs, load.origin) THEN 100
                     ELSE IF LiesIn(cloudCIDRs, load.origin) THEN 80 ELSE 0
=============================================================================

# A TLA+ model of the Sovereign Trust SDK server

The Sovereign Trust SDK replaces a CAPTCHA: a browser widget solves a challenge
(proof of work, a memory-hard hash, environment probes), has the server sign a
nonce blindly under public metadata, and hands the resulting token to a relying
party, which redeems it once at the server. These modules model the server and
its abuse scoring, check them with TLC on small instances and prove the main
safety properties with TLAPS for every instance.

Paths below are relative to the repository (`src/`).

## The system

| part | where | state | operations |
|---|---|---|---|
| trust server | `cmd/server/main.go` | two `sync.Map`s: challenge id to payload, metadata and expiry; nonce to expiry | `handleChallenge`, `handleVerify`, `handleSiteverify`, `cleanupLoop` |
| temperature store | `internal/temperature/store.go` | request times per address and per /24, tokens per site key, last 20 probe verdicts per address, behind one mutex | `Record`, `RecordTokenBurn`, `Score`, `cleanup`, `Close` |
| difficulty ranges | `internal/temperature/scorer.go` | none | `BucketRanges` |
| address reputation | `internal/temperature/reputation.go` | a constant prefix table | `Score` |
| composite challenge | `internal/challenge` | none | `GenerateSeed`, `DeriveParams`, `selectProbes`, `New`, `Verify`, hash checks |
| environment probes | `internal/environment/probes.go` | a constant table of timings | `Validate`, `ValidateAll` |
| trust metadata | `pkg/api/types.go` | none | `Encode`, `DecodeMetadata`, `TimeBucketFromTime` |
| blind signatures | `internal/rsapbssa` | a key pair | `Blind`, `BlindSign`, `Finalize`, `Verify` |
| browser widget | `widget/widget.js` | one attempt's locals | `render`: fetch, solve, blind, `/verify`, unblind |
| demo page | `widget/widget.html` | the token held | submit to `/siteverify`, Retry |
| start-up | `cmd/server/main.go` | none beyond the key | `loadDevKey`, `newServer`, routes, CORS headers |

How they interact. `GET /challenge` records the request in the store, asks it
for a bucket, derives parameters from the bucket's ranges, stores the challenge
with the metadata it predicts and sends both. `POST /verify` loads and deletes
the challenge, checks the solutions, records the probe verdict, signs the
blinded message under the *stored* metadata and counts a token against the site
key, which raises later scores. `POST /siteverify` refuses a nonce it remembers,
checks the signature and remembers the nonce for five minutes. Two background
goroutines, one per owner, drop expired map entries and old requests.

What is hard. `net/http` runs every request on a goroutine of its own, and both
handlers that consume something do it with two calls (`Load`, then `Delete` or
`Store`) and slow work in or after the gap. The sweep reads an entry in one step
and deletes the key in another without looking again. The deadline, the hour and
the store's clock are read early and used late. Nothing survives a restart, and
an answer the client never receives has still consumed what the request named.
Two programs in two languages have to agree on bytes: counters, zero bits, Argon2
parameters, metadata and token. And the address a request counts under is text that
several hands have been on.
`PROJECT.json` lists these hazards at their lines.

What makes each part correct:

- *server*: an accepted nonce is remembered while it should be, a challenge is
  kept until its deadline, a signature is under the metadata its client blinded
  with, an accepted token goes back to a signature, and nothing is left behind:
  requests are answered and expired entries dropped;
- *store*: no request inside the window is lost or counted twice, whatever the
  delay between reading the clock and getting the mutex; a score lies between
  those of the two clock readings around it; what is old goes away;
- *scoring*: a percentage, monotone in every signal, and difficulty monotone in
  the score;
- *challenge parameters*: inside the bucket's ranges whatever the seed, and as
  many distinct probes as the bucket wants;
- *composite verification*: the verdict goes by how many of the probes that were
  answered look anomalous, whatever their order and whichever were not;
- *widget and page*: what the user is told is founded in what the server did, across
  lost answers and restarts;
- *encodings*: each side reads what the other wrote, and no altered token passes;
- *addresses*: hosts are counted apart, neighbours share their /24, and each listed
  network is scored from its first address to its last.

## The modules

| module | extends | models |
|---|---|---|
| `TempScore` | | `min100`, the weighted sum, `scoreToBucket`, `BucketRanges` |
| `Temperature` | `TempScore` | the store's maps and the effect of each critical section |
| `TempStore` | `Temperature` | threads and the cleanup goroutine around those critical sections |
| `TokenLedger` | | what the server promises about tokens, abstractly |
| `TrustServer` | `Temperature` | the handlers, the maps, the sweep, the clock; refines `TokenLedger` |
| `TrustSystem` | `TrustServer` | pages that run the widget and the demo form against the server, lost answers, restarts |
| `Wire` | | hex text, metadata and token as bytes |
| `Puzzles` | `Wire` | both proofs of work as server and widget compute them |
| `ReputationTables` | | the listed networks |
| `Address` | `ReputationTables` | `extractIP`, `subnetKey`, the reputation lookup |
| `Exchange` | `Puzzles`, `Address`, `PowersOfTwo` | one page load in bytes, from challenge to verdict |
| `ChallengeParams` | | `DeriveParams` and `selectProbes`, an action per loop iteration |
| `CompositeVerify` | | `challenge.Verify` with `environment.Validate` |
| `Rsapbssa` | `PowersOfTwo` | the partially blind signature over small moduli |
| `MCTempStore`, `MCTrustServer`, `MCTrustSystem`, `MCExchange`, `MCChallengeParams`, `MCCompositeVerify`, `MCRsapbssa` | the module named | constants and symmetry for TLC |
| `PowersOfTwo` | | the powers of two as a function |
| `NatRecursion` | `PowersOfTwo` | induction over the naturals, functions by recursion, powers of two |
| `TempStoreProofs` | `TempStore`, `NatRecursion` | the arithmetic, and the store under its callers |
| `ChallengeParamsProofs` | `ChallengeParams`, `NatRecursion` | theorems about the derivation |
| `TrustServerProofs` | `TrustServer` | types; the memory of nonces; the way from challenge to token; the server implements the ledger; a challenge gives a handler one signature |
| `SystemProofs` | `TrustSystem`, `TrustServerProofs` | what a page is told |
| `CompositeProofs` | `CompositeVerify` | the verdict on the probes |
| `ExchangeProofs` | `Exchange`, `NatRecursion` | bytes, addresses, hex text and puzzles, for every byte size, hour, host and digest |
| `RsapbssaProofs` | `Rsapbssa`, `NatRecursion` | powers and inverses modulo any number, RSA, and the signature |

**TempScore, Temperature.** A slice of times is represented by how often each
time occurs in it, because the code never uses the order of a slice; an absent
map key reads as the empty slice, hence as the all-zero function. `SubnetOf` and
`Reputation` are constant functions: the code computes both from the address
alone. The conversion factors 5, 2 and 1/10 are constants, so that two or three
requests reach every bucket in a small instance.

**TempStore.** `Record`, `Score` and `cleanup` read the clock, then wait for the
mutex. `CallX` reads the clock and `LockX` is the critical section; the mutex
needs no variable since a critical section is one step. `log`, `verdicts` and
`burned` are history: everything ever recorded. `MCTempStore` takes the addresses it
runs with, their common subnet and their reputation from `Address`.

**TrustServer.** `task[h]` is where handler `h` is, with its locals. Steps are
cut at every access to shared state and at every clock reading that is used
later; what only computes locally is merged with the access that follows it:

| action | code |
|---|---|
| `Refuse` | every early return before shared state is changed |
| `ChallengeRecord`, `ChallengeScore`, `ChallengeOffer` | `Record`; `Score` and `challenge.New` with its deadline; metadata, expiry and `Store` |
| `VerifyLoad`, `VerifyDelete` | the two calls that take a challenge |
| `VerifyPass`, `VerifyReject` | `challenge.Verify` |
| `VerifyRecord` | the probe verdict |
| `VerifyUnsigned`, `VerifyIssue` | decoding or signing fails; signature, token count, answer |
| `SiteverifyLoad` | checks of the request and `Load` of the nonce |
| `SiteverifyInvalid`, `SiteverifyRedeem` | signature check fails; `Store` and answer |
| `SweepStart` .. `SweepEnd` | `cleanupLoop`: one clock reading, a `Range` per map, deleting without a second look |
| `CleanupStore` | the store's cleanup, whose interleavings are in `TempStore` |

`offers`, `taken`, `issuances` and `redemptions` are history. They feed the
properties and `Genuine`, which stands for the signature scheme: a token
verifies exactly when its nonce was blinded under the metadata of a challenge
and signed under the same metadata. The client is not modelled here: any request
may come at any time, with any challenge id that exists, any solution, right or
wrong, and any combination of nonce and metadata.

**TokenLedger.** The server without clock, maps, sweep and challenges: tokens are
`Mint`ed; `BeginCheck` opens a check of a token whose nonce is not spent; `Accept`
spends the nonce, `TurnDown` does not; `Forget` drops a spent nonce, but never while a
check of it is open. `TrustServer` maps its state to it: `minted` is what was signed,
`checking` the handlers between `Load` and `Store`, `spent` the nonces in the map,
`accepted` the answers `success: true`. `ImplementsLedger` says every step of the server
is a step of the ledger or none. What the ledger leaves to its reader is that
`Accept` may find its nonce spent already, which is the double acceptance below; what
it rules out is an entry deleted under the eyes of a check that saw none.

**TrustSystem.** The same server with the clients the repository ships, so that
the questions a user would ask can be put: does the token verify, why was I told
"duplicate", was I counted twice? `page[p]` is how far a page load has come:

| action | code |
|---|---|
| `FetchChallenge`, `ChallengeArrives` | `render`: the request, and what it keeps of the answer |
| `PostVerify`, `PostVerifyLate` | blinding under the predicted metadata, `/verify`, which finds the challenge or not |
| `SolutionsPass`, `SolutionsLate` | the widget's solutions are right; only the deadline can fail them |
| `TokenArrives` | unblinding, `buildToken` with the metadata of the answer, `onSuccess` |
| `Submit`, `SubmitDuplicate`, `VerdictArrives` | `widget.html`: the button, the verdict, the error path that enables Retry |
| `StopsHearing` | the `catch` of either, after a lost answer or a script that does not load |
| `Restart` | the process ends, `main` runs `loadDevKey` and `newServer` again |

Each of them is a step of `TrustServer` conjoined with what the page does, so the
server's interleavings stay as they are. A page that gave up leaves its handler
running: `Reply` reaches a page only if it still waits for that handler.

A restart ends every handler, empties both maps and the temperature store, and loads
the same key, so that everything signed before still verifies. A page that was waiting
ends in its error path, as `failed` or `unanswered`; one that was not does not notice.
The answer of `/siteverify` is the step that stores the nonce; an answer that a crash
cuts off after the store is the lost answer of `StopsHearing`, taken before it.

**Wire, Puzzles, Address, Exchange.** `TrustServer` and `TrustSystem` have the
interleavings and take a solution for right or wrong, a token for its nonce and
metadata, and an address for an identity. `Exchange` has one client, alone and in time,
and shows what these stand for. A load is what chance, the clock, the network and the
score bring to it; the actions are the calls in their order:

| action | code |
|---|---|
| `HandleChallenge` | `extractIP`, `Record` and reputation; both challenges and the predicted metadata |
| `NextCounter`, `solveHashCash` | a turn of the widget's loop, and its return |
| `Respond` | the answer of the widget, or of a client with another counter, digit or result |
| `HandleVerify`, `HandleVerifyFails` | `VerifyHashCash`, `VerifyArgon2`, the second `Record`, the token |
| `Present` | the token as issued, cut, longer, reordered or with one byte changed |
| `HandleSiteverify` | length, the three slices, the signature, `DecodeMetadata` and the timestamp |

SHA-256 is an arbitrary function: the digests of the first counters are part of the
load. Argon2id is a result that differs when any parameter does. Both sides' own
definitions are kept apart where they are written twice (counter to text, zero bits,
parameters), so that a disagreement would show. An address is a sequence of tokens
(a dotted address, a colon, a bracket, a port, a group of hex digits), because
`extractIP` takes `X-Forwarded-For` whole and cuts `RemoteAddr` at its last colon, and
both the lookup and `subnetKey` parse the result. What is left of an IPv6 peer has
its brackets and a list of forwarded addresses has its commas; neither parses, so
both score 0 and are a subnet of their own. Base64 is left out: both sides use the
same alphabet on whole byte strings. `subnetKey` formats three bytes as a `net.IP`,
which prints as `?` and hex digits; the text differs from what was meant but is one
per /24, and is modelled as the number of the /24.

**ChallengeParams.** A seed is the byte and the two words the code extracts and
the bytes that follow. `Pick` takes width and sum modulo the type's size, as
`uint8` and `uint32` arithmetic does. `Draw` and `Fill` are the two loops of
`selectProbes`; `indices` is what it returns, `selected` the map only the first
loop writes.

**CompositeVerify.** The checks in their order and one step per probe. A reading is
missing, text that does not parse, NaN (which `ParseFloat` accepts and every
comparison lets through) or a number. Six of the eight
timing probes have their `SuspiciousBelow` below their `MinMS`, so that only
`webcrypto_timing` and `dom_computation` can ever score 0.9; the others score 0.8
for the same reading, which no verdict tells apart.

**Rsapbssa.** One token from key to verification, with the arithmetic as the code
has it and two things abstracted: the HKDF output is a number drawn from a sample,
the same for client and server as both derive it from the same bytes, and the
PSS encoding is a number below `2^emBits` that `Verify` has to recover. The two
clients differ in how they count the modulus, in bits (Go) or bytes (widget), and
in when they verify. A byte has `ByteBits` bits so that a 12-bit modulus is two
whole bytes. `rand.Prime` is any prime of the size asked for (Go's also sets the
second bit, which leaves too few primes of five bits for a key). The prose about
safe primes in `rsapbssa.go` is about exactly what `GeneratedKeysSign` checks: the
exponent is odd and, with two bits cleared, below both `p'` and `q'`, so it is
invertible whatever the metadata. A key given from elsewhere need not have this.

## What TLC checks

| run | shows | about |
|---|---|---|
| `replay` | `TypeOK`, `AcceptedNonceRemembered`, `ReplayNeedsOverlap`, `OnlyAcceptedNoncesRefused`, `KeptUntilDeadline`, `SignedByDeadline`, `ReuseNeedsOverlap`, `SignedUnderOfferedMeta`, `AcceptedWasIssued`, `ImplementsLedger` | two handlers and the sweep over one challenge and one nonce |
| `live` | `EveryRequestAnswered`, `ExpiredDropped` | progress |
| `store` | `TypeOK`, `WindowIntact`, `ProbesAreLatest`, `ScoreWithinWindow` | two callers and the cleanup |
| `store_live` | `OldRequestsDropped` | the store forgets |
| `system` | `SystemTypeOK`, `TokenIsGood`, `DuplicateNeedsLoss`, `AcceptedOncePerLoss`, `FailsOnlyLate` | one page, two handlers, two lost answers, two restarts, two hour boundaries |
| `params` | `TypeOK`, `WithinRanges`, `ProbesDistinct`, `EnoughProbes`, `SelectsInOrder` | every seed over a few bytes against 16 ranges |
| `blind_rsa` | `TypeOK`, `GeneratedKeysSign`, `SignedTokensVerify`, `Unlinkable` | tokens of both clients under a generated and two given keys |
| `composite` | `TypeOK`, `CountsDecide` | every response to four payloads of up to five probes |
| `exchange` | `TypeOK`, `SolutionAccepted`, `TokenReadsBack`, `PeersKeptApart`, `ScoredByItsNetwork` | one load in bytes: puzzles, metadata, token, addresses |

Three runs show where the code does something else than the repository says:

| run | the repository | the code |
|---|---|---|
| `accepted_once` | `integration_test.go:189`: "Replay protection - same token must fail" | two overlapping `/siteverify` requests both load the nonce before either stores it and both succeed |
| `class_is_proved` | `types.go:12`: the metadata "encodes what the client proved" | class 2 is signed whatever `Verify` found; an omitted Argon2 result is class 1 |
| `burns_decay` | `store.go:91`: "decays slowly" | the count only grows |

One more disagreement needs no run, as the comparison is there to read. The probe
table says "AudioContext baseLatency: absent or zero in headless" (`probes.go:44`) and
"SuspiciousBelow < 0 means 'absence is suspicious'" (`probes.go:71`). The code refuses
only a negative value (`probes.go:74`): zero, which the widget reports for a probe that
throws, passes, and a result that is absent is skipped (`composite.go:79`).
`CompositeVerify` models what the code does.

Two more concern what a response has to contain, and are there to read as well.

- `types.go:18-22` numbers the classes from 0: proof of work only, 1 with Argon2, 2 with
  probes too. `Verify` returns 1 after the first (`composite.go:63`) and 2 after the
  second (`composite.go:70`), whether or not any probe was asked for or answered, and
  never 3. The test asks for at least 1 of a full solution (`integration_test.go:185`). The
  models use the numbers of the code. No one reads what `Verify` returns as a class
  (`main.go:208`), and the server signs 2 always, which is what `class_is_proved` shows
  against the class `Verify` found; by the numbers of `types.go` what a client without
  Argon2 proved is 0, one further off.
- `composite.go:42` says that `Verify` "checks all solutions". The first proof of work has
  to be there, but a response without an Argon2 result passes (`composite.go:66`), and so
  does one without probe results. `SolutionAccepted` says precisely this: a response is
  signed for when its counter is work and its Argon2 result is right *or left out*.

`ReplayNeedsOverlap` and `ReuseNeedsOverlap` say what does hold of the two races:
a double acceptance, or two signatures for one solution, takes two requests
that overlap in time. `AcceptedOncePerLoss` says what is left of the first for the
repository's own page: its button is disabled while an answer is awaited, so a
double acceptance takes a lost answer and a retry that overtakes the first
request, or comes after the nonce was forgotten, by the sweep or in a restart. The signed hour may be the one before the token was issued;
`SignedUnderOfferedMeta` and `TokenIsGood` show why it must be: a recomputed hour
would break the unblinded signature.

`TokenReadsBack` shows what a relying party can read out of a verdict: the timestamp is
the beginning of the hour of the challenge only while that fits 32 bits, since the
server multiplies in `uint32`. `PeersKeptApart` shows that dropping the port after the
last colon is right for every address a connection can have, and
`ScoredByItsNetwork` that the prefixes of the tables are all well-formed networks whose
ends are where they say.

### Bounds

- `Handler`: two. Every race in the code is between two requests, or a request
  and the sweep, which is not a handler.
- `ChallengeID`, `Nonce`: each id is drawn once, so the number of ids bounds the
  number of challenges. One of each with five ticks is enough to accept a nonce,
  forget it and accept it again. That metadata of several challenges cannot be
  mixed is what the theorems `MetadataBound` and `AcceptanceIsFounded` show for any
  number of them.
- Times are scaled down with their order kept where it matters: in `replay` a
  token is remembered for two ticks, a challenge lives one and a handler runs at
  most two, so a handler can outlive a challenge but not a nonce. `MaxTime`
  stops the clock; nothing else does, so every run ends in stuttering steps of
  `Refuse` or of the cleanup and never in a deadlock.
- `IpUnit` and the others are scaled so that single requests change the bucket;
  `ProbeWindow` is 1 so that truncation happens at the second verdict.
- `TrustSystem`: one page, because pages meet only in the store's scores, which no
  property of that run reads; the theorems of `SystemProofs` are about any number.
  `MaxLosses` and `MaxRestarts` are 2: a loss makes a retry and two make
  `AcceptedOncePerLoss` count; a second restart meets a page that came through a
  first. Four ticks with an hour of two let a token be issued, accepted, forgotten
  and accepted again across two hour boundaries. 519,367 states.
- `ChallengeParams`: a tail of three bytes and counts up to four, so that the
  second loop runs after zero, one or several repeated draws; words have 24 bits
  because TLC's integers have 32. The theorems hold for the real sizes.
- `Exchange`: loads that differ from a plain one in one respect at a time, since the
  puzzle, the clock and the address meet nowhere in the code: every digest of two
  bytes at every difficulty it can have, every hour a word of seconds holds and some
  beyond in every bucket, the networks at and next to both ends of every listed
  prefix, seen directly, forwarded and as IPv4-mapped IPv6, and hosts in one /24, in
  neighbouring ones and of IPv6. A byte has two bits, an hour four seconds, and a
  signature two bytes, so that every value of a byte and the end of a 32-bit word are
  reached. 78,369 states.
- `TempStore`: two peers of 3.5.1.0/24, a data centre, so that the counts of the
  subnet are not those of one address and the reputation is not zero.
- `CompositeVerify`: up to five probes, the most that `BucketRanges` asks for, with
  readings out of range, suspicious and plausible, and on limits of either kind. Five
  are needed to tell the mean from a vote: three scores of 0.8 in five answers are a
  mean of 0.48 and pass. 2,866,800 states.
- `Rsapbssa`: 47 * 59 is the only product `GenerateKey` can return for 12 bits. The
  given keys are there for what can go wrong: 23 * 59 has a `p'` the exponent can
  hit and 11 bits, 47 * 107 has 13 bits, one more than two bytes. The samples
  contain multiples of the primes and both ends of each range.
- `ChallengeParams`, `CompositeVerify`, `Rsapbssa` and `Exchange` model calls that
  return, hence `CHECK_DEADLOCK FALSE` in their runs.
- `MaxRecords` and `MaxBurns` in `TempStore` bound the calls.

### Fairness

A handler that has begun runs to its answer (`WF` on `Continue(h)`): Go's
scheduler runs every runnable goroutine and no handler waits for another, except
for the store's mutex, which is held for a bounded time. The sweep runs when its
ticker has fired and time passes. A client is under no obligation: nothing is
fair about the actions that begin a request. `Tick` waits for handlers older than
`MaxHandlerTime`, which is how the timing assumption below is expressed. In
`TempStore` a caller waiting for the mutex gets it (Go's mutex hands over to a
waiter that starves) and the ticker keeps firing until `Close`.

`ExpiredDropped` and `OldRequestsDropped` speak of what expires early enough
before `MaxTime` for a firing to come after it.

## What is proved

`TempStoreProofs`: the score of any counts is a percentage and so has one of the four
buckets (`ScoreIsPercent`), it is monotone in each signal (`ScoreMonotone`), the bucket is
monotone in the score (`BucketMonotone`), and the ranges in the bucket, none of them empty
(`RangesMonotone`). About the store,
for any numbers of callers and addresses (finitely many addresses, so that a subnet
has a sum) and any waits for the mutex: `TypeCorrect`, `NothingLost` (`WindowIntact`),
`LatestProbesKept` (`ProbesAreLatest`) and the action property `ScoreFresh`
(`ScoreWithinWindow`). `StoreInv` adds to the properties that a caller read its clock
in the past (`ReadEarlier`), that a cleanup's cutoff is at least a window old by the time
it is used (`CutoffOld`, as the clock does not go back) and that the store never holds
more than was recorded (`NoneAdded`). `ScoreFresh` is then `ScoreMonotone` applied to
counts: what is held lies between what the window holds now and all that was recorded.

`TrustServerProofs`, for every value of the constants:

- `TypeCorrect`: `Spec => []TypeOK`;
- `NoncesRemembered` and `ReplaysNeedOverlap`. Neither property is inductive.
  The sweep deletes a nonce some steps after it judged it, so what has to be shown
  is that no handler stored that nonce in between, and the reason is about time: a
  handler that finds a nonce in the map when it stores it must have loaded before
  the entry it finds was stored. `MemoryInv` adds to the two properties: `Timely`
  (no handler is older than `MaxHandlerTime`), `RedeemsOnlyNew` (an entry that
  appears after a handler found its nonce absent expires `TokenTTL` after that
  handler began, or later), `SweepsOnlyOld` (what the sweep is about to delete is
  still the expired entry it read) and `Remembered` (an acceptance is either more
  than `TokenTTL` ago or has an entry that lasts as long). A handler storing the
  nonce the sweep has judged would by `RedeemsOnlyNew` have begun more than
  `TokenTTL` before the cutoff, which `Timely` excludes.
- The proof uses `HandlersAreTimely`, `MaxHandlerTime <= TokenTTL`. The server sets
  no timeouts on its handlers; the assumption says that none runs for more than
  the five minutes a nonce is remembered. Without it the theorem fails, and so
  does the code: a handler that stalls long enough stores a nonce the sweep has
  judged.

There too: `MetadataBound` (`SignedUnderOfferedMeta`), `AcceptanceIsFounded`
(`AcceptedWasIssued`), `DeadlinesKept` (`KeptUntilDeadline`) and
`SignaturesAreTimely` (`SignedByDeadline`). `IssueInv` relates the entry a handler
carries, and the entry in the map, to the offer it was stored with; ids are drawn
once, so an offer determines its entry.

And: `ServerImplementsLedger` (`ImplementsLedger`, that is
`Spec => Ledger!Spec`) and `RefusalsAreFounded` (`OnlyAcceptedNoncesRefused`). Every
action is mapped to the ledger's or to a stutter. The hard one is the sweep's deletion
as `Forget`: what it deletes has expired, so it was stored more than `TokenTTL` ago; a
handler with a check of that nonce open found it absent and hence began earlier still,
which `HandlersAreTimely` excludes.

Last: `ReusesNeedOverlap` (`ReuseNeedsOverlap`). A handler that had signed for
a challenge had deleted it, and a deleted challenge does not come back: `ReuseInv` says
that an id being made is nobody else's and not offered yet, and that what was taken was
offered and is out of the map.

`ChallengeParamsProofs`: `ParametersInRange`, `SelectionDistinct`,
`SelectionComplete`, `SelectionOrdered` (`SelectsInOrder`) and `SelectionTypeCorrect`, for ranges that fit their types
(`RangesAssumption`; `BucketRanges` returns such ranges). The selection needs
`LoopInv`: the first loop's draws are exactly `selected`; every index below `idx`
is in the result when the second loop passes it, so what the second loop appends
is neither in `selected` nor appended before. `EnoughProbes` then follows by
counting: a second loop that ran to the end of the pool has put every index of
the pool into the result, and distinct indices that cover the pool are at least
as many as it has. The counting lemma is proved from the library's facts on
cardinalities. `SelectsInOrder` compares ranks, which no loop computes: `OrderInv` says
of every point of the loops that the result is the first draws by their position, then
the undrawn indices below `idx` by their size, and each loop's step raises one
cardinality by one.

`SystemProofs`, for any number of pages, handlers, losses and restarts:
`PagesAreServed` (`SystemTypeOK`), `HeldTokensVerify` (`TokenIsGood`),
`DuplicatesFollowLosses` (`DuplicateNeedsLoss`), `AcceptancesArePaid`
(`AcceptedOncePerLoss`) and `FailuresAreLate` (`FailsOnlyLate`).

- A restart breaks most of what the server's own invariants say (an accepted nonce is
  no longer remembered), so the first four do not rest on them nor on
  `HandlersAreTimely`. `SignInv` keeps what does survive: offers and signatures are
  only added to, and what a handler carries was offered.
- `LinkInv` ties the two halves together: a handler at work for a page is heard by it,
  or the page has lost an answer.
- `PaidInv` is what makes the count inductive: what was accepted of a page's nonce,
  plus its redeeming handlers that it no longer hears, is at most its losses plus one
  if it was told "verified". Giving up on a handler adds at most one to either side, an
  acceptance nobody hears moves one within the left, the one the page hears adds one
  to either side, and a restart only takes handlers away.
- `FailsOnlyLate` needs what the server keeps, but only until the first restart:
  `KeptInv` is `MemoryInv`, `IssueInv` and `ReuseInv` together with the fact that the
  challenge a page is solving was offered to it alone and nobody has taken it up.

`CompositeProofs`: `VerifyTypeCorrect` and `VerdictFollowsCounts` (`CountsDecide`), for
every table of payloads and every set of readings. The loop invariant `Counted` says that
`evaluated` is the number of probes passed that were answered, and that their scores sum
to between 8 and 10 tenths per anomalous one. A mean below one half then means fewer than
five anomalies in eight answers, any other at least four in eight; between the two the
verdict depends on which scores they are.

`ExchangeProofs`, for bytes of two, four, six or eight bits, any length of an hour and of
a signature, and every load: `TypeCorrect`, `TokenAgreed` (`TokenReadsBack`), `NetworkScored`
(`ScoredByItsNetwork`), `PeersApart` (`PeersKeptApart`) and `SolutionsServed`
(`SolutionAccepted`).

- `ExchangeInv` follows the values through the exchange: the metadata that was
  predicted decodes to itself, the token is signature, metadata and nonce end to end,
  and the verdict is about the token presented.
- Reading back is that of four bytes, each a digit of the number in base `ByteSize`.
- That each prefix listed is aligned is shown entry by entry; then an address is masked
  to a listed network exactly when it lies between its ends.
- A host is what `net/http` can have as a peer (`IsPeer`): a dotted address, or IPv6 text
  in hex digits and colons. What `X-Forwarded-For` may hold is any text.
- `SolutionsServed` rests on `CountsAgree`: for a digest of any length and any
  difficulty, the server's count byte by byte, the widget's bit by bit and the digest as
  a number below a power of two say the same. Each is compared with one description
  (`ZeroTo`): so many bytes are zero and the next is small enough. The number is
  compared by induction on its bytes (`PrefixShifts`), the bits of a byte by induction on
  the power (`ZerosOfByte`).
- `HexReadsBack` and `CounterReadsBack` say that hex text and counters stand for
  themselves, so both sides hash the same bytes. `SolveInv` then says what the search
  has passed over and where it stopped, and that what was signed for, or turned away,
  was one of the `Solutions`. The theorem is about the first proof of work; that the second
  may be left out is part of its statement.

`RsapbssaProofs`, for every modulus, exponent, encoding and factor: `TypeCorrect` and
`SignedVerify` (`SignedTokensVerify`). `RsaInv` says what the wire holds after each
step: the message under the factor's power, a number whose power is that, and after
unblinding one whose power is the message. The last step is arithmetic: the power of a
product is the product of the powers (`PowMul`), so the factor's power goes with the
power of its inverse (`Unblinds`). A modulus is assumed to have two bytes at least.

For a modulus of whole bytes (`WholeBytes`), also `GeneratedSign` (`GeneratedKeysSign`)
and `Hidden` (`Unlinkable`), from the arithmetic up:

- what is not a multiple of a prime has an inverse below it, by the least remainder of
  its multiples (`Inverses`);
- its multiples by 1 to p - 1 are those numbers in another order, so their products
  agree and the power p - 1 is 1 (`Fermat`);
- two exponents that are inverse modulo p - 1 and q - 1 undo each other modulo both
  primes, hence modulo their product (`RsaReturns`);
- `GeneratedInv` and `KeyedInv`: the exponent derived from the metadata is odd and
  below p' and q' of the two safe primes, so it has no factor with the order of the
  group and the inverse that `deriveKeyPair` computes exists.

The hypothesis is needed. `derivePublicKey` counts lambda in bytes, rounded up: for 1022
bits the exponent can be longer than half the modulus, where it need not be
invertible. The server's key has 2048.

Induction. The library's induction theorems take an operator as a parameter, which the
provers cannot instantiate. `NatRecursion` uses sets instead: a set of naturals that
contains each number when it contains those below it contains all
(`StrongInduction`), because otherwise there would be a least number outside, which
`WFMin` of the library gives. Sums over finite sets go by the same argument on
cardinalities (`SubsetInduction` in `TempStoreProofs`). `Recursion` then shows that a
function defined by its value at 0 and a step from a smaller argument exists, which is
what makes `Pow2`, `ModPow` and `DigestNumber` mean their equations; `FlattenSeq`, which
joins the digits of hex text, is given its solution outright (`Text`).

Only model-checked: the liveness properties, which rest on fairness. Every safety
property and action property of the runs is a theorem, the two named above under
`WholeBytes`.

## Not modelled

- The measurements of the widget's probes: what a browser returns is any reading.
- SHA-256, Argon2id, HKDF and the PSS encoding as functions. `Rsapbssa` draws the
  outputs of the last two from samples; their byte layouts (labels, lengths, masks)
  are left out, so a disagreement of widget and server there would not show.
- That the widget's search ends: it rests on SHA-256 hitting the difficulty.
- `GenerateKey` draws again until the product has the size asked for and, for an odd
  size, never stops (`rsapbssa.go:114`). The model has the draw that ends the loop; the
  server does not call it but loads a fixed key.
- JSON, base64, the table of routes, CORS headers, TLS and the middleware: no state and
  no choice.
- The device class: the server always signs 1 (`main.go:145`), and nothing reads
  the 1 or 2 that the widget sends (`widget.js:525`).
- `ValidateAll`, which only a test calls: the same mean as `Verify` takes.

What could be added: the PSS and HKDF layouts as bytes, in the manner of `Exchange`.

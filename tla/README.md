# A formal model of technocore-worker

TLA+ modules, TLC configurations and TLAPS proofs for the Technocore worker: a
signed bot that reads requests from a public chat room, verifies GitHub
contributions, and posts one reply per job, with a web process that brings those
replies back to browsers. Paths and line numbers refer to the repository.

## 1. Inventory

| Component | State it keeps | Operations | Hard behaviour |
|---|---|---|---|
| **Worker service** `worker/service.py` | loop position, in-memory cursor, snapshot of pending jobs | `run_forever`, `handle`, `_try_deliver`, `_deliver`, `keepalive_if_due` | crash between any two writes, lost acknowledgements, retries, conflicting requests, starvation |
| **Ledger** `worker/state.py` (SQLite) | tables `jobs`, `cursors`, `outbound_nonces`, `service_meta` | `claim`, `pending_claim`, `pending_jobs`, `complete`, `next_nonce`, cursors, activity | uniqueness over `(did, job)` and `(room, seq)`, a clock that steps back |
| **Transport** `worker/transport.py` | none | `read`, `post_signed` | a post that arrives although the caller sees an error |
| **Reply collector** `worker/collector.py` (SQLite) | cursor and health, `results`, `registrations`; one thread; a condition variable | `process`, `baseline`, `register`, `confirm_registration`, `result`, `wait_result`, `_run` | gaps, restarts, uncaught exceptions, readers between two statements, lost wakeups, pruning by a clock that steps back |
| **Web process** `worker/webapp.py` | challenges, session DIDs, session baselines, rate-limit windows | challenge, verify, reply-baseline, forward, wait, `RateLimiter.allow` | threads of one session racing, bounded tables that evict what is in use, check-then-act without the lock, a clock read before the lock |
| **GitHub verifier** `worker/github.py` | none (one request sequence) | `verify`, `HTTPSGetter` | one request of three failing, redirects, repositories renamed or hidden between the requests |
| **Wire protocol** `worker/protocol.py`, `web/protocol.js` | none | `parse_request`, canonical replies, `parse_contribution_response_v2`, `parseWorkerReply` | inputs of unexpected JSON types |
| **Browser** `web/app.js` | identity, control flag, exported file, poll abort, receipt | create/import, prove control, submit, poll, reset | globals read after an `await`, flows that overlap, aborts that race, a page restored from the cache |
| **Wallet section** `web/wallet-ui.js` | the wallet, the phrase on the page, one feedback timer | create, reveal, acknowledge, copy, save, conceal | many events that hide the phrase, between any two steps |
| **Wallet bundle** `web/wallet.js` (built from `wallet-source.js`) | none (hash objects) | hashes, HMAC, PBKDF2, mnemonics, base58, field, curve, ECDSA, hierarchical keys, addresses | words in halves, padding at a block boundary, signed windows, lengths in DER, invalid child keys |
| **Identity codec** `web/crypto.js` | none | `identity.pem`, base58, base64url, DIDs | lengths at a boundary of DER, leading zeros, malformed files |
| Command line, drawing of receipts | none | library calls | none of their own |

They interact through two rooms of the external server technocore.chat and one
HTTP interface:

    browser --baseline, forward, wait--> web process --post--> inbox room
       ^                                   |  ^                   |
       |                             collector thread           worker --> GitHub
       +------------- result ------------- |  |                   |
                                           shared reply room <----+

What makes each part correct: the worker answers a requester and job id with one
answer, skips no request, posts with increasing nonces, settles only what was
posted, and gets every reply out in the end; the collector loses no reply behind
its cursor, never jumps a gap silently, gives a browser only the answer to the
request it sent, and ends every wait; the web process gives a session only what
it proved; the verifier confirms only what GitHub confirmed; the browser shows a
result only for the identity and request it belongs to, and never leaves the
visitor without a way on; the wallet section shows a phrase only after it was
asked for and acknowledged; the algorithms compute what their standards define.
`PROJECT.json` lists the hazards at their lines.

## 2. Plan

1. `Worker`, `JobLedger`: the core. **Done**, with proofs of both and of the
   refinement in `WorkerProofs`.
2. `Collector`: the second half of a reply's way. **Done**, with proofs in
   `CollectorProofs`.
3. `WebSession`: challenges, session bindings and their pruning, baselines and
   forwarding, with threads of one session interleaving. **Done**.
4. `BrowserApp`: the asynchronous flows of `app.js`, composed with `WebSession`.
   **Done**, with proofs of both in `BrowserProofs`.
5. `RateLimiter`, `GitHubVerifier`, `WalletPanel`: small machines that stand
   alone. **Done**, with proofs in `PartsProofs`.
6. The algorithms of the wallet bundle and of the identity file, against
   reference definitions. **Done** for TLC, on small parameters; with proofs for
   the buffering of the hashes, HMAC and PBKDF2 (`HashProofs`), words in halves,
   SHA-512's compression function, Keccak's permutation and sponge (`WordsProofs`),
   the codecs (`CodecProofs`) and hierarchical keys (`PartsProofs`).
7. Left: liveness of the browser's handlers, of which `CallsUnderWay` and the bound on
   polls are the safety part; one composition of worker, collector and browser, which
   meet here only in what each assumes of the other; proofs about the field and the
   curve.

## 3. Modules

| Module | What it is |
|---|---|
| `Worker` | the loop, the ledger, the rooms it uses, failures and crashes |
| `JobLedger` | abstract specification: claim an answer once, publish it, settle it |
| `WorkerLedger` | the refinement mapping from `Worker` to `JobLedger` |
| `MCWorker` | instances of `WorkerLedger` |
| `WorkerProofs` | theorems about `Worker`, the count of posts, and the refinement as a theorem |
| `Collector` | collector thread, forwarding handlers, waits, retention, restarts |
| `MCCollector` | instances of `Collector` |
| `CollectorProofs` | theorems about `Collector` |
| `WebSession` | the web process as one browser sees it: challenges, bindings, forwarding |
| `BrowserApp` | the page, composed with `WebSession` (which it extends) |
| `MCBrowser` | instances of `BrowserApp` |
| `BrowserProofs` | theorems about `BrowserApp` and `WebSession` |
| `RateLimiter`, `GitHubVerifier`, `WalletPanel` | state machines that stand alone |
| `HashStream`, `Sponge` | SHA-2's and Keccak's buffering, HMAC, PBKDF2 |
| `SplitWords`, `Sha2`, `Keccak` | words in halves, the compression functions |
| `BaseCodec` | base58, checksums, mnemonics |
| `PrimeField`, `Points`, `Ecdsa` | the field, the curve, signatures and DER |
| `HdKey` | extended keys, derivation paths, addresses |
| `IdentityCodec` | `identity.pem`, base64url, DIDs |
| `Messages` | induction and sequences, for the proofs about the algorithms |
| `HashProofs` | theorems about `HashStream` |
| `WordsProofs` | theorems about `SplitWords`, `Sha2`, `Keccak` and `Sponge` |
| `CodecProofs` | theorems about `BaseCodec` |
| `Algorithms` | runs of the hashes, their rounds, PBKDF2, `HdKey` and the codecs, with what they are to give |
| `PartsProofs` | theorems about the three machines, `HdKey` and `Algorithms` |
| `MCParts` | instances of all modules after `MCBrowser`, with reference definitions |

A definition marked *Mutant* stands before the definition it is a plausible
mistake in; it is used by no specification, only by the mutation runs of
`PROJECT.json`, which show that each property can fail.

### Worker

`pc` names the point between two effects that the loop has reached; a step is
what the code does up to its next database write, read or post.

| Action | Code |
|---|---|
| `StartCycle`, `RetryNext` | snapshot of `pending_jobs()`, then `_try_deliver` on each (service.py:192-193) |
| `KeepaliveIfDue` | service.py:171-182 |
| `Read`, `EndCycle` | service.py:198-208 |
| `HandleIgnored`, `HandleClaimed`, `HandlePending`, `HandleNew` | the returns of `handle` (service.py:66-127); `HandleNew` includes the verdict and `claim` |
| `Advance` | cursor and `set_cursor` (service.py:206-207) |
| `NextNonce`, `PostAccepted`, `PostRefused`, `Complete`, `RecordActivity` | `_deliver` (service.py:162-168) |
| `ReadFails`, `HandleRaises`, `VerifyRaises`, `PostLost`, `PostAckLost`, `Crash` | exceptions and the death of the process |
| `Send`, `Trim`, `SixDaysPass` | requesters, retention, the calendar |

Data: a text is a model value with its job id, room and kind given by constants;
equal texts stand for equal SHA-256 digests. A reply is the record of the fields
that `canonical_response` renders from a row, so that two renderings of a row are
equal exactly because no field of it changes. The verdict of GitHub is any member
of `Verdict`. A text of `Raising` is one on which `parse_request` raises
something other than `ProtocolError` (a JSON list as version or capability,
protocol.py:80-83), on which every cycle fails. Rooms of `ClosedRoom` refuse
every write; their nonce rows are not counted up, as nobody sees those numbers
and they would grow for ever with the retries.

### Collector

| Action | Code |
|---|---|
| `Read`, `Process`, `ProcessGap` | `poll_once`, and `process` with `_prune` as one transaction (collector.py:101-157, 234-236) |
| `ReadAgain` | a response that starts, and perhaps ends, at or before the cursor, whose old messages `process` passes over (115-117) |
| `PollFails`, `ThreadDies` | the exceptions `_run` catches, and the others (collector.py:248-265) |
| `Baseline`, `Forward`, `PostAccepted`, `PostFails`, `Confirm` | webapp.py:272-288 and 355-379, collector.py:95-99 and 168-193 |
| `StartWait`, `ReadRegistration`, `ReadRow`, `CheckHealth`, `Deadline` | `wait_result` and its statements one by one (collector.py:195-232) |
| `Answer`, `OtherMessage`, `Trim`, `Restart` | the worker, the room, the process |

`Answer` is what `Worker` guarantees: the first accepted request of a requester
and job id is answered in the shared room, perhaps several times. A request is
the record of requester, job and baseline; its text contains all three, so it
stands for the digest. A forward that reads the baseline under the lock and registers after it
is one step: the baseline it compared is part of the request from then on. A wait
is asked only for requests that have a registration when it starts; any other is
refused at once. A session may forward for any requester, which over-approximates
the binding of sessions to DIDs.

The clock is the wall clock, which may be set forward and back and may not advance
between two readings: every reading (one for each usable message, one in each part of
`_prune`, one in `register`, `confirm_registration` and `result`) is any member of
`Times`, independent of the others. A row carries the reading it was stored with as
`received`, a registration its `expires`. `Newest` is the set of what
`ORDER BY received_at DESC` with an offset of `MAX_RESULTS` may leave, as SQL does not
say how rows with equal readings are ordered. Two history variables serve
`FreshResultsKept`: `stamps` keeps the reading of every usable message behind the
cursor, `expired` the places that some pruning has found beyond the TTL.

### WebSession and BrowserApp

A call is a request of the browser on its way: `sent`, then `held` while the
server thread that serves it holds no lock, then `ok` or `refused`. A DID stands
for its key pair; a signature is the pair of the key that made it and of what it
signs.

| Action of `WebSession` | Code in `worker/webapp.py` |
|---|---|
| `CreateChallenge` | `ChallengeStore.create` with `_prune` and eviction (88-119) |
| `Consume`, `Bind` | `ChallengeStore.consume` (103-114); the signature and the binding with `_prune_session_bindings` (133-139, 348-353) |
| `ReadBaseline`, `StoreBaseline` | `GET /api/reply-baseline` before and under the lock (272-283) |
| `CheckRequest`, `Forward` | the DID and baseline of a request (354-365), the post (366-380) |
| `Poll` | `GET /api/jobs` (296-324) |
| `ChallengesAge`, `PeerProves`, `OtherTab`, `Collected`, `CallFails`, `Resend`, `Restart` | the clock, other browsers, another tab, lost answers, a call repeated by a proxy, a restart |
| `Work` | the worker and the collector, as far as their modules guarantee it |

| Action of `BrowserApp` | Code in `web/app.js` |
|---|---|
| `ClickCreate`, `KeyReady`, `Named`, `Exported` | create (60-66), a step for each `await` |
| `ClickImport`, `KeyReady`, `Imported` | import (68-70) |
| `SignChallenge`, `SendProof`, `ProofAnswered` | `demonstrateControl` (47-55) |
| `ClickDownload`, `ClickUseAnother`, `ClickCheckAnother` | 67, 77-80 |
| `Submit`, `BaselineAnswered`, `SendRequest`, `RequestAnswered` | the form (126-134) |
| `StartPoll`, `PollAnswered` | `pollReply` (85-97), `parseWorkerReply` (protocol.js:53-62), `showResult` (99-115) |
| `PageHide` | 140; the page may come back from the cache with its handlers |

Two handlers of Create or Import can overlap, as their buttons stay enabled while
they wait; a second job cannot, as its form is hidden. `Poll` returns any answer
of the worker: that the server picks the right one is `AnswerIsOwn` of
`Collector`, and the page checks it again. The session cookie is there from the
start. The revocation of the download's URL, which a timer does at once, is part
of `ClickDownload`.

### RateLimiter, GitHubVerifier, WalletPanel

`Allow` is `RateLimiter.allow` for a time that was read up to `MaxDelay` before
the lock was taken; the history of what was allowed keeps with each request the
start of its window and its number there, for the proof.
`GitHubVerifier` has one action per kind of answer (`Found`,
`NoCommit`, `Redirect`, `Missing`, `Fails`), each of which settles a check or asks
the next question, and `WorldChanges` for what happens on GitHub in between.
`WalletPanel` has one action per handler of `wallet-ui.js`; a wallet is a number
that stands for its address and phrase.

### The algorithms

These modules have no actions: a function of the code is an operator, a loop a
fold or a recursive function, and a call that raises returns a value that says so.
They are parameterised by what makes the code's sizes: length of a block, width of
a word, rounds, field, curve, lengths of keys and lines. What a property does not
look into is taken as injective (the compression function under `HashStream`, the
permutation under `Sponge`, WebCrypto under `IdentityCodec`) or as an arbitrary
operator (checksum, HMAC and HASH160 under `BaseCodec` and `HdKey`). `HdKey` sees
the group from its scalars; its `deriveChild`, which in the code calls itself with
the next index as long as a child is invalid, stops at the first index at which it
raises or has a child. The reference definitions stand at the end of each
module: padding and blocks as FIPS 180 says, the permutation as FIPS 202 says on
whole lanes, PBKDF2 as RFC 8018, chord and tangent, repeated addition.

`Algorithms` puts those that are proved about into behaviours: the initial state has
an algorithm and its inputs, from sets that are constants, and what has rounds goes on
a round at a time. It uses them with their theorems (it instantiates the modules of
proofs), so that `PartsProofs` can conclude the properties of the run for every set of
inputs that meets `InputsAssumption`.

## 4. Runs

| Run | Question | Bounds |
|---|---|---|
| `worker_safety` | one answer per job, nothing skipped, first claim wins, completed means posted, nonces increase; the inductive invariant | 2 requesters (symmetric), an echo and a verify request with one job id, 3 messages, 1 failure or crash, 2 clock readings |
| `worker_ledger` | duplicates need failures, no reply after completion, refinement of `JobLedger`; under fairness: inbox drained, replies delivered, shared room kept alive | 1 requester, 6 texts (one malformed, one that raises, one for a closed room), 2 messages, 2 failures, page of 1 read |
| `worker_starved` | *violated*: "durable outbox retries all delivery failures" (service.py:132) | page of 1 instead of 100 |
| `collector_safety` | gaps never jumped, baselines never overtake replies; the inductive invariant of `CollectorProofs` | 2 jobs, 2 requests, 3 messages in the room, table of 1, 1 failure or repeated response, 1 crash or restart; the clock stands still |
| `collector_pruned` | a first reply stays until it is found beyond the TTL or enough others have a reading not before its own | 2 jobs (symmetric), 2 requests, 3 messages, table of 1, 2 clock readings in any order, TTL 0; no failures |
| `collector_release` | an answer belongs to the session's own accepted request | 2 sessions, 2 handlers, 1 wait, 2 requests, 1 message, 2 clock readings in any order, TTL 0 |
| `collector_live` | the room is collected, waits end | 1 session, 1 failure, 1 crash |
| `collector_masked` | *violated*: "explicit sequence-gap degradation" (README.md:273) | as above |
| `collector_durable` | *violated*: "one durable server-side collector" (README.md:105) | as above |
| `browser` | nothing forwarded without proof, no challenge proves twice, a receipt answers the page's own request, no dead end and the next check always at hand, no handler waits for nothing | 2 flows, 2 identities, 2 checks, 4 clicks, 1 trouble, 2 challenges created, tables of 1 challenge and 1 binding, 2 polls |
| `browser_backup` | *violated*: "the only recoverable encrypted backup of this identity" (web/index.html:76) | as above with a table of 2 challenges, no trouble |
| `parts` | each algorithm equals its reference; phrase shown only after consent; rate limits hold; verdicts are backed | see below |

Why the bounds suffice. Every conflict in the ledger is between two rows or two
messages, so two requesters and three messages give each pair with a third
message around it; two failures allow a lost acknowledgement and a crash of the
same job. The limits of 100, 200 and 4096 are scaled to 1 or 2, small enough to
be reached. In `collector_release` no post fails: a handler that never goes on
from `post` or `confirm` leaves the same state behind as one that failed, and the
second handler is free for the next forward.

With a TTL of 0 a reading of 1 after one of 0 finds every earlier row and registration
beyond its time, a reading of 0 after one of 1 is a clock set back, and two equal
readings are a tie; two readings and a table of one row therefore meet expiry, a full
table and each order of the two rows that compete for it. One message is enough for
`collector_release`: it is the answer to one of the two requests with the same job, and
what matters is whose registration it meets. In `collector_safety` and `collector_live`
the clock stands still, so that there only a full table drops rows, in any order.

Deadlock is checked for the worker,
which never stops; the web process with its thread stopped and no browser asking
is at rest, so the collector runs switch the check off.

In `browser` one trouble is a fault at any point of two overlapping flows or of a
job: a lost answer, a repeated proof, a restart, another session's proof that
prunes this one's, or challenges that age. Four clicks are two identities and a
job with one more click in its course, or two jobs of one identity. With a table
of one binding every proof of another session prunes, and with one of one challenge
the second, of another flow or another browser, evicts the first while it is being
signed.
The page stops when nobody clicks, so deadlock is not checked.

In `parts` a behaviour picks an algorithm and its input, or one of the three
machines. Sizes are scaled so that every boundary is met many times: blocks of 4
bytes with messages of 0 to 9 in every division into three calls; words of 8 + 8
bits for SHA-2, with 18 rounds, so that rotations by less and by more than a half
and every carry occur; Keccak at its full 32 + 32 bits and 24 rounds, against the
published first lane; bytes of radix 6; entropy of every legal length; primes of
each residue that decides a square root; y² = x³ + 7 over 43 elements, a group of
prime order 31 with the endomorphism of secp256k1, and all its points and scalars;
hardened keys from index 4, a group of order 11 in which some children are invalid; DER lengths from 0 to 300. `RateLimiter`: 2 clients, a table of 1, a
limit of 2 in windows of 3, threads that are 1 late, 5 ticks. `GitHubVerifier`: 2
names, 2 repositories, 3 changes or failures. `WalletPanel`: 2 wallets.

Fairness. `Worker`: weak fairness of the loop's own steps; it is one thread that
catches every exception and sleeps a bounded time (service.py:185-212), and every
network call has a timeout. Failures are bounded and not fair: nothing says that
they happen. `Collector`: weak fairness of the thread as long as it lives, of
each waiting handler, and of its deadline. Requesters, browsers and retention are
under no fairness. `InboxDrained` excludes a text that raises and stands before
the message, `RepliesDelivered` a page full of undeliverable jobs, and
`StreamCollected` a thread that stopped or died: each exception is a behaviour of
the code, described in the next section or under the hazards.

### Disagreements with the documentation

* `worker_starved`: jobs whose rooms refuse every write stay `processed`, and the
  retry loop takes the oldest 100 of them only. Once they fill the page, a
  younger job whose first delivery failed is not retried.
* `collector_masked`: after a gap the persisted health is `degraded`. When the web
  process restarts and its first read fails, the health becomes `backoff`, and
  `baseline` answers again, although the gap is still there.
* `collector_durable`: an exception outside the list in `_run` ends the thread;
  nothing starts another and the health stays `healthy`.
* `browser_backup`: of two overlapping creations, or a creation and an import, the
  one that ends last offers the file it exported, while `did` and `privateKey` are
  those of the other, and they stay so when both have come to rest.

### Observations

Behaviour that contradicts no document, met while modelling:

* Before the first version 2 reply there is no recorded activity and no keepalive
  is ever due (service.py:173).
* A baseline stored for a session that was pruned meanwhile stays in
  `session_baselines`; without a bound DID it admits nothing (webapp.py:281).
* `MAX_REQUESTS_PER_JOB` (github.py:15) is not used; with redirects a job makes up
  to six requests. A commit that GitHub answers with 422 is `UNAVAILABLE`, not
  `NOT_FOUND`. When a name is taken over between two requests, the commit can be
  confirmed in another repository than the first answer's; `VerdictBacked` says
  what each part of a verdict rests on, and no more.
* Copying one value in the wallet section cancels the timer of the other, whose
  button then keeps its "Copied" text (wallet-ui.js:17). After a return from the
  cache the section is shown with no wallet behind it (wallet-ui.js:72).
* `_prune` keeps the rows with the latest readings of the wall clock. When the clock is
  set back, or does not advance within a batch, a full table may drop the row just
  added (collector.py:135, 153-157). `FreshResultsKept` therefore promises a row its
  place only while fewer than `MAX_RESULTS` others have a reading not before its own.
* `demonstrateControl` sets `controlProved` for whatever identity the page has when the
  answer comes (app.js:53). A `pagehide` in the middle of another flow can leave `did`,
  though not the DID that is shown, with an identity that has proved nothing; the web
  process then refuses its requests (`ForwardedUnderProof`).
* `multiplyUnsafe` with precomputed windows and the endomorphism would use tables
  of half the bits; no caller precomputes, so only windows of one bit are checked
  for it (wallet.js:4338-4367, 4443).
* A path step whose child is invalid goes on with the next index, which after the
  last plain index is a hardened one (wallet.js:5185). The depth of an extended key
  is written in a byte (wallet.js:5223-5229).
* `destroy` of SHA-2 clears the state and does not mark the object as destroyed
  (wallet.js:592-595).

## 5. Proofs

`WorkerProofs` proves, for all sets of requesters, texts and rooms, all limits
and any number of failures, from the four named assumptions of `Worker` alone:

* `TypeCorrect`, `NothingSkipped` (`RequestsAccounted`), `FirstClaim`,
  `CompletedIsReplied`, `NonceOrder`, `OneAnswer`, and the action property
  `Settled` (`NoReplyAfterCompletion`).

The properties are not inductive by themselves. `IInv` adds what the loop knows:

* `RowsBacked`: one row per requester and job id, copied from the message it
  names. With `PostsBacked`, every reply in a room renders a row, and two replies
  with one key render the same row: that is `OneAnswerPerJob`.
* `CursorBehindRows` and `BatchPosition`: between the cursor and the record at
  hand, and between the cursor and any row ahead of it (left by a crash), there
  are only messages that retention removed. So `Advance` moves the cursor over
  accounted messages only, and a row that is claimed now meets no earlier request
  with its key.
* `DeliveryBacked`: a row in delivery is pending and no longer in the snapshot,
  and at `complete` the post that was acknowledged is the one made.
* `NoncesAhead`: the nonce row of an open room is ahead of all posts in it and
  equals the number about to be used.

`KeepaliveAssumption` (a keepalive is no reply) holds as the two have different
JSON keys; `RoomAssumption` holds as an echo request cannot name the shared room.
The proof has one lemma per conjunct (`..Step`), and under it one step per kind
of action that can disturb it; `StepKinds` and `QuietFrame` dispose of the
others. `LoopInv` is the part of `IInv` that needs no counting.

The second half of `WorkerProofs` adds the rest, from the same assumptions:

* `CopiesCostFailures` (`DuplicatesNeedFailures`): each reply is paid for by a row that
  is done with or by a failure, with one more while a post is acknowledged and not yet
  recorded. `Complete` trades that one for a row, any other way on from there is a
  failure; a post whose acknowledgement is lost is one at once. `PostsPaid` counts all
  posts in the same way, keepalives by the quiet periods, and says that they are finite.
* `Refinement` (`ImplementsLedger`), without fairness on either side: the initial
  state maps to the ledger's; `HandleNew` is a claim of a key that nobody holds, with
  one row more and all others as they were; a post of a job's reply is a publication
  at a new place, of the answer that was claimed (`DeliveryBacked`); `Complete`
  settles its key, for which there is then a publication; every other step leaves all
  three parts as they are. The place of a post must be one the ledger has, which
  `PostsFit` shows from `PostsPaid` and `BudgetKept`.

`worker_safety` checks all of `IInv` on the small instance.

`CollectorProofs` proves, for all sets of sessions, requesters, jobs, handlers and
waits, and all limits, whatever the clock reads, from `CollectorAssumption` alone:

* `TypeCorrect`, `AnswersOwn` (`AnswerIsOwn`), `BeyondBaseline`
  (`RepliesBeyondBaseline`), `FreshKept` (`FreshResultsKept`), and the action
  property `GapForGood` (`GapNeverJumped`).

Its `IInv` adds to these:

* `ReadBacked`: what the thread has read is in the room, wherever it starts, and a gap
  it has seen is still one. `GapKept`: the gap lies between the cursor and
  the oldest message for good, which gives `GapNeverJumped`.
* `BaselinesReached`: every baseline issued, in a forward or in the inbox is a place
  the cursor has reached. With `RepliesBacked` (a reply quotes the place of its
  request) a new reply lies beyond its baseline: `RepliesBeyondBaseline`.
* `RowsCopied`: a row is the copy of a usable message behind the cursor with the
  reading recorded for it, one for each request. `FreshResultsKept` follows when rows
  are dropped: the `MAX_RESULTS` rows that are kept instead of one have readings not
  before its own, and are of as many other requests. A place counts against another for
  good, as the readings of messages behind the cursor do not change.
* `SessionsKept`: a seq that is confirmed or read for a wait was accepted for that
  session, whatever the registration has become since; so a row at that seq is the
  session's own answer, which is `AnswerIsOwn`.

There is one lemma per conjunct here too, and `collector_safety` checks `IInv`.

`BrowserProofs` proves, for all sets of sessions, identities, flows and checks, all
sizes of the tables and any number of clicks and failures, from
`WebSessionAssumption` and `BrowserAssumption` alone:

* `TypeCorrect`, `Forwarded` (`ForwardedUnderProof`), `ProvesOnce`
  (`ChallengeProvesOnce`), `Vouched` (`ReceiptVouched`), `UnderWay`
  (`CallsUnderWay`) and `GoesOn` (`NoDeadEnd`).

Its `IInv` adds to these:

* `CallsTyped`: what a call carries and brings back fits its operation; the baseline
  a thread has read and not yet stored is behind the cursor, and a result is one of
  the worker's.
* `ProofsBurnt`: the value of a proof that is accepted, or whose signature a thread is
  checking, is spent for good, as it is used or no longer stored and new challenges
  have new values; and no two of these proofs share one. So the binding that follows
  adds a proof of its own: `ChallengeProvesOnce`.
* `RequestsAdmitted`: a request between its checks and its post is of a DID that the
  session has proved, though pruning or a restart may have dropped the binding since,
  and no baseline is ahead of the collector. That gives `ForwardedUnderProof`.
* `AnswersBacked`: an answer is to the request at its seq, so a receipt, for which the
  page has compared the seq, the DID and the digest, is to its own: `ReceiptVouched`.
* `PageConsistent`: which parts of the page are visible goes with the stage of the job
  and with the proof of control. `NoDeadEnd` follows from it at rest.

The steps of the page and those of the web process are taken apart first
(`PageFetches`, `ServerCalls`, `EnvironmentCalls`): the page touches the web process
only through its calls, and the web process never touches the page.

`PartsProofs` proves `LimitIsKept` (`LimitHolds`) for any clients, limit,
window and size of the table, from `RateLimiterAssumption` alone. `LimiterInv` adds
that a window admits requests from a delay before its start until its end
(`InWindow`), that what it counts was allowed (`Counted`), and that the windows of a
key that was never dropped follow each other at a distance of a window (`Successive`).
So an interval of a window less a delay meets two windows at most. Each admits `Limit`
requests, and the first request of both cannot be in the interval, as they are a
window apart: at most 2 · `Limit` - 1. That a refused client had had the limit follows
from `Counted` at the window that refuses it.

It proves `VerdictIsBacked` (`VerdictBacked`) for any names and
repositories and any number of changes and failures. `HistoryKept` says that the
history knows the present; `RequestBacked`, whom the request under way is about and
what the answers so far were backed by. An answer adds the facts of the moment, and
as the history only grows, what earlier answers rested on stays in it.

It proves `PhraseHidden` (`PhraseNeedsReveal`) for any wallets, and about
hierarchical keys, for every order `N` > 1 of the group, every number of plain
indexes and any HMAC:

* `PublicDerivation`: what a public key derives is the public half of the child that
  its private key derives, and it derives one whenever that child is not hardened.
  Below the first hardened index both stop at the same one (`SameAtIndex`), as a tweak
  that makes the scalar zero makes the point zero.
* `AccountDerivesAddress`: so the address is found from the public key of its account.
* `ExtendedKeysRoundTrip`: an extended key read back is the key.
* `DerivationMatches`, `AccountsMatch` and `CasesMatch` are the three parts of the
  run's `PublicDerivationMatches`, for one key, seed or address at a time and every
  value of them: the second goes along the five parts of the wallet's path, each of
  which keeps a key private or raises (`StepKeepsPrivate`). Its one hypothesis about
  the HMAC is that the tweak of a seed is a number.

`HashProofs` proves for every block length, every number of bytes the padding keeps
for the length (at most a block) and every output length (`Sizes`), and for byte
sequences of any length:

* `HashesAreReference`: `update` called any number of times and
  then `digest` process the blocks that FIPS 180-4 makes of the whole message. What a
  hash `Holds` of a message is the argument: its words are the whole blocks, its buffer
  begins with the bytes after them, `pos` is how many, and `length` counts the calls
  that have returned. A turn of the loop keeps this, whether it takes a block from the
  data or fills the buffer; so do `Update` and `CloneInto`, which copies the buffer
  only when there is something in it. From it `digestInto` pads as the standard does,
  in one block or in two.
* `KeysAreReference`: PBKDF2 derives the key of RFC 8018. HMAC's
  two hashes hold the padded key and what came after it; a clone holds what its origin
  holds, whatever message the object held before, so that the one object cloned for
  every iteration answers each with the MAC of the standard.

`WordsProofs` proves that operations on halves are those on the whole word, bit by
bit, for any width of a half (`RotationsAreWhole`, `ShiftIsWhole`,
`BooleansAreWhole`), and that Keccak's permutation, in halves with its steps in place,
is that of FIPS 202 on 64-bit lanes (`RoundIsReference`, `PermutationIsReference`),
for every state and not only the ones that `parts` runs through it. Theta and chi go lane by lane.
The loop that does rho and pi at once carries one lane along: after each turn the
places visited hold their final lanes and the others their old ones (`VisitsAll`).
The constants of iota come from two registers, one of which is that of FIPS 202; they
agree at every step, by induction over the numbers (`AllNumbers`, from the library's
theorems about well-founded relations without a parameter), which gives the constants
(`ConstantsAgree`).

SHA-512's sums of halves are those of whole words for any number of summands
(`SumsAreWhole`): a word is its low half plus its high half times 2^W, the sum of the
low halves leaves its remainder in the low half and its quotient as the carry, and the
bits of a number are found again from the number. The laws of powers this rests on are
proved from the recursion that defines them (`PowersAre`, `PowerProduct`), and a
quotient that is a product of unknowns is named before arithmetic sees it. The schedule
and the round follow operation by operation, with the summands in the code's different
orders (`PlusMoved`, `PlusNested`), and so a run on halves and one on whole words that
start from the same hash and block agree after every round and in the hash they leave
(`RunsStart`, `RunsStep`, `RunsEnd`), for every width of a half, all constants and
number of rounds, and rotations by any count but that of a half.

It also proves `SpongeIsReference` for every state, every
block within it and outputs of any length: a sponge `Holds` a message when its state is
the standard's after the whole blocks, with the rest mixed in. `finish` mixes in the
padding, whose two bytes may share a place, and the loop of `writeInto` reads off the
standard's blocks.

`CodecProofs` proves, for texts of any length and any checksum hash:

* `TextsMatch`: `convertRadix` keeps the number (`ValueOf`), from any radix up to that of a
  byte to any other, and base58, with and without a checksum (of a byte or more), gives back the bytes it was given. A pass of
  the long division leaves the quotient and carries the remainder, so that the digits
  left, times a power of `to`, with the digits put out, stay the number; each pass at
  least halves it, which is why `MostPasses` of them are enough (the code has no such
  bound). The zeros in front are counted apart. Two sequences of digits with the same
  length and number are the same, and the way back has both: the same number, and one
  digit for it besides the same zeros.
* `MnemonicsMatch`: for every entropy of a legal length the words are those of BIP-39
  and give the entropy back. Regrouping keeps the number that the groups put out and
  the carry denote together, and the bits of the standard denote the same number as the
  bytes with their checksum byte, cut at the end of the checksum. A mnemonic with a word
  missing is refused.
* `PhrasesMatch`: words that are accepted are the mnemonic of the entropy they give,
  for any words, of the list or not. The bits that fill the last byte are zeros in
  both directions, because `calcChecksum` clears them.

The one hypothesis about the hash is that it gives bytes, one at least (as many as the
checksum takes, for base58).

`PartsProofs` gathers these for the behaviours of `Algorithms`: `HashesMatch`
(`HashIsReference`), `KeysMatch` (`Pbkdf2IsReference`), `CompressionsMatch`
(`SplitIsWhole`), `RoundsMatch` (`KeccakIsReference`), `DerivationsMatch`
(`PublicDerivationMatches`) and `CodecsMatch` (`CodecsRoundTrip`), as
`AlgorithmsSpec => []P` for all inputs that are messages of bytes, hashes and blocks of
words, states of halves, keys that the constructor made, seeds whose tweak is a number,
texts and entropies of bytes, and words. The invariant `AlgorithmsInv` keeps the inputs legal,
and the whole words and the lanes in step with the halves.

Theorems about sequences of bytes of any length use the same induction, over the
number of calls, bytes, blocks or rounds; the recursion they speak of is written as
functions.

Only model-checked: all liveness, as fairness under ENABLED is outside the prover's
reach; the answer of Keccak that is published for zeros (`KnownAnswer`); and the other
algorithms (`FieldLaws`, `GroupLaw`, `SignaturesVerify`, `IdentityRoundTrips`). That
field and curve are a field and a group are facts about particular numbers, of 256 bits
in the code, and the signatures rest on them; they and the identity file compute by
RECURSIVE operators, which leave the prover without its arithmetic.

## 6. Not modelled

*Worker and collector.* SQLite errors and schema migration; a room whose numbering
starts again; malformed room responses other than as failed reads or repeated ones; gaps inside one
response (same outcome as a gap before it); delays and their growth; the stop of
the collector at shutdown (a restart covers its effects); two processes on one
database; the grammar of requests in `parse_request`.

*Web process.* Parsing of HTTP, headers, static files; key files of the worker.

*Browser.* Drawing, text and links of receipts (`receipt.js`, share links),
progress texts, validation of the form's fields, the tests' configuration.

*Wallet bundle.* RIPEMD-160, the word list and its normalisation, the tables of
constants (given as CONSTANTS), conversions of hex and UTF-8, Schnorr signatures
and hashing to curves (no function of the page reaches them), the fake point by
which `wNAF` evens out its time, the checks in the curve code of arguments that none of
its callers can pass (they would throw), the generator of nonces other than as "the first
nonce that will do", the branch of the sponge for a suffix with its high bit set,
which no hash of the bundle has.

*Command line.* Parsing of arguments before `run_forever` or `serve`.

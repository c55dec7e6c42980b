----------------------------- MODULE Collector -----------------------------
(***************************************************************************)
(* The reply collector of the web process (worker/collector.py) and the    *)
(* HTTP handlers that use it (worker/webapp.py).  One thread copies the     *)
(* shared reply room into a SQLite table of results; browser sessions are   *)
(* handed a baseline, forward a signed request, and wait for its result.    *)
(*                                                                         *)
(* A request stands for its text, hence for its digest; the text holds the *)
(* baseline, `after`.  A row of results is [req, seq, at, received]: the   *)
(* request it answers, the inbox seq the worker quotes, its place in the   *)
(* room, and the reading of the clock when it was stored.                  *)
(*                                                                         *)
(* The clock is the wall clock.  It may be set forward and back, and two   *)
(* readings may be equal: every reading is any member of Times.            *)
(***************************************************************************)
EXTENDS Integers, Sequences, FiniteSets

CONSTANTS
    Session,       \* browser sessions
    Did, JobId,
    Handler,       \* server threads that forward a request
    Waiter,        \* server threads that wait for a result
    NoReq,         \* what a keepalive or a foreign message answers
    NoRow,         \* the answer of a wait that found nothing
    MaxResults,    \* MAX_RESULTS, 4096 in the code
    Ttl,           \* RESULT_TTL_SECONDS, an hour in the code
    Times,         \* what the clock may read
    ReadLimit,     \* messages in one read, 200 in the code
    MaxInbox,      \* bound: requests accepted by Technocore
    MaxStream,     \* bound: messages in the shared reply room
    MaxFaults,     \* bound: requests to Technocore that fail
    MaxCrashes     \* bound: uncaught exceptions and restarts

ASSUME CollectorAssumption ==
    /\ MaxResults \in Nat \ {0} /\ ReadLimit \in Nat \ {0}
    /\ Ttl \in Nat /\ Times \in SUBSET Nat /\ Times # {}
    /\ MaxInbox \in Nat /\ MaxStream \in Nat
    /\ MaxFaults \in Nat /\ MaxCrashes \in Nat
    /\ NoReq \notin [did : Did, job : JobId, after : Nat]
    /\ NoRow \notin [req : [did : Did, job : JobId, after : Nat], seq : Nat, at : Nat,
                     received : Nat]

VARIABLES
    inbox,       \* requests Technocore accepted, with the session that sent each
    stream,      \* the shared reply room: [req, seq] per message
    base,        \* seq of the oldest message the room still retains
    cursor, health,   \* the row of table collector_state
    results,     \* table results
    registered,  \* table registrations: [session, req, seq, expires], seq 0 for NULL
    pc,          \* the collector thread
    view,        \* the response it has read: places first .. last of the room
    issued,      \* session_baselines; -1 when there is none
    forwards,    \* do_POST in each handler thread
    waits,       \* wait_result in each waiter thread
    gapSeen,     \* history: the thread has met a gap in the room
    stamps,      \* history: the reading taken for each usable message behind the cursor
    expired,     \* history: places whose reading a pruning has found beyond the TTL
    faults, crashes   \* failures and crashes so far

room == <<inbox, stream, base>>
database == <<cursor, health, results, registered, stamps, expired>>
thread == <<pc, view>>
web == <<issued, forwards, waits>>
budget == <<faults, crashes>>
vars == <<inbox, stream, base, cursor, health, results, registered, stamps, expired, pc, view,
          issued, forwards, waits, gapSeen, faults, crashes>>

Requests == [did : Did, job : JobId, after : Nat]
NoView == [first |-> 1, last |-> 0]
NoForward == [stage |-> "idle", session |-> NoReq, req |-> NoReq, seq |-> 0]
NoWait == [stage |-> "done", session |-> NoReq, req |-> NoReq, seq |-> 0,
           late |-> FALSE, answer |-> NoRow]

Init ==
    /\ inbox = <<>> /\ stream = <<>> /\ base = 1
    /\ cursor = 0 /\ health = "starting" /\ results = {} /\ registered = {}
    /\ stamps = <<>> /\ expired = {}
    /\ pc = "poll" /\ view = NoView
    /\ issued = [s \in Session |-> -1]
    /\ forwards = [h \in Handler |-> NoForward]
    /\ waits = [w \in Waiter |-> NoWait]
    /\ gapSeen = FALSE /\ faults = 0 /\ crashes = 0

\* What may go wrong, within the bounds.
Fault == faults < MaxFaults /\ faults' = faults + 1
Crash == crashes < MaxCrashes /\ crashes' = crashes + 1

-----------------------------------------------------------------------------
(* The environment: the worker and Technocore *)

\* The worker answers the first request of a requester and job id, in the shared
\* room, at least once (module Worker).
Answered(k) == \A j \in 1 .. k - 1 :
    ~(inbox[j].req.did = inbox[k].req.did /\ inbox[j].req.job = inbox[k].req.job)
Answer ==
    /\ Len(stream) < MaxStream
    /\ \E k \in DOMAIN inbox :
          Answered(k) /\ stream' = Append(stream, [req |-> inbox[k].req, seq |-> k])
    /\ UNCHANGED <<inbox, base, database, thread, web, gapSeen, budget>>

\* A keepalive, a reply to somebody else, or a message parse_contribution_response_v2 refuses.
OtherMessage ==
    /\ Len(stream) < MaxStream
    /\ stream' = Append(stream, [req |-> NoReq, seq |-> 0])
    /\ UNCHANGED <<inbox, base, database, thread, web, gapSeen, budget>>

Trim ==
    /\ base < Len(stream)
    /\ base' = base + 1
    /\ UNCHANGED <<inbox, stream, database, thread, web, gapSeen, budget>>

-----------------------------------------------------------------------------
(* The collector thread: _run, poll_once, process *)

\* Condition.notify_all: only a thread inside Condition.wait hears it.
Notified == waits' = [w \in Waiter |->
    IF waits[w].stage = "sleep" THEN [waits[w] EXCEPT !.stage = "registration"]
    ELSE waits[w]]

\* A response holds ReadLimit messages, or what there is.
ViewFrom(first) ==
    [first |-> first,
     last |-> IF first + ReadLimit - 1 < Len(stream) THEN first + ReadLimit - 1 ELSE Len(stream)]

\* reader.read(room, since=cursor): what is retained of the room after the cursor.
Read ==
    /\ pc = "poll"
    /\ view' = ViewFrom(IF base > cursor + 1 THEN base ELSE cursor + 1)
    /\ pc' = "view"
    /\ UNCHANGED <<room, database, web, gapSeen, budget>>

\* A response that starts at or before the cursor, and may end there too: the answer
\* to an earlier read is repeated, or `since` is not respected.
ReadAgain ==
    /\ pc = "poll" /\ Fault
    /\ \E first \in base .. cursor : view' = ViewFrom(first)
    /\ pc' = "view"
    /\ UNCHANGED <<room, database, web, gapSeen, crashes>>

\* Mutant: a collector that is degraded already takes the room as it comes.
GapOnce == view.first > cursor + 1 /\ health # "degraded"
Gap == view.first > cursor + 1

\* process meets a gap: the health is set and the thread ends for good.
ProcessGap ==
    /\ pc = "view" /\ Gap
    /\ health' = "degraded"
    /\ pc' = "stopped" /\ view' = NoView
    /\ gapSeen' = TRUE
    /\ Notified
    /\ UNCHANGED <<room, cursor, results, registered, stamps, expired, issued, forwards, budget>>

\* parse_contribution_response_v2 accepts the message.
Usable(p) == stream[p].req # NoReq /\ p > stream[p].req.after

\* The usable messages of the batch; those at or before the cursor are passed over.
Arrived == {p \in view.first .. view.last : p > cursor /\ Usable(p)}

\* INSERT OR IGNORE keeps the first row of a request.
Received(stamp) ==
    {[req |-> stream[p].req, seq |-> stream[p].seq, at |-> p, received |-> stamp[p]] :
        p \in {q \in Arrived :
                  /\ \A row \in results : row.req # stream[q].req
                  /\ \A e \in Arrived : e < q => stream[e].req # stream[q].req}}

\* _prune: ORDER BY received_at DESC, all but the first MAX_RESULTS are deleted.  Rows
\* with equal readings come in any order.
\* Mutant: without DESC.
Oldest(rows) ==
    {kept \in SUBSET rows :
        /\ Cardinality(kept) <= MaxResults
        /\ kept # rows => Cardinality(kept) = MaxResults
        /\ \A k \in kept, d \in rows \ kept : d.received >= k.received}
Newest(rows) ==
    {kept \in SUBSET rows :
        /\ Cardinality(kept) <= MaxResults
        /\ kept # rows => Cardinality(kept) = MaxResults
        /\ \A k \in kept, d \in rows \ kept : d.received <= k.received}

\* Mutants: one message short of the batch; messages behind the cursor not passed over.
CursorBeforeLast == IF view.last > cursor + 1 THEN view.last - 1 ELSE cursor
CursorOfLast == view.last
CursorAfter == IF view.last > cursor THEN view.last ELSE cursor

\* One transaction: the results, the cursor, the health, the pruning.  The clock is read
\* for each usable message, and by _prune once for the results and once for the
\* registrations.
Commit(stamp, now, then) ==
    /\ results' \in Newest({row \in results \cup Received(stamp) : row.received + Ttl >= now})
    /\ registered' = {g \in registered : g.expires >= then}
    /\ stamps' = [p \in DOMAIN stamps \cup Arrived |-> IF p \in Arrived THEN stamp[p] ELSE stamps[p]]
    /\ expired' = expired \cup {p \in DOMAIN stamps' : stamps'[p] + Ttl < now}

Process ==
    /\ pc = "view" /\ ~Gap
    /\ \E stamp \in [Arrived -> Times], now \in Times, then \in Times : Commit(stamp, now, then)
    /\ cursor' = CursorAfter /\ health' = "healthy"
    /\ pc' = "poll" /\ view' = NoView
    /\ Notified
    /\ UNCHANGED <<room, issued, forwards, gapSeen, budget>>

\* HTTPError, OSError, TypeError or ValueError, in read or in process: the thread
\* backs off, then polls again.
PollFails ==
    /\ pc \in {"poll", "view"} /\ Fault
    /\ health' = "backoff"
    /\ pc' = "poll" /\ view' = NoView
    /\ Notified
    /\ UNCHANGED <<room, cursor, results, registered, stamps, expired, issued, forwards, gapSeen, crashes>>

\* Any other exception, http.client.HTTPException or sqlite3.Error among them,
\* is not caught in _run: the thread ends and the health stays as it was.
ThreadDies ==
    /\ pc \in {"poll", "view"} /\ Crash
    /\ pc' = "dead" /\ view' = NoView
    /\ UNCHANGED <<room, database, web, gapSeen, faults>>

\* The web process stops and is started again on the same database.
Restart ==
    /\ Crash
    /\ pc' = "poll" /\ view' = NoView
    /\ issued' = [s \in Session |-> -1]
    /\ forwards' = [h \in Handler |-> NoForward]
    /\ waits' = [w \in Waiter |-> NoWait]
    /\ UNCHANGED <<room, database, gapSeen, faults>>

-----------------------------------------------------------------------------
(* GET /api/reply-baseline and POST /api/technocore/request *)

\* Mutant: the place of the next message.
NextPlace == cursor + 1
BaselineValue == cursor

\* ReplyCollector.baseline, stored under the session.
Baseline(s) ==
    /\ health # "degraded"
    /\ issued' = [issued EXCEPT ![s] = BaselineValue]
    /\ UNCHANGED <<room, database, thread, forwards, waits, gapSeen, budget>>

Registration(s, r, n, now) == [session |-> s, req |-> r, seq |-> n, expires |-> now + Ttl]
SameJob(g, s, r) == g.session = s /\ g.req.job = r.job

\* The request carries the session's baseline; ReplyCollector.register replaces
\* whatever the session had registered for that job.
Forward(h, s) ==
    /\ forwards[h].stage = "idle" /\ issued[s] # -1
    /\ \E d \in Did, j \in JobId, now \in Times :
          LET r == [did |-> d, job |-> j, after |-> issued[s]]
          IN /\ registered' = {g \in registered : ~SameJob(g, s, r)} \cup {Registration(s, r, 0, now)}
             /\ forwards' = [forwards EXCEPT ![h] =
                    [stage |-> "post", session |-> s, req |-> r, seq |-> 0]]
    /\ UNCHANGED <<room, cursor, health, results, stamps, expired, thread, issued, waits, gapSeen, budget>>

Accepted(h) == inbox' = Append(inbox, [req |-> forwards[h].req, session |-> forwards[h].session])

PostAccepted(h) ==
    /\ forwards[h].stage = "post" /\ Len(inbox) < MaxInbox
    /\ Accepted(h)
    /\ forwards' = [forwards EXCEPT ![h] = [@ EXCEPT !.stage = "confirm", !.seq = Len(inbox) + 1]]
    /\ UNCHANGED <<stream, base, database, thread, issued, waits, gapSeen, budget>>

\* Technocore refuses, cannot be reached, or accepts and the answer is lost: the
\* handler reports an error and the registration stays unconfirmed.
PostFails(h) ==
    /\ forwards[h].stage = "post" /\ Fault
    /\ \/ UNCHANGED inbox
       \/ Len(inbox) < MaxInbox /\ Accepted(h)
    /\ forwards' = [forwards EXCEPT ![h] = NoForward]
    /\ UNCHANGED <<stream, base, database, thread, issued, waits, gapSeen, crashes>>

\* ReplyCollector.confirm_registration looks the session and job up again.
ConfirmedBy(g, h, now) == SameJob(g, forwards[h].session, forwards[h].req) /\ g.expires >= now

Confirm(h) ==
    /\ forwards[h].stage = "confirm"
    /\ \E now \in Times :
          registered' = {IF ConfirmedBy(g, h, now) THEN [g EXCEPT !.seq = forwards[h].seq] ELSE g :
                            g \in registered}
    /\ forwards' = [forwards EXCEPT ![h] = NoForward]
    /\ UNCHANGED <<room, cursor, health, results, stamps, expired, thread, issued, waits, gapSeen, budget>>

-----------------------------------------------------------------------------
(* GET /api/jobs/<job>: wait_result *)

\* The wait goes on, with what it read of the registration forgotten, or is over.
WaitGoes(w, stage) == waits' = [waits EXCEPT ![w] = [@ EXCEPT !.stage = stage, !.seq = 0]]
WaitReturns(w, row) == waits' = [waits EXCEPT ![w] =
    IF row = NoRow THEN NoWait
    ELSE [NoWait EXCEPT !.session = waits[w].session, !.req = waits[w].req, !.answer = row]]
WaitLeaves == <<room, database, thread, issued, forwards, gapSeen, budget>>

\* A browser asks for a request it has forwarded.
StartWait(w) ==
    /\ waits[w].stage = "done"
    /\ \E g \in registered :
          waits' = [waits EXCEPT ![w] = [NoWait EXCEPT
                       !.stage = "registration", !.session = g.session, !.req = g.req]]
    /\ UNCHANGED WaitLeaves

\* result: the first SELECT; the request is unknown when its registration was
\* replaced or has expired.
LooksUp(g, w, now) == g.session = waits[w].session /\ g.req = waits[w].req /\ g.expires >= now

ReadRegistration(w) ==
    /\ waits[w].stage = "registration"
    /\ \E now \in Times :
          \/ \E g \in registered :
                /\ LooksUp(g, w, now)
                /\ waits' = [waits EXCEPT ![w] = [@ EXCEPT !.stage = "row", !.seq = g.seq]]
          \/ (\A g \in registered : ~LooksUp(g, w, now)) /\ WaitReturns(w, NoRow)
    /\ UNCHANGED WaitLeaves

\* result: the second SELECT and the checks that release the row.
\* Mutant: the confirmed seq is not compared.
ReleasedUnconfirmed(row, w) == row.req = waits[w].req /\ row.at > row.req.after
Released(row, w) ==
    /\ row.req = waits[w].req /\ row.at > row.req.after
    /\ waits[w].seq # 0 /\ row.seq = waits[w].seq

ReadRow(w) ==
    /\ waits[w].stage = "row"
    /\ \/ \E row \in results : Released(row, w) /\ WaitReturns(w, row)
       \/ (\A row \in results : ~Released(row, w)) /\ WaitGoes(w, "health")
    /\ UNCHANGED WaitLeaves

\* The caller hears that the collector is degraded, or gets nothing in time.
CheckHealth(w) ==
    /\ waits[w].stage = "health"
    /\ IF health = "degraded" \/ waits[w].late
       THEN WaitReturns(w, NoRow) ELSE WaitGoes(w, "sleep")
    /\ UNCHANGED WaitLeaves

\* The deadline of the wait passes; it wakes the thread, which looks once more.
\* Mutant: Condition.wait without a timeout.
NeverWoken(stage) == stage
Woken(stage) == IF stage = "sleep" THEN "registration" ELSE stage

Deadline(w) ==
    /\ waits[w].stage # "done" /\ ~waits[w].late
    /\ waits' = [waits EXCEPT ![w] = [@ EXCEPT !.late = TRUE, !.stage = Woken(waits[w].stage)]]
    /\ UNCHANGED WaitLeaves

-----------------------------------------------------------------------------
CollectorStep == Read \/ ProcessGap \/ Process
WaitStep(w) == ReadRegistration(w) \/ ReadRow(w) \/ CheckHealth(w)
ForwardStep(h) == (\E s \in Session : Forward(h, s)) \/ PostAccepted(h) \/ PostFails(h) \/ Confirm(h)

Next ==
    \/ CollectorStep \/ ReadAgain \/ PollFails \/ ThreadDies \/ Restart
    \/ Answer \/ OtherMessage \/ Trim
    \/ \E s \in Session : Baseline(s)
    \/ \E h \in Handler : ForwardStep(h)
    \/ \E w \in Waiter : StartWait(w) \/ WaitStep(w) \/ Deadline(w)

Spec == Init /\ [][Next]_vars
\* The thread polls as long as it lives; a waiting handler runs; deadlines pass.
FairSpec ==
    /\ Spec
    /\ WF_vars(CollectorStep)
    /\ \A w \in Waiter : WF_vars(WaitStep(w)) /\ WF_vars(Deadline(w))

-----------------------------------------------------------------------------
(* Properties *)

RowSet == [req : Requests, seq : Nat, at : Nat, received : Nat]
SomeReq == Requests \cup {NoReq}
SomeSession == Session \cup {NoReq}
RegistrationSet == [session : Session, req : Requests, seq : Nat, expires : Nat]
ForwardSet == [stage : {"idle", "post", "confirm"}, session : SomeSession, req : SomeReq, seq : Nat]
Stages == {"registration", "row", "health", "sleep", "done"}
WaitSet == [stage : Stages, session : SomeSession, req : SomeReq, seq : Nat,
            late : BOOLEAN, answer : RowSet \cup {NoRow}]

\* The shape of every variable.
TypeOK ==
    /\ inbox \in Seq([req : Requests, session : Session])
    /\ stream \in Seq([req : SomeReq, seq : Nat])
    /\ base \in Nat /\ cursor \in Nat
    /\ faults \in Nat /\ crashes \in Nat
    /\ health \in {"starting", "healthy", "backoff", "degraded"}
    /\ results \in SUBSET RowSet
    /\ DOMAIN stamps \in SUBSET Nat /\ stamps \in [DOMAIN stamps -> Nat] /\ expired \in SUBSET Nat
    /\ registered \in SUBSET RegistrationSet
    /\ pc \in {"poll", "view", "stopped", "dead"}
    /\ view \in [first : Nat, last : Nat]
    /\ issued \in [Session -> Nat \cup {-1}]
    /\ forwards \in [Handler -> ForwardSet]
    /\ waits \in [Waiter -> WaitSet]
    /\ gapSeen \in BOOLEAN

\* A browser is given a result only for a request that it forwarded itself and
\* that Technocore accepted at the very seq the worker answers, although requests
\* of other sessions and other tabs can carry the same job and the same digest
\* and a job can be registered again while a forward is under way
\* (worker/collector.py:183-216, worker/webapp.py:369-379).
AnswerIsOwn ==
    \A w \in Waiter : waits[w].answer # NoRow =>
        LET row == waits[w].answer
        IN /\ row.seq \in DOMAIN inbox
           /\ inbox[row.seq] = [req |-> waits[w].req, session |-> waits[w].session]

\* The cursor never passes a reply that has not been stored, and pruning leaves it
\* alone: the first reply to a request is in the table unless some pruning found it
\* beyond the TTL, or MAX_RESULTS other requests were answered with a reading of the
\* clock that is not before its own.  That is all the code promises: when the clock is
\* set back, or does not advance, a full table may drop the row just added
\* (worker/collector.py:101-157).
NoOlder(p) == {stream[q].req : q \in {n \in DOMAIN stamps : stamps[n] >= stamps[p]}} \ {stream[p].req}
FirstReply(p) == Usable(p) /\ \A e \in 1 .. p - 1 : stream[e].req # stream[p].req
FreshResultsKept ==
    \A p \in 1 .. cursor :
        FirstReply(p) /\ p \notin expired /\ Cardinality(NoOlder(p)) < MaxResults =>
            \E row \in results : row.req = stream[p].req /\ row.at = p

\* The reply to a forwarded request always lies beyond the baseline written in
\* it, so that the collector never discards it as older than the request
\* (worker/collector.py:95-99, worker/protocol.py:332).
RepliesBeyondBaseline ==
    \A p \in DOMAIN stream : stream[p].req # NoReq => Usable(p)

\* A gap is never jumped: once the thread has met one, neither restarts nor later
\* reads move the cursor past it (worker/collector.py:106-123).
GapNeverJumped == [][gapSeen => cursor' = cursor]_vars

\* "explicit sequence-gap degradation" (README.md:273): once a gap has been met
\* the health says so.
DegradationExplicit == gapSeen => health = "degraded"

\* Every message of the room is collected in the end, unless the thread has
\* stopped at a gap or died (worker/collector.py:238-265).
StreamCollected ==
    \A p \in 1 .. MaxStream : p <= Len(stream) ~> cursor >= p \/ gapSeen \/ pc = "dead"

\* The same of "one durable server-side collector" (README.md:105): every message
\* is collected, or the health is degraded.
CollectorDurable ==
    \A p \in 1 .. MaxStream : p <= Len(stream) ~> cursor >= p \/ health = "degraded"

\* Every wait ends, also when nobody notifies the waiting thread any more
\* (worker/collector.py:218-232).
WaitsEnd == \A w \in Waiter : waits[w].stage # "done" ~> waits[w].stage = "done"

-----------------------------------------------------------------------------
(* The inductive invariant of the proofs (module CollectorProofs) *)

\* The thread never has a place of the room before it that the room lacks, and what
\* it has read starts at the oldest message when it starts beyond the cursor's next.
ReadBacked ==
    /\ base >= 1 /\ cursor <= Len(stream)
    /\ pc = "view" =>
          /\ view.first >= 1 /\ view.last <= Len(stream)
          /\ view.first > cursor + 1 => base >= view.first

\* A gap, once met, lies between the cursor and the oldest message for good.
GapKept ==
    gapSeen => /\ base > cursor + 1
               /\ pc = "view" => view.first > cursor + 1

\* A baseline was a place the cursor had reached, wherever it has come since.
BaselinesReached ==
    /\ \A s \in Session : issued[s] <= cursor
    /\ \A h \in Handler : forwards[h].stage # "idle" =>
          /\ forwards[h].session \in Session /\ forwards[h].req \in Requests
          /\ forwards[h].req.after <= cursor
    /\ \A k \in DOMAIN inbox : inbox[k].req.after <= cursor

\* A reply in the room answers the request at the place of the inbox that it quotes.
RepliesBacked ==
    \A p \in DOMAIN stream : stream[p].req # NoReq =>
        stream[p].seq \in DOMAIN inbox /\ inbox[stream[p].seq].req = stream[p].req

\* The clock was read once for each usable message behind the cursor.  A row is the
\* copy of one, with that reading, and there is one for each request.
RowsCopied ==
    /\ DOMAIN stamps = {p \in 1 .. cursor : Usable(p)}
    /\ \A row \in results :
          /\ row.at \in 1 .. cursor /\ Usable(row.at)
          /\ row.req = stream[row.at].req /\ row.seq = stream[row.at].seq
          /\ row.received = stamps[row.at]
    /\ \A row, other \in results : row.req = other.req => row = other

\* A seq that was returned by Technocore, confirmed, or read for a wait is that of a
\* request that the same session sent; the registration may name another request.
SentBy(n, s) == n \in DOMAIN inbox /\ inbox[n].session = s
SessionsKept ==
    /\ \A h \in Handler : forwards[h].stage = "confirm" => SentBy(forwards[h].seq, forwards[h].session)
    /\ \A g \in registered : g.seq # 0 => SentBy(g.seq, g.session)
    /\ \A w \in Waiter : waits[w].seq # 0 => SentBy(waits[w].seq, waits[w].session)

\* What holds before and after every step of the collector and its handlers, and
\* implies every invariant above (worker/collector.py:84-236).
IInv ==
    /\ TypeOK /\ ReadBacked /\ GapKept /\ BaselinesReached /\ RepliesBacked
    /\ RepliesBeyondBaseline /\ RowsCopied /\ SessionsKept /\ AnswerIsOwn /\ FreshResultsKept
=============================================================================

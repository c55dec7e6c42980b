------------------------------- MODULE Worker -------------------------------
(***************************************************************************)
(* The Technocore worker: one sequential loop (worker/service.py,          *)
(* run_forever) that drains an inbox room into a SQLite ledger of jobs     *)
(* (worker/state.py) and posts one signed reply per job.                   *)
(*                                                                         *)
(* The inbox and the reply rooms belong to the external Technocore server. *)
(* A room is a log: messages are numbered from 1, the oldest may be        *)
(* trimmed, and a read returns retained messages in order.  A request text *)
(* stands for its SHA-256 digest, which is all the ledger compares.        *)
(***************************************************************************)
EXTENDS Integers, Sequences, FiniteSets

CONSTANTS
    Did,           \* requesters whose `from` is a well-formed did:key
    NoDid,         \* the sender of an unsigned record
    JobId,
    Text,          \* request texts
    JobOf,         \* the job id each text carries
    RoomOf,        \* the room its reply goes to
    Echo,          \* texts that ask for echo-analysis; the others verify a contribution
    Malformed,     \* texts that parse_request refuses with ProtocolError
    Raising,       \* texts on which it raises some other exception
    Room, SharedRoom,
    ClosedRoom,    \* rooms in which the server refuses every write
    Verdict,       \* what GitHubVerifier.verify may return
    Analysis,      \* the result of analyze, a function of the text alone
    Keepalive,     \* the body of a keepalive post
    Clock,         \* the readings of time.time_ns()
    PendingLimit,  \* the LIMIT of State.pending_jobs, 100 in the code
    ReadLimit,     \* messages in one inbox read, 200 in the code
    MaxInbox,      \* bound: messages sent to the inbox
    MaxFaults,     \* bound: network failures and crashes
    MaxQuiet       \* bound: periods of six days without shared activity

ASSUME RequestAssumption ==
    /\ NoDid \notin Did
    /\ JobOf \in [Text -> JobId]
    /\ RoomOf \in [Text -> Room]
    /\ Malformed \subseteq Text /\ Raising \subseteq Text /\ Echo \subseteq Text
ASSUME RoomAssumption ==
    /\ SharedRoom \in Room
    /\ ClosedRoom \subseteq Room
    /\ \A t \in Echo : RoomOf[t] # SharedRoom
ASSUME KeepaliveAssumption ==
    Keepalive \notin [did : Did, job : JobId, seq : Nat, text : Text,
                      result : Verdict \cup {Analysis}]
ASSUME BoundAssumption ==
    /\ Clock \subseteq Nat
    /\ PendingLimit \in Nat \ {0} /\ ReadLimit \in Nat \ {0}
    /\ MaxInbox \in Nat /\ MaxFaults \in Nat /\ MaxQuiet \in Nat

VARIABLES
    inbox,     \* every message ever sent to the inbox room; its index is its seq
    base,      \* seq of the oldest message the server still retains (first_seq)
    streams,   \* for each room, the worker's posts in it
    jobs,      \* table jobs, in the order of its INTEGER PRIMARY KEY
    cursor,    \* table cursors: the last inbox seq handled
    nonces,    \* table outbound_nonces: the row of each room, -1 when absent
    activity,  \* service_meta.shared_reply_activity: absent, or its age
    pc,        \* the point the loop has reached
    retry,     \* ids of the pending_jobs() snapshot still to be tried
    seq,       \* the inbox record being handled
    last,      \* the last record of the batch that was read
    task,      \* the delivery in progress
    missed,    \* history: inbox messages trimmed before they were read
    faults,    \* failures so far
    quiet      \* quiet periods so far

server == <<inbox, base>>
ledger == <<jobs, cursor>>
volatile == <<retry, seq, last, task>>
budget == <<faults, quiet>>
vars == <<inbox, base, streams, jobs, cursor, nonces, activity, pc,
          retry, seq, last, task, missed, faults, quiet>>

-----------------------------------------------------------------------------
(* Requests, rows and replies *)

WellFormed(m) == m.from \in Did /\ m.text \notin Malformed \cup Raising

IsV2(t) == RoomOf[t] = SharedRoom

\* What a handler may compute: analyze is deterministic, GitHub may say anything.
ResultsOf(t) == IF t \in Echo THEN {Analysis} ELSE Verdict

\* State.existing_claim: the rows of a requester and a job id.
\* Mutant: claims are looked up by digest instead of job id.
ClaimedByDigest(m) == {i \in DOMAIN jobs : jobs[i].did = m.from /\ jobs[i].text = m.text}
Claimed(m) == {i \in DOMAIN jobs : jobs[i].did = m.from /\ JobOf[jobs[i].text] = JobOf[m.text]}

Pending == {i \in DOMAIN jobs : jobs[i].status = "processed"}

\* State.pending_jobs: ORDER BY id LIMIT limit.
\* Mutant: an off-by-one in the LIMIT.
OldestButOne(ids) == {i \in ids : Cardinality({j \in ids : j < i}) < PendingLimit - 1}
Oldest(ids) == {i \in ids : Cardinality({j \in ids : j < i}) < PendingLimit}

\* Mutant: a row without its status.
RowWithoutStatus(m, s, result) ==
    [did |-> m.from, text |-> m.text, seq |-> s, result |-> result, response |-> 0]
Row(m, s, result) ==
    [did |-> m.from, text |-> m.text, seq |-> s, result |-> result,
     status |-> "processed", response |-> 0]

\* canonical_response and canonical_contribution_response: a reply is a
\* function of the row and of nothing else.
\* Mutant: the reply quotes the record at hand.
ReplyToRecord(row) ==
    [did |-> row.did, job |-> JobOf[row.text], seq |-> seq,
     text |-> row.text, result |-> row.result]
Reply(row) ==
    [did |-> row.did, job |-> JobOf[row.text], seq |-> row.seq,
     text |-> row.text, result |-> row.result]

\* 0 stands for the keepalive, a positive number for the id of a job.
Idle == [job |-> 0, nonce |-> 0, posted |-> 0, back |-> "start"]
TaskRoom == IF task.job = 0 THEN SharedRoom ELSE RoomOf[jobs[task.job].text]
TaskBody == IF task.job = 0 THEN Keepalive ELSE Reply(jobs[task.job])

-----------------------------------------------------------------------------
Init ==
    /\ inbox = <<>> /\ base = 1
    /\ streams = [r \in Room |-> <<>>]
    /\ jobs = <<>> /\ cursor = 0
    /\ nonces = [r \in Room |-> -1]
    /\ activity = "none"
    /\ pc = "start" /\ retry = {} /\ seq = 0 /\ last = 0 /\ task = Idle
    /\ missed = {} /\ faults = 0 /\ quiet = 0

(* The environment: requesters, retention, the calendar *)

Send ==
    /\ Len(inbox) < MaxInbox
    /\ \E d \in Did \cup {NoDid}, t \in Text :
          inbox' = Append(inbox, [from |-> d, text |-> t])
    /\ UNCHANGED <<base, streams, ledger, nonces, activity, pc, volatile, missed, budget>>

\* The server drops the oldest message of the inbox, read or not.
Trim ==
    /\ base < Len(inbox)
    /\ base' = base + 1
    /\ UNCHANGED <<inbox, streams, ledger, nonces, activity, pc, volatile, missed, budget>>

SixDaysPass ==
    /\ activity = "fresh" /\ quiet < MaxQuiet
    /\ activity' = "stale"
    /\ quiet' = quiet + 1
    /\ UNCHANGED <<server, streams, ledger, nonces, pc, volatile, missed, faults>>

-----------------------------------------------------------------------------
(* One cycle of run_forever: retry, keepalive, read, handle each record *)

StartCycle ==
    /\ pc = "start"
    /\ retry' = Oldest(Pending)
    /\ pc' = "retry"
    /\ UNCHANGED <<server, streams, ledger, nonces, activity, seq, last, task, missed, budget>>

\* _deliver begins: the reply of job i is rendered; the caller resumes at `back`.
Deliver(i, back) ==
    /\ task' = [job |-> i, nonce |-> 0, posted |-> 0, back |-> back]
    /\ pc' = "nonce"

RetryNext ==
    /\ pc = "retry"
    /\ \E i \in retry :
          /\ \A j \in retry : i <= j
          /\ retry' = retry \ {i}
          /\ Deliver(i, "retry")
    /\ UNCHANGED <<server, streams, ledger, nonces, activity, seq, last, missed, budget>>

\* Mutant: due only while there was no activity at all.
KeepaliveDueInverted == activity = "none"
KeepaliveDue == activity = "stale"

KeepaliveIfDue ==
    /\ pc = "retry" /\ retry = {}
    /\ IF KeepaliveDue
       THEN Deliver(0, "read")
       ELSE pc' = "read" /\ UNCHANGED task
    /\ UNCHANGED <<server, streams, ledger, nonces, activity, retry, seq, last, missed, budget>>

\* A read since the cursor returns what is retained; a gap is only logged.
Read ==
    /\ pc = "read"
    /\ seq' = IF base > cursor + 1 THEN base ELSE cursor + 1
    /\ last' = IF seq' + ReadLimit - 1 < Len(inbox) THEN seq' + ReadLimit - 1 ELSE Len(inbox)
    /\ missed' = missed \cup (cursor + 1 .. base - 1)
    /\ pc' = "record"
    /\ UNCHANGED <<server, streams, ledger, nonces, activity, retry, task, budget>>

EndCycle ==
    /\ pc = "record" /\ seq > last
    /\ pc' = "start"
    /\ UNCHANGED <<server, streams, ledger, nonces, activity, volatile, missed, budget>>

-----------------------------------------------------------------------------
(* Worker.handle on the record inbox[seq] *)

Handling == pc = "record" /\ seq <= last

\* handle returns: the loop moves the cursor over the record.
\* Mutant: the cursor is not moved.
ReturnedEarly == pc' = "start"
Returned == pc' = "advance"

\* handle raises: the loop gives the batch up, the cursor stays behind the record.
\* Mutant: the exception is logged and the record skipped.
RaisedSwallowed == pc' = "advance"
Raised == pc' = "start"

\* State.pending_claim of the request m finds row i.
\* Mutant: the status of the claim is not looked at.
StillClaimed(i, m) == jobs[i].text = m.text
StillPending(i, m) == jobs[i].text = m.text /\ jobs[i].status = "processed"

\* Outcomes unsigned-or-invalid and malformed.
HandleIgnored ==
    /\ Handling
    /\ \/ inbox[seq].from = NoDid
       \/ inbox[seq].text \in Malformed \ Raising
    /\ Returned
    /\ UNCHANGED <<server, streams, ledger, nonces, activity, volatile, missed, budget>>

\* Outcomes job-conflict and, for a completed claim, duplicate.
HandleClaimed ==
    /\ Handling /\ WellFormed(inbox[seq])
    /\ \E i \in Claimed(inbox[seq]) : ~StillPending(i, inbox[seq])
    /\ Returned
    /\ UNCHANGED <<server, streams, ledger, nonces, activity, volatile, missed, budget>>

\* The same request again while its reply is pending: deliver it now.
HandlePending ==
    /\ Handling /\ WellFormed(inbox[seq])
    /\ \E i \in Claimed(inbox[seq]) : StillPending(i, inbox[seq]) /\ Deliver(i, "advance")
    /\ UNCHANGED <<server, streams, ledger, nonces, activity, retry, seq, last, missed, budget>>

\* A new job: compute the result, claim it, start its delivery.  UNIQUE
\* (request_room, request_sequence) turns a second claim of a seq away.
HandleNew ==
    /\ Handling /\ WellFormed(inbox[seq])
    /\ Claimed(inbox[seq]) = {}
    /\ IF \E i \in DOMAIN jobs : jobs[i].seq = seq
       THEN Returned /\ UNCHANGED <<jobs, task>>
       ELSE /\ \E result \in ResultsOf(inbox[seq].text) :
                  jobs' = Append(jobs, Row(inbox[seq], seq, result))
            /\ Deliver(Len(jobs) + 1, "advance")
    /\ UNCHANGED <<server, streams, cursor, nonces, activity, retry, seq, last, missed, budget>>

\* cursor = sequence; state.set_cursor(inbox, cursor)
Advance ==
    /\ pc = "advance"
    /\ cursor' = seq
    /\ seq' = seq + 1
    /\ pc' = "record"
    /\ UNCHANGED <<server, streams, jobs, nonces, activity, retry, last, task, missed, budget>>

-----------------------------------------------------------------------------
(* _deliver and the sending half of keepalive_if_due *)

\* State.next_nonce.  A number allocated for a room that refuses every write is
\* never seen by anybody: its row is left alone, so that the endless retries of
\* such a delivery keep the state finite.
\* Mutant: the clock alone.
NonceFromClock(candidate, row) == candidate
NonceAfter(candidate, row) == IF candidate > row THEN candidate ELSE row + 1

NextNonce ==
    /\ pc = "nonce"
    /\ \E now \in Clock :
          task' = [task EXCEPT !.nonce = NonceAfter(now, nonces[TaskRoom])]
    /\ nonces' = IF TaskRoom \in ClosedRoom THEN nonces
                 ELSE [nonces EXCEPT ![TaskRoom] = task'.nonce]
    /\ pc' = "post"
    /\ UNCHANGED <<server, streams, ledger, activity, retry, seq, last, missed, budget>>

Published ==
    streams' = [streams EXCEPT ![TaskRoom] =
                   Append(@, [body |-> TaskBody, nonce |-> task.nonce])]

\* Mutant: the last seq before the post.
PostedBefore == Len(streams[TaskRoom])
PostedSeq == Len(streams[TaskRoom]) + 1
\* Mutant: complete is left out.
NeverComplete == "activity"
AfterPost == IF task.job = 0 THEN "activity" ELSE "complete"

\* _deliver is over, with or without success: back to its caller.
Resume == pc' = task.back /\ task' = Idle

PostAccepted ==
    /\ pc = "post" /\ TaskRoom \notin ClosedRoom
    /\ Published
    /\ task' = [task EXCEPT !.posted = PostedSeq]
    /\ pc' = AfterPost
    /\ UNCHANGED <<server, ledger, nonces, activity, retry, seq, last, missed, budget>>

\* The server refuses: post_signed raises, _try_deliver records the error and
\* leaves the row as it is; for a keepalive run_forever only logs.
PostRefused ==
    /\ pc = "post" /\ TaskRoom \in ClosedRoom
    /\ Resume
    /\ UNCHANGED <<server, streams, ledger, nonces, activity, retry, seq, last, missed, budget>>

\* State.complete
Completed(row, n) == [row EXCEPT !.status = "completed", !.response = n]

Complete ==
    /\ pc = "complete"
    /\ jobs' = [jobs EXCEPT ![task.job] = Completed(@, task.posted)]
    /\ IF IsV2(jobs[task.job].text)
       THEN pc' = "activity" /\ UNCHANGED task
       ELSE Resume
    /\ UNCHANGED <<server, streams, cursor, nonces, activity, retry, seq, last, missed, budget>>

\* State.set_shared_activity
RecordActivity ==
    /\ pc = "activity"
    /\ activity' = "fresh"
    /\ Resume
    /\ UNCHANGED <<server, streams, ledger, nonces, retry, seq, last, missed, budget>>

-----------------------------------------------------------------------------
(* Failures *)

Fault == faults < MaxFaults /\ faults' = faults + 1

Restarted == pc' = "start" /\ retry' = {} /\ seq' = 0 /\ last' = 0 /\ task' = Idle

\* transport.read raises: the cycle ends and the next one starts.
ReadFails ==
    /\ pc = "read" /\ Fault
    /\ pc' = "start"
    /\ UNCHANGED <<server, streams, ledger, nonces, activity, volatile, missed, quiet>>

\* handle raises before any claim, so the cycle ends with the cursor behind the
\* record: parse_request on a text of Raising, every time ...
HandleRaises ==
    /\ Handling /\ inbox[seq].from \in Did /\ inbox[seq].text \in Raising
    /\ Raised
    /\ UNCHANGED <<server, streams, ledger, nonces, activity, volatile, missed, budget>>

\* ... or verify, on an HTTP exception it does not catch, now and then.
VerifyRaises ==
    /\ Handling /\ WellFormed(inbox[seq]) /\ Fault
    /\ Claimed(inbox[seq]) = {} /\ inbox[seq].text \notin Echo
    /\ Raised
    /\ UNCHANGED <<server, streams, ledger, nonces, activity, volatile, missed, quiet>>

\* A post that never reaches the room.
PostLost ==
    /\ pc = "post" /\ TaskRoom \notin ClosedRoom /\ Fault
    /\ Resume
    /\ UNCHANGED <<server, streams, ledger, nonces, activity, retry, seq, last, missed, quiet>>

\* A post that reaches it although the worker sees a timeout or a bad response.
PostAckLost ==
    /\ pc = "post" /\ TaskRoom \notin ClosedRoom /\ Fault
    /\ Published
    /\ Resume
    /\ UNCHANGED <<server, ledger, nonces, activity, retry, seq, last, missed, quiet>>

\* The process dies between two steps and is started again on its database.
Crash ==
    /\ Fault /\ Restarted
    /\ UNCHANGED <<server, streams, ledger, nonces, activity, missed, quiet>>

-----------------------------------------------------------------------------
Cycle == StartCycle \/ RetryNext \/ KeepaliveIfDue \/ Read \/ EndCycle
Handle == HandleIgnored \/ HandleClaimed \/ HandlePending \/ HandleNew
          \/ HandleRaises \/ Advance
Delivery == NextNonce \/ PostAccepted \/ PostRefused \/ Complete \/ RecordActivity
WorkerStep == Cycle \/ Handle \/ Delivery

Environment == Send \/ Trim \/ SixDaysPass
Failure == ReadFails \/ VerifyRaises \/ PostLost \/ PostAckLost \/ Crash

Next == WorkerStep \/ Environment \/ Failure

Spec == Init /\ [][Next]_vars
\* The loop is one thread that never stops by itself: whenever it can take a
\* step it eventually does.  Nothing is assumed of requesters or of failures.
FairSpec == Spec /\ WF_vars(WorkerStep)

-----------------------------------------------------------------------------
(* Properties *)

Places == {"start", "retry", "read", "record", "advance", "nonce", "post", "complete", "activity"}

Envelopes == [from : Did \cup {NoDid}, text : Text]
Results == Verdict \cup {Analysis}
ReplySet == [did : Did, job : JobId, seq : Nat, text : Text, result : Results]
PostSet == [body : {Keepalive} \cup ReplySet, nonce : Int]
RowSet == [did : Did, text : Text, seq : Nat, result : Results,
           status : {"processed", "completed"}, response : Nat]
TaskSet == [job : Nat, nonce : Int, posted : Nat,
            back : {"start", "retry", "read", "advance"}]

\* The shape of every variable.
TypeOK ==
    /\ inbox \in Seq(Envelopes)
    /\ base \in Nat
    /\ streams \in [Room -> Seq(PostSet)]
    /\ jobs \in Seq(RowSet)
    /\ cursor \in Nat
    /\ nonces \in [Room -> Int]
    /\ activity \in {"none", "fresh", "stale"}
    /\ pc \in Places
    /\ retry \in SUBSET Nat
    /\ seq \in Nat /\ last \in Nat
    /\ task \in TaskSet
    /\ missed \in SUBSET Nat
    /\ faults \in Nat /\ quiet \in Nat

\* The posts of a room that are replies to requests, by position.
Replies(r) == {k \in DOMAIN streams[r] : streams[r][k].body # Keepalive}

\* However often a request is sent again, retried or delivered again after a
\* crash, every reply the worker ever publishes for one requester and job id is
\* the same reply in the same room (worker/service.py:84-89, 202-207).
OneAnswerPerJob ==
    \A r1, r2 \in Room : \A k1 \in Replies(r1), k2 \in Replies(r2) :
        LET b1 == streams[r1][k1].body
            b2 == streams[r2][k2].body
        IN b1.did = b2.did /\ b1.job = b2.job => r1 = r2 /\ b1 = b2

\* A message behind the cursor was lost to retention, or is not a request, or
\* its requester and job id hold a claim made by it or by an earlier message:
\* no crash or failure lets the cursor pass a request that is not in the ledger
\* (worker/service.py:205-207).
Accounted(s) ==
    \/ s \in missed
    \/ ~WellFormed(inbox[s])
    \/ \E i \in Claimed(inbox[s]) : jobs[i].seq <= s
RequestsAccounted == \A s \in 1 .. cursor : Accounted(s)

\* A job id belongs to the first request that used it: a claim is never taken by
\* a later text while an earlier one was there to be read (worker/service.py:84).
FirstClaimWins ==
    \A i \in DOMAIN jobs : \A s \in 1 .. jobs[i].seq - 1 :
        WellFormed(inbox[s]) /\ i \in Claimed(inbox[s]) => s \in missed

\* A completed row names the position at which its own reply stands in its own
\* room: the acknowledgement of one post is never recorded for another job
\* (worker/service.py:163-166).
CompletedReplied ==
    \A i \in DOMAIN jobs : jobs[i].status = "completed" =>
        LET stream == streams[RoomOf[jobs[i].text]]
        IN /\ jobs[i].response \in DOMAIN stream
           /\ stream[jobs[i].response].body = Reply(jobs[i])

\* The posts of a room carry strictly increasing nonces, through crashes, lost
\* posts and a clock that steps back (worker/state.py:104-116).
NoncesIncrease ==
    \A r \in Room : \A k \in DOMAIN streams[r] : \A l \in 1 .. k - 1 :
        streams[r][l].nonce < streams[r][k].nonce

\* Delivery is at least once, and every extra copy is paid for by a failure that
\* separated the post from complete (worker/service.py:163-166).
AllReplies == UNION {{r} \X Replies(r) : r \in Room}
DuplicatesNeedFailures ==
    Cardinality(AllReplies)
        <= Cardinality(DOMAIN jobs \ Pending) + faults + (IF pc = "complete" THEN 1 ELSE 0)

\* Once a row is completed its reply is never posted again, whatever snapshot of
\* pending jobs the loop still holds (worker/service.py:192-193, 88-89).
NoReplyAfterCompletion ==
    [][\A i \in DOMAIN jobs : jobs[i].status = "completed" =>
          LET r == RoomOf[jobs[i].text]
          IN \A k \in DOMAIN streams'[r] \ DOMAIN streams[r] :
                streams'[r][k].body # Reply(jobs[i])]_vars

(* The inductive invariant *)

Delivering == pc \in {"nonce", "post", "complete", "activity"}
InBatch == pc \in {"record", "advance"} \/ (Delivering /\ task.back = "advance")

\* One row per requester and job id, copied from the message it names.
RowsBacked ==
    /\ \A i, j \in DOMAIN jobs :
          jobs[i].did = jobs[j].did /\ JobOf[jobs[i].text] = JobOf[jobs[j].text] => i = j
    /\ \A i \in DOMAIN jobs :
          /\ jobs[i].seq \in DOMAIN inbox
          /\ jobs[i].did = inbox[jobs[i].seq].from /\ jobs[i].text = inbox[jobs[i].seq].text

\* A row ahead of the cursor survived a crash; retention alone can separate them.
CursorBehindRows ==
    /\ cursor <= Len(inbox)
    /\ \A s \in missed : s < base
    /\ \A i \in DOMAIN jobs : \A s \in cursor + 1 .. jobs[i].seq - 1 : s \in missed

\* In a batch, everything between the cursor and the record was missed, and once
\* the record is dealt with the cursor may move over it.
BatchPosition ==
    InBatch =>
        /\ cursor < seq /\ last <= Len(inbox)
        /\ \A s \in cursor + 1 .. seq - 1 : s \in missed
        /\ \A i \in DOMAIN jobs : jobs[i].seq <= seq
        /\ pc # "record" => seq <= last /\ Accounted(seq)

\* Every reply in a room renders a row that is answered in that room.
PostsBacked ==
    \A r \in Room : \A k \in Replies(r) :
        \E i \in DOMAIN jobs : RoomOf[jobs[i].text] = r /\ streams[r][k].body = Reply(jobs[i])

\* Only unsettled rows are delivered, each by one party at a time.
DeliveryBacked ==
    /\ \A i \in retry : i \in Pending
    /\ pc # "retry" /\ ~(Delivering /\ task.back = "retry") => retry = {}
    /\ Delivering =>
          /\ task.job \notin retry
          /\ task.job # 0 => task.job \in DOMAIN jobs
          /\ task.job # 0 /\ pc # "activity" => task.job \in Pending
    /\ pc = "complete" =>
          /\ task.job # 0
          /\ task.posted \in DOMAIN streams[TaskRoom]
          /\ streams[TaskRoom][task.posted].body = TaskBody

\* The nonce row of an open room is ahead of every nonce used in it.
NoncesAhead ==
    /\ \A r \in Room : \A k \in DOMAIN streams[r] : streams[r][k].nonce <= nonces[r]
    /\ pc = "post" /\ TaskRoom \notin ClosedRoom =>
          /\ task.nonce = nonces[TaskRoom]
          /\ \A k \in DOMAIN streams[TaskRoom] : streams[TaskRoom][k].nonce < task.nonce

\* What the bounds leave room for, and when a keepalive is under way.
BudgetKept ==
    /\ Len(inbox) <= MaxInbox /\ faults <= MaxFaults /\ quiet <= MaxQuiet
    /\ Delivering /\ task.job = 0 => activity = "stale"

\* Every post is paid for by a job that is done, a quiet period or a failure.
AllPosts == UNION {{r} \X DOMAIN streams[r] : r \in Room}
Unrecorded == pc = "complete" \/ (pc = "activity" /\ task.job = 0)
PostsPaid ==
    /\ IsFiniteSet(AllPosts)
    /\ Cardinality(AllPosts) + (IF activity = "stale" THEN 1 ELSE 0)
          <= Cardinality(DOMAIN jobs \ Pending) + quiet + faults + (IF Unrecorded THEN 1 ELSE 0)

\* What holds in every reachable state and is preserved by every step: the
\* properties above, with the facts about the loop's local state they need ...
LoopInv ==
    /\ TypeOK /\ RequestsAccounted /\ FirstClaimWins /\ CompletedReplied /\ NoncesIncrease
    /\ RowsBacked /\ CursorBehindRows /\ BatchPosition /\ PostsBacked /\ DeliveryBacked
    /\ NoncesAhead

\* ... and what is counted.
IInv == LoopInv /\ BudgetKept /\ PostsPaid /\ DuplicatesNeedFailures

-----------------------------------------------------------------------------
(* Liveness, under FairSpec *)

\* Every message of the inbox is handled in the end, through crashes, failed
\* reads and lost posts, unless a text on which parse_request raises something
\* other than ProtocolError stands before it (worker/service.py:79-82, 198-212).
Blocked(s) == \E b \in DOMAIN inbox : /\ cursor < b /\ b <= s
                                    /\ inbox[b].from \in Did /\ inbox[b].text \in Raising
InboxDrained ==
    \A s \in 1 .. MaxInbox : s <= Len(inbox) ~> cursor >= s \/ s \in missed \/ Blocked(s)

\* Every claimed job whose room takes writes is answered and completed, unless
\* the jobs of closed rooms fill a whole pending_jobs() page
\* (worker/service.py:192-193, worker/state.py:157-163).
Stuck == {i \in DOMAIN jobs : RoomOf[jobs[i].text] \in ClosedRoom}
Owed(i) == i \in DOMAIN jobs \ Stuck
Done(i) == i \in DOMAIN jobs /\ jobs[i].status = "completed"
RepliesDelivered ==
    \A i \in 1 .. MaxInbox :
        Owed(i) ~> Done(i) \/ Cardinality(Stuck) >= PendingLimit

\* "durable outbox retries all delivery failures" (worker/service.py:132),
\* whatever other jobs are pending.
OutboxRetriesAll == \A i \in 1 .. MaxInbox : Owed(i) ~> Done(i)

\* The shared reply room is kept alive: after six days without activity some
\* post is recorded in the end (worker/service.py:171-182, 194-197).
SharedRoomKeptAlive == activity = "stale" ~> activity = "fresh"
=============================================================================

-------------------------- MODULE CollectorProofs --------------------------
(* Theorems about Collector for every value of its constants. *)
EXTENDS Collector, FiniteSetTheorems, SequenceTheorems, TLAPS

-----------------------------------------------------------------------------
(* Type correctness *)

\* What no thread does is well typed (worker/collector.py:218-232, worker/webapp.py:355-379).
LEMMA NothingTyped == NoForward \in ForwardSet /\ NoWait \in WaitSet /\ NoView \in [first : Nat, last : Nat]
<1>1. NoForward \in ForwardSet
  BY SMT DEF NoForward, ForwardSet, SomeReq, SomeSession
<1>2. NoWait \in WaitSet
  BY SMT DEF NoWait, WaitSet, Stages, SomeReq, SomeSession
<1>3. NoView \in [first : Nat, last : Nat]
  BY SMT DEF NoView
<1>4. QED
  BY <1>1, <1>2, <1>3

\* The initial state is well typed.
LEMMA InitTyped == Init => TypeOK
<1>1. SUFFICES ASSUME Init PROVE TypeOK
  OBVIOUS
<1>2. forwards \in [Handler -> ForwardSet] /\ waits \in [Waiter -> WaitSet] /\ view \in [first : Nat, last : Nat]
  BY <1>1, NothingTyped, Zenon DEF Init
<1>3. inbox \in Seq([req : Requests, session : Session]) /\ stream \in Seq([req : SomeReq, seq : Nat])
  BY <1>1, SMT DEF Init
<1>4. results \in SUBSET RowSet /\ registered \in SUBSET RegistrationSet /\ issued \in [Session -> Nat \cup {-1}]
  BY <1>1, SMT DEF Init
<1>5. base \in Nat /\ cursor \in Nat /\ faults \in Nat /\ crashes \in Nat
  BY <1>1, SMT DEF Init
<1>8. DOMAIN stamps \in SUBSET Nat /\ stamps \in [DOMAIN stamps -> Nat] /\ expired \in SUBSET Nat
  BY <1>1, SMT DEF Init
<1>6. /\ gapSeen \in BOOLEAN
      /\ health \in {"starting", "healthy", "backoff", "degraded"} /\ pc \in {"poll", "view", "stopped", "dead"}
  BY <1>1, Zenon DEF Init
<1>7. QED
  BY <1>2, <1>3, <1>4, <1>5, <1>6, <1>8, Zenon DEF TypeOK

\* Another stage for a wait, with or without the seq that it read.
LEMMA WaitStage ==
    ASSUME NEW x \in WaitSet, NEW stage \in Stages, NEW n \in Nat
    PROVE  /\ [x EXCEPT !.stage = stage] \in WaitSet
           /\ [x EXCEPT !.stage = stage, !.seq = n] \in WaitSet
           /\ [x EXCEPT !.late = TRUE, !.stage = stage] \in WaitSet
<1>1. [x EXCEPT !.stage = stage] \in WaitSet
  BY SMT DEF WaitSet
<1>3. [x EXCEPT !.stage = stage, !.seq = n] \in WaitSet
  <2>1. PICK y \in WaitSet : y = [x EXCEPT !.stage = stage]
    BY <1>1
  <2>2. [y EXCEPT !.seq = n] \in WaitSet
    BY SMT DEF WaitSet
  <2>3. [x EXCEPT !.stage = stage, !.seq = n] = [y EXCEPT !.seq = n]
    BY <2>1, Zenon
  <2>4. QED
    BY <2>2, <2>3
<1>4. [x EXCEPT !.late = TRUE, !.stage = stage] \in WaitSet
  <2>1. PICK y \in WaitSet : y = [x EXCEPT !.late = TRUE]
    <3>1. [x EXCEPT !.late = TRUE] \in WaitSet
      BY Zenon DEF WaitSet
    <3>2. QED
      BY <3>1
  <2>2. [y EXCEPT !.stage = stage] \in WaitSet
    BY SMT DEF WaitSet
  <2>3. [x EXCEPT !.late = TRUE, !.stage = stage] = [y EXCEPT !.stage = stage]
    BY <2>1, Zenon
  <2>4. QED
    BY <2>2, <2>3
<1>5. QED
  BY <1>1, <1>3, <1>4

\* Waking the waiting threads changes their stages only (worker/collector.py:145-146).
LEMMA Waking ==
    ASSUME waits \in [Waiter -> WaitSet], Notified
    PROVE  /\ waits' \in [Waiter -> WaitSet]
           /\ \A w \in Waiter : /\ waits'[w].session = waits[w].session /\ waits'[w].req = waits[w].req
                                /\ waits'[w].seq = waits[w].seq /\ waits'[w].answer = waits[w].answer
<1>1. ASSUME NEW w \in Waiter
      PROVE  /\ waits'[w] \in WaitSet
             /\ waits'[w].session = waits[w].session /\ waits'[w].req = waits[w].req
             /\ waits'[w].seq = waits[w].seq /\ waits'[w].answer = waits[w].answer
  <2>1. waits[w] \in WaitSet
    BY Zenon
  <2>2. CASE waits[w].stage = "sleep"
    <3>1. waits'[w] = [waits[w] EXCEPT !.stage = "registration"]
      BY <2>2, Zenon DEF Notified
    <3>2. QED
      BY <2>1, <3>1, SMT DEF WaitSet, Stages
  <2>3. CASE waits[w].stage # "sleep"
    BY <2>1, <2>3, Zenon DEF Notified
  <2>4. QED
    BY <2>2, <2>3
<1>2. waits' = [w \in Waiter |-> waits'[w]]
  BY Zenon DEF Notified
<1>3. QED
  BY <1>1, <1>2, Zenon

\* Every reading of the clock is a number.
LEMMA Readings == ASSUME NEW now \in Times PROVE now \in Nat /\ now + Ttl \in Nat
<1>1. now \in Nat /\ Ttl \in Nat
  BY CollectorAssumption, Zenon
<1>2. QED
  BY <1>1, SMT

\* The usable messages of a batch are messages of the room, beyond the cursor.
LEMMA ArrivedPlaces ==
    ASSUME TypeOK, ReadBacked, pc = "view", NEW p \in Arrived
    PROVE  /\ p \in 1 .. Len(stream) /\ p \in Nat /\ p > cursor /\ p <= view.last /\ p >= view.first
           /\ Usable(p)
<1>1. view.first \in Nat /\ view.last \in Nat /\ cursor \in Nat /\ Len(stream) \in Nat
  BY SMT DEF TypeOK
<1>2. view.first >= 1 /\ view.last <= Len(stream)
  BY Zenon DEF ReadBacked
<1>3. p \in view.first .. view.last /\ p > cursor /\ Usable(p)
  BY Zenon DEF Arrived
<1>4. QED
  BY <1>1, <1>2, <1>3, SMT

\* The rows a batch adds are rows (worker/collector.py:110-137).
LEMMA ReceivedTyped ==
    ASSUME TypeOK, ReadBacked, pc = "view", NEW stamp \in [Arrived -> Times]
    PROVE  Received(stamp) \in SUBSET RowSet
<1>1. ASSUME NEW p \in Arrived
      PROVE  [req |-> stream[p].req, seq |-> stream[p].seq, at |-> p, received |-> stamp[p]] \in RowSet
  <2>1. p \in 1 .. Len(stream) /\ p \in Nat /\ Usable(p)
    BY ArrivedPlaces, Zenon
  <2>2. stream[p] \in [req : SomeReq, seq : Nat]
    <3>1. stream \in Seq([req : SomeReq, seq : Nat])
      BY Zenon DEF TypeOK
    <3>2. QED
      BY <2>1, <3>1, ElementOfSeq, Zenon
  <2>3. stream[p].req \in Requests /\ stream[p].seq \in Nat
    BY <2>1, <2>2, SMT DEF Usable, SomeReq
  <2>4. stamp[p] \in Nat
    BY Readings, Zenon
  <2>5. QED
    BY <2>1, <2>3, <2>4, SMT DEF RowSet
<1>2. QED
  BY <1>1, Zenon DEF Received

\* A response is a range of places.
LEMMA ViewTyped ==
    ASSUME TypeOK, NEW first \in Nat
    PROVE  /\ ViewFrom(first) \in [first : Nat, last : Nat]
           /\ ViewFrom(first).first = first /\ ViewFrom(first).last <= Len(stream)
<1>1. ReadLimit \in Nat \ {0} /\ stream \in Seq([req : SomeReq, seq : Nat])
  BY CollectorAssumption, Zenon DEF TypeOK
<1>2. Len(stream) \in Nat
  BY <1>1, LenProperties, Zenon
<1>3. QED
  BY <1>1, <1>2, SMT DEF ViewFrom

\* Where a read starts (worker/collector.py:234-236, worker/transport.py:30-44).
LEMMA ReadStarts ==
    ASSUME TypeOK, ReadBacked, Read \/ ReadAgain
    PROVE  \E first \in Nat :
              /\ view' = ViewFrom(first) /\ first >= 1
              /\ first > cursor + 1 => base >= first
              /\ base > cursor + 1 => first > cursor + 1
<1>1. base \in Nat /\ cursor \in Nat /\ base >= 1
  BY Zenon DEF TypeOK, ReadBacked
<1>2. CASE Read
  <2>1. PICK first : first = IF base > cursor + 1 THEN base ELSE cursor + 1
    OBVIOUS
  <2>2. view' = ViewFrom(first)
    BY <1>2, <2>1, Zenon DEF Read
  <2>3. /\ first \in Nat /\ first >= 1
        /\ first > cursor + 1 => base >= first
        /\ base > cursor + 1 => first > cursor + 1
    BY <1>1, <2>1, SMT
  <2>4. QED
    BY <2>2, <2>3, Zenon
<1>3. CASE ReadAgain
  <2>1. PICK first \in base .. cursor : view' = ViewFrom(first)
    BY <1>3, Zenon DEF ReadAgain
  <2>2. first \in Nat /\ first >= 1 /\ ~(first > cursor + 1) /\ ~(base > cursor + 1)
    BY <1>1, <2>1, SMT
  <2>3. QED
    BY <2>1, <2>2, Zenon
<1>4. QED
  BY <1>2, <1>3

\* A read is a range of places (worker/collector.py:234-236).
LEMMA ReadTyped ==
    ASSUME TypeOK, ReadBacked, Read \/ ReadAgain
    PROVE  TypeOK'
<1>1. view' \in [first : Nat, last : Nat]
  BY ReadStarts, ViewTyped, Zenon
<1>2. faults' \in Nat /\ crashes' \in Nat
  BY SMT DEF TypeOK, Read, ReadAgain, Fault, budget
<1>3. QED
  BY <1>1, <1>2, Zenon DEF TypeOK, Read, ReadAgain, room, database, web

\* The pruning of the results keeps rows only (worker/collector.py:150-157).
LEMMA NewestRows ==
    ASSUME NEW stamp, NEW now, NEW then, Commit(stamp, now, then)
    PROVE  results' \in SUBSET (results \cup Received(stamp))
BY Zenon DEF Commit, Newest

\* The readings of a batch join the earlier ones.
LEMMA StampsJoin ==
    ASSUME TypeOK, ReadBacked, pc = "view", NEW stamp \in [Arrived -> Times], NEW now, NEW then,
           Commit(stamp, now, then), DOMAIN stamps \in SUBSET (1 .. cursor)
    PROVE  /\ DOMAIN stamps' = DOMAIN stamps \cup Arrived
           /\ \A p \in DOMAIN stamps : stamps'[p] = stamps[p]
           /\ \A p \in Arrived : stamps'[p] = stamp[p]
<1>1. stamps' = [p \in DOMAIN stamps \cup Arrived |-> IF p \in Arrived THEN stamp[p] ELSE stamps[p]]
  BY Zenon DEF Commit
<1>2. ASSUME NEW p \in DOMAIN stamps PROVE p \notin Arrived
  <2>1. p \in 1 .. cursor /\ cursor \in Nat
    BY Zenon DEF TypeOK
  <2>2. ~(p > cursor)
    BY <2>1, SMT
  <2>3. QED
    BY <2>2, Zenon DEF Arrived
<1>3. QED
  BY <1>1, <1>2, Zenon

\* A batch leaves well-typed tables (worker/collector.py:101-157).
LEMMA ProcessTyped ==
    ASSUME TypeOK, ReadBacked, RowsCopied, Process
    PROVE  TypeOK'
<1>1. PICK stamp \in [Arrived -> Times], now \in Times, then \in Times : Commit(stamp, now, then)
  BY Zenon DEF Process
<1>2. results' \in SUBSET RowSet
  <2>1. results \in SUBSET RowSet /\ Received(stamp) \in SUBSET RowSet
    BY ReceivedTyped, Zenon DEF TypeOK, Process
  <2>2. results' \in SUBSET (results \cup Received(stamp))
    BY <1>1, NewestRows, Zenon
  <2>3. QED
    BY <2>1, <2>2, Zenon
<1>3. registered' \in SUBSET RegistrationSet
  BY <1>1, SMT DEF TypeOK, Commit
<1>4. DOMAIN stamps' \in SUBSET Nat /\ stamps' \in [DOMAIN stamps' -> Nat] /\ expired' \in SUBSET Nat
  <2>1. DOMAIN stamps \in SUBSET Nat /\ stamps \in [DOMAIN stamps -> Nat] /\ expired \in SUBSET Nat
    BY Zenon DEF TypeOK
  <2>2. Arrived \in SUBSET Nat
    BY ArrivedPlaces, Zenon DEF Process
  <2>3. \A p \in Arrived : stamp[p] \in Nat
    BY Readings, Zenon
  <2>4. stamps' = [p \in DOMAIN stamps \cup Arrived |-> IF p \in Arrived THEN stamp[p] ELSE stamps[p]]
    BY <1>1, Zenon DEF Commit
  <2>5. DOMAIN stamps' = DOMAIN stamps \cup Arrived
    BY <2>4, Zenon
  <2>6. expired' \in SUBSET (expired \cup DOMAIN stamps')
    BY <1>1, Zenon DEF Commit
  <2>7. DOMAIN stamps' \in SUBSET Nat
    BY <2>1, <2>2, <2>5, Zenon
  <2>8. \A p \in DOMAIN stamps \cup Arrived : (IF p \in Arrived THEN stamp[p] ELSE stamps[p]) \in Nat
    BY <2>1, <2>3, Zenon
  <2>9. stamps' \in [DOMAIN stamps' -> Nat]
    BY <2>4, <2>5, <2>8, Zenon
  <2>10. QED
    BY <2>1, <2>6, <2>7, <2>9, Zenon
<1>5. cursor' \in Nat /\ view' \in [first : Nat, last : Nat]
  <2>1. cursor \in Nat /\ view.last \in Nat
    BY SMT DEF TypeOK
  <2>2. QED
    BY <2>1, NothingTyped, Zenon DEF Process, CursorAfter
<1>6. waits' \in [Waiter -> WaitSet]
  BY Waking, Zenon DEF TypeOK, Process
<1>7. QED
  BY <1>2, <1>3, <1>4, <1>5, <1>6, Zenon DEF TypeOK, Process, room, budget

\* The ways in which a poll ends without a batch.
LEMMA EndTyped ==
    ASSUME TypeOK, ProcessGap \/ PollFails \/ ThreadDies
    PROVE  TypeOK'
<1>1. CASE ProcessGap
  <2>1. waits' \in [Waiter -> WaitSet]
    BY <1>1, Waking, Zenon DEF TypeOK, ProcessGap
  <2>2. QED
    BY <1>1, <2>1, NothingTyped, Zenon DEF TypeOK, ProcessGap, room, budget
<1>2. CASE PollFails
  <2>1. waits' \in [Waiter -> WaitSet]
    BY <1>2, Waking, Zenon DEF TypeOK, PollFails
  <2>2. faults' \in Nat
    BY <1>2, SMT DEF TypeOK, PollFails, Fault
  <2>3. QED
    BY <1>2, <2>1, <2>2, NothingTyped, Zenon DEF TypeOK, PollFails, room
<1>3. CASE ThreadDies
  <2>1. crashes' \in Nat
    BY <1>3, SMT DEF TypeOK, ThreadDies, Crash
  <2>2. QED
    BY <1>3, <2>1, NothingTyped, Zenon DEF TypeOK, ThreadDies, room, database, web
<1>4. QED
  BY <1>1, <1>2, <1>3

\* A restart forgets what the process kept in memory (worker/collector.py:45-83).
LEMMA RestartTyped ==
    ASSUME TypeOK, Restart
    PROVE  TypeOK'
<1>1. crashes' \in Nat
  BY SMT DEF TypeOK, Restart, Crash
<1>2. issued' \in [Session -> Nat \cup {-1}]
  BY SMT DEF Restart
<1>3. forwards' \in [Handler -> ForwardSet] /\ waits' \in [Waiter -> WaitSet]
  BY NothingTyped, Zenon DEF Restart
<1>4. QED
  BY <1>1, <1>2, <1>3, NothingTyped, Zenon DEF TypeOK, Restart, room, database

\* The worker and Technocore.
LEMMA WorldTyped ==
    ASSUME TypeOK, Answer \/ OtherMessage \/ Trim
    PROVE  TypeOK'
<1>1. CASE Answer
  <2>1. PICK k \in DOMAIN inbox : stream' = Append(stream, [req |-> inbox[k].req, seq |-> k])
    BY <1>1, Zenon DEF Answer
  <2>2. inbox \in Seq([req : Requests, session : Session])
    BY Zenon DEF TypeOK
  <2>3. k \in 1 .. Len(inbox) /\ Len(inbox) \in Nat
    BY <2>2, LenProperties, Zenon
  <2>4. inbox[k] \in [req : Requests, session : Session]
    BY <2>2, <2>3, ElementOfSeq, Zenon
  <2>5. [req |-> inbox[k].req, seq |-> k] \in [req : SomeReq, seq : Nat]
    BY <2>3, <2>4, SMT DEF SomeReq
  <2>6. stream' \in Seq([req : SomeReq, seq : Nat])
    BY <2>1, <2>5, AppendProperties, Zenon DEF TypeOK
  <2>7. QED
    BY <1>1, <2>6, Zenon DEF TypeOK, Answer, database, thread, web, budget
<1>2. CASE OtherMessage
  <2>1. [req |-> NoReq, seq |-> 0] \in [req : SomeReq, seq : Nat]
    BY SMT DEF SomeReq
  <2>2. stream' \in Seq([req : SomeReq, seq : Nat])
    BY <1>2, <2>1, AppendProperties, Zenon DEF TypeOK, OtherMessage
  <2>3. QED
    BY <1>2, <2>2, Zenon DEF TypeOK, OtherMessage, database, thread, web, budget
<1>3. CASE Trim
  <2>1. base' \in Nat
    BY <1>3, SMT DEF TypeOK, Trim
  <2>2. QED
    BY <1>3, <2>1, Zenon DEF TypeOK, Trim, database, thread, web, budget
<1>4. QED
  BY <1>1, <1>2, <1>3

\* The record of a forward in its two later stages.
LEMMA ForwardRecord ==
    ASSUME NEW s \in Session, NEW r \in Requests
    PROVE  [stage |-> "post", session |-> s, req |-> r, seq |-> 0] \in ForwardSet
BY SMT DEF ForwardSet, SomeReq, SomeSession

\* A forward that Technocore accepted (worker/webapp.py:369-379).
LEMMA ForwardConfirm ==
    ASSUME NEW f \in ForwardSet, NEW n \in Nat
    PROVE  [f EXCEPT !.stage = "confirm", !.seq = n] \in ForwardSet
<1>1. PICK y \in ForwardSet : y = [f EXCEPT !.stage = "confirm"]
  <2>1. [f EXCEPT !.stage = "confirm"] \in ForwardSet
    BY SMT DEF ForwardSet
  <2>2. QED
    BY <2>1
<1>2. [y EXCEPT !.seq = n] \in ForwardSet
  BY SMT DEF ForwardSet
<1>3. [f EXCEPT !.stage = "confirm", !.seq = n] = [y EXCEPT !.seq = n]
  BY <1>1, Zenon
<1>4. QED
  BY <1>2, <1>3

\* The request that a session forwards.
LEMMA RequestTyped ==
    ASSUME TypeOK, NEW s \in Session, issued[s] # -1, NEW d \in Did, NEW j \in JobId
    PROVE  [did |-> d, job |-> j, after |-> issued[s]] \in Requests
<1>1. issued[s] \in Nat
  BY SMT DEF TypeOK
<1>2. QED
  BY <1>1, SMT DEF Requests

\* Its registration (worker/collector.py:168-181).
LEMMA RegistrationTyped ==
    ASSUME NEW s \in Session, NEW r \in Requests, NEW now \in Times
    PROVE  Registration(s, r, 0, now) \in RegistrationSet
<1>1. now + Ttl \in Nat
  BY Readings, Zenon
<1>2. QED
  BY <1>1, SMT DEF Registration, RegistrationSet

\* What a forward does to the tables, for the request r it makes.
LEMMA Forwarding ==
    ASSUME TypeOK, NEW h \in Handler, NEW s \in Session, Forward(h, s)
    PROVE  \E r \in Requests, now \in Times :
              /\ r.after = issued[s]
              /\ registered' = {e \in registered : ~SameJob(e, s, r)} \cup {Registration(s, r, 0, now)}
              /\ forwards' = [forwards EXCEPT ![h] =
                     [stage |-> "post", session |-> s, req |-> r, seq |-> 0]]
<1>1. PICK d \in Did, j \in JobId, now \in Times :
         /\ issued[s] # -1
         /\ registered' = {e \in registered : ~SameJob(e, s, [did |-> d, job |-> j, after |-> issued[s]])}
              \cup {Registration(s, [did |-> d, job |-> j, after |-> issued[s]], 0, now)}
         /\ forwards' = [forwards EXCEPT ![h] =
                [stage |-> "post", session |-> s, req |-> [did |-> d, job |-> j, after |-> issued[s]], seq |-> 0]]
  BY Zenon DEF Forward
<1>2. PICK r \in Requests : r = [did |-> d, job |-> j, after |-> issued[s]]
  BY <1>1, RequestTyped, Zenon
<1>3. r.after = issued[s]
  BY <1>2, SMT
<1>4. QED
  BY <1>1, <1>2, <1>3, Zenon

\* What the inbox gains is a request and its session.
LEMMA AcceptedTyped ==
    ASSUME TypeOK, BaselinesReached, NEW h \in Handler, forwards[h].stage # "idle", Accepted(h)
    PROVE  inbox' \in Seq([req : Requests, session : Session])
<1>1. [req |-> forwards[h].req, session |-> forwards[h].session] \in [req : Requests, session : Session]
  BY SMT DEF BaselinesReached
<1>2. QED
  BY <1>1, AppendProperties, Zenon DEF TypeOK, Accepted

\* The handlers of the browser's requests (worker/webapp.py:281-284, 355-379).
LEMMA HandlerTyped ==
    ASSUME TypeOK, BaselinesReached,
           \/ \E s \in Session : Baseline(s)
           \/ \E h \in Handler : ForwardStep(h)
    PROVE  TypeOK'
<1>1. ASSUME NEW s \in Session, Baseline(s) PROVE TypeOK'
  <2>1. issued' \in [Session -> Nat \cup {-1}]
    BY <1>1, SMT DEF TypeOK, Baseline, BaselineValue
  <2>2. QED
    BY <1>1, <2>1, Zenon DEF TypeOK, Baseline, room, database, thread, budget
<1>2. ASSUME NEW h \in Handler, NEW s \in Session, Forward(h, s) PROVE TypeOK'
  <2>1. PICK r \in Requests, now \in Times :
           /\ registered' = {e \in registered : ~SameJob(e, s, r)} \cup {Registration(s, r, 0, now)}
           /\ forwards' = [forwards EXCEPT ![h] =
                  [stage |-> "post", session |-> s, req |-> r, seq |-> 0]]
    BY <1>2, Forwarding, Zenon
  <2>2. Registration(s, r, 0, now) \in RegistrationSet
    BY RegistrationTyped, Zenon
  <2>3. registered' \in SUBSET RegistrationSet
    <3>1. registered \in SUBSET RegistrationSet
      BY Zenon DEF TypeOK
    <3>2. QED
      BY <2>1, <2>2, <3>1, SMT
  <2>4. forwards' \in [Handler -> ForwardSet]
    <3>1. [stage |-> "post", session |-> s, req |-> r, seq |-> 0] \in ForwardSet
      BY <2>2, ForwardRecord, Zenon
    <3>2. QED
      BY <2>1, <3>1, Zenon DEF TypeOK
  <2>5. QED
    BY <1>2, <2>3, <2>4, Zenon DEF TypeOK, Forward, room, thread, budget
<1>3. ASSUME NEW h \in Handler, PostAccepted(h) PROVE TypeOK'
  <2>1. inbox' \in Seq([req : Requests, session : Session])
    BY <1>3, AcceptedTyped, Zenon DEF PostAccepted
  <2>2. Len(inbox) + 1 \in Nat
    <3>1. Len(inbox) \in Nat
      BY LenProperties, Zenon DEF TypeOK
    <3>2. QED
      BY <3>1, SMT
  <2>3. forwards' \in [Handler -> ForwardSet]
    <3>1. forwards \in [Handler -> ForwardSet] /\ forwards[h] \in ForwardSet
      BY Zenon DEF TypeOK
    <3>2. [forwards[h] EXCEPT !.stage = "confirm", !.seq = Len(inbox) + 1] \in ForwardSet
      BY <2>2, <3>1, ForwardConfirm, Zenon
    <3>3. forwards' = [forwards EXCEPT ![h] =
             [forwards[h] EXCEPT !.stage = "confirm", !.seq = Len(inbox) + 1]]
      BY <1>3, Zenon DEF PostAccepted
    <3>4. QED
      BY <3>1, <3>2, <3>3, Zenon
  <2>4. QED
    BY <1>3, <2>1, <2>3, Zenon DEF TypeOK, PostAccepted, database, thread, budget
<1>4. ASSUME NEW h \in Handler, PostFails(h) PROVE TypeOK'
  <2>1. inbox' \in Seq([req : Requests, session : Session])
    <3>1. CASE inbox' = inbox
      BY <3>1, Zenon DEF TypeOK
    <3>2. CASE Accepted(h)
      <4>1. forwards[h].stage # "idle"
        BY <1>4, Zenon DEF PostFails
      <4>2. QED
        BY <3>2, <4>1, AcceptedTyped, Zenon
    <3>3. QED
      BY <1>4, <3>1, <3>2, Zenon DEF PostFails
  <2>2. forwards' \in [Handler -> ForwardSet]
    BY <1>4, NothingTyped, Zenon DEF TypeOK, PostFails
  <2>3. faults' \in Nat
    BY <1>4, SMT DEF TypeOK, PostFails, Fault
  <2>4. QED
    BY <1>4, <2>1, <2>2, <2>3, Zenon DEF TypeOK, PostFails, database, thread
<1>5. ASSUME NEW h \in Handler, Confirm(h) PROVE TypeOK'
  <2>1. registered' \in SUBSET RegistrationSet
    <3>1. forwards[h].seq \in Nat
      <4>1. forwards[h] \in ForwardSet
        BY Zenon DEF TypeOK
      <4>2. QED
        BY <4>1, SMT DEF ForwardSet
    <3>2. ASSUME NEW g \in RegistrationSet PROVE [g EXCEPT !.seq = forwards[h].seq] \in RegistrationSet
      BY <3>1, SMT DEF RegistrationSet
    <3>3. registered \in SUBSET RegistrationSet
      BY Zenon DEF TypeOK
    <3>4. PICK now \in Times :
             registered' = {IF ConfirmedBy(g, h, now) THEN [g EXCEPT !.seq = forwards[h].seq] ELSE g :
                               g \in registered}
      BY <1>5, Zenon DEF Confirm
    <3>5. QED
      BY <3>2, <3>3, <3>4, Zenon
  <2>2. forwards' \in [Handler -> ForwardSet]
    BY <1>5, NothingTyped, Zenon DEF TypeOK, Confirm
  <2>3. QED
    BY <1>5, <2>1, <2>2, Zenon DEF TypeOK, Confirm, room, thread, budget
<1>6. QED
  BY <1>1, <1>2, <1>3, <1>4, <1>5, Zenon DEF ForwardStep

\* What a wait returns with (worker/collector.py:218-232).
LEMMA WaitOver ==
    ASSUME NEW x \in WaitSet, NEW row \in RowSet
    PROVE  [NoWait EXCEPT !.session = x.session, !.req = x.req, !.answer = row] \in WaitSet
<1>1. x.session \in SomeSession /\ x.req \in SomeReq
  BY SMT DEF WaitSet
<1>2. PICK a : a = [NoWait EXCEPT !.session = x.session]
  OBVIOUS
<1>3. PICK b : b = [a EXCEPT !.req = x.req]
  OBVIOUS
<1>4. a \in WaitSet
  BY <1>1, <1>2, NothingTyped, SMT DEF WaitSet
<1>5. b \in WaitSet
  BY <1>1, <1>3, <1>4, SMT DEF WaitSet
<1>6. [b EXCEPT !.answer = row] \in WaitSet
  BY <1>5, SMT DEF WaitSet
<1>7. QED
  BY <1>2, <1>3, <1>6, Zenon

\* How a browser's wait begins.
LEMMA WaitBegun ==
    ASSUME NEW g \in RegistrationSet
    PROVE  [NoWait EXCEPT !.stage = "registration", !.session = g.session, !.req = g.req] \in WaitSet
<1>1. g.session \in SomeSession /\ g.req \in SomeReq
  BY SMT DEF RegistrationSet, SomeSession, SomeReq
<1>2. PICK a : a = [NoWait EXCEPT !.stage = "registration"]
  OBVIOUS
<1>3. PICK b : b = [a EXCEPT !.session = g.session]
  OBVIOUS
<1>4. a \in WaitSet
  BY <1>2, NothingTyped, SMT DEF WaitSet, Stages
<1>5. b \in WaitSet
  BY <1>1, <1>3, <1>4, SMT DEF WaitSet
<1>6. [b EXCEPT !.req = g.req] \in WaitSet
  BY <1>1, <1>5, SMT DEF WaitSet
<1>7. QED
  BY <1>2, <1>3, <1>6, Zenon

\* The waiting handlers (worker/collector.py:183-232).
LEMMA WaiterTyped ==
    ASSUME TypeOK, NEW w \in Waiter, StartWait(w) \/ WaitStep(w) \/ Deadline(w)
    PROVE  TypeOK'
<1>1. waits \in [Waiter -> WaitSet] /\ waits[w] \in WaitSet
  BY Zenon DEF TypeOK
<1>2. SUFFICES waits' \in [Waiter -> WaitSet]
  BY Zenon DEF TypeOK, StartWait, WaitStep, ReadRegistration, ReadRow, CheckHealth, Deadline,
               WaitLeaves, room, database, thread, budget
<1>3. SUFFICES \E x \in WaitSet : waits' = [waits EXCEPT ![w] = x]
  BY <1>1, Zenon
<1>4. ASSUME NEW stage \in Stages, WaitGoes(w, stage)
      PROVE  \E x \in WaitSet : waits' = [waits EXCEPT ![w] = x]
  <2>1. 0 \in Nat
    BY SMT
  <2>2. [waits[w] EXCEPT !.stage = stage, !.seq = 0] \in WaitSet
    BY <1>1, <2>1, WaitStage, Zenon
  <2>3. QED
    BY <1>4, <2>2, Zenon DEF WaitGoes
<1>5. ASSUME NEW row \in RowSet \cup {NoRow}, WaitReturns(w, row)
      PROVE  \E x \in WaitSet : waits' = [waits EXCEPT ![w] = x]
  <2>1. CASE row = NoRow
    BY <1>5, <2>1, NothingTyped, Zenon DEF WaitReturns
  <2>2. CASE row # NoRow
    <3>1. row \in RowSet
      BY <2>2
    <3>2. QED
      BY <1>1, <1>5, <2>2, <3>1, WaitOver, Zenon DEF WaitReturns
  <2>3. QED
    BY <2>1, <2>2
<1>6. CASE StartWait(w)
  <2>1. registered \in SUBSET RegistrationSet
    BY Zenon DEF TypeOK
  <2>2. QED
    BY <1>6, <2>1, WaitBegun, Zenon DEF StartWait
<1>7. CASE ReadRegistration(w)
  <2>1. ASSUME NEW g \in registered, waits' = [waits EXCEPT ![w] = [@ EXCEPT !.stage = "row", !.seq = g.seq]]
        PROVE  \E x \in WaitSet : waits' = [waits EXCEPT ![w] = x]
    <3>1. g \in RegistrationSet
      BY Zenon DEF TypeOK
    <3>2. g.seq \in Nat /\ "row" \in Stages
      BY <3>1, SMT DEF RegistrationSet, Stages
    <3>3. [waits[w] EXCEPT !.stage = "row", !.seq = g.seq] \in WaitSet
      BY <1>1, <3>2, WaitStage, Zenon
    <3>4. QED
      BY <2>1, <3>3, Zenon
  <2>2. QED
    BY <1>5, <1>7, <2>1, Zenon DEF ReadRegistration
<1>8. CASE ReadRow(w)
  <2>1. "health" \in Stages
    BY Zenon DEF Stages
  <2>2. results \in SUBSET RowSet
    BY Zenon DEF TypeOK
  <2>3. QED
    BY <1>4, <1>5, <1>8, <2>1, <2>2, Zenon DEF ReadRow
<1>9. CASE CheckHealth(w)
  <2>1. "sleep" \in Stages
    BY Zenon DEF Stages
  <2>2. QED
    BY <1>4, <1>5, <1>9, <2>1, Zenon DEF CheckHealth
<1>10. CASE Deadline(w)
  <2>1. waits[w].stage \in Stages
    BY <1>1, SMT DEF WaitSet
  <2>2. Woken(waits[w].stage) \in Stages
    BY <2>1, Zenon DEF Woken, Stages
  <2>3. [waits[w] EXCEPT !.late = TRUE, !.stage = Woken(waits[w].stage)] \in WaitSet
    <3>1. 0 \in Nat
      BY SMT
    <3>2. QED
      BY <1>1, <2>2, <3>1, WaitStage, Zenon
  <2>4. QED
    BY <1>10, <2>3, Zenon DEF Deadline
<1>11. QED
  BY <1>6, <1>7, <1>8, <1>9, <1>10, Zenon DEF WaitStep

\* Every step keeps the types.
LEMMA TypeStep == IInv /\ [Next]_vars => TypeOK'
<1>1. SUFFICES ASSUME TypeOK, ReadBacked, BaselinesReached, RowsCopied, [Next]_vars PROVE TypeOK'
  BY Zenon DEF IInv
<1>2. CASE UNCHANGED vars
  BY <1>1, <1>2, Zenon DEF TypeOK, vars
<1>3. CASE Next
  BY <1>1, <1>3, ReadTyped, ProcessTyped, EndTyped, RestartTyped, WorldTyped, HandlerTyped, WaiterTyped, Zenon
     DEF Next, CollectorStep
<1>4. QED
  BY <1>1, <1>2, <1>3

-----------------------------------------------------------------------------
(* What only grows *)

InboxKept == \A k \in DOMAIN inbox : k \in DOMAIN inbox' /\ inbox'[k] = inbox[k]
StreamKept == \A p \in DOMAIN stream : p \in DOMAIN stream' /\ stream'[p] = stream[p]

\* A room is a sequence with places from 1 on.
LEMMA Places ==
    ASSUME TypeOK
    PROVE  /\ DOMAIN inbox = 1 .. Len(inbox) /\ Len(inbox) \in Nat
           /\ DOMAIN stream = 1 .. Len(stream) /\ Len(stream) \in Nat
           /\ \A k \in DOMAIN inbox : inbox[k].req \in Requests /\ inbox[k].session \in Session
           /\ \A p \in DOMAIN stream : stream[p].req \in SomeReq /\ stream[p].seq \in Nat
<1>1. inbox \in Seq([req : Requests, session : Session]) /\ stream \in Seq([req : SomeReq, seq : Nat])
  BY Zenon DEF TypeOK
<1>2. /\ DOMAIN inbox = 1 .. Len(inbox) /\ Len(inbox) \in Nat
      /\ DOMAIN stream = 1 .. Len(stream) /\ Len(stream) \in Nat
  BY <1>1, LenProperties, Zenon
<1>3. ASSUME NEW k \in DOMAIN inbox PROVE inbox[k].req \in Requests /\ inbox[k].session \in Session
  <2>1. inbox[k] \in [req : Requests, session : Session]
    BY <1>1, <1>2, ElementOfSeq, Zenon
  <2>2. QED
    BY <2>1, SMT
<1>4. ASSUME NEW p \in DOMAIN stream PROVE stream[p].req \in SomeReq /\ stream[p].seq \in Nat
  <2>1. stream[p] \in [req : SomeReq, seq : Nat]
    BY <1>1, <1>2, ElementOfSeq, Zenon
  <2>2. QED
    BY <2>1, SMT
<1>5. QED
  BY <1>2, <1>3, <1>4

\* What appending to a room gives.
LEMMA Appending ==
    ASSUME NEW S, NEW s \in Seq(S), NEW e \in S, NEW t, t = Append(s, e)
    PROVE  /\ t \in Seq(S) /\ Len(t) = Len(s) + 1
           /\ \A i \in 1 .. Len(s) : t[i] = s[i]
           /\ t[Len(s) + 1] = e
<1>1. /\ Append(s, e) \in Seq(S) /\ Len(Append(s, e)) = Len(s) + 1
      /\ \A i \in 1 .. Len(s) : Append(s, e)[i] = s[i]
      /\ Append(s, e)[Len(s) + 1] = e
  BY AppendProperties
<1>2. QED
  BY <1>1, Zenon

\* A request that Technocore accepts is put behind the others, with the session
\* that sent it (worker/webapp.py:369-379).
LEMMA Accepting ==
    ASSUME TypeOK, BaselinesReached, NEW h \in Handler, forwards[h].stage # "idle", Accepted(h)
    PROVE  /\ InboxKept
           /\ DOMAIN inbox' = DOMAIN inbox \cup {Len(inbox) + 1}
           /\ inbox'[Len(inbox) + 1] = [req |-> forwards[h].req, session |-> forwards[h].session]
<1>1. [req |-> forwards[h].req, session |-> forwards[h].session] \in [req : Requests, session : Session]
  BY SMT DEF BaselinesReached
<1>2. inbox \in Seq([req : Requests, session : Session]) /\ Len(inbox) \in Nat /\ DOMAIN inbox = 1 .. Len(inbox)
  BY Places, Zenon DEF TypeOK
<1>3. /\ inbox' \in Seq([req : Requests, session : Session])
      /\ Len(inbox') = Len(inbox) + 1
      /\ \A k \in 1 .. Len(inbox) : inbox'[k] = inbox[k]
      /\ inbox'[Len(inbox) + 1] = [req |-> forwards[h].req, session |-> forwards[h].session]
  <2>1. PICK S : S = [req : Requests, session : Session]
    OBVIOUS
  <2>2. PICK e : e = [req |-> forwards[h].req, session |-> forwards[h].session]
    OBVIOUS
  <2>3. inbox \in Seq(S) /\ e \in S /\ inbox' = Append(inbox, e)
    BY <1>1, <1>2, <2>1, <2>2, Zenon DEF Accepted
  <2>4. /\ inbox' \in Seq(S) /\ Len(inbox') = Len(inbox) + 1
        /\ \A k \in 1 .. Len(inbox) : inbox'[k] = inbox[k]
        /\ inbox'[Len(inbox) + 1] = e
    BY <2>3, Appending
  <2>5. QED
    BY <2>1, <2>2, <2>4, Zenon
<1>4. DOMAIN inbox' = 1 .. Len(inbox')
  BY <1>3, LenProperties, Zenon
<1>5. DOMAIN inbox' = DOMAIN inbox \cup {Len(inbox) + 1}
  BY <1>2, <1>3, <1>4, SMT
<1>6. QED
  BY <1>2, <1>3, <1>5, Zenon DEF InboxKept

\* A message of the shared room is put behind the others.
LEMMA Posting ==
    ASSUME TypeOK, NEW m \in [req : SomeReq, seq : Nat], stream' = Append(stream, m)
    PROVE  /\ StreamKept
           /\ DOMAIN stream' = DOMAIN stream \cup {Len(stream) + 1}
           /\ Len(stream') = Len(stream) + 1
           /\ stream'[Len(stream) + 1] = m
<1>1. stream \in Seq([req : SomeReq, seq : Nat]) /\ Len(stream) \in Nat /\ DOMAIN stream = 1 .. Len(stream)
  BY Places, Zenon DEF TypeOK
<1>2. /\ stream' \in Seq([req : SomeReq, seq : Nat])
      /\ Len(stream') = Len(stream) + 1
      /\ \A p \in 1 .. Len(stream) : stream'[p] = stream[p]
      /\ stream'[Len(stream) + 1] = m
  <2>1. PICK S : S = [req : SomeReq, seq : Nat]
    OBVIOUS
  <2>2. stream \in Seq(S) /\ m \in S
    BY <1>1, <2>1, Zenon
  <2>3. /\ stream' \in Seq(S) /\ Len(stream') = Len(stream) + 1
        /\ \A p \in 1 .. Len(stream) : stream'[p] = stream[p]
        /\ stream'[Len(stream) + 1] = m
    BY <2>2, Appending
  <2>4. QED
    BY <2>1, <2>3, Zenon
<1>3. DOMAIN stream' = 1 .. Len(stream')
  BY <1>2, LenProperties, Zenon
<1>4. DOMAIN stream' = DOMAIN stream \cup {Len(stream) + 1}
  BY <1>1, <1>2, <1>3, SMT
<1>5. QED
  BY <1>1, <1>2, <1>4, Zenon DEF StreamKept

\* The inbox changes only when Technocore accepts a request.
LEMMA InboxStep ==
    ASSUME [Next]_vars, inbox' # inbox
    PROVE  \E h \in Handler : (PostAccepted(h) \/ PostFails(h)) /\ Accepted(h)
BY Zenon DEF Next, vars, CollectorStep, Read, ReadAgain, ProcessGap, Process, PollFails, ThreadDies, Restart,
     Answer, OtherMessage, Trim, Baseline, ForwardStep, Forward,
     PostAccepted, PostFails, Confirm, StartWait, WaitStep, ReadRegistration, ReadRow, CheckHealth,
     Deadline, WaitLeaves, room

\* The shared room changes only when a message arrives.
LEMMA StreamStep ==
    ASSUME [Next]_vars, stream' # stream
    PROVE  Answer \/ OtherMessage
BY Zenon DEF Next, vars, CollectorStep, Read, ReadAgain, ProcessGap, Process, PollFails, ThreadDies, Restart,
     Answer, OtherMessage, Trim, Baseline, ForwardStep, Forward,
     PostAccepted, PostFails, Confirm, StartWait, WaitStep, ReadRegistration, ReadRow, CheckHealth,
     Deadline, WaitLeaves, room

\* Only a batch moves the cursor or changes the results, and only a read gives the
\* thread something to process.
LEMMA ThreadStep ==
    ASSUME [Next]_vars, ~Process
    PROVE  /\ cursor' = cursor /\ results' = results /\ stamps' = stamps /\ expired' = expired
           /\ Read \/ ReadAgain \/ pc' # "view" \/ (pc' = pc /\ view' = view)
BY Zenon DEF Next, vars, CollectorStep, Read, ReadAgain, ProcessGap, Process, PollFails, ThreadDies, Restart,
     Answer, OtherMessage, Trim, Baseline, ForwardStep, Forward,
     PostAccepted, PostFails, Confirm, StartWait, WaitStep, ReadRegistration, ReadRow, CheckHealth,
     Deadline, WaitLeaves, room, database, thread

\* Only trimming moves the oldest message, and only a gap is remembered.
LEMMA MarksStep ==
    ASSUME [Next]_vars
    PROVE  /\ Trim \/ base' = base
           /\ ProcessGap \/ gapSeen' = gapSeen
BY Zenon DEF Next, vars, CollectorStep, Read, ReadAgain, ProcessGap, Process, PollFails, ThreadDies, Restart,
     Answer, OtherMessage, Trim, Baseline, ForwardStep, Forward,
     PostAccepted, PostFails, Confirm, StartWait, WaitStep, ReadRegistration, ReadRow, CheckHealth,
     Deadline, WaitLeaves, room, database

\* Nothing that was accepted or received is taken back, and the cursor and the oldest
\* message only move forward.
LEMMA Grows ==
    ASSUME IInv, [Next]_vars
    PROVE  InboxKept /\ StreamKept /\ Len(stream) <= Len(stream') /\ cursor <= cursor' /\ base <= base'
<1>1. TypeOK /\ ReadBacked /\ BaselinesReached
  BY Zenon DEF IInv
<1>2. InboxKept
  <2>1. CASE inbox' = inbox
    BY <2>1, Zenon DEF InboxKept
  <2>2. CASE inbox' # inbox
    <3>1. PICK h \in Handler : (PostAccepted(h) \/ PostFails(h)) /\ Accepted(h)
      BY <2>2, InboxStep, Zenon
    <3>2. forwards[h].stage # "idle"
      BY <3>1, Zenon DEF PostAccepted, PostFails
    <3>3. QED
      BY <1>1, <3>1, <3>2, Accepting, Zenon
  <2>3. QED
    BY <2>1, <2>2
<1>3. StreamKept /\ Len(stream) <= Len(stream')
  <2>1. CASE stream' = stream
    <3>1. Len(stream) \in Nat
      BY <1>1, Places, Zenon
    <3>2. Len(stream) <= Len(stream)
      BY <3>1, SMT
    <3>3. QED
      BY <2>1, <3>2, Zenon DEF StreamKept
  <2>2. CASE stream' # stream
    <3>1. PICK m \in [req : SomeReq, seq : Nat] : stream' = Append(stream, m)
      <4>1. CASE Answer
        <5>1. PICK k \in DOMAIN inbox : stream' = Append(stream, [req |-> inbox[k].req, seq |-> k])
          BY <4>1, Zenon DEF Answer
        <5>2. k \in Nat /\ inbox[k].req \in Requests
          <6>1. DOMAIN inbox = 1 .. Len(inbox) /\ Len(inbox) \in Nat /\ inbox[k].req \in Requests
            BY <1>1, Places, Zenon
          <6>2. QED
            BY <6>1, SMT
        <5>3. [req |-> inbox[k].req, seq |-> k] \in [req : SomeReq, seq : Nat]
          BY <5>2, SMT DEF SomeReq
        <5>4. QED
          BY <5>1, <5>3, Zenon
      <4>2. CASE OtherMessage
        <5>1. [req |-> NoReq, seq |-> 0] \in [req : SomeReq, seq : Nat]
          BY SMT DEF SomeReq
        <5>2. QED
          BY <4>2, <5>1, Zenon DEF OtherMessage
      <4>3. QED
        BY <2>2, <4>1, <4>2, StreamStep, Zenon
    <3>2. StreamKept /\ Len(stream') = Len(stream) + 1 /\ Len(stream) \in Nat
      BY <1>1, <3>1, Posting, Places, Zenon
    <3>3. Len(stream) <= Len(stream')
      BY <3>2, SMT
    <3>4. QED
      BY <3>2, <3>3
  <2>3. QED
    BY <2>1, <2>2
<1>4. cursor <= cursor'
  <2>1. cursor \in Nat /\ view.last \in Nat
    BY <1>1, SMT DEF TypeOK
  <2>2. CASE Process
    BY <2>1, <2>2, SMT DEF Process, CursorAfter
  <2>3. CASE ~Process
    <3>1. cursor' = cursor
      BY <2>3, ThreadStep, Zenon
    <3>2. QED
      BY <2>1, <3>1, SMT
  <2>4. QED
    BY <2>2, <2>3
<1>5. base <= base'
  <2>1. base \in Nat
    BY <1>1, Zenon DEF TypeOK
  <2>2. CASE Trim
    BY <2>1, <2>2, SMT DEF Trim
  <2>3. CASE base' = base
    BY <2>1, <2>3, SMT
  <2>4. QED
    BY <2>2, <2>3, MarksStep, Zenon
<1>6. QED
  BY <1>2, <1>3, <1>4, <1>5

-----------------------------------------------------------------------------
(* What the collector thread has read, and gaps *)

\* The thread stays within the room.
LEMMA ReadBackedStep ==
    ASSUME IInv, [Next]_vars
    PROVE  ReadBacked'
<1>1. TypeOK /\ ReadBacked
  BY Zenon DEF IInv
<1>2. /\ cursor \in Nat /\ base \in Nat /\ view.first \in Nat /\ view.last \in Nat
      /\ Len(stream) \in Nat /\ Len(stream') \in Nat /\ base' \in Nat
  <2>1. TypeOK'
    BY TypeStep
  <2>2. Len(stream) \in Nat /\ Len(stream') \in Nat
    BY <1>1, <2>1, LenProperties, Zenon DEF TypeOK
  <2>3. view.first \in Nat /\ view.last \in Nat
    BY <1>1, SMT DEF TypeOK
  <2>4. QED
    BY <1>1, <2>1, <2>2, <2>3, Zenon DEF TypeOK
<1>3. Len(stream) <= Len(stream') /\ base <= base' /\ base' >= 1
  <2>1. Len(stream) <= Len(stream') /\ base <= base' /\ base >= 1
    BY <1>1, Grows, Zenon DEF ReadBacked
  <2>2. QED
    BY <1>2, <2>1, SMT
<1>4. CASE Process
  <2>1. cursor' <= Len(stream')
    BY <1>1, <1>2, <1>3, <1>4, SMT DEF ReadBacked, Process, CursorAfter
  <2>2. pc' = "poll"
    BY <1>4, Zenon DEF Process
  <2>3. QED
    BY <1>3, <2>1, <2>2, Zenon DEF ReadBacked
<1>5. CASE Read \/ ReadAgain
  <2>1. cursor' = cursor /\ stream' = stream /\ base' = base
    BY <1>5, Zenon DEF Read, ReadAgain, room, database
  <2>2. PICK first \in Nat : view' = ViewFrom(first) /\ first >= 1 /\ (first > cursor + 1 => base >= first)
    BY <1>1, <1>5, ReadStarts, Zenon
  <2>3. view'.first = first /\ view'.last <= Len(stream)
    BY <1>1, <2>2, ViewTyped, Zenon
  <2>4. QED
    BY <1>1, <1>3, <2>1, <2>2, <2>3, Zenon DEF ReadBacked
<1>6. CASE ~Process /\ ~Read /\ ~ReadAgain
  <2>1. cursor' = cursor /\ (pc' # "view" \/ (pc' = pc /\ view' = view))
    BY <1>6, ThreadStep, Zenon
  <2>2. cursor' <= Len(stream')
    BY <1>1, <1>2, <1>3, <2>1, SMT DEF ReadBacked
  <2>3. ASSUME pc' = "view"
        PROVE  /\ view'.first >= 1 /\ view'.last <= Len(stream')
               /\ view'.first > cursor' + 1 => base' >= view'.first
    <3>1. pc = "view" /\ view' = view
      BY <2>1, <2>3, Zenon
    <3>2. /\ view.first >= 1 /\ view.last <= Len(stream)
          /\ view.first > cursor + 1 => base >= view.first
      BY <1>1, <3>1, Zenon DEF ReadBacked
    <3>3. QED
      BY <1>2, <1>3, <2>1, <3>1, <3>2, SMT
  <2>4. QED
    BY <1>3, <2>2, <2>3, Zenon DEF ReadBacked
<1>7. QED
  BY <1>4, <1>5, <1>6

\* Once a gap has been met there is no batch any more (worker/collector.py:106-123).
LEMMA NoBatch ==
    ASSUME IInv, gapSeen
    PROVE  ~Process
<1>1. SUFFICES ASSUME Process PROVE FALSE
  OBVIOUS
<1>2. view.first > cursor + 1
  BY <1>1, Zenon DEF IInv, GapKept, Process
<1>3. QED
  BY <1>1, <1>2, Zenon DEF Process, Gap

\* The gap stays where it is.
LEMMA GapKeptStep ==
    ASSUME IInv, [Next]_vars
    PROVE  GapKept'
<1>1. TypeOK /\ ReadBacked /\ GapKept
  BY Zenon DEF IInv
<1>2. SUFFICES ASSUME gapSeen'
      PROVE  base' > cursor' + 1 /\ (pc' = "view" => view'.first > cursor' + 1)
  BY Zenon DEF GapKept
<1>3. /\ cursor \in Nat /\ base \in Nat /\ base' \in Nat /\ base <= base'
      /\ view.first \in Nat
  <2>1. TypeOK'
    BY TypeStep
  <2>2. view.first \in Nat
    BY <1>1, SMT DEF TypeOK
  <2>3. QED
    BY <1>1, <2>1, <2>2, Grows, Zenon DEF TypeOK
<1>4. CASE ProcessGap
  <2>1. base >= view.first /\ view.first > cursor + 1
    BY <1>1, <1>4, Zenon DEF ReadBacked, ProcessGap, Gap
  <2>2. cursor' = cursor /\ pc' = "stopped"
    BY <1>4, Zenon DEF ProcessGap
  <2>3. base' > cursor' + 1
    BY <1>3, <2>1, <2>2, SMT
  <2>4. QED
    BY <2>2, <2>3, Zenon
<1>5. CASE ~ProcessGap
  <2>1. gapSeen /\ ~Process
    BY <1>2, <1>5, MarksStep, NoBatch, Zenon
  <2>2. base > cursor + 1 /\ cursor' = cursor
    BY <1>1, <2>1, ThreadStep, Zenon DEF GapKept
  <2>3. base' > cursor' + 1
    BY <1>3, <2>2, SMT
  <2>4. ASSUME pc' = "view" PROVE view'.first > cursor' + 1
    <3>1. CASE Read \/ ReadAgain
      BY <1>1, <2>2, <3>1, ReadStarts, ViewTyped, Zenon
    <3>2. CASE ~Read /\ ~ReadAgain
      <4>1. pc = "view" /\ view' = view
        BY <2>1, <2>4, <3>2, ThreadStep, Zenon
      <4>2. QED
        BY <1>1, <2>1, <2>2, <4>1, Zenon DEF GapKept
    <3>3. QED
      BY <3>1, <3>2
  <2>5. QED
    BY <2>3, <2>4, Zenon
<1>6. QED
  BY <1>4, <1>5

-----------------------------------------------------------------------------
(* Baselines, the inbox and the replies *)

\* A baseline stays behind the cursor (worker/webapp.py:281-284, 355-379).
LEMMA BaselinesReachedStep ==
    ASSUME IInv, [Next]_vars
    PROVE  BaselinesReached'
<1>1. TypeOK /\ BaselinesReached
  BY Zenon DEF IInv
<1>2. TypeOK' /\ cursor <= cursor' /\ InboxKept
  BY TypeStep, Grows, Zenon
<1>3. cursor \in Nat /\ cursor' \in Nat
  BY <1>1, <1>2, Zenon DEF TypeOK
<1>4. ASSUME NEW s \in Session PROVE issued'[s] <= cursor'
  <2>1. issued[s] \in Int /\ issued[s] <= cursor
    <3>1. issued[s] <= cursor
      BY <1>1, Zenon DEF BaselinesReached
    <3>2. QED
      BY <1>1, <3>1, SMT DEF TypeOK
  <2>2. issued'[s] = issued[s] \/ issued'[s] = -1 \/ (issued'[s] = cursor)
    <3>1. CASE \E t \in Session : Baseline(t)
      BY <1>1, <3>1, SMT DEF Baseline, BaselineValue, TypeOK
    <3>2. CASE Restart
      BY <3>2, SMT DEF Restart
    <3>3. CASE issued' = issued
      BY <3>3
    <3>4. (\E t \in Session : Baseline(t)) \/ Restart \/ issued' = issued
      BY Zenon DEF Next, vars, CollectorStep, Read, ReadAgain, ProcessGap, Process, PollFails, ThreadDies,
         Answer, OtherMessage, Trim, ForwardStep, Forward,
         PostAccepted, PostFails, Confirm, StartWait, WaitStep, ReadRegistration, ReadRow,
         CheckHealth, Deadline, WaitLeaves, web
    <3>5. QED
      BY <3>1, <3>2, <3>3, <3>4
  <2>3. QED
    BY <1>2, <1>3, <2>1, <2>2, SMT
<1>5. ASSUME NEW h \in Handler, forwards'[h].stage # "idle"
      PROVE  /\ forwards'[h].session \in Session /\ forwards'[h].req \in Requests
             /\ forwards'[h].req.after <= cursor'
  <2>1. SUFFICES /\ forwards'[h].session \in Session /\ forwards'[h].req \in Requests
                 /\ forwards'[h].req.after <= cursor
    <3>1. ASSUME NEW r \in Requests, r.after <= cursor PROVE r.after <= cursor'
      <4>1. r.after \in Nat
        BY SMT DEF Requests
      <4>2. QED
        BY <1>2, <1>3, <3>1, <4>1, SMT
    <3>2. QED
      BY <3>1
  <2>2. ASSUME forwards[h].stage # "idle"
        PROVE  /\ forwards[h].session \in Session /\ forwards[h].req \in Requests
               /\ forwards[h].req.after <= cursor
    BY <1>1, <2>2, Zenon DEF BaselinesReached
  <2>3. forwards \in [Handler -> ForwardSet]
    BY <1>1, Zenon DEF TypeOK
  <2>4. CASE \E k \in Handler, s \in Session : Forward(k, s)
    <3>1. PICK k \in Handler, s \in Session : Forward(k, s)
      BY <2>4
    <3>2. PICK r \in Requests :
             /\ r.after = issued[s]
             /\ forwards' = [forwards EXCEPT ![k] =
                    [stage |-> "post", session |-> s, req |-> r, seq |-> 0]]
      BY <1>1, <3>1, Forwarding, Zenon
    <3>4. r.after <= cursor
      BY <1>1, <3>2, Zenon DEF BaselinesReached
    <3>5. CASE h = k
      <4>1. PICK f : f = [stage |-> "post", session |-> s, req |-> r, seq |-> 0]
        OBVIOUS
      <4>2. f.session = s /\ f.req = r
        BY <4>1, SMT
      <4>3. forwards'[h] = f
        BY <2>3, <3>2, <3>5, <4>1, Zenon
      <4>4. QED
        BY <3>4, <4>2, <4>3, Zenon
    <3>6. CASE h # k
      <4>1. forwards'[h] = forwards[h]
        BY <2>3, <3>2, <3>6, Zenon
      <4>2. QED
        BY <1>5, <2>2, <4>1, Zenon
    <3>7. QED
      BY <3>5, <3>6
  <2>5. CASE \E k \in Handler : PostAccepted(k)
    <3>1. PICK k \in Handler : PostAccepted(k)
      BY <2>5
    <3>2. CASE h = k
      <4>1. forwards'[h] = [forwards[h] EXCEPT !.stage = "confirm", !.seq = Len(inbox) + 1]
        BY <2>3, <3>1, <3>2, Zenon DEF PostAccepted
      <4>2. forwards[h] \in ForwardSet /\ forwards[h].stage # "idle"
        BY <2>3, <3>1, <3>2, Zenon DEF PostAccepted
      <4>3. forwards'[h].session = forwards[h].session /\ forwards'[h].req = forwards[h].req
        BY <4>1, <4>2, SMT DEF ForwardSet
      <4>4. QED
        BY <2>2, <4>2, <4>3, Zenon
    <3>3. CASE h # k
      <4>1. forwards'[h] = forwards[h]
        BY <2>3, <3>1, <3>3, Zenon DEF PostAccepted
      <4>2. QED
        BY <1>5, <2>2, <4>1, Zenon
    <3>4. QED
      BY <3>2, <3>3
  <2>6. CASE forwards' = forwards
    BY <1>5, <2>2, <2>6, Zenon
  <2>7. CASE Restart \/ \E k \in Handler : PostFails(k) \/ Confirm(k)
    <3>1. NoForward.stage = "idle"
      BY SMT DEF NoForward
    <3>2. forwards'[h] = NoForward \/ forwards'[h] = forwards[h]
      BY <2>3, <2>7, Zenon DEF Restart, PostFails, Confirm
    <3>3. QED
      BY <1>5, <2>2, <3>1, <3>2, Zenon
  <2>8. QED
    <3>1. \/ \E k \in Handler, s \in Session : Forward(k, s)
          \/ \E k \in Handler : PostAccepted(k)
          \/ forwards' = forwards
          \/ Restart \/ \E k \in Handler : PostFails(k) \/ Confirm(k)
      BY Zenon DEF Next, vars, CollectorStep, Read, ReadAgain, ProcessGap, Process, PollFails, ThreadDies,
         Answer, OtherMessage, Trim, Baseline, ForwardStep,
         StartWait, WaitStep, ReadRegistration, ReadRow, CheckHealth, Deadline, WaitLeaves, web
    <3>2. QED
      BY <2>4, <2>5, <2>6, <2>7, <3>1
<1>6. ASSUME NEW k \in DOMAIN inbox' PROVE inbox'[k].req.after <= cursor'
  <2>1. ASSUME k \in DOMAIN inbox PROVE inbox'[k].req.after <= cursor'
    <3>1. inbox'[k] = inbox[k] /\ inbox[k].req.after <= cursor /\ inbox[k].req \in Requests
      BY <1>1, <1>2, <2>1, Places, Zenon DEF InboxKept, BaselinesReached
    <3>2. inbox[k].req.after \in Nat
      BY <3>1, SMT DEF Requests
    <3>3. QED
      BY <1>2, <1>3, <3>1, <3>2, SMT
  <2>2. ASSUME k \notin DOMAIN inbox PROVE inbox'[k].req.after <= cursor'
    <3>1. inbox' # inbox
      BY <2>2
    <3>2. PICK h \in Handler : (PostAccepted(h) \/ PostFails(h)) /\ Accepted(h)
      BY <3>1, InboxStep, Zenon
    <3>3. forwards[h].stage # "idle"
      BY <3>2, Zenon DEF PostAccepted, PostFails
    <3>4. /\ DOMAIN inbox' = DOMAIN inbox \cup {Len(inbox) + 1}
          /\ inbox'[Len(inbox) + 1] = [req |-> forwards[h].req, session |-> forwards[h].session]
      BY <1>1, <3>2, <3>3, Accepting, Zenon
    <3>5. k = Len(inbox) + 1
      BY <2>2, <3>4, Zenon
    <3>6. inbox'[k].req = forwards[h].req
      BY <3>4, <3>5, SMT
    <3>7. forwards[h].req \in Requests /\ forwards[h].req.after <= cursor
      BY <1>1, <3>3, Zenon DEF BaselinesReached
    <3>8. forwards[h].req.after \in Nat
      BY <3>7, SMT DEF Requests
    <3>9. QED
      BY <1>2, <1>3, <3>6, <3>7, <3>8, SMT
  <2>3. QED
    BY <2>1, <2>2
<1>7. QED
  BY <1>4, <1>5, <1>6, Zenon DEF BaselinesReached

\* A new reply quotes the place of the request it answers, and lies beyond the
\* baseline of that request.
LEMMA RepliesStep ==
    ASSUME IInv, [Next]_vars
    PROVE  RepliesBacked' /\ RepliesBeyondBaseline'
<1>1. TypeOK /\ ReadBacked /\ BaselinesReached /\ RepliesBacked /\ RepliesBeyondBaseline
  BY Zenon DEF IInv
<1>2. InboxKept /\ StreamKept
  BY Grows, Zenon
<1>3. SUFFICES ASSUME NEW p \in DOMAIN stream', stream'[p].req # NoReq
      PROVE  /\ stream'[p].seq \in DOMAIN inbox' /\ inbox'[stream'[p].seq].req = stream'[p].req
             /\ p > stream'[p].req.after
  BY Zenon DEF RepliesBacked, RepliesBeyondBaseline, Usable
<1>4. CASE p \in DOMAIN stream
  <2>1. stream'[p] = stream[p]
    BY <1>2, <1>4, Zenon DEF StreamKept
  <2>2. /\ stream[p].seq \in DOMAIN inbox /\ inbox[stream[p].seq].req = stream[p].req
        /\ p > stream[p].req.after
    BY <1>1, <1>3, <1>4, <2>1, Zenon DEF RepliesBacked, RepliesBeyondBaseline, Usable
  <2>3. QED
    BY <1>2, <2>1, <2>2, Zenon DEF InboxKept
<1>5. CASE p \notin DOMAIN stream
  <2>1. stream' # stream
    BY <1>5
  <2>2. CASE OtherMessage
    <3>1. [req |-> NoReq, seq |-> 0] \in [req : SomeReq, seq : Nat]
      BY SMT DEF SomeReq
    <3>2. stream' = Append(stream, [req |-> NoReq, seq |-> 0])
      BY <2>2, Zenon DEF OtherMessage
    <3>3. /\ DOMAIN stream' = DOMAIN stream \cup {Len(stream) + 1}
          /\ stream'[Len(stream) + 1] = [req |-> NoReq, seq |-> 0]
      BY <1>1, <3>1, <3>2, Posting, Zenon
    <3>4. p = Len(stream) + 1
      BY <1>5, <3>3, Zenon
    <3>5. stream'[p].req = NoReq
      BY <3>3, <3>4, SMT
    <3>6. QED
      BY <1>3, <3>5
  <2>3. CASE Answer
    <3>1. PICK k \in DOMAIN inbox : stream' = Append(stream, [req |-> inbox[k].req, seq |-> k])
      BY <2>3, Zenon DEF Answer
    <3>2. k \in Nat /\ inbox[k].req \in Requests /\ Len(stream) \in Nat
      <4>1. /\ DOMAIN inbox = 1 .. Len(inbox) /\ Len(inbox) \in Nat /\ inbox[k].req \in Requests
            /\ Len(stream) \in Nat
        BY <1>1, Places, Zenon
      <4>2. QED
        BY <4>1, SMT
    <3>3. PICK m : m = [req |-> inbox[k].req, seq |-> k]
      OBVIOUS
    <3>4. m \in [req : SomeReq, seq : Nat] /\ m.req = inbox[k].req /\ m.seq = k
      BY <3>2, <3>3, SMT DEF SomeReq
    <3>5. /\ DOMAIN stream' = DOMAIN stream \cup {Len(stream) + 1}
          /\ stream'[Len(stream) + 1] = m
      BY <1>1, <3>1, <3>3, <3>4, Posting, Zenon
    <3>6. p = Len(stream) + 1 /\ stream'[p] = m
      BY <1>5, <3>5, Zenon
    <3>7. inbox[k].req.after <= cursor /\ cursor <= Len(stream) /\ cursor \in Nat
      BY <1>1, Zenon DEF BaselinesReached, ReadBacked, TypeOK
    <3>8. inbox[k].req.after \in Nat
      BY <3>2, SMT DEF Requests
    <3>9. p > inbox[k].req.after
      BY <3>2, <3>6, <3>7, <3>8, SMT
    <3>10. k \in DOMAIN inbox' /\ inbox'[k] = inbox[k]
      BY <1>2, Zenon DEF InboxKept
    <3>11. QED
      BY <3>4, <3>6, <3>9, <3>10, Zenon
  <2>4. QED
    BY <2>1, <2>2, <2>3, StreamStep, Zenon
<1>6. QED
  BY <1>4, <1>5

-----------------------------------------------------------------------------
(* The table of results *)

\* The row that stands for the message at place p.
Copied(stamp, p) ==
    [req |-> stream[p].req, seq |-> stream[p].seq, at |-> p, received |-> stamp[p]]

\* What arrives in a batch are the usable messages between the cursor and its next place.
LEMMA ArrivedAll ==
    ASSUME TypeOK, ReadBacked, Process
    PROVE  /\ cursor \in Nat /\ cursor' \in Nat /\ cursor <= cursor'
           /\ Arrived = {p \in cursor + 1 .. cursor' : Usable(p)}
<1>1. /\ cursor \in Nat /\ view.first \in Nat /\ view.last \in Nat
      /\ view.first <= cursor + 1
  <2>1. cursor \in Nat /\ view.first \in Nat /\ view.last \in Nat
    BY SMT DEF TypeOK
  <2>2. ~(view.first > cursor + 1)
    BY Zenon DEF Process, Gap
  <2>3. QED
    BY <2>1, <2>2, SMT
<1>2. cursor' = IF view.last > cursor THEN view.last ELSE cursor
  BY Zenon DEF Process, CursorAfter
<1>3. \A p : p \in view.first .. view.last /\ p > cursor <=> p \in cursor + 1 .. cursor'
  BY <1>1, <1>2, SMT
<1>4. Arrived = {p \in cursor + 1 .. cursor' : Usable(p)}
  BY <1>3, Zenon DEF Arrived
<1>5. cursor' \in Nat /\ cursor <= cursor'
  BY <1>1, <1>2, SMT
<1>6. QED
  BY <1>1, <1>4, <1>5

\* What a batch adds are copies of usable messages, for requests that had no row.
LEMMA ReceivedRows ==
    ASSUME NEW stamp, NEW row \in Received(stamp)
    PROVE  /\ row.at \in Arrived
           /\ row.req = stream[row.at].req /\ row.seq = stream[row.at].seq
           /\ row.received = stamp[row.at]
           /\ \A r \in results : r.req # row.req
           /\ \A e \in Arrived : e < row.at => stream[e].req # row.req
<1>1. PICK q \in Arrived :
        /\ \A r \in results : r.req # stream[q].req
        /\ \A e \in Arrived : e < q => stream[e].req # stream[q].req
        /\ row = [req |-> stream[q].req, seq |-> stream[q].seq, at |-> q, received |-> stamp[q]]
  BY Zenon DEF Received
<1>2. row.at = q /\ row.req = stream[q].req /\ row.seq = stream[q].seq /\ row.received = stamp[q]
  BY <1>1, SMT
<1>3. QED
  BY <1>1, <1>2, Zenon

\* The clock has been read for each usable message behind the cursor, and the earlier
\* readings stand (worker/collector.py:110-137).
LEMMA StampsStep ==
    ASSUME TypeOK, ReadBacked, RowsCopied, Process,
           NEW stamp \in [Arrived -> Times], NEW now, NEW then, Commit(stamp, now, then)
    PROVE  /\ DOMAIN stamps' = {p \in 1 .. cursor' : Usable(p)}
           /\ DOMAIN stamps \in SUBSET DOMAIN stamps'
           /\ \A p \in DOMAIN stamps : stamps'[p] = stamps[p]
           /\ \A p \in Arrived : p \in DOMAIN stamps' /\ stamps'[p] = stamp[p]
<1>1. /\ cursor \in Nat /\ cursor' \in Nat /\ cursor <= cursor'
      /\ Arrived = {p \in cursor + 1 .. cursor' : Usable(p)}
  BY ArrivedAll, Zenon
<1>2. DOMAIN stamps = {p \in 1 .. cursor : Usable(p)}
  BY Zenon DEF RowsCopied
<1>3. /\ DOMAIN stamps' = DOMAIN stamps \cup Arrived
      /\ \A p \in DOMAIN stamps : stamps'[p] = stamps[p]
      /\ \A p \in Arrived : stamps'[p] = stamp[p]
  <2>1. DOMAIN stamps \in SUBSET (1 .. cursor) /\ pc = "view"
    BY <1>2, Zenon DEF Process
  <2>2. QED
    BY <2>1, StampsJoin, Zenon
<1>4. \A p : p \in 1 .. cursor' <=> p \in 1 .. cursor \/ p \in cursor + 1 .. cursor'
  BY <1>1, SMT
<1>5. DOMAIN stamps' = {p \in 1 .. cursor' : Usable(p)}
  BY <1>1, <1>2, <1>3, <1>4, Zenon
<1>6. QED
  BY <1>3, <1>5, Zenon

\* The rows of the next state are rows of this one or new, and each is the copy of a
\* message; a request has one row (worker/collector.py:110-137).
LEMMA Batch ==
    ASSUME IInv, Process, NEW stamp \in [Arrived -> Times], NEW now, NEW then, Commit(stamp, now, then)
    PROVE  /\ \A row \in results \cup Received(stamp) :
                 /\ row.at \in 1 .. cursor' /\ Usable(row.at)
                 /\ row.req = stream[row.at].req /\ row.seq = stream[row.at].seq
                 /\ row.received = stamps'[row.at] /\ row \in RowSet
           /\ \A row, other \in results \cup Received(stamp) : row.req = other.req => row = other
<1>1. TypeOK /\ ReadBacked /\ RowsCopied
  BY Zenon DEF IInv
<1>2. cursor \in Nat /\ cursor' \in Nat /\ cursor <= cursor'
  BY <1>1, ArrivedAll, Zenon
<1>3. ASSUME NEW row \in results
      PROVE  /\ row.at \in 1 .. cursor' /\ Usable(row.at)
             /\ row.req = stream[row.at].req /\ row.seq = stream[row.at].seq
             /\ row.received = stamps'[row.at] /\ row \in RowSet
  <2>1. /\ row.at \in 1 .. cursor /\ Usable(row.at)
        /\ row.req = stream[row.at].req /\ row.seq = stream[row.at].seq
        /\ row.received = stamps[row.at] /\ row.at \in DOMAIN stamps /\ row \in RowSet
    BY <1>1, Zenon DEF RowsCopied, TypeOK
  <2>2. row.at \in 1 .. cursor'
    BY <1>2, <2>1, SMT
  <2>3. row.received = stamps'[row.at]
    BY <1>1, <2>1, StampsStep, Zenon
  <2>4. QED
    BY <2>1, <2>2, <2>3
<1>4. ASSUME NEW row \in Received(stamp)
      PROVE  /\ row.at \in 1 .. cursor' /\ Usable(row.at)
             /\ row.req = stream[row.at].req /\ row.seq = stream[row.at].seq
             /\ row.received = stamps'[row.at] /\ row \in RowSet
  <2>1. /\ row.at \in Arrived /\ row.received = stamp[row.at]
        /\ row.req = stream[row.at].req /\ row.seq = stream[row.at].seq
    BY ReceivedRows, Zenon
  <2>2. row.at \in DOMAIN stamps' /\ row.received = stamps'[row.at]
    BY <1>1, <2>1, StampsStep, Zenon
  <2>3. row.at \in 1 .. cursor' /\ Usable(row.at)
    BY <1>1, <2>2, StampsStep, Zenon
  <2>4. row \in RowSet
    BY <1>1, ReceivedTyped, Zenon DEF Process
  <2>5. QED
    BY <2>1, <2>2, <2>3, <2>4
<1>5. ASSUME NEW row \in results, NEW other \in Received(stamp) PROVE row.req # other.req
  BY ReceivedRows, Zenon
<1>6. ASSUME NEW row \in Received(stamp), NEW other \in Received(stamp), row.req = other.req
      PROVE  row = other
  <2>1. /\ row.at \in Arrived /\ stream[row.at].req = row.req
        /\ other.at \in Arrived /\ stream[other.at].req = other.req
        /\ \A e \in Arrived : e < row.at => stream[e].req # row.req
        /\ \A e \in Arrived : e < other.at => stream[e].req # other.req
    BY ReceivedRows, Zenon
  <2>2. ~(row.at < other.at) /\ ~(other.at < row.at)
    BY <1>6, <2>1, Zenon
  <2>3. row.at \in Nat /\ other.at \in Nat
    BY <1>4, SMT
  <2>4. row.at = other.at
    BY <2>2, <2>3, SMT
  <2>5. /\ row.req = other.req /\ row.seq = other.seq /\ row.received = other.received
        /\ row \in RowSet /\ other \in RowSet
    BY <1>4, <1>6, <2>4, Zenon
  <2>6. QED
    BY <2>4, <2>5, SMT DEF RowSet
<1>7. ASSUME NEW row \in results, NEW other \in results, row.req = other.req PROVE row = other
  BY <1>1, <1>7, Zenon DEF RowsCopied
<1>8. ASSUME NEW row \in results \cup Received(stamp), NEW other \in results \cup Received(stamp),
             row.req = other.req
      PROVE  row = other
  BY <1>5, <1>6, <1>7, <1>8, Zenon
<1>9. QED
  BY <1>3, <1>4, <1>8, Zenon

\* The room behind the cursor stays as it is.
LEMMA BehindCursor ==
    ASSUME IInv, [Next]_vars, ~Process
    PROVE  /\ cursor' = cursor
           /\ \A p \in 1 .. cursor : stream'[p] = stream[p] /\ (Usable(p)' <=> Usable(p))
<1>1. TypeOK /\ ReadBacked /\ StreamKept
  BY Grows, Zenon DEF IInv
<1>2. ASSUME NEW p \in 1 .. cursor PROVE stream'[p] = stream[p]
  <2>1. p \in DOMAIN stream
    <3>1. cursor <= Len(stream) /\ cursor \in Nat /\ Len(stream) \in Nat /\ DOMAIN stream = 1 .. Len(stream)
      BY <1>1, Places, Zenon DEF ReadBacked, TypeOK
    <3>2. QED
      BY <3>1, SMT
  <2>2. QED
    BY <1>1, <2>1, Zenon DEF StreamKept
<1>3. QED
  BY <1>2, ThreadStep, Zenon DEF Usable

\* The table stays a copy of the room.
LEMMA RowsCopiedStep ==
    ASSUME IInv, [Next]_vars
    PROVE  RowsCopied'
<1>1. TypeOK /\ ReadBacked /\ RowsCopied
  BY Zenon DEF IInv
<1>2. CASE Process
  <2>1. PICK stamp \in [Arrived -> Times], now \in Times, then \in Times : Commit(stamp, now, then)
    BY <1>2, Zenon DEF Process
  <2>2. stream' = stream
    BY <1>2, Zenon DEF Process, room
  <2>3. results' \in SUBSET (results \cup Received(stamp))
    BY <2>1, NewestRows, Zenon
  <2>4. DOMAIN stamps' = {p \in 1 .. cursor' : Usable(p)}
    BY <1>1, <1>2, <2>1, StampsStep, Zenon
  <2>5. \A row \in results' :
          /\ row.at \in 1 .. cursor' /\ Usable(row.at)
          /\ row.req = stream[row.at].req /\ row.seq = stream[row.at].seq
          /\ row.received = stamps'[row.at]
    BY <1>2, <2>1, <2>3, Batch, Zenon
  <2>6. \A row, other \in results' : row.req = other.req => row = other
    BY <1>2, <2>1, <2>3, Batch, Zenon
  <2>7. QED
    BY <2>2, <2>4, <2>5, <2>6, Zenon DEF RowsCopied, Usable
<1>3. CASE ~Process
  <2>1. cursor' = cursor /\ results' = results /\ stamps' = stamps
    BY <1>3, ThreadStep, Zenon
  <2>2. \A p \in 1 .. cursor : stream'[p] = stream[p] /\ (Usable(p)' <=> Usable(p))
    BY <1>3, BehindCursor, Zenon
  <2>3. DOMAIN stamps' = {p \in 1 .. cursor' : Usable(p)'}
    BY <1>1, <2>1, <2>2, Zenon DEF RowsCopied
  <2>4. \A row \in results' :
          /\ row.at \in 1 .. cursor' /\ Usable(row.at)'
          /\ row.req = stream'[row.at].req /\ row.seq = stream'[row.at].seq
          /\ row.received = stamps'[row.at]
    <3>1. \A row \in results :
            /\ row.at \in 1 .. cursor /\ Usable(row.at)
            /\ row.req = stream[row.at].req /\ row.seq = stream[row.at].seq
            /\ row.received = stamps[row.at]
      BY <1>1, Zenon DEF RowsCopied
    <3>2. QED
      BY <2>1, <2>2, <3>1, Zenon
  <2>5. \A row, other \in results' : row.req = other.req => row = other
    BY <1>1, <2>1, Zenon DEF RowsCopied
  <2>6. QED
    BY <2>3, <2>4, <2>5, Zenon DEF RowsCopied
<1>4. QED
  BY <1>2, <1>3

-----------------------------------------------------------------------------
(* Sessions and answers *)

\* The seq n is that of a request of session s after the step.
NowSentBy(n, s) == n \in DOMAIN inbox' /\ inbox'[n].session = s

\* The seq that Technocore returns is that of the session's own request
\* (worker/webapp.py:369-379).
LEMMA ForwardsSentBy ==
    ASSUME IInv, [Next]_vars, NEW h \in Handler, forwards'[h].stage = "confirm"
    PROVE  NowSentBy(forwards'[h].seq, forwards'[h].session)
<1>1. TypeOK /\ BaselinesReached /\ SessionsKept /\ InboxKept
  BY Grows, Zenon DEF IInv
<1>2. forwards \in [Handler -> ForwardSet]
  BY <1>1, Zenon DEF TypeOK
<1>3. CASE forwards'[h] = forwards[h]
  <2>1. SentBy(forwards[h].seq, forwards[h].session)
    BY <1>1, <1>3, Zenon DEF SessionsKept
  <2>2. QED
    BY <1>1, <1>3, <2>1, Zenon DEF InboxKept, SentBy, NowSentBy
<1>4. CASE PostAccepted(h)
  <2>1. forwards'[h] = [forwards[h] EXCEPT !.stage = "confirm", !.seq = Len(inbox) + 1]
    BY <1>2, <1>4, Zenon DEF PostAccepted
  <2>2. forwards[h] \in ForwardSet /\ forwards[h].stage # "idle"
    BY <1>2, <1>4, Zenon DEF PostAccepted
  <2>3. forwards'[h].seq = Len(inbox) + 1 /\ forwards'[h].session = forwards[h].session
    BY <2>1, <2>2, SMT DEF ForwardSet
  <2>4. /\ Len(inbox) + 1 \in DOMAIN inbox'
        /\ inbox'[Len(inbox) + 1] = [req |-> forwards[h].req, session |-> forwards[h].session]
    BY <1>1, <1>4, <2>2, Accepting, Zenon DEF PostAccepted
  <2>5. inbox'[Len(inbox) + 1].session = forwards[h].session
    BY <2>4, SMT
  <2>6. QED
    BY <2>3, <2>4, <2>5, Zenon DEF NowSentBy
<1>5. CASE forwards'[h] = NoForward \/ \E s \in Session : Forward(h, s)
  <2>1. forwards'[h].stage = "idle" \/ forwards'[h].stage = "post"
    <3>1. CASE forwards'[h] = NoForward
      BY <3>1, SMT DEF NoForward
    <3>2. CASE \E s \in Session : Forward(h, s)
      <4>1. PICK s, r : forwards' = [forwards EXCEPT ![h] =
                          [stage |-> "post", session |-> s, req |-> r, seq |-> 0]]
        BY <3>2, Zenon DEF Forward
      <4>2. forwards'[h] = [stage |-> "post", session |-> s, req |-> r, seq |-> 0]
        BY <1>2, <4>1, Zenon
      <4>3. QED
        BY <4>2, SMT
    <3>3. QED
      BY <1>5, <3>1, <3>2
  <2>2. QED
    BY <2>1
<1>6. QED
  <2>1. CASE \E k \in Handler : ForwardStep(k)
    <3>1. PICK k \in Handler : ForwardStep(k)
      BY <2>1
    <3>2. CASE h = k
      <4>1. CASE PostFails(h) \/ Confirm(h)
        BY <1>2, <1>5, <4>1, Zenon DEF PostFails, Confirm
      <4>2. QED
        BY <1>4, <1>5, <3>1, <3>2, <4>1, Zenon DEF ForwardStep
    <3>3. CASE h # k
      BY <1>2, <1>3, <3>1, <3>3, Zenon DEF ForwardStep, Forward, PostAccepted, PostFails, Confirm
    <3>4. QED
      BY <3>2, <3>3
  <2>2. CASE Restart
    BY <1>5, <2>2, Zenon DEF Restart
  <2>3. CASE forwards' = forwards
    BY <1>3, <2>3, Zenon
  <2>4. (\E k \in Handler : ForwardStep(k)) \/ Restart \/ forwards' = forwards
    BY Zenon DEF Next, vars, CollectorStep, Read, ReadAgain, ProcessGap, Process, PollFails, ThreadDies,
       Answer, OtherMessage, Trim, Baseline,
       StartWait, WaitStep, ReadRegistration, ReadRow, CheckHealth, Deadline, WaitLeaves, web
  <2>5. QED
    BY <2>1, <2>2, <2>3, <2>4

\* A registration is confirmed with a seq that its session was returned, though it
\* may be for a later registration of the job (worker/collector.py:190-205).
LEMMA RegisteredSentBy ==
    ASSUME IInv, [Next]_vars, NEW g \in registered', g.seq # 0
    PROVE  NowSentBy(g.seq, g.session)
<1>1. TypeOK /\ SessionsKept /\ InboxKept
  BY Grows, Zenon DEF IInv
<1>2. SUFFICES \E n, s : n = g.seq /\ s = g.session /\ SentBy(n, s)
  BY <1>1, Zenon DEF InboxKept, SentBy, NowSentBy
<1>3. ASSUME g \in registered PROVE SentBy(g.seq, g.session)
  BY <1>1, <1>3, Zenon DEF SessionsKept
<1>4. registered \in SUBSET RegistrationSet
  BY <1>1, Zenon DEF TypeOK
<1>5. CASE registered' = registered \/ Process
  <2>1. g \in registered
    BY <1>5, Zenon DEF Process, Commit
  <2>2. QED
    BY <1>3, <2>1, Zenon
<1>7. ASSUME NEW h \in Handler, NEW s \in Session, Forward(h, s)
      PROVE  \E n, t : n = g.seq /\ t = g.session /\ SentBy(n, t)
  <2>1. PICK r \in Requests, now \in Times :
          /\ r.after = issued[s]
          /\ registered' = {e \in registered : ~SameJob(e, s, r)} \cup {Registration(s, r, 0, now)}
          /\ forwards' = [forwards EXCEPT ![h] =
                 [stage |-> "post", session |-> s, req |-> r, seq |-> 0]]
    BY <1>1, <1>7, Forwarding, Zenon
  <2>2. Registration(s, r, 0, now).seq = 0
    BY SMT DEF Registration
  <2>3. g \in registered
    BY <2>1, <2>2, Zenon
  <2>4. QED
    BY <1>3, <2>3, Zenon
<1>8. ASSUME NEW h \in Handler, Confirm(h)
      PROVE  \E n, t : n = g.seq /\ t = g.session /\ SentBy(n, t)
  <2>1. PICK now \in Times, e \in registered :
          g = IF ConfirmedBy(e, h, now) THEN [e EXCEPT !.seq = forwards[h].seq] ELSE e
    BY <1>8, Zenon DEF Confirm
  <2>2. CASE ConfirmedBy(e, h, now)
    <3>1. e \in RegistrationSet
      BY <1>4, Zenon
    <3>2. g = [e EXCEPT !.seq = forwards[h].seq]
      BY <2>1, <2>2, Zenon
    <3>3. g.seq = forwards[h].seq /\ g.session = e.session
      BY <3>1, <3>2, SMT DEF RegistrationSet
    <3>4. e.session = forwards[h].session
      BY <2>2, Zenon DEF ConfirmedBy, SameJob
    <3>5. SentBy(forwards[h].seq, forwards[h].session)
      BY <1>1, <1>8, Zenon DEF SessionsKept, Confirm
    <3>6. QED
      BY <3>3, <3>4, <3>5, Zenon
  <2>3. CASE ~ConfirmedBy(e, h, now)
    BY <1>3, <2>1, <2>3, Zenon
  <2>4. QED
    BY <2>2, <2>3
<1>9. QED
  <2>1. \/ registered' = registered \/ Process
        \/ \E h \in Handler : (\E s \in Session : Forward(h, s)) \/ Confirm(h)
    BY Zenon DEF Next, vars, CollectorStep, Read, ReadAgain, ProcessGap, PollFails, ThreadDies, Restart,
       Answer, OtherMessage, Trim, Baseline, ForwardStep, PostAccepted, PostFails,
       StartWait, WaitStep, ReadRegistration, ReadRow, CheckHealth, Deadline, WaitLeaves, database
  <2>2. QED
    BY <1>5, <1>7, <1>8, <2>1, Zenon

\* What a step does to the wait of w: nothing, a new stage, nothing left to wait for,
\* what a registration says, or a row of the table.
Kept(w) == /\ waits'[w].session = waits[w].session /\ waits'[w].req = waits[w].req
           /\ waits'[w].answer = waits[w].answer
           /\ waits'[w].seq = waits[w].seq \/ waits'[w].seq = 0
Emptied(w) == waits'[w].seq = 0 /\ waits'[w].answer = NoRow
LookedUp(w) == \E g \in registered :
    /\ waits'[w].session = waits[w].session /\ waits'[w].req = waits[w].req
    /\ waits'[w].answer = waits[w].answer
    /\ g.session = waits[w].session /\ waits'[w].seq = g.seq
Given(w) == \E row \in results :
    /\ waits'[w].session = waits[w].session /\ waits'[w].req = waits[w].req
    /\ waits'[w].answer = row /\ waits'[w].seq = 0
    /\ Released(row, w)

\* The record of a wait that begins.
LEMMA BegunRecord ==
    ASSUME NEW g, NEW y,
           y = [NoWait EXCEPT !.stage = "registration", !.session = g.session, !.req = g.req]
    PROVE  y.seq = 0 /\ y.answer = NoRow
BY SMT DEF NoWait

\* Every step does one of these to a wait (worker/collector.py:183-232).
LEMMA WaitsStep ==
    ASSUME IInv, [Next]_vars, NEW w \in Waiter
    PROVE  Kept(w) \/ Emptied(w) \/ LookedUp(w) \/ Given(w)
<1>1. TypeOK
  BY Zenon DEF IInv
<1>2. waits \in [Waiter -> WaitSet] /\ waits[w] \in WaitSet
  BY <1>1, Zenon DEF TypeOK
<1>3. 0 \in Nat /\ NoWait.seq = 0 /\ NoWait.answer = NoRow
  BY SMT DEF NoWait
<1>4. CASE waits'[w] = waits[w]
  BY <1>4, Zenon DEF Kept
<1>5. CASE Notified
  BY <1>2, <1>5, Waking, Zenon DEF Kept
<1>6. CASE waits'[w] = NoWait
  BY <1>3, <1>6, Zenon DEF Emptied
<1>7. ASSUME NEW stage, WaitGoes(w, stage) PROVE Kept(w)
  <2>1. waits'[w] = [waits[w] EXCEPT !.stage = stage, !.seq = 0]
    BY <1>2, <1>7, Zenon DEF WaitGoes
  <2>2. /\ waits'[w].session = waits[w].session /\ waits'[w].req = waits[w].req
        /\ waits'[w].answer = waits[w].answer /\ waits'[w].seq = 0
    BY <1>2, <2>1, SMT DEF WaitSet
  <2>3. QED
    BY <2>2, Zenon DEF Kept
<1>8. CASE StartWait(w)
  <2>1. PICK g \in registered : waits'[w] =
          [NoWait EXCEPT !.stage = "registration", !.session = g.session, !.req = g.req]
    BY <1>2, <1>8, Zenon DEF StartWait
  <2>2. QED
    BY <2>1, BegunRecord, Zenon DEF Emptied
<1>9. CASE ReadRegistration(w)
  <2>1. CASE WaitReturns(w, NoRow)
    <3>1. waits'[w] = NoWait
      BY <1>2, <2>1, Zenon DEF WaitReturns
    <3>2. QED
      BY <1>6, <3>1
  <2>2. ASSUME NEW g \in registered, NEW now \in Times, LooksUp(g, w, now),
               waits' = [waits EXCEPT ![w] = [@ EXCEPT !.stage = "row", !.seq = g.seq]]
        PROVE  LookedUp(w)
    <3>1. waits'[w] = [waits[w] EXCEPT !.stage = "row", !.seq = g.seq]
      BY <1>2, <2>2, Zenon
    <3>2. g.seq \in Nat
      BY <1>1, SMT DEF TypeOK, RegistrationSet
    <3>3. /\ waits'[w].session = waits[w].session /\ waits'[w].req = waits[w].req
          /\ waits'[w].answer = waits[w].answer /\ waits'[w].seq = g.seq
      BY <1>2, <3>1, <3>2, SMT DEF WaitSet
    <3>4. QED
      BY <2>2, <3>3, Zenon DEF LookedUp, LooksUp
  <2>3. QED
    BY <1>9, <2>1, <2>2, Zenon DEF ReadRegistration
<1>10. CASE ReadRow(w)
  <2>1. ASSUME NEW row \in results, Released(row, w), WaitReturns(w, row) PROVE Given(w)
    <3>1. row \in RowSet
      BY <1>1, Zenon DEF TypeOK
    <3>2. row # NoRow
      BY <3>1, CollectorAssumption, Zenon DEF RowSet, Requests
    <3>3. waits'[w] = [NoWait EXCEPT !.session = waits[w].session, !.req = waits[w].req, !.answer = row]
      BY <1>2, <2>1, <3>2, Zenon DEF WaitReturns
    <3>4. /\ waits'[w].session = waits[w].session /\ waits'[w].req = waits[w].req
          /\ waits'[w].answer = row /\ waits'[w].seq = 0
      BY <3>3, SMT DEF NoWait
    <3>5. QED
      BY <2>1, <3>4, Zenon DEF Given
  <2>2. QED
    BY <1>7, <1>10, <2>1, Zenon DEF ReadRow
<1>11. CASE CheckHealth(w)
  <2>1. CASE WaitReturns(w, NoRow)
    <3>1. waits'[w] = NoWait
      BY <1>2, <2>1, Zenon DEF WaitReturns
    <3>2. QED
      BY <1>6, <3>1
  <2>2. QED
    BY <1>7, <1>11, <2>1, Zenon DEF CheckHealth
<1>12. CASE Deadline(w)
  <2>1. waits'[w] = [waits[w] EXCEPT !.late = TRUE, !.stage = Woken(waits[w].stage)]
    BY <1>2, <1>12, Zenon DEF Deadline
  <2>2. /\ waits'[w].session = waits[w].session /\ waits'[w].req = waits[w].req
        /\ waits'[w].answer = waits[w].answer /\ waits'[w].seq = waits[w].seq
    BY <1>2, <2>1, SMT DEF WaitSet
  <2>3. QED
    BY <2>2, Zenon DEF Kept
<1>13. CASE \E v \in Waiter : StartWait(v) \/ WaitStep(v) \/ Deadline(v)
  <2>1. PICK v \in Waiter : StartWait(v) \/ WaitStep(v) \/ Deadline(v)
    BY <1>13
  <2>2. CASE v = w
    BY <1>8, <1>9, <1>10, <1>11, <1>12, <2>1, <2>2, Zenon DEF WaitStep
  <2>3. CASE v # w
    <3>1. \E x : waits' = [waits EXCEPT ![v] = x]
      BY <2>1, Zenon DEF StartWait, WaitStep, ReadRegistration, ReadRow, CheckHealth, Deadline,
                         WaitGoes, WaitReturns
    <3>2. waits'[w] = waits[w]
      BY <1>2, <2>3, <3>1, Zenon
    <3>3. QED
      BY <1>4, <3>2
  <2>4. QED
    BY <2>2, <2>3
<1>14. CASE Restart
  BY <1>6, <1>14, Zenon DEF Restart
<1>15. Notified \/ Restart \/ waits' = waits \/ \E v \in Waiter : StartWait(v) \/ WaitStep(v) \/ Deadline(v)
  BY Zenon DEF Next, vars, CollectorStep, Read, ReadAgain, ProcessGap, Process, PollFails, ThreadDies,
     Answer, OtherMessage, Trim, Baseline, ForwardStep, Forward,
     PostAccepted, PostFails, Confirm, web
<1>16. QED
  BY <1>4, <1>5, <1>13, <1>14, <1>15, Zenon

\* The seqs of the sessions stay theirs.
LEMMA SessionsKeptStep ==
    ASSUME IInv, [Next]_vars
    PROVE  SessionsKept'
<1>1. TypeOK /\ SessionsKept /\ InboxKept
  BY Grows, Zenon DEF IInv
<1>2. ASSUME NEW w \in Waiter, waits'[w].seq # 0
      PROVE  NowSentBy(waits'[w].seq, waits'[w].session)
  <2>1. CASE Kept(w)
    <3>1. waits'[w].seq = waits[w].seq /\ waits'[w].session = waits[w].session
      BY <1>2, <2>1, Zenon DEF Kept
    <3>2. QED
      BY <1>1, <1>2, <3>1, Zenon DEF SessionsKept, SentBy, NowSentBy, InboxKept
  <2>2. CASE LookedUp(w)
    <3>1. PICK g \in registered :
             waits'[w].session = waits[w].session /\ waits'[w].seq = g.seq /\ g.session = waits[w].session
      BY <2>2, Zenon DEF LookedUp
    <3>2. QED
      BY <1>1, <1>2, <3>1, Zenon DEF SessionsKept, SentBy, NowSentBy, InboxKept
  <2>3. QED
    BY <1>2, <2>1, <2>2, WaitsStep, Zenon DEF Emptied, Given
<1>3. QED
  BY <1>2, ForwardsSentBy, RegisteredSentBy, Zenon DEF SessionsKept, SentBy, NowSentBy

\* What a wait returns stays the answer to the session's own request.
LEMMA AnswerIsOwnStep ==
    ASSUME IInv, [Next]_vars
    PROVE  AnswerIsOwn'
<1>1. TypeOK /\ SessionsKept /\ AnswerIsOwn /\ RowsCopied /\ RepliesBacked /\ ReadBacked /\ InboxKept
  BY Grows, Zenon DEF IInv
<1>2. ASSUME NEW w \in Waiter, waits'[w].answer # NoRow
      PROVE  /\ waits'[w].answer.seq \in DOMAIN inbox'
             /\ inbox'[waits'[w].answer.seq] = [req |-> waits'[w].req, session |-> waits'[w].session]
  <2>1. CASE waits'[w].answer = waits[w].answer /\ waits'[w].req = waits[w].req
             /\ waits'[w].session = waits[w].session
    BY <1>1, <1>2, <2>1, ZenonT(60) DEF AnswerIsOwn, InboxKept
  <2>2. CASE Given(w)
    <3>1. PICK row \in results :
            /\ waits'[w].session = waits[w].session /\ waits'[w].req = waits[w].req
            /\ waits'[w].answer = row /\ Released(row, w)
      BY <2>2, Zenon DEF Given
    <3>2. row.req = waits[w].req /\ waits[w].seq # 0 /\ row.seq = waits[w].seq
      BY <3>1, Zenon DEF Released
    <3>3. row.seq \in DOMAIN inbox /\ inbox[row.seq].session = waits[w].session
      BY <1>1, <3>2, Zenon DEF SessionsKept, SentBy
    <3>4. inbox[row.seq].req = row.req
      <4>1. /\ row.at \in 1 .. cursor /\ stream[row.at].req # NoReq
            /\ row.req = stream[row.at].req /\ row.seq = stream[row.at].seq
        BY <1>1, Zenon DEF RowsCopied, Usable
      <4>2. row.at \in DOMAIN stream
        <5>1. cursor <= Len(stream) /\ cursor \in Nat /\ Len(stream) \in Nat /\ DOMAIN stream = 1 .. Len(stream)
          BY <1>1, Places, Zenon DEF ReadBacked, TypeOK
        <5>2. QED
          BY <4>1, <5>1, SMT
      <4>3. QED
        BY <1>1, <4>1, <4>2, Zenon DEF RepliesBacked
    <3>5. inbox[row.seq] \in [req : Requests, session : Session]
      <4>1. inbox \in Seq([req : Requests, session : Session]) /\ row.seq \in 1 .. Len(inbox)
        BY <1>1, <3>3, Places, Zenon DEF TypeOK
      <4>2. QED
        BY <4>1, ElementOfSeq, Zenon
    <3>6. inbox[row.seq] = [req |-> waits[w].req, session |-> waits[w].session]
      BY <3>2, <3>3, <3>4, <3>5, SMT
    <3>7. QED
      BY <1>1, <3>1, <3>3, <3>6, Zenon DEF InboxKept
  <2>3. QED
    BY <1>2, <2>1, <2>2, WaitsStep, Zenon DEF Kept, Emptied, LookedUp
<1>3. QED
  BY <1>2, Zenon DEF AnswerIsOwn

-----------------------------------------------------------------------------
(* Fresh results *)

\* Rows with different requests are no more than the requests.
LEMMA DistinctRequests ==
    ASSUME NEW L, NEW A, IsFiniteSet(A), \A n \in L : n.req \in A,
           \A m, n \in L : m.req = n.req => m = n
    PROVE  IsFiniteSet(L) /\ Cardinality(L) <= Cardinality(A)
<1>1. PICK f : f = [n \in L |-> n.req]
  OBVIOUS
<1>2. f \in [L -> A]
  BY <1>1, SMT
<1>3. \A m, n \in L : f[m] = f[n] => m = n
  BY <1>1, Zenon
<1>4. f \in Injection(L, A)
  <2>1. DOMAIN f = L
    BY <1>1, Zenon
  <2>2. QED
    BY <1>2, <1>3, <2>1, Zenon DEF Injection, IsInjective
<1>5. QED
  BY <1>4, FS_Injection, Zenon

\* The requests other than that of place p answered at a place with a reading of f that
\* is not before its own.
Rivals(f, p) == {stream[q].req : q \in {n \in DOMAIN f : f[n] >= f[p]}} \ {stream[p].req}

\* There are finitely many of them.
LEMMA RivalsFinite ==
    ASSUME NEW f, NEW p, NEW c \in Nat, DOMAIN f \in SUBSET (1 .. c)
    PROVE  IsFiniteSet(Rivals(f, p))
<1>1. PICK S : S = {n \in DOMAIN f : f[n] >= f[p]}
  OBVIOUS
<1>2. PICK T : T = {stream[q].req : q \in S}
  OBVIOUS
<1>3. IsFiniteSet(S)
  <2>1. 1 \in Int /\ c \in Int
    BY SMT
  <2>2. IsFiniteSet(1 .. c)
    BY <2>1, FS_Interval, Zenon
  <2>3. S \in SUBSET (1 .. c)
    BY <1>1, Zenon
  <2>4. QED
    BY <2>2, <2>3, FS_Subset, Zenon
<1>4. IsFiniteSet(T)
  <2>1. PICK g : g = [q \in S |-> stream[q].req]
    OBVIOUS
  <2>2. g \in [S -> T]
    BY <1>2, <2>1, Zenon
  <2>3. \A t \in T : \E q \in S : g[q] = t
    BY <1>2, <2>1, Zenon
  <2>4. g \in Surjection(S, T)
    BY <2>2, <2>3, Zenon DEF Surjection
  <2>5. QED
    BY <1>3, <2>4, FS_Surjection, Zenon
<1>5. Rivals(f, p) \in SUBSET T
  BY <1>1, <1>2, Zenon DEF Rivals
<1>6. QED
  BY <1>4, <1>5, FS_Subset, Zenon

\* More readings make at least as many rivals.
LEMMA RivalsGrow ==
    ASSUME NEW f, NEW g, NEW c \in Nat, DOMAIN g \in SUBSET (1 .. c),
           DOMAIN f \in SUBSET DOMAIN g, \A n \in DOMAIN f : g[n] = f[n],
           NEW p \in DOMAIN f
    PROVE  /\ Cardinality(Rivals(f, p)) \in Nat /\ Cardinality(Rivals(g, p)) \in Nat
           /\ Cardinality(Rivals(f, p)) <= Cardinality(Rivals(g, p))
<1>1. IsFiniteSet(Rivals(f, p)) /\ IsFiniteSet(Rivals(g, p))
  <2>1. DOMAIN f \in SUBSET (1 .. c)
    BY Zenon
  <2>2. QED
    BY <2>1, RivalsFinite, Zenon
<1>2. Rivals(f, p) \in SUBSET Rivals(g, p)
  BY Zenon DEF Rivals
<1>3. QED
  BY <1>1, <1>2, FS_Subset, FS_CardinalityType, Zenon

\* A first reply that the cursor reaches is received, or was before
\* (worker/collector.py:110-137).
LEMMA FirstReplyReceived ==
    ASSUME IInv, Process, NEW stamp \in [Arrived -> Times], NEW now, NEW then, Commit(stamp, now, then),
           NEW p \in 1 .. cursor', FirstReply(p), p \notin expired,
           Cardinality(Rivals(stamps', p)) < MaxResults
    PROVE  \E row \in results \cup Received(stamp) : row.req = stream[p].req /\ row.at = p
<1>1. TypeOK /\ ReadBacked /\ RowsCopied /\ FreshResultsKept
  BY Zenon DEF IInv
<1>2. /\ cursor \in Nat /\ cursor' \in Nat /\ cursor <= cursor' /\ p \in Nat
      /\ Arrived = {q \in cursor + 1 .. cursor' : Usable(q)}
  <2>1. /\ cursor \in Nat /\ cursor' \in Nat /\ cursor <= cursor'
        /\ Arrived = {q \in cursor + 1 .. cursor' : Usable(q)}
    BY <1>1, ArrivedAll, Zenon
  <2>2. QED
    BY <2>1, SMT
<1>3. Usable(p) /\ \A e \in 1 .. p - 1 : stream[e].req # stream[p].req
  BY Zenon DEF FirstReply
<1>4. CASE p \in 1 .. cursor
  <2>1. p \in DOMAIN stamps
    BY <1>1, <1>3, <1>4, Zenon DEF RowsCopied
  <2>2. /\ Cardinality(Rivals(stamps, p)) \in Nat /\ Cardinality(Rivals(stamps', p)) \in Nat
        /\ Cardinality(Rivals(stamps, p)) <= Cardinality(Rivals(stamps', p))
    <3>1. /\ DOMAIN stamps' \in SUBSET (1 .. cursor') /\ DOMAIN stamps \in SUBSET DOMAIN stamps'
          /\ \A n \in DOMAIN stamps : stamps'[n] = stamps[n]
      BY <1>1, StampsStep, Zenon
    <3>2. QED
      BY <1>2, <2>1, <3>1, RivalsGrow, Zenon
  <2>3. Cardinality(Rivals(stamps, p)) < MaxResults
    BY <2>2, CollectorAssumption, SMT
  <2>4. NoOlder(p) = Rivals(stamps, p)
    BY Zenon DEF NoOlder, Rivals
  <2>5. QED
    BY <1>1, <1>4, <2>3, <2>4, Zenon DEF FreshResultsKept
<1>5. CASE p \in cursor + 1 .. cursor'
  <2>1. p \in Arrived
    BY <1>2, <1>3, <1>5, Zenon
  <2>2. ASSUME NEW row \in results PROVE row.req # stream[p].req
    <3>1. row.at \in 1 .. cursor /\ row.req = stream[row.at].req
      BY <1>1, Zenon DEF RowsCopied
    <3>2. row.at \in 1 .. p - 1
      BY <1>2, <1>5, <3>1, SMT
    <3>3. QED
      BY <1>3, <3>1, <3>2, Zenon
  <2>3. ASSUME NEW e \in Arrived, e < p PROVE stream[e].req # stream[p].req
    <3>1. e \in cursor + 1 .. cursor'
      BY <1>2, Zenon
    <3>2. e \in 1 .. p - 1
      BY <1>2, <2>3, <3>1, SMT
    <3>3. QED
      BY <1>3, <3>2, Zenon
  <2>4. Copied(stamp, p) \in Received(stamp)
    BY <2>1, <2>2, <2>3, Zenon DEF Received, Copied
  <2>5. Copied(stamp, p).req = stream[p].req /\ Copied(stamp, p).at = p
    BY SMT DEF Copied
  <2>6. QED
    BY <2>4, <2>5, Zenon
<1>6. p \in 1 .. cursor \/ p \in cursor + 1 .. cursor'
  BY <1>2, SMT
<1>7. QED
  BY <1>4, <1>5, <1>6

\* Pruning keeps it while it is within the TTL and fewer than MaxResults requests were
\* answered with a reading not before its own: the rows that are kept instead of it
\* would be the answers to MaxResults such requests (worker/collector.py:150-157).
LEMMA Unpruned ==
    ASSUME IInv, Process, NEW stamp \in [Arrived -> Times], NEW now \in Times, NEW then,
           Commit(stamp, now, then),
           NEW row \in results \cup Received(stamp), row.at \notin expired',
           Cardinality(Rivals(stamps', row.at)) < MaxResults
    PROVE  row \in results'
<1>1. PICK rows : rows = {e \in results \cup Received(stamp) : e.received + Ttl >= now}
  OBVIOUS
<1>2. PICK A : A = Rivals(stamps', row.at)
  OBVIOUS
<1>3. TypeOK /\ ReadBacked /\ RowsCopied
  BY Zenon DEF IInv
<1>4. cursor' \in Nat /\ DOMAIN stamps' = {p \in 1 .. cursor' : Usable(p)}
  BY <1>3, ArrivedAll, StampsStep, Zenon
<1>5. row.at \in DOMAIN stamps' /\ row.received = stamps'[row.at] /\ row.req = stream[row.at].req
  BY <1>4, Batch, Zenon
<1>6. row \in rows
  <2>1. ~(stamps'[row.at] + Ttl < now)
    BY <1>5, Zenon DEF Commit
  <2>2. row.received \in Nat /\ now \in Nat /\ Ttl \in Nat
    <3>1. row \in RowSet
      BY Batch, Zenon
    <3>2. row.received \in Nat
      BY <3>1, SMT DEF RowSet
    <3>3. QED
      BY <3>2, CollectorAssumption, Zenon
  <2>3. row.received + Ttl >= now
    BY <1>5, <2>1, <2>2, SMT
  <2>4. QED
    BY <1>1, <2>3, Zenon
<1>7. SUFFICES ASSUME row \notin results' PROVE FALSE
  OBVIOUS
<1>8. results' \in Newest(rows)
  BY <1>1, Zenon DEF Commit
<1>9. /\ results' \in SUBSET rows /\ Cardinality(results') = MaxResults
      /\ \A k \in results' : row.received <= k.received
  BY <1>6, <1>7, <1>8, Zenon DEF Newest
<1>10. IsFiniteSet(A)
  BY <1>2, <1>4, RivalsFinite, Zenon
<1>11. ASSUME NEW k \in results' PROVE k.req \in A
  <2>1. k \in results \cup Received(stamp) /\ row.received <= k.received /\ k # row
    BY <1>1, <1>7, <1>9, Zenon
  <2>2. k.at \in DOMAIN stamps' /\ k.received = stamps'[k.at] /\ k.req = stream[k.at].req /\ k \in RowSet
    BY <1>4, <2>1, Batch, Zenon
  <2>3. k.received >= row.received
    <3>1. k.received \in Nat /\ row.received \in Nat
      BY <2>2, Batch, SMT DEF RowSet
    <3>2. QED
      BY <2>1, <3>1, SMT
  <2>4. k.req # row.req
    BY <2>1, Batch, Zenon
  <2>5. QED
    BY <1>2, <1>5, <2>2, <2>3, <2>4, Zenon DEF Rivals
<1>12. ASSUME NEW m \in results', NEW n \in results', m.req = n.req PROVE m = n
  BY <1>1, <1>9, <1>12, Batch, Zenon
<1>13. IsFiniteSet(results') /\ Cardinality(results') <= Cardinality(A)
  BY <1>10, <1>11, <1>12, DistinctRequests, Zenon
<1>14. QED
  <2>1. Cardinality(results') \in Nat /\ Cardinality(A) \in Nat
    BY <1>10, <1>13, FS_CardinalityType, Zenon
  <2>2. QED
    BY <1>2, <1>9, <1>13, <2>1, CollectorAssumption, SMT

\* Fresh results are kept by every step.
LEMMA FreshResultsKeptStep ==
    ASSUME IInv, [Next]_vars
    PROVE  FreshResultsKept'
<1>1. TypeOK /\ ReadBacked /\ RowsCopied /\ FreshResultsKept
  BY Zenon DEF IInv
<1>2. cursor \in Nat
  BY <1>1, Zenon DEF TypeOK
<1>3. CASE Process
  <2>1. PICK stamp \in [Arrived -> Times], now \in Times, then \in Times : Commit(stamp, now, then)
    BY <1>3, Zenon DEF Process
  <2>2. stream' = stream
    BY <1>3, Zenon DEF Process, room
  <2>3. SUFFICES ASSUME NEW p \in 1 .. cursor', FirstReply(p)', p \notin expired',
                        Cardinality(NoOlder(p)') < MaxResults
                 PROVE  \E row \in results' : row.req = stream'[p].req /\ row.at = p
    BY Zenon DEF FreshResultsKept
  <2>4. FirstReply(p)
    BY <2>2, <2>3, Zenon DEF FirstReply, Usable
  <2>5. p \notin expired
    BY <2>1, <2>3, Zenon DEF Commit
  <2>6. Cardinality(Rivals(stamps', p)) < MaxResults
    <3>1. NoOlder(p)' = Rivals(stamps', p)
      BY <2>2, Zenon DEF NoOlder, Rivals
    <3>2. QED
      BY <2>3, <3>1, Zenon
  <2>7. PICK row \in results \cup Received(stamp) : row.req = stream[p].req /\ row.at = p
    BY <1>3, <2>1, <2>3, <2>4, <2>5, <2>6, FirstReplyReceived, Zenon
  <2>8. row \in results'
    BY <1>3, <2>1, <2>3, <2>6, <2>7, Unpruned, Zenon
  <2>9. QED
    BY <2>2, <2>7, <2>8, Zenon
<1>4. CASE ~Process
  <2>1. cursor' = cursor /\ results' = results /\ stamps' = stamps /\ expired' = expired
    BY <1>4, ThreadStep, Zenon
  <2>2. \A q \in 1 .. cursor : stream'[q] = stream[q] /\ (Usable(q)' <=> Usable(q))
    BY <1>4, BehindCursor, Zenon
  <2>3. SUFFICES ASSUME NEW p \in 1 .. cursor, FirstReply(p)', p \notin expired, Cardinality(NoOlder(p)') < MaxResults
                 PROVE  \E row \in results : row.req = stream[p].req /\ row.at = p
    BY <2>1, <2>2, Zenon DEF FreshResultsKept
  <2>4. \A e \in 1 .. p - 1 : e \in 1 .. cursor
    BY <1>2, SMT
  <2>5. FirstReply(p)
    BY <2>2, <2>3, <2>4, Zenon DEF FirstReply
  <2>6. NoOlder(p)' = NoOlder(p)
    <3>1. \A n \in DOMAIN stamps : stream'[n] = stream[n]
      BY <1>1, <2>2, Zenon DEF RowsCopied
    <3>2. QED
      BY <2>1, <2>2, <3>1, Zenon DEF NoOlder
  <2>7. QED
    BY <1>1, <2>3, <2>5, <2>6, Zenon DEF FreshResultsKept
<1>5. QED
  BY <1>3, <1>4

-----------------------------------------------------------------------------
(* The theorems *)

\* The invariant holds at the start.
LEMMA InitInv == Init => IInv
<1>1. SUFFICES ASSUME Init PROVE IInv
  OBVIOUS
<1>2. TypeOK
  BY <1>1, InitTyped
<1>3. /\ DOMAIN inbox = {} /\ DOMAIN stream = {} /\ Len(stream) = 0
      /\ inbox = <<>> /\ stream = <<>>
  BY <1>1, SMT DEF Init
<1>4. ReadBacked
  <2>1. cursor <= Len(stream) /\ base >= 1
    BY <1>1, <1>3, SMT DEF Init
  <2>2. pc # "view"
    BY <1>1, SMT DEF Init
  <2>3. QED
    BY <2>1, <2>2, Zenon DEF ReadBacked
<1>5. GapKept
  BY <1>1, Zenon DEF Init, GapKept
<1>6. BaselinesReached /\ SessionsKept /\ AnswerIsOwn
  <2>1. \A s \in Session : issued[s] <= cursor
    BY <1>1, SMT DEF Init
  <2>2. \A h \in Handler : forwards[h].stage = "idle"
    BY <1>1, SMT DEF Init, NoForward
  <2>3. \A w \in Waiter : waits[w].seq = 0 /\ waits[w].answer = NoRow
    BY <1>1, SMT DEF Init, NoWait
  <2>4. registered = {}
    BY <1>1, Zenon DEF Init
  <2>5. \A h \in Handler : forwards[h].stage # "confirm"
    BY <2>2, SMT
  <2>6. BaselinesReached
    BY <1>3, <2>1, <2>2, Zenon DEF BaselinesReached
  <2>7. SessionsKept
    BY <2>3, <2>4, <2>5, Zenon DEF SessionsKept
  <2>8. AnswerIsOwn
    BY <2>3, Zenon DEF AnswerIsOwn
  <2>9. QED
    BY <2>6, <2>7, <2>8
<1>7. RepliesBacked /\ RepliesBeyondBaseline
  BY <1>3, Zenon DEF RepliesBacked, RepliesBeyondBaseline
<1>8. RowsCopied
  <2>1. 1 .. cursor = {} /\ DOMAIN stamps = {}
    BY <1>1, SMT DEF Init
  <2>2. QED
    BY <1>1, <2>1, Zenon DEF Init, RowsCopied
<1>9. FreshResultsKept
  <2>1. 1 .. cursor = {}
    BY <1>1, SMT DEF Init
  <2>2. QED
    BY <2>1, Zenon DEF FreshResultsKept
<1>10. QED
  BY <1>2, <1>4, <1>5, <1>6, <1>7, <1>8, <1>9, Zenon DEF IInv

\* Every step keeps the invariant.
LEMMA StepInv == IInv /\ [Next]_vars => IInv'
BY TypeStep, ReadBackedStep, GapKeptStep, BaselinesReachedStep, RepliesStep, RowsCopiedStep,
   SessionsKeptStep, AnswerIsOwnStep, FreshResultsKeptStep, Zenon DEF IInv

\* The inductive invariant of the collector and its handlers holds in every state.
THEOREM Invariance == Spec => []IInv
BY InitInv, StepInv, PTL DEF Spec

\* Every variable keeps its type.
THEOREM TypeCorrect == Spec => []TypeOK
<1>1. IInv => TypeOK
  BY Zenon DEF IInv
<1>2. QED
  BY <1>1, Invariance, PTL

\* A browser is given only the answer to a request that it sent itself, at the seq
\* that Technocore gave it, with any number of sessions, handlers and waits
\* (worker/collector.py:183-216, worker/webapp.py:355-379).
THEOREM AnswersOwn == Spec => []AnswerIsOwn
<1>1. IInv => AnswerIsOwn
  BY Zenon DEF IInv
<1>2. QED
  BY <1>1, Invariance, PTL

\* Every reply lies beyond the baseline written in its request
\* (worker/collector.py:95-99, worker/protocol.py:332).
THEOREM BeyondBaseline == Spec => []RepliesBeyondBaseline
<1>1. IInv => RepliesBeyondBaseline
  BY Zenon DEF IInv
<1>2. QED
  BY <1>1, Invariance, PTL

\* No fresh first reply is lost, whatever the size of the table and of a read, and
\* whatever the clock reads (worker/collector.py:101-157).
THEOREM FreshKept == Spec => []FreshResultsKept
<1>1. IInv => FreshResultsKept
  BY Zenon DEF IInv
<1>2. QED
  BY <1>1, Invariance, PTL

\* A gap that was met is never jumped, across restarts too
\* (worker/collector.py:106-123).
THEOREM GapForGood == Spec => GapNeverJumped
<1>1. IInv /\ [Next]_vars => [gapSeen => cursor' = cursor]_vars
  BY NoBatch, ThreadStep, Zenon
<1>2. QED
  BY <1>1, Invariance, PTL DEF Spec, GapNeverJumped
=============================================================================

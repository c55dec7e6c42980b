---------------------------- MODULE WorkerProofs ----------------------------
(* Theorems about Worker for every value of its constants. *)
EXTENDS WorkerLedger, FiniteSetTheorems, SequenceTheorems, TLAPS

USE RequestAssumption, RoomAssumption, BoundAssumption

-----------------------------------------------------------------------------
(* Facts about the operators *)

\* A new row belongs to the table (worker/state.py:170-228).
LEMMA RowType ==
    ASSUME NEW m \in Envelopes, WellFormed(m),
           NEW s \in Nat, NEW result \in Results
    PROVE  Row(m, s, result) \in RowSet
BY SMT DEF Row, RowSet, WellFormed, Results, Envelopes

\* A row of the table renders to a reply (worker/service.py:138-161).
LEMMA ReplyType ==
    ASSUME NEW row \in RowSet
    PROVE  Reply(row) \in ReplySet
BY SMT DEF Reply, RowSet, ReplySet

\* next_nonce returns more than the row held (worker/state.py:104-116).
LEMMA NonceGrows ==
    ASSUME NEW c \in Int, NEW row \in Int
    PROVE  NonceAfter(c, row) \in Int /\ NonceAfter(c, row) > row
BY SMT DEF NonceAfter

\* Giving a delivery its nonce leaves the rest of it alone.
LEMMA TaskNonce ==
    ASSUME NEW t \in TaskSet, NEW n \in Int
    PROVE  /\ [t EXCEPT !.nonce = n] \in TaskSet
           /\ [t EXCEPT !.nonce = n].nonce = n
           /\ [t EXCEPT !.nonce = n].job = t.job
           /\ [t EXCEPT !.nonce = n].back = t.back
BY SMT DEF TaskSet

\* Recording where a delivery was posted leaves the rest of it alone.
LEMMA TaskPosted ==
    ASSUME NEW t \in TaskSet, NEW n \in Nat
    PROVE  /\ [t EXCEPT !.posted = n] \in TaskSet
           /\ [t EXCEPT !.posted = n].posted = n
           /\ [t EXCEPT !.posted = n].job = t.job
           /\ [t EXCEPT !.posted = n].back = t.back
           /\ [t EXCEPT !.posted = n].nonce = t.nonce
BY SMT DEF TaskSet

\* Setting the status of a row keeps it a row.
LEMMA RowStatus ==
    ASSUME NEW row \in RowSet
    PROVE  [row EXCEPT !.status = "completed"] \in RowSet
BY SMT DEF RowSet

\* Setting the response of a row keeps it a row.
LEMMA RowResponse ==
    ASSUME NEW row \in RowSet, NEW n \in Nat
    PROVE  [row EXCEPT !.response = n] \in RowSet
BY SMT DEF RowSet

\* complete changes the status and the response of a row and nothing else
\* (worker/state.py:230-236).
LEMMA RowCompleted ==
    ASSUME NEW row \in RowSet, NEW n \in Nat
    PROVE  LET e == Completed(row, n)
           IN /\ e \in RowSet
              /\ e.status = "completed" /\ e.response = n
              /\ e.did = row.did /\ e.text = row.text /\ e.seq = row.seq
              /\ e.result = row.result
<1>1. PICK f \in RowSet : f = [row EXCEPT !.status = "completed"]
  BY RowStatus
<1>2. PICK e : e = Completed(row, n)
  OBVIOUS
<1>3. e = [f EXCEPT !.response = n]
  BY <1>1, <1>2, Zenon DEF Completed
<1>4. e \in RowSet
  BY <1>3, RowResponse
<1>5. /\ e.status = "completed" /\ e.response = n
      /\ e.did = row.did /\ e.text = row.text /\ e.seq = row.seq /\ e.result = row.result
  BY <1>2, SMT DEF RowSet, Completed
<1>6. QED
  BY <1>2, <1>4, <1>5

\* A row of the table completed: the table keeps its rows, and their identity.
LEMMA Completing ==
    ASSUME NEW q \in Seq(RowSet), NEW i \in 1 .. Len(q), NEW n \in Nat,
           NEW t, t = [q EXCEPT ![i] = Completed(@, n)]
    PROVE  /\ t \in Seq(RowSet)
           /\ Len(t) = Len(q)
           /\ t[i].status = "completed" /\ t[i].response = n
           /\ \A j \in 1 .. Len(q) :
                 /\ t[j].did = q[j].did /\ t[j].text = q[j].text
                 /\ t[j].seq = q[j].seq /\ t[j].result = q[j].result
                 /\ j # i => t[j] = q[j]
<1>1. q[i] \in RowSet
  BY SMT
<1>2. PICK e : e = Completed(q[i], n)
  OBVIOUS
<1>3. /\ e \in RowSet
      /\ e.status = "completed" /\ e.response = n
      /\ e.did = q[i].did /\ e.text = q[i].text /\ e.seq = q[i].seq /\ e.result = q[i].result
  BY <1>1, <1>2, RowCompleted
<1>4. t = [q EXCEPT ![i] = e]
  BY <1>2
<1>5. /\ t \in Seq(RowSet)
      /\ Len(t) = Len(q)
      /\ \A j \in 1 .. Len(q) : t[j] = IF j = i THEN e ELSE q[j]
  BY <1>3, <1>4, ExceptSeq, SMT
<1>6. QED
  BY <1>3, <1>5, SMT

\* A post added at the end of one room's log.
LEMMA Posting ==
    ASSUME NEW S, NEW f \in [Room -> Seq(S)], NEW r \in Room, NEW e \in S,
           NEW g, g = [f EXCEPT ![r] = Append(@, e)]
    PROVE  /\ g \in [Room -> Seq(S)]
           /\ Len(g[r]) = Len(f[r]) + 1
           /\ g[r][Len(f[r]) + 1] = e
           /\ \A k \in 1 .. Len(f[r]) : g[r][k] = f[r][k]
           /\ \A q \in Room \ {r} : g[q] = f[q]
BY SMT

-----------------------------------------------------------------------------
(* Type correctness *)

\* The initial state is well typed.
LEMMA InitTyped == Init => TypeOK
BY SMT DEF Init, TypeOK, Idle, TaskSet, Places

\* The parts of a delivery are well typed.
LEMMA TaskTyped ==
    ASSUME TypeOK, DeliveryBacked, Delivering
    PROVE  /\ TaskRoom \in Room
           /\ TaskBody \in {Keepalive} \cup ReplySet
<1>1. CASE task.job = 0
  BY <1>1 DEF TaskRoom, TaskBody
<1>2. CASE task.job # 0
  <2>1. task.job \in DOMAIN jobs
    BY <1>2 DEF DeliveryBacked
  <2>2. jobs[task.job] \in RowSet
    BY <2>1, SMT DEF TypeOK
  <2>3. RoomOf[jobs[task.job].text] \in Room
    BY <2>2, SMT DEF RowSet
  <2>4. QED
    BY <1>2, <2>2, <2>3, ReplyType DEF TaskRoom, TaskBody
<1>3. QED
  BY <1>1, <1>2

\* A post keeps the rooms well typed.
LEMMA PublishedTyped ==
    ASSUME TypeOK, DeliveryBacked, pc = "post", Published
    PROVE  streams' \in [Room -> Seq(PostSet)]
<1>1. [body |-> TaskBody, nonce |-> task.nonce] \in PostSet
  <2>1. TaskBody \in {Keepalive} \cup ReplySet
    BY TaskTyped DEF Delivering
  <2>2. task.nonce \in Int
    BY SMT DEF TypeOK, TaskSet
  <2>3. QED
    BY <2>1, <2>2, SMT DEF PostSet
<1>2. TaskRoom \in Room /\ streams \in [Room -> Seq(PostSet)]
  BY TaskTyped DEF TypeOK, Delivering
<1>3. QED
  BY <1>1, <1>2, Posting DEF Published

\* Every step of the worker, its environment and its failures keeps the types.
LEMMA NextTyped ==
    ASSUME TypeOK, DeliveryBacked, BatchPosition, [Next]_vars
    PROVE  TypeOK'
<1> USE DEF TypeOK, Places, server, ledger, volatile, budget
<1>1. CASE Send
  BY <1>1, SMT DEF Send, Envelopes
<1>2. CASE Trim
  BY <1>2, SMT DEF Trim
<1>3. CASE SixDaysPass
  BY <1>3, SMT DEF SixDaysPass
<1>4. CASE StartCycle
  BY <1>4, SMT DEF StartCycle, Oldest, Pending
<1>5. CASE RetryNext
  BY <1>5, SMT DEF RetryNext, Deliver, TaskSet
<1>6. CASE KeepaliveIfDue
  BY <1>6, SMT DEF KeepaliveIfDue, Deliver, TaskSet
<1>7. CASE Read
  BY <1>7, SMT DEF Read
<1>8. CASE EndCycle
  BY <1>8, SMT DEF EndCycle
<1>9. CASE HandleIgnored
  BY <1>9, SMT DEF HandleIgnored, Returned
<1>10. CASE HandleClaimed
  BY <1>10, SMT DEF HandleClaimed, Returned
<1>11. CASE HandlePending
  BY <1>11, SMT DEF HandlePending, Deliver, TaskSet, Claimed
<1>12. CASE HandleNew
  <2>1. inbox[seq] \in Envelopes
    BY <1>12, SMT DEF HandleNew, Handling, BatchPosition, InBatch
  <2>2. \A result \in ResultsOf(inbox[seq].text) : Row(inbox[seq], seq, result) \in RowSet
    BY <1>12, <2>1, RowType DEF HandleNew, ResultsOf, Results
  <2>3. jobs' \in Seq(RowSet)
    <3>1. CASE UNCHANGED jobs
      BY <3>1
    <3>2. CASE \E result \in ResultsOf(inbox[seq].text) :
                  jobs' = Append(jobs, Row(inbox[seq], seq, result))
      BY <2>2, <3>2, SMT
    <3>3. QED
      BY <1>12, <3>1, <3>2 DEF HandleNew
  <2>4. QED
    BY <1>12, <2>3, SMT DEF HandleNew, Returned, Deliver, TaskSet
<1>13. CASE HandleRaises
  BY <1>13, SMT DEF HandleRaises, Raised
<1>14. CASE Advance
  BY <1>14, SMT DEF Advance
<1>15. CASE NextNonce
  <2>1. TaskRoom \in Room
    BY <1>15, TaskTyped DEF NextNonce, Delivering
  <2>2. PICK now \in Clock :
           task' = [task EXCEPT !.nonce = NonceAfter(now, nonces[TaskRoom])]
    BY <1>15 DEF NextNonce
  <2>3. NonceAfter(now, nonces[TaskRoom]) \in Int
    BY <2>1, NonceGrows, SMT
  <2>4. task' \in TaskSet /\ task'.nonce \in Int
    BY <2>2, <2>3, TaskNonce
  <2>5. nonces' \in [Room -> Int]
    <3>1. nonces' = nonces \/ nonces' = [nonces EXCEPT ![TaskRoom] = task'.nonce]
      BY <1>15, Zenon DEF NextNonce
    <3>2. nonces \in [Room -> Int]
      OBVIOUS
    <3> HIDE DEF TypeOK
    <3>3. QED
      BY <2>4, <3>1, <3>2
  <2>6. pc' = "post" /\ UNCHANGED <<server, streams, ledger, activity, retry, seq, last, missed, budget>>
    BY <1>15 DEF NextNonce
  <2>7. QED
    BY <2>4, <2>5, <2>6
<1>16. CASE PostAccepted
  <2>1. PostedSeq \in Nat
    BY <1>16, TaskTyped, SMT DEF PostAccepted, Delivering, PostedSeq
  <2>2. task' \in TaskSet
    BY <1>16, <2>1, TaskPosted DEF PostAccepted
  <2>3. streams' \in [Room -> Seq(PostSet)]
    BY <1>16, PublishedTyped DEF PostAccepted
  <2>4. QED
    BY <1>16, <2>2, <2>3, SMT DEF PostAccepted, AfterPost
<1>17. CASE PostRefused
  BY <1>17, SMT DEF PostRefused, Resume, Idle, TaskSet
<1>18. CASE Complete
  <2>1. task.job \in 1 .. Len(jobs)
    BY <1>18, SMT DEF Complete, DeliveryBacked, Delivering
  <2>2. jobs' \in Seq(RowSet)
    <3>1. task.posted \in Nat
      BY SMT DEF TaskSet
    <3>2. QED
      BY <1>18, <2>1, <3>1, Completing DEF Complete
  <2>3. task' \in TaskSet /\ pc' \in Places
    BY <1>18, SMT DEF Complete, Resume, Idle, TaskSet
  <2>4. QED
    BY <1>18, <2>2, <2>3, SMT DEF Complete
<1>19. CASE RecordActivity
  BY <1>19, SMT DEF RecordActivity, Resume, Idle, TaskSet
<1>20. CASE ReadFails
  BY <1>20, SMT DEF ReadFails, Fault
<1>21. CASE VerifyRaises
  BY <1>21, SMT DEF VerifyRaises, Raised, Fault
<1>22. CASE PostLost
  BY <1>22, SMT DEF PostLost, Fault, Resume, Idle, TaskSet
<1>23. CASE PostAckLost
  <2>1. streams' \in [Room -> Seq(PostSet)]
    BY <1>23, PublishedTyped DEF PostAckLost
  <2>2. QED
    BY <1>23, <2>1, SMT DEF PostAckLost, Fault, Resume, Idle, TaskSet
<1>24. CASE Crash
  BY <1>24, SMT DEF Crash, Fault, Restarted, Idle, TaskSet
<1>25. CASE UNCHANGED vars
  BY <1>25, SMT DEF vars
<1>26. QED
  BY <1>1, <1>2, <1>3, <1>4, <1>5, <1>6, <1>7, <1>8, <1>9, <1>10, <1>11, <1>12, <1>13,
     <1>14, <1>15, <1>16, <1>17, <1>18, <1>19, <1>20, <1>21, <1>22, <1>23, <1>24, <1>25
  DEF Next, WorkerStep, Cycle, Handle, Delivery, Environment, Failure

-----------------------------------------------------------------------------
(* What one step may do to each part of the state *)

\* The actions that send nothing and leave the ledger, the inbox and its history alone.
QuietStep ==
    \/ StartCycle \/ RetryNext \/ KeepaliveIfDue \/ EndCycle \/ HandleIgnored
    \/ HandleClaimed \/ HandlePending \/ HandleRaises \/ NextNonce \/ PostRefused
    \/ RecordActivity \/ SixDaysPass \/ ReadFails \/ VerifyRaises \/ PostLost \/ Crash
    \/ UNCHANGED vars

\* The steps of QuietStep leave the rooms, the table and the cursor alone.
LEMMA QuietFrame ==
    ASSUME QuietStep
    PROVE  UNCHANGED <<inbox, base, streams, jobs, cursor, missed>>
BY SMT DEF QuietStep, StartCycle, RetryNext, KeepaliveIfDue, EndCycle, HandleIgnored,
   HandleClaimed, HandlePending, HandleRaises, NextNonce, PostRefused, RecordActivity,
   SixDaysPass, ReadFails, VerifyRaises, PostLost, Crash, vars, server, ledger

\* Every other step is one of eight.
LEMMA StepKinds ==
    ASSUME [Next]_vars
    PROVE  \/ QuietStep \/ Send \/ Trim \/ Read \/ HandleNew \/ Advance
           \/ PostAccepted \/ PostAckLost \/ Complete
BY DEF QuietStep, Next, WorkerStep, Cycle, Handle, Delivery, Environment, Failure

SameRows ==
    /\ Len(jobs') = Len(jobs)
    /\ \A i \in 1 .. Len(jobs) :
          /\ jobs'[i].did = jobs[i].did /\ jobs'[i].text = jobs[i].text
          /\ jobs'[i].seq = jobs[i].seq /\ jobs'[i].result = jobs[i].result

Appended(result) ==
    /\ result \in Results
    /\ jobs' = Append(jobs, Row(inbox[seq], seq, result))

\* The table stays as it is, gains one row, or completes one.
LEMMA JobsStep ==
    ASSUME TypeOK, DeliveryBacked, [Next]_vars
    PROVE  \/ SameRows
           \/ HandleNew /\ pc' = "nonce" /\ \E result : Appended(result)
<1>1. CASE UNCHANGED jobs
  BY <1>1 DEF SameRows
<1>2. CASE HandleNew
  BY <1>1, <1>2 DEF HandleNew, Appended, ResultsOf, Results, Deliver
<1>3. CASE Complete
  <2>1. /\ task.job \in 1 .. Len(jobs) /\ task.posted \in Nat /\ jobs \in Seq(RowSet)
    BY <1>3, SMT DEF Complete, DeliveryBacked, Delivering, TypeOK, TaskSet
  <2>2. QED
    BY <1>3, <2>1, Completing DEF Complete, SameRows
<1>4. QED
  BY <1>1, <1>2, <1>3, StepKinds, QuietFrame
  DEF Send, Trim, Read, Advance, PostAccepted, PostAckLost, ledger

\* The inbox only grows, and no message that was missed is found again.
LEMMA InboxStep ==
    ASSUME TypeOK, [Next]_vars
    PROVE  /\ Len(inbox) <= Len(inbox')
           /\ \A s \in 1 .. Len(inbox) : inbox'[s] = inbox[s]
           /\ \A s \in missed : s \in missed'
<1>1. CASE UNCHANGED <<inbox, missed>>
  BY <1>1, SMT DEF TypeOK
<1>2. CASE Send
  BY <1>2, SMT DEF Send, TypeOK, Envelopes
<1>3. CASE Read
  BY <1>3, SMT DEF Read, TypeOK, server
<1>4. QED
  BY <1>1, <1>2, <1>3, StepKinds, QuietFrame
  DEF Trim, HandleNew, Advance, PostAccepted, PostAckLost, Complete, server, ledger

\* The rows there are keep their requester, text, seq and result.
LEMMA JobsGrow ==
    ASSUME TypeOK, TypeOK', DeliveryBacked, [Next]_vars
    PROVE  \A i \in DOMAIN jobs :
               /\ i \in DOMAIN jobs'
               /\ jobs'[i].did = jobs[i].did /\ jobs'[i].text = jobs[i].text
               /\ jobs'[i].seq = jobs[i].seq /\ jobs'[i].result = jobs[i].result
<1>1. jobs \in Seq(RowSet) /\ jobs' \in Seq(RowSet)
  BY DEF TypeOK
<1>2. CASE SameRows
  BY <1>1, <1>2, SMT DEF SameRows
<1>3. ASSUME NEW result, Appended(result)
      PROVE  \A i \in DOMAIN jobs : i \in DOMAIN jobs' /\ jobs'[i] = jobs[i]
  <2>1. jobs' = Append(jobs, Row(inbox[seq], seq, result))
    BY <1>3 DEF Appended
  <2>2. QED
    BY <1>1, <2>1, SMT
<1>4. QED
  BY <1>2, <1>3, JobsStep

\* The fields of a row of the table have their types.
LEMMA RowsTyped ==
    ASSUME TypeOK, NEW i \in DOMAIN jobs
    PROVE  /\ jobs[i] \in RowSet /\ i \in 1 .. Len(jobs)
           /\ jobs[i].seq \in Nat /\ jobs[i].text \in Text /\ jobs[i].did \in Did
           /\ RoomOf[jobs[i].text] \in Room
<1>1. jobs[i] \in RowSet /\ i \in 1 .. Len(jobs)
  BY SMT DEF TypeOK
<1>2. QED
  BY <1>1, SMT DEF RowSet

\* What accounts for a message goes on accounting for it.
LEMMA AccountedStable ==
    ASSUME TypeOK, TypeOK', DeliveryBacked, [Next]_vars,
           NEW s \in 1 .. Len(inbox), Accounted(s)
    PROVE  Accounted(s)'
<1>1. inbox'[s] = inbox[s]
  BY InboxStep
<1>2. CASE s \in missed
  BY <1>2, InboxStep DEF Accounted
<1>3. CASE ~WellFormed(inbox[s])
  BY <1>1, <1>3 DEF Accounted, WellFormed
<1>4. CASE \E i \in Claimed(inbox[s]) : jobs[i].seq <= s
  <2>1. PICK i \in Claimed(inbox[s]) : jobs[i].seq <= s
    BY <1>4
  <2>2. /\ i \in DOMAIN jobs' /\ jobs'[i].did = inbox'[s].from
        /\ JobOf[jobs'[i].text] = JobOf[inbox'[s].text] /\ jobs'[i].seq <= s
    BY <1>1, <2>1, JobsGrow DEF Claimed
  <2>3. QED
    BY <2>2 DEF Accounted, Claimed
<1>5. QED
  BY <1>2, <1>3, <1>4 DEF Accounted

-----------------------------------------------------------------------------
(* Each conjunct of the invariant is preserved *)

\* Every step preserves RequestsAccounted: only Advance moves the cursor, over an
\* accounted record (worker/service.py:205-207).
LEMMA RequestsAccountedStep ==
    ASSUME LoopInv, [Next]_vars, TypeOK'
    PROVE  RequestsAccounted'
<1> USE DEF LoopInv
<1>1. cursor \in Nat /\ cursor <= Len(inbox) /\ Len(inbox) \in Nat
  BY SMT DEF CursorBehindRows, TypeOK
<1>2. CASE Advance
  <2>1. cursor' = seq /\ cursor < seq /\ seq <= last /\ last <= Len(inbox) /\ Accounted(seq)
    BY <1>2 DEF Advance, BatchPosition, InBatch
  <2>2. \A s \in 1 .. seq : s \in 1 .. Len(inbox) /\ Accounted(s)
    BY <1>1, <1>2, <2>1, SMT
       DEF Advance, BatchPosition, InBatch, RequestsAccounted, TypeOK, Accounted
  <2>3. QED
    BY <2>1, <2>2, AccountedStable DEF RequestsAccounted
<1>3. CASE cursor' = cursor
  <2>1. \A s \in 1 .. cursor : s \in 1 .. Len(inbox) /\ Accounted(s)
    BY <1>1, SMT DEF RequestsAccounted
  <2>2. QED
    BY <1>3, <2>1, AccountedStable DEF RequestsAccounted
<1>4. QED
  BY <1>2, <1>3, StepKinds, QuietFrame
  DEF Send, Trim, Read, HandleNew, PostAccepted, PostAckLost, Complete, ledger

\* The new row: what handle knows about the record when it claims it.
LEMMA NewRow ==
    ASSUME LoopInv, [Next]_vars, HandleNew, NEW result, Appended(result)
    PROVE  LET n == Len(jobs) + 1
           IN /\ DOMAIN jobs' = 1 .. n /\ n \in DOMAIN jobs'
              /\ \A i \in DOMAIN jobs' : i \in DOMAIN jobs \/ i = n
              /\ \A i \in DOMAIN jobs : i \in DOMAIN jobs' /\ jobs'[i] = jobs[i]
              /\ jobs'[n] = Row(inbox[seq], seq, result)
              /\ jobs'[n].did = inbox[seq].from /\ jobs'[n].text = inbox[seq].text
              /\ jobs'[n].seq = seq /\ jobs'[n].status = "processed"
              /\ seq \in Nat /\ seq \in 1 .. Len(inbox) /\ seq <= last /\ cursor < seq
              /\ Claimed(inbox[seq]) = {}
              /\ UNCHANGED <<inbox, base, missed, cursor, streams, seq, last, retry>>
<1>1. /\ seq \in Nat /\ seq \in 1 .. Len(inbox) /\ seq <= last /\ cursor < seq
      /\ UNCHANGED <<inbox, base, missed, cursor, streams, seq, last, retry>>
  BY SMT DEF LoopInv, TypeOK, HandleNew, Handling, BatchPosition, InBatch, server
<1>2. jobs \in Seq(RowSet) /\ Row(inbox[seq], seq, result) \in RowSet
  <2>1. inbox[seq] \in Envelopes
    BY <1>1, SMT DEF LoopInv, TypeOK
  <2>2. QED
    BY <2>1, RowType DEF LoopInv, TypeOK, HandleNew, Appended
<1>3. /\ DOMAIN jobs' = 1 .. Len(jobs) + 1 /\ Len(jobs) + 1 \in DOMAIN jobs'
      /\ \A i \in DOMAIN jobs' : i \in DOMAIN jobs \/ i = Len(jobs) + 1
      /\ \A i \in DOMAIN jobs : i \in DOMAIN jobs' /\ jobs'[i] = jobs[i]
      /\ jobs'[Len(jobs) + 1] = Row(inbox[seq], seq, result)
  BY <1>2, SMT DEF Appended
<1>4. QED
  BY <1>1, <1>3 DEF Row, HandleNew

\* A table with the same rows has the same ids.
LEMMA SameRowsDomain ==
    ASSUME TypeOK, TypeOK', SameRows
    PROVE  DOMAIN jobs' = DOMAIN jobs /\ DOMAIN jobs = 1 .. Len(jobs)
BY SMT DEF TypeOK, SameRows

\* Every step preserves FirstClaimWins: a new row finds no earlier request of its
\* key that was there to be read (worker/service.py:84-88).
LEMMA FirstClaimWinsStep ==
    ASSUME LoopInv, [Next]_vars, TypeOK'
    PROVE  FirstClaimWins'
<1> USE DEF LoopInv
<1>1. \A i \in DOMAIN jobs : jobs[i].seq \in 1 .. Len(inbox)
  BY SMT DEF RowsBacked, TypeOK
<1>2. CASE SameRows
  <2> SUFFICES ASSUME NEW i \in DOMAIN jobs', NEW s \in 1 .. jobs'[i].seq - 1,
                      WellFormed(inbox'[s]), i \in Claimed(inbox[s])'
               PROVE  s \in missed'
    BY DEF FirstClaimWins, WellFormed
  <2>1. i \in DOMAIN jobs /\ jobs'[i].seq = jobs[i].seq
    BY <1>2, SameRowsDomain, JobsGrow
  <2>2. s \in 1 .. Len(inbox) /\ s \in 1 .. jobs[i].seq - 1
    <3>1. jobs[i].seq \in 1 .. Len(inbox) /\ s \in 1 .. jobs[i].seq - 1
      BY <1>1, <2>1
    <3>2. Len(inbox) \in Nat
      BY DEF TypeOK
    <3>3. QED
      BY <3>1, <3>2
  <2>3. WellFormed(inbox[s]) /\ i \in Claimed(inbox[s])
    BY <2>1, <2>2, InboxStep, JobsGrow DEF Claimed
  <2>4. QED
    BY <2>1, <2>2, <2>3, InboxStep DEF FirstClaimWins
<1>3. ASSUME HandleNew, NEW result, Appended(result)
      PROVE  FirstClaimWins'
  <2> SUFFICES ASSUME NEW i \in DOMAIN jobs', NEW s \in 1 .. jobs'[i].seq - 1,
                      WellFormed(inbox[s]), i \in Claimed(inbox[s])', s \notin missed
               PROVE  FALSE
    BY <1>3, NewRow DEF FirstClaimWins, WellFormed
  <2>1. CASE i \in DOMAIN jobs
    BY <1>3, <2>1, NewRow DEF FirstClaimWins, Claimed
  <2>2. CASE i = Len(jobs) + 1
    <3>1. s \in 1 .. seq - 1 /\ s \in Nat
      BY <1>3, <2>2, NewRow
    <3>2. s \in 1 .. cursor
      <4>1. /\ \A u \in cursor + 1 .. seq - 1 : u \in missed
            /\ cursor \in Nat /\ seq \in Nat
        BY <1>3 DEF HandleNew, Handling, BatchPosition, InBatch, TypeOK
      <4>2. QED
        BY <3>1, <4>1, SMT
    <3>3. PICK j \in Claimed(inbox[s]) : jobs[j].seq <= s
      BY <3>2 DEF RequestsAccounted, Accounted
    <3>4. j \in Claimed(inbox[seq])
      BY <1>3, <2>2, <3>3, NewRow DEF Claimed
    <3>5. QED
      BY <1>3, <3>4, NewRow
  <2>3. QED
    BY <1>3, <2>1, <2>2, NewRow
<1>4. QED
  BY <1>2, <1>3, JobsStep

\* Every step preserves RowsBacked: a new row has a key of its own and copies the
\* record at hand (worker/service.py:105-126).
LEMMA RowsBackedStep ==
    ASSUME LoopInv, [Next]_vars, TypeOK'
    PROVE  RowsBacked'
<1> USE DEF LoopInv
<1>1. /\ DOMAIN inbox = 1 .. Len(inbox) /\ DOMAIN inbox' = 1 .. Len(inbox')
      /\ \A s \in DOMAIN inbox : s \in DOMAIN inbox' /\ inbox'[s] = inbox[s]
  <2>1. /\ DOMAIN inbox = 1 .. Len(inbox) /\ DOMAIN inbox' = 1 .. Len(inbox')
        /\ Len(inbox) \in Nat /\ Len(inbox') \in Nat
    BY SMT DEF TypeOK
  <2>2. /\ Len(inbox) <= Len(inbox')
        /\ \A s \in 1 .. Len(inbox) : inbox'[s] = inbox[s]
    BY InboxStep
  <2>3. QED
    BY <2>1, <2>2, SMT
<1>2. CASE SameRows
  <2>1. \A i \in DOMAIN jobs' :
          /\ i \in DOMAIN jobs /\ jobs'[i].did = jobs[i].did
          /\ jobs'[i].text = jobs[i].text /\ jobs'[i].seq = jobs[i].seq
    BY <1>2, SameRowsDomain, JobsGrow
  <2>2. QED
    BY <1>1, <2>1 DEF RowsBacked
<1>3. ASSUME HandleNew, NEW result, Appended(result)
      PROVE  RowsBacked'
  <2>1. \A i \in DOMAIN jobs' : i \in DOMAIN jobs \/ i = Len(jobs) + 1
    BY <1>3, NewRow
  <2>2. \A i \in DOMAIN jobs : jobs[i].did = inbox[seq].from =>
                                 JobOf[jobs[i].text] # JobOf[inbox[seq].text]
    BY <1>3, NewRow DEF Claimed
  <2>3. \A i, j \in DOMAIN jobs' :
          jobs'[i].did = jobs'[j].did /\ JobOf[jobs'[i].text] = JobOf[jobs'[j].text] => i = j
    BY <1>3, <2>1, <2>2, NewRow DEF RowsBacked
  <2>4. QED
    BY <1>1, <1>3, <2>1, <2>3, NewRow DEF RowsBacked
<1>4. QED
  BY <1>2, <1>3, JobsStep

\* Every step preserves CursorBehindRows: only retention separates the cursor from
\* a row ahead of it (worker/service.py:198-207).
LEMMA CursorBehindRowsStep ==
    ASSUME LoopInv, [Next]_vars, TypeOK'
    PROVE  CursorBehindRows'
<1> USE DEF LoopInv
<1>1. cursor' <= Len(inbox')
  <2>1. Len(inbox) <= Len(inbox') /\ Len(inbox) \in Nat /\ Len(inbox') \in Nat /\ cursor' \in Nat
    <3>1. Len(inbox) <= Len(inbox')
      BY InboxStep
    <3>2. Len(inbox) \in Nat /\ Len(inbox') \in Nat /\ cursor' \in Nat
      BY DEF TypeOK
    <3>3. QED
      BY <3>1, <3>2
  <2>2. cursor' <= Len(inbox)
    <3>1. CASE Advance
      BY <3>1, SMT DEF Advance, BatchPosition, InBatch, TypeOK
    <3>2. CASE cursor' = cursor
      BY <3>2 DEF CursorBehindRows
    <3>3. QED
      BY <3>1, <3>2, StepKinds, QuietFrame
      DEF Send, Trim, Read, HandleNew, PostAccepted, PostAckLost, Complete, ledger
  <2>3. QED
    BY <2>1, <2>2, SMT
<1>2. \A s \in missed' : s < base'
  <2>1. CASE UNCHANGED <<missed, base>>
    BY <2>1 DEF CursorBehindRows
  <2>2. CASE Trim
    BY <2>2, SMT DEF Trim, CursorBehindRows, TypeOK
  <2>3. CASE Read
    BY <2>3, SMT DEF Read, server, CursorBehindRows, TypeOK
  <2>4. QED
    BY <2>1, <2>2, <2>3, StepKinds, QuietFrame
    DEF Send, HandleNew, Advance, PostAccepted, PostAckLost, Complete, server
<1>3. \A i \in DOMAIN jobs' : \A s \in cursor' + 1 .. jobs'[i].seq - 1 : s \in missed'
  <2>1. CASE SameRows
    <3>1. \A i \in DOMAIN jobs' : i \in DOMAIN jobs /\ jobs'[i].seq = jobs[i].seq
      BY <2>1, SameRowsDomain, JobsGrow
    <3>2. cursor <= cursor' /\ cursor \in Nat /\ cursor' \in Nat
      <4>1. CASE Advance
        BY <4>1, SMT DEF Advance, BatchPosition, InBatch, TypeOK
      <4>2. CASE cursor' = cursor
        BY <4>2, SMT DEF TypeOK
      <4>3. QED
        BY <4>1, <4>2, StepKinds, QuietFrame
        DEF Send, Trim, Read, HandleNew, PostAccepted, PostAckLost, Complete, ledger
    <3>3. \A i \in DOMAIN jobs : jobs[i].seq \in Nat
      BY RowsTyped
    <3>4. \A i \in DOMAIN jobs : \A s \in cursor + 1 .. jobs[i].seq - 1 : s \in missed
      BY DEF CursorBehindRows
    <3>5. \A s \in missed : s \in missed'
      BY InboxStep
    <3>6. QED
      BY <3>1, <3>2, <3>3, <3>4, <3>5, SMT
  <2>2. ASSUME HandleNew, NEW result, Appended(result)
        PROVE  \A i \in DOMAIN jobs' : \A s \in cursor' + 1 .. jobs'[i].seq - 1 : s \in missed'
    <3>1. \A i \in DOMAIN jobs' : i \in DOMAIN jobs \/ i = Len(jobs) + 1
      BY <2>2, NewRow
    <3>2. \A s \in cursor + 1 .. seq - 1 : s \in missed
      BY <2>2 DEF HandleNew, Handling, BatchPosition, InBatch
    <3>3. QED
      BY <2>2, <3>1, <3>2, NewRow DEF CursorBehindRows
  <2>3. QED
    BY <2>1, <2>2, JobsStep
<1>4. QED
  BY <1>1, <1>2, <1>3 DEF CursorBehindRows

\* The steps of a delivery keep the place to resume at, or resume there.
LEMMA DeliverySteps ==
    ASSUME TypeOK, Delivering,
           NextNonce \/ PostAccepted \/ PostRefused \/ Complete \/ RecordActivity
             \/ PostLost \/ PostAckLost
    PROVE  /\ \/ pc' \in {"post", "complete", "activity"} /\ task'.back = task.back
                 /\ task'.job = task.job
              \/ pc' = task.back
           /\ UNCHANGED <<cursor, seq, last, retry>>
<1>1. task \in TaskSet
  BY DEF TypeOK
<1>2. CASE NextNonce
  <2>1. PICK now \in Clock :
           task' = [task EXCEPT !.nonce = NonceAfter(now, nonces[TaskRoom])]
    BY <1>2 DEF NextNonce
  <2>2. task'.back = task.back /\ task'.job = task.job
    BY <1>1, <2>1, SMT DEF TaskSet
  <2>3. QED
    BY <1>2, <2>2 DEF NextNonce, ledger
<1>3. CASE PostAccepted
  <2>1. task'.back = task.back /\ task'.job = task.job
    BY <1>1, <1>3, SMT DEF PostAccepted, TaskSet
  <2>2. QED
    BY <1>3, <2>1 DEF PostAccepted, AfterPost, ledger
<1>4. CASE Complete
  BY <1>4 DEF Complete, Resume
<1>5. QED
  BY <1>2, <1>3, <1>4
  DEF PostRefused, RecordActivity, PostLost, PostAckLost, Resume, ledger, volatile

\* A step that ends inside a batch reads it, moves the cursor, handles a record, or
\* leaves the batch alone.
LEMMA BatchSteps ==
    ASSUME TypeOK, [Next]_vars, InBatch'
    PROVE  \/ Read \/ Advance \/ HandleNew
           \/ HandleIgnored \/ HandleClaimed \/ HandlePending
           \/ /\ InBatch /\ UNCHANGED <<cursor, seq, last>>
              /\ pc # "record" \/ pc' = "record"
<1>1. CASE UNCHANGED <<pc, task, cursor, seq, last>>
  BY <1>1 DEF InBatch, Delivering
<1>2. CASE Send \/ Trim \/ SixDaysPass \/ UNCHANGED vars
  BY <1>1, <1>2 DEF Send, Trim, SixDaysPass, vars, ledger, volatile
<1>3. CASE NextNonce \/ PostAccepted \/ PostRefused \/ Complete \/ RecordActivity
             \/ PostLost \/ PostAckLost
  <2>1. Delivering
    BY <1>3 DEF NextNonce, PostAccepted, PostRefused, Complete, RecordActivity, PostLost,
                PostAckLost, Delivering
  <2>2. task \in TaskSet
    BY DEF TypeOK
  <2>3. task.back = "advance" /\ UNCHANGED <<cursor, seq, last>>
    BY <1>3, <2>1, <2>2, DeliverySteps, SMT DEF InBatch, Delivering, TaskSet
  <2>4. QED
    BY <2>1, <2>3 DEF InBatch, Delivering
<1>4. CASE StartCycle \/ EndCycle \/ HandleRaises \/ ReadFails \/ VerifyRaises \/ Crash
  BY <1>4 DEF StartCycle, EndCycle, HandleRaises, ReadFails, VerifyRaises, Crash, Restarted,
              Raised, InBatch, Delivering
<1>5. CASE RetryNext
  BY <1>5 DEF RetryNext, Deliver, InBatch, Delivering
<1>6. CASE KeepaliveIfDue
  BY <1>6 DEF KeepaliveIfDue, Deliver, InBatch, Delivering
<1>7. QED
  BY <1>2, <1>3, <1>4, <1>5, <1>6
  DEF Next, WorkerStep, Cycle, Handle, Delivery, Environment, Failure

\* Every step preserves BatchPosition: handle returns only with the record accounted
\* for (worker/service.py:66-127).
LEMMA BatchPositionStep ==
    ASSUME LoopInv, [Next]_vars, TypeOK'
    PROVE  BatchPosition'
<1> USE DEF LoopInv
<1> SUFFICES ASSUME InBatch'
             PROVE  /\ cursor' < seq' /\ last' <= Len(inbox')
                    /\ \A s \in cursor' + 1 .. seq' - 1 : s \in missed'
                    /\ \A i \in DOMAIN jobs' : jobs'[i].seq <= seq'
                    /\ pc' # "record" => seq' <= last' /\ Accounted(seq)'
  BY DEF BatchPosition, Accounted
<1>1. /\ Len(inbox) <= Len(inbox') /\ Len(inbox) \in Nat /\ Len(inbox') \in Nat
      /\ \A s \in missed : s \in missed'
  <2>1. Len(inbox) \in Nat /\ Len(inbox') \in Nat
    BY SMT DEF TypeOK
  <2>2. QED
    BY <2>1, InboxStep
<1>2. \A i \in DOMAIN jobs : jobs[i].seq \in Nat
  BY RowsTyped
\* Steps inside a batch that stay on the record.
<1>3. ASSUME InBatch, UNCHANGED <<cursor, seq, last>>, SameRows,
             pc' = "record" \/ (seq <= last /\ Accounted(seq)')
      PROVE  /\ cursor' < seq' /\ last' <= Len(inbox')
             /\ \A s \in cursor' + 1 .. seq' - 1 : s \in missed'
             /\ \A i \in DOMAIN jobs' : jobs'[i].seq <= seq'
             /\ pc' # "record" => seq' <= last' /\ Accounted(seq)'
  <2>1. cursor < seq /\ last <= Len(inbox) /\ \A s \in cursor + 1 .. seq - 1 : s \in missed
    BY <1>3 DEF BatchPosition
  <2>2. \A i \in DOMAIN jobs' : jobs'[i].seq <= seq'
    BY <1>3, SameRowsDomain, JobsGrow DEF BatchPosition
  <2>3. last' <= Len(inbox')
    BY <1>1, <1>3, <2>1, SMT DEF TypeOK
  <2>4. QED
    BY <1>1, <1>3, <2>1, <2>2, <2>3
<1>4. ASSUME InBatch, seq <= last, Accounted(seq), UNCHANGED seq
      PROVE  Accounted(seq)'
  <2>1. seq \in 1 .. Len(inbox)
    BY <1>4, SMT DEF BatchPosition, TypeOK
  <2>2. PICK s \in 1 .. Len(inbox) : s = seq
    BY <2>1
  <2>3. Accounted(s)'
    BY <1>4, <2>2, AccountedStable DEF Accounted
  <2>4. QED
    BY <1>4, <2>2, <2>3 DEF Accounted
<1>5. CASE /\ InBatch /\ UNCHANGED <<cursor, seq, last>>
           /\ pc # "record" \/ pc' = "record"
  <2>1. CASE SameRows
    BY <1>3, <1>4, <1>5, <2>1 DEF BatchPosition
  <2>2. CASE HandleNew
    BY <1>5, <2>2, JobsStep, <2>1 DEF HandleNew, Handling, Returned, Deliver
  <2>3. QED
    BY <2>1, <2>2, JobsStep
<1>6. CASE HandleIgnored \/ HandleClaimed \/ HandlePending
  <2>1. /\ InBatch /\ seq <= last /\ UNCHANGED <<cursor, seq, last, jobs>>
    BY <1>6 DEF HandleIgnored, HandleClaimed, HandlePending, Handling, InBatch, ledger, volatile
  <2>2. Accounted(seq)
    <3>1. CASE HandleIgnored
      BY <3>1 DEF HandleIgnored, Accounted, WellFormed
    <3>2. CASE HandleClaimed \/ HandlePending
      <4>1. PICK i \in Claimed(inbox[seq]) : TRUE
        BY <3>2 DEF HandleClaimed, HandlePending
      <4>2. jobs[i].seq <= seq
        BY <2>1, <4>1 DEF BatchPosition, Claimed
      <4>3. QED
        BY <4>1, <4>2 DEF Accounted
    <3>3. QED
      BY <1>6, <3>1, <3>2
  <2>3. SameRows
    BY <2>1 DEF SameRows
  <2>4. QED
    BY <1>3, <1>4, <2>1, <2>2, <2>3
<1>7. CASE Advance
  <2>1. /\ cursor' = seq /\ seq' = seq + 1 /\ last' = last /\ pc' = "record"
        /\ UNCHANGED <<inbox, jobs>> /\ last <= Len(inbox)
        /\ \A i \in DOMAIN jobs : jobs[i].seq <= seq
    BY <1>7 DEF Advance, BatchPosition, InBatch, server
  <2>2. QED
    BY <1>2, <2>1, SMT DEF TypeOK
<1>8. CASE Read
  <2>1. /\ cursor' = cursor /\ pc' = "record" /\ UNCHANGED <<inbox, jobs>>
        /\ seq' = (IF base > cursor + 1 THEN base ELSE cursor + 1)
        /\ last' = (IF seq' + ReadLimit - 1 < Len(inbox) THEN seq' + ReadLimit - 1 ELSE Len(inbox))
        /\ missed' = missed \cup (cursor + 1 .. base - 1)
    BY <1>8 DEF Read, server, ledger
  <2>2. cursor \in Nat /\ base \in Nat /\ ReadLimit \in Nat \ {0} /\ missed \in SUBSET Nat
    BY DEF TypeOK
  <2>3. last' <= Len(inbox') /\ cursor' < seq'
    BY <1>1, <2>1, <2>2, SMT
  <2>4. \A s \in cursor' + 1 .. seq' - 1 : s \in missed'
    BY <2>1, <2>2, SMT
  <2>5. ASSUME NEW i \in DOMAIN jobs PROVE jobs[i].seq <= seq'
    <3>1. jobs[i].seq \in Nat /\ seq' \in Nat
      BY <1>2, <2>1, <2>2, SMT
    <3>2. CASE jobs[i].seq <= cursor + 1
      BY <2>1, <2>2, <3>1, <3>2, SMT
    <3>3. CASE jobs[i].seq > cursor + 1
      <4>1. jobs[i].seq - 1 \in missed
        BY <2>2, <3>1, <3>3, SMT DEF CursorBehindRows
      <4>2. jobs[i].seq - 1 < base
        BY <4>1 DEF CursorBehindRows
      <4>3. QED
        BY <2>1, <2>2, <3>1, <4>2, SMT
    <3>4. QED
      BY <2>2, <3>1, <3>2, <3>3, SMT
  <2>6. QED
    BY <2>1, <2>3, <2>4, <2>5
<1>9. CASE HandleNew
  <2>1. InBatch /\ seq <= last /\ cursor < seq /\ last <= Len(inbox) /\ UNCHANGED <<cursor, seq, last>>
    BY <1>9 DEF HandleNew, Handling, InBatch, BatchPosition
  <2>2. CASE UNCHANGED jobs
    <3>1. PICK i \in DOMAIN jobs : jobs[i].seq = seq
      <4>1. ASSUME NEW result, jobs' = Append(jobs, Row(inbox[seq], seq, result)) PROVE FALSE
        <5>1. Row(inbox[seq], seq, result) = Row(inbox[seq], seq, result) /\ jobs \in Seq(RowSet)
          BY DEF TypeOK
        <5>2. Len(Append(jobs, Row(inbox[seq], seq, result))) = Len(jobs) + 1
          BY <5>1, SMT
        <5>3. QED
          BY <2>2, <4>1, <5>1, <5>2, SMT
      <4>2. QED
        BY <1>9, <4>1 DEF HandleNew
    <3>2. i \in Claimed(inbox[seq])
      BY <3>1 DEF Claimed, RowsBacked
    <3>3. QED
      BY <1>9, <3>2 DEF HandleNew
  <2>3. ASSUME NEW result, Appended(result)
        PROVE  /\ cursor' < seq' /\ last' <= Len(inbox')
               /\ \A s \in cursor' + 1 .. seq' - 1 : s \in missed'
               /\ \A i \in DOMAIN jobs' : jobs'[i].seq <= seq'
               /\ seq' <= last' /\ Accounted(seq)'
    <3>1. \A i \in DOMAIN jobs' : i \in DOMAIN jobs \/ i = Len(jobs) + 1
      BY <1>9, <2>3, NewRow
    <3>2. \A i \in DOMAIN jobs' : jobs'[i].seq <= seq'
      <4>1. \A i \in DOMAIN jobs : jobs'[i] = jobs[i] /\ jobs[i].seq <= seq
        BY <1>9, <2>1, <2>3, NewRow DEF BatchPosition
      <4>2. jobs'[Len(jobs) + 1].seq = seq /\ seq \in Nat
        BY <1>9, <2>3, NewRow DEF TypeOK
      <4>3. QED
        BY <2>1, <3>1, <4>1, <4>2, SMT
    <3>3. Accounted(seq)'
      <4>1. Len(jobs) + 1 \in DOMAIN jobs' /\ seq <= seq
        BY <1>9, <2>3, NewRow
      <4>2. QED
        BY <1>9, <2>1, <2>3, <4>1, NewRow DEF Accounted, Claimed
    <3>4. QED
      BY <1>9, <2>1, <2>3, <3>2, <3>3, NewRow DEF BatchPosition
  <2>4. QED
    BY <1>9, <2>2, <2>3 DEF HandleNew, Appended, ResultsOf, Results
<1>10. QED
  BY <1>5, <1>6, <1>7, <1>8, <1>9, BatchSteps

\* Only a delivery at "post" writes to a room, and only to its own.
LEMMA StreamsStep ==
    ASSUME TypeOK, DeliveryBacked, [Next]_vars
    PROVE  \/ UNCHANGED streams
           \/ /\ PostAccepted \/ PostAckLost
              /\ pc = "post" /\ TaskRoom \in Room \ ClosedRoom /\ Published
              /\ UNCHANGED <<jobs, nonces>>
<1>1. CASE PostAccepted \/ PostAckLost
  BY <1>1, TaskTyped DEF PostAccepted, PostAckLost, Delivering, ledger
<1>2. QED
  BY <1>1, StepKinds, QuietFrame DEF Send, Trim, Read, HandleNew, Advance, Complete

\* What a post adds.
LEMMA PostAdded ==
    ASSUME TypeOK, DeliveryBacked, pc = "post", Published
    PROVE  /\ TaskRoom \in Room
           /\ Len(streams[TaskRoom]) \in Nat
           /\ \A r \in Room : /\ DOMAIN streams[r] = 1 .. Len(streams[r])
                              /\ \A k \in DOMAIN streams[r] :
                                    k \in DOMAIN streams'[r] /\ streams'[r][k] = streams[r][k]
           /\ \A r \in Room : \A k \in DOMAIN streams'[r] :
                 \/ k \in DOMAIN streams[r]
                 \/ r = TaskRoom /\ k = Len(streams[r]) + 1
           /\ Len(streams[TaskRoom]) + 1 \in DOMAIN streams'[TaskRoom]
           /\ streams'[TaskRoom][Len(streams[TaskRoom]) + 1]
                = [body |-> TaskBody, nonce |-> task.nonce]
<1>1. [body |-> TaskBody, nonce |-> task.nonce] \in PostSet
  <2>1. TaskBody \in {Keepalive} \cup ReplySet
    BY TaskTyped DEF Delivering
  <2>2. task.nonce \in Int
    BY SMT DEF TypeOK, TaskSet
  <2>3. QED
    BY <2>1, <2>2, SMT DEF PostSet
<1>2. PICK e \in PostSet : e = [body |-> TaskBody, nonce |-> task.nonce]
  BY <1>1
<1>3. PICK r \in Room : r = TaskRoom
  BY TaskTyped DEF Delivering
<1>4. /\ streams \in [Room -> Seq(PostSet)]
      /\ streams' = [streams EXCEPT ![r] = Append(@, e)]
  BY <1>2, <1>3 DEF TypeOK, Published
<1>5. /\ streams' \in [Room -> Seq(PostSet)]
      /\ Len(streams'[r]) = Len(streams[r]) + 1
      /\ streams'[r][Len(streams[r]) + 1] = e
      /\ \A k \in 1 .. Len(streams[r]) : streams'[r][k] = streams[r][k]
      /\ \A q \in Room \ {r} : streams'[q] = streams[q]
  BY <1>4, Posting
<1>6. \A q \in Room : /\ Len(streams[q]) \in Nat
                      /\ DOMAIN streams[q] = 1 .. Len(streams[q])
                      /\ DOMAIN streams'[q] = 1 .. Len(streams'[q])
  BY <1>4, <1>5, SMT
<1>7. /\ Len(streams[r]) + 1 \in DOMAIN streams'[r]
      /\ \A k \in DOMAIN streams'[r] : k \in DOMAIN streams[r] \/ k = Len(streams[r]) + 1
      /\ \A k \in DOMAIN streams[r] : k \in DOMAIN streams'[r] /\ streams'[r][k] = streams[r][k]
  <2>1. PICK n \in Nat : n = Len(streams[r])
    BY <1>6
  <2>2. DOMAIN streams[r] = 1 .. n /\ DOMAIN streams'[r] = 1 .. n + 1
    BY <1>5, <1>6, <2>1
  <2>3. \A k \in 1 .. n : streams'[r][k] = streams[r][k]
    BY <1>5, <2>1
  <2>4. n + 1 \in 1 .. n + 1 /\ \A k \in 1 .. n + 1 : k \in 1 .. n \/ k = n + 1
    BY SMT
  <2>5. \A k \in 1 .. n : k \in 1 .. n + 1
    BY SMT
  <2>6. QED
    BY <2>1, <2>2, <2>3, <2>4, <2>5
<1>8. ASSUME NEW q \in Room
      PROVE  /\ \A k \in DOMAIN streams[q] :
                   k \in DOMAIN streams'[q] /\ streams'[q][k] = streams[q][k]
             /\ \A k \in DOMAIN streams'[q] :
                   k \in DOMAIN streams[q] \/ (q = r /\ k = Len(streams[q]) + 1)
  <2>1. CASE q = r
    BY <1>7, <2>1
  <2>2. CASE q # r
    BY <1>5, <2>2
  <2>3. QED
    BY <2>1, <2>2
<1>9. QED
  BY <1>2, <1>3, <1>5, <1>6, <1>7, <1>8

\* A reply renders fields of a row that never change.
LEMMA ReplyStable ==
    ASSUME TypeOK, TypeOK', DeliveryBacked, [Next]_vars, NEW i \in DOMAIN jobs
    PROVE  i \in DOMAIN jobs' /\ Reply(jobs'[i]) = Reply(jobs[i])
           /\ RoomOf[jobs'[i].text] = RoomOf[jobs[i].text]
BY JobsGrow DEF Reply

\* Every step preserves PostsBacked: a post renders the row being delivered
\* (worker/service.py:137-165).
LEMMA PostsBackedStep ==
    ASSUME LoopInv, [Next]_vars, TypeOK'
    PROVE  PostsBacked'
<1> USE DEF LoopInv
<1> SUFFICES ASSUME NEW r \in Room, NEW k \in DOMAIN streams'[r],
                    streams'[r][k].body # Keepalive
             PROVE  \E i \in DOMAIN jobs' :
                        RoomOf[jobs'[i].text] = r /\ streams'[r][k].body = Reply(jobs'[i])
  BY DEF PostsBacked, Replies
<1>1. CASE k \in DOMAIN streams[r] /\ streams'[r][k] = streams[r][k]
  <2>1. PICK i \in DOMAIN jobs : RoomOf[jobs[i].text] = r /\ streams[r][k].body = Reply(jobs[i])
    BY <1>1 DEF PostsBacked, Replies
  <2>2. QED
    BY <1>1, <2>1, ReplyStable
<1>2. CASE /\ pc = "post" /\ Published /\ UNCHANGED jobs
           /\ r = TaskRoom /\ k = Len(streams[r]) + 1
  <2>1. streams'[r][k].body = TaskBody
    BY <1>2, PostAdded
  <2>2. task.job # 0 /\ task.job \in DOMAIN jobs
    BY <1>2, <2>1 DEF TaskBody, DeliveryBacked, Delivering
  <2>3. QED
    BY <1>2, <2>1, <2>2 DEF TaskBody, TaskRoom
<1>3. CASE UNCHANGED streams
  BY <1>1, <1>3
<1>4. QED
  BY <1>1, <1>2, <1>3, StreamsStep, PostAdded

\* Every step preserves NoncesIncrease: a post carries a nonce above all before it.
LEMMA NoncesIncreaseStep ==
    ASSUME LoopInv, [Next]_vars, TypeOK'
    PROVE  NoncesIncrease'
<1> USE DEF LoopInv
<1> SUFFICES ASSUME NEW r \in Room, NEW k \in DOMAIN streams'[r], NEW l \in 1 .. k - 1
             PROVE  streams'[r][l].nonce < streams'[r][k].nonce
  BY DEF NoncesIncrease
<1>1. CASE UNCHANGED streams
  BY <1>1 DEF NoncesIncrease
<1>2. CASE pc = "post" /\ TaskRoom \in Room \ ClosedRoom /\ Published
  <2>1. DOMAIN streams[r] = 1 .. Len(streams[r]) /\ Len(streams[r]) \in Nat
    BY SMT DEF TypeOK
  <2>2. CASE k \in DOMAIN streams[r]
    <3>1. l \in DOMAIN streams[r]
      BY <2>1, <2>2, SMT
    <3>2. QED
      BY <1>2, <2>2, <3>1, PostAdded DEF NoncesIncrease
  <2>3. CASE r = TaskRoom /\ k = Len(streams[r]) + 1
    <3>1. l \in DOMAIN streams[r]
      BY <2>1, <2>3, SMT
    <3>2. streams[r][l].nonce < task.nonce
      BY <1>2, <2>3, <3>1 DEF NoncesAhead
    <3>3. QED
      BY <1>2, <2>3, <3>1, <3>2, PostAdded
  <2>4. QED
    BY <1>2, <2>2, <2>3, PostAdded
<1>3. QED
  BY <1>1, <1>2, StreamsStep

\* Every step preserves NoncesAhead: the nonce row is raised before the post that
\* uses it (worker/service.py:162-165).
LEMMA NoncesAheadStep ==
    ASSUME LoopInv, [Next]_vars, TypeOK'
    PROVE  NoncesAhead'
<1> USE DEF LoopInv
<1>1. /\ \A r \in Room : nonces[r] \in Int
      /\ \A r \in Room : \A k \in DOMAIN streams[r] : streams[r][k].nonce \in Int
      /\ task \in TaskSet
  <2>1. \A r \in Room : \A k \in DOMAIN streams[r] : streams[r][k] \in PostSet
    BY SMT DEF TypeOK
  <2>2. \A post \in PostSet : post.nonce \in Int
    BY SMT DEF PostSet
  <2>3. QED
    BY <2>1, <2>2 DEF TypeOK
<1>2. CASE NextNonce
  <2>1. TaskRoom \in Room
    BY <1>2, TaskTyped DEF NextNonce, Delivering
  <2>2. PICK now \in Clock :
           task' = [task EXCEPT !.nonce = NonceAfter(now, nonces[TaskRoom])]
    BY <1>2 DEF NextNonce
  <2>3. NonceAfter(now, nonces[TaskRoom]) \in Int /\ NonceAfter(now, nonces[TaskRoom]) > nonces[TaskRoom]
    <3>1. now \in Int /\ nonces[TaskRoom] \in Int
      BY <1>1, <2>1, SMT
    <3>2. QED
      BY <3>1, NonceGrows
  <2>4. task'.nonce \in Int /\ task'.nonce > nonces[TaskRoom] /\ task'.job = task.job
    BY <1>1, <2>2, <2>3, TaskNonce
  <2>5. UNCHANGED <<streams, jobs>> /\ TaskRoom' = TaskRoom
    BY <1>2, <2>4 DEF NextNonce, TaskRoom, ledger
  <2>6. CASE TaskRoom \in ClosedRoom
    BY <1>2, <2>5, <2>6 DEF NextNonce, NoncesAhead
  <2>7. CASE TaskRoom \notin ClosedRoom
    <3>1. PICK room \in Room, n \in Int :
             room = TaskRoom /\ n = task'.nonce /\ n > nonces[room]
      BY <2>1, <2>4
    <3>2. nonces' = [nonces EXCEPT ![room] = n] /\ nonces \in [Room -> Int]
      BY <1>2, <2>7, <3>1 DEF NextNonce, TypeOK
    <3>3. nonces'[room] = n /\ \A r \in Room : nonces[r] <= nonces'[r]
      BY <3>1, <3>2, SMT
    <3>4. \A r \in Room : \A k \in DOMAIN streams[r] : streams[r][k].nonce <= nonces'[r]
      BY <1>1, <3>2, <3>3, SMT DEF NoncesAhead
    <3>5. \A k \in DOMAIN streams[room] : streams[room][k].nonce < n
      BY <1>1, <3>1, SMT DEF NoncesAhead
    <3>6. QED
      BY <2>5, <3>1, <3>3, <3>4, <3>5 DEF NoncesAhead
  <2>8. QED
    BY <2>6, <2>7
<1>3. CASE PostAccepted \/ PostAckLost
  <2>1. /\ pc = "post" /\ TaskRoom \in Room \ ClosedRoom /\ Published /\ nonces' = nonces
        /\ pc' # "post"
    <3>1. pc' # "post"
      BY <1>1, <1>3, SMT DEF PostAccepted, PostAckLost, AfterPost, Resume, TaskSet
    <3>2. QED
      BY <1>3, <3>1, TaskTyped DEF PostAccepted, PostAckLost, Delivering, ledger
  <2>2. ASSUME NEW r \in Room, NEW k \in DOMAIN streams'[r]
        PROVE  streams'[r][k].nonce <= nonces[r]
    <3>1. CASE k \in DOMAIN streams[r]
      BY <2>1, <3>1, PostAdded DEF NoncesAhead
    <3>2. CASE r = TaskRoom /\ k = Len(streams[r]) + 1
      <4>1. streams'[r][k].nonce = nonces[r]
        BY <2>1, <3>2, PostAdded DEF NoncesAhead
      <4>2. QED
        BY <1>1, <4>1, SMT
    <3>3. QED
      BY <2>1, <3>1, <3>2, PostAdded
  <2>3. QED
    BY <2>1, <2>2 DEF NoncesAhead
<1>4. CASE UNCHANGED <<streams, nonces>> /\ pc' # "post"
  BY <1>4 DEF NoncesAhead
<1>5. CASE UNCHANGED <<streams, nonces, task, pc, jobs>>
  BY <1>5 DEF NoncesAhead, TaskRoom
<1>6. CASE Send \/ Trim \/ SixDaysPass \/ UNCHANGED vars
  BY <1>5, <1>6 DEF Send, Trim, SixDaysPass, vars, ledger, volatile
<1>7. CASE \/ PostRefused \/ PostLost \/ Complete \/ RecordActivity
  <2>1. pc' # "post"
    BY <1>1, <1>7, SMT DEF PostRefused, PostLost, Complete, RecordActivity, Resume, TaskSet
  <2>2. QED
    BY <1>4, <1>7, <2>1 DEF PostRefused, PostLost, Complete, RecordActivity
<1>8. CASE \/ StartCycle \/ RetryNext \/ KeepaliveIfDue \/ Read \/ EndCycle \/ HandleIgnored
           \/ HandleClaimed \/ HandlePending \/ HandleNew \/ HandleRaises \/ Advance
           \/ ReadFails \/ VerifyRaises \/ Crash
  BY <1>4, <1>8 DEF StartCycle, RetryNext, KeepaliveIfDue, Read, EndCycle, HandleIgnored,
     HandleClaimed, HandlePending, HandleNew, HandleRaises, Advance, ReadFails, VerifyRaises,
     Crash, Restarted, Deliver, Returned, Raised
<1>9. QED
  BY <1>2, <1>3, <1>6, <1>7, <1>8
  DEF Next, WorkerStep, Cycle, Handle, Delivery, Environment, Failure

\* Every step preserves CompletedReplied: complete records the place of the post
\* just made (worker/service.py:163-166).
LEMMA CompletedRepliedStep ==
    ASSUME LoopInv, [Next]_vars, TypeOK'
    PROVE  CompletedReplied'
<1> USE DEF LoopInv
<1>1. \A r \in Room : \A k \in DOMAIN streams[r] :
         k \in DOMAIN streams'[r] /\ streams'[r][k] = streams[r][k]
  BY StreamsStep, PostAdded
<1>2. ASSUME NEW i \in DOMAIN jobs, jobs[i].status = "completed"
      PROVE  LET stream == streams'[RoomOf[jobs[i].text]]
             IN /\ jobs[i].response \in DOMAIN stream
                /\ stream[jobs[i].response].body = Reply(jobs[i])
  BY <1>1, <1>2, RowsTyped DEF CompletedReplied
<1>3. CASE UNCHANGED jobs
  BY <1>2, <1>3 DEF CompletedReplied
<1>4. CASE Complete
  <2>1. /\ task.job \in DOMAIN jobs /\ task.job \in 1 .. Len(jobs) /\ task.posted \in Nat
        /\ jobs \in Seq(RowSet)
        /\ task.posted \in DOMAIN streams[TaskRoom]
        /\ streams[TaskRoom][task.posted].body = TaskBody
        /\ TaskRoom = RoomOf[jobs[task.job].text] /\ TaskBody = Reply(jobs[task.job])
    <3>1. task.job \in DOMAIN jobs /\ task.job # 0
      BY <1>4 DEF Complete, DeliveryBacked, Delivering
    <3>2. task.posted \in Nat
      BY SMT DEF TypeOK, TaskSet
    <3>3. QED
      BY <1>4, <3>1, <3>2, RowsTyped DEF Complete, DeliveryBacked, TaskRoom, TaskBody, TypeOK
  <2>2. /\ jobs'[task.job].response = task.posted
        /\ \A j \in DOMAIN jobs : j # task.job => jobs'[j] = jobs[j]
        /\ DOMAIN jobs' = DOMAIN jobs
        /\ streams' = streams
    <3>1. jobs' = [jobs EXCEPT ![task.job] = Completed(@, task.posted)] /\ streams' = streams
      BY <1>4 DEF Complete
    <3>2. /\ jobs'[task.job].response = task.posted
          /\ \A j \in 1 .. Len(jobs) : j # task.job => jobs'[j] = jobs[j]
      BY <2>1, <3>1, Completing
    <3>3. QED
      BY <3>1, <3>2, RowsTyped
  <2>3. ASSUME NEW i \in DOMAIN jobs', jobs'[i].status = "completed"
        PROVE  LET stream == streams'[RoomOf[jobs'[i].text]]
               IN /\ jobs'[i].response \in DOMAIN stream
                  /\ stream[jobs'[i].response].body = Reply(jobs'[i])
    <3>1. CASE i = task.job
      BY <2>1, <2>2, <3>1, ReplyStable
    <3>2. CASE i # task.job
      BY <1>2, <2>2, <2>3, <3>2
    <3>3. QED
      BY <3>1, <3>2
  <2>4. QED
    BY <2>3 DEF CompletedReplied
<1>5. ASSUME HandleNew, NEW result, Appended(result)
      PROVE  CompletedReplied'
  <2>1. \A i \in DOMAIN jobs' : i \in DOMAIN jobs \/ i = Len(jobs) + 1
    BY <1>5, NewRow
  <2>2. QED
    BY <1>2, <1>5, <2>1, NewRow DEF CompletedReplied
<1>6. CASE HandleNew
  BY <1>3, <1>5, <1>6 DEF HandleNew, Appended, ResultsOf, Results
<1>7. QED
  BY <1>3, <1>4, <1>6, StepKinds, QuietFrame
  DEF Send, Trim, Read, Advance, PostAccepted, PostAckLost, ledger

\* Rows that are pending stay pending until they are completed.
LEMMA PendingStable ==
    ASSUME LoopInv, [Next]_vars, TypeOK', ~Complete
    PROVE  \A i \in Pending : i \in Pending'
<1> USE DEF LoopInv
<1>1. CASE UNCHANGED jobs
  BY <1>1 DEF Pending
<1>2. CASE HandleNew
  <2>1. ASSUME NEW result, Appended(result), NEW i \in Pending PROVE i \in Pending'
    BY <1>2, <2>1, NewRow, JobsGrow DEF Pending
  <2>2. QED
    BY <1>1, <1>2, <2>1 DEF HandleNew, Appended, ResultsOf, Results
<1>3. QED
  BY <1>1, <1>2, StepKinds, QuietFrame
  DEF Send, Trim, Read, Advance, PostAccepted, PostAckLost, ledger

\* Every step preserves DeliveryBacked: the loop delivers one pending row at a time
\* (worker/service.py:129-137, 192-193).
LEMMA DeliveryBackedStep ==
    ASSUME LoopInv, [Next]_vars, TypeOK'
    PROVE  DeliveryBacked'
<1> USE DEF LoopInv
<1>1. task \in TaskSet /\ retry \in SUBSET Nat
  BY DEF TypeOK
<1>2. CASE Send \/ Trim \/ SixDaysPass \/ UNCHANGED vars
  <2>1. UNCHANGED <<streams, jobs, pc, retry, task>>
    BY <1>2 DEF Send, Trim, SixDaysPass, vars, ledger, volatile
  <2>2. QED
    BY <2>1 DEF DeliveryBacked, Delivering, TaskRoom, TaskBody, Pending
<1>3. CASE StartCycle
  BY <1>3 DEF StartCycle, Oldest, DeliveryBacked, Delivering, Pending, ledger
<1>4. CASE RetryNext
  <2>1. PICK i \in retry : retry' = retry \ {i} /\ Deliver(i, "retry")
    BY <1>4 DEF RetryNext
  <2>2. task'.job = i /\ task'.back = "retry" /\ pc' = "nonce" /\ UNCHANGED jobs
    BY <1>4, <2>1 DEF RetryNext, Deliver, ledger
  <2>3. QED
    BY <2>1, <2>2 DEF DeliveryBacked, Delivering, Pending
<1>5. CASE KeepaliveIfDue
  BY <1>5 DEF KeepaliveIfDue, Deliver, DeliveryBacked, Delivering, Pending, ledger
<1>6. CASE Read \/ EndCycle \/ HandleIgnored \/ HandleClaimed \/ HandleRaises \/ Advance
           \/ ReadFails \/ VerifyRaises
  <2>1. /\ UNCHANGED <<jobs, retry>> /\ pc' \in {"start", "record", "advance"}
        /\ pc \notin {"retry", "nonce", "post", "complete", "activity"}
    BY <1>6 DEF Read, EndCycle, HandleIgnored, HandleClaimed, HandleRaises, Advance, ReadFails,
                VerifyRaises, Handling, Returned, Raised, ledger, volatile
  <2>2. QED
    BY <2>1 DEF DeliveryBacked, Delivering, Pending
<1>7. CASE HandlePending
  <2>1. PICK i \in Claimed(inbox[seq]) : StillPending(i, inbox[seq]) /\ Deliver(i, "advance")
    BY <1>7 DEF HandlePending
  <2>2. /\ i \in Pending /\ i # 0 /\ task'.job = i /\ task'.back = "advance" /\ pc' = "nonce"
        /\ retry = {} /\ UNCHANGED <<jobs, retry>>
    <3>1. i \in DOMAIN jobs
      BY <2>1 DEF Claimed
    <3>2. i # 0
      BY <3>1, RowsTyped, SMT
    <3>3. QED
      BY <1>7, <2>1, <3>1, <3>2
      DEF HandlePending, Handling, StillPending, Deliver, Pending, DeliveryBacked, Delivering, ledger
  <2>3. QED
    BY <2>2 DEF DeliveryBacked, Delivering, Pending
<1>8. CASE HandleNew
  <2>1. retry' = {}
    BY <1>8 DEF HandleNew, Handling, DeliveryBacked, Delivering
  <2>2. CASE pc' = "advance"
    BY <2>1, <2>2 DEF DeliveryBacked, Delivering
  <2>3. ASSUME NEW result, Appended(result), Deliver(Len(jobs) + 1, "advance")
        PROVE  DeliveryBacked'
    <3>1. Len(jobs) + 1 \in DOMAIN jobs' /\ jobs'[Len(jobs) + 1].status = "processed"
      BY <1>8, <2>3, NewRow
    <3>2. task'.job = Len(jobs) + 1 /\ task'.back = "advance" /\ pc' = "nonce"
      BY <2>3 DEF Deliver
    <3>3. QED
      BY <2>1, <3>1, <3>2 DEF DeliveryBacked, Delivering, Pending
  <2>4. QED
    BY <1>8, <2>2, <2>3 DEF HandleNew, Appended, ResultsOf, Results, Returned
<1>9. CASE NextNonce
  <2>1. /\ pc = "nonce" /\ pc' = "post" /\ UNCHANGED <<jobs, retry>>
        /\ task'.back = task.back /\ task'.job = task.job
    <3>1. /\ pc' = "post" /\ pc = "nonce" /\ UNCHANGED <<jobs, retry>>
      BY <1>9 DEF NextNonce, ledger
    <3>2. PICK now \in Clock :
             task' = [task EXCEPT !.nonce = NonceAfter(now, nonces[TaskRoom])]
      BY <1>9 DEF NextNonce
    <3>3. task'.back = task.back /\ task'.job = task.job
      BY <1>1, <3>2, SMT DEF TaskSet
    <3>4. QED
      BY <3>1, <3>3
  <2>2. QED
    BY <2>1 DEF DeliveryBacked, Delivering, Pending
<1>10. CASE PostAccepted
  <2>1. /\ pc = "post" /\ UNCHANGED <<jobs, retry>> /\ Published
        /\ pc' = (IF task.job = 0 THEN "activity" ELSE "complete")
        /\ task' = [task EXCEPT !.posted = PostedSeq]
    BY <1>10 DEF PostAccepted, AfterPost, ledger
  <2>2. PostedSeq \in Nat /\ PostedSeq = Len(streams[TaskRoom]) + 1
    BY <2>1, PostAdded, SMT DEF PostedSeq
  <2>3. task'.back = task.back /\ task'.job = task.job /\ task'.posted = PostedSeq
    BY <1>1, <2>1, <2>2, TaskPosted
  <2>4. TaskRoom' = TaskRoom /\ TaskBody' = TaskBody
    BY <2>1, <2>3 DEF TaskRoom, TaskBody
  <2>5. /\ PostedSeq \in DOMAIN streams'[TaskRoom]
        /\ streams'[TaskRoom][PostedSeq].body = TaskBody
    BY <2>1, <2>2, PostAdded
  <2>6. QED
    BY <2>1, <2>3, <2>4, <2>5 DEF DeliveryBacked, Delivering, Pending
<1>11. CASE PostRefused \/ PostLost \/ PostAckLost \/ RecordActivity
  <2>1. Delivering /\ pc' = task.back /\ task.back \in {"start", "retry", "read", "advance"}
        /\ UNCHANGED <<jobs, retry>>
    BY <1>1, <1>11, SMT DEF PostRefused, PostLost, PostAckLost, RecordActivity, Resume, Delivering,
                        TaskSet, ledger
  <2>2. QED
    BY <2>1 DEF DeliveryBacked, Delivering, Pending
<1>12. CASE Complete
  <2>1. /\ Delivering /\ pc = "complete" /\ task.job \notin retry /\ task.job # 0
        /\ task.job \in 1 .. Len(jobs) /\ task.posted \in Nat /\ jobs \in Seq(RowSet)
        /\ retry' = retry
    <3>1. task.job \in DOMAIN jobs /\ task.job # 0
      BY <1>12 DEF Complete, DeliveryBacked, Delivering
    <3>2. task.posted \in Nat
      BY <1>1, SMT DEF TaskSet
    <3>3. QED
      BY <1>12, <3>1, <3>2, RowsTyped DEF Complete, DeliveryBacked, Delivering, TypeOK
  <2>2. /\ DOMAIN jobs' = DOMAIN jobs
        /\ \A j \in DOMAIN jobs : j # task.job => jobs'[j] = jobs[j]
    <3>1. jobs' = [jobs EXCEPT ![task.job] = Completed(@, task.posted)]
      BY <1>12 DEF Complete
    <3>2. \A j \in 1 .. Len(jobs) : j # task.job => jobs'[j] = jobs[j]
      BY <2>1, <3>1, Completing
    <3>3. QED
      BY <3>1, <3>2, RowsTyped
  <2>3. \A i \in retry' : i \in Pending'
    BY <2>1, <2>2 DEF DeliveryBacked, Pending
  <2>4. \/ pc' = "activity" /\ task' = task
        \/ pc' = task.back /\ task.back \in {"start", "retry", "read", "advance"}
    BY <1>1, <1>12, SMT DEF Complete, Resume, TaskSet
  <2>5. QED
    BY <2>1, <2>2, <2>3, <2>4 DEF DeliveryBacked, Delivering
<1>13. CASE Crash
  BY <1>13 DEF Crash, Restarted, DeliveryBacked, Delivering
<1>14. QED
  BY <1>2, <1>3, <1>4, <1>5, <1>6, <1>7, <1>8, <1>9, <1>10, <1>11, <1>12, <1>13
  DEF Next, WorkerStep, Cycle, Handle, Delivery, Environment, Failure

-----------------------------------------------------------------------------
(* Theorems *)

\* The invariant holds initially.
LEMMA InitInv == Init => LoopInv
<1> SUFFICES ASSUME Init PROVE LoopInv
  OBVIOUS
<1>1. /\ DOMAIN jobs = {} /\ cursor = 0 /\ Len(inbox) = 0 /\ missed = {} /\ retry = {}
      /\ pc = "start" /\ \A r \in Room : DOMAIN streams[r] = {}
  BY SMT DEF Init
<1>2. RequestsAccounted /\ CursorBehindRows
  BY <1>1, SMT DEF RequestsAccounted, CursorBehindRows
<1>3. /\ FirstClaimWins /\ CompletedReplied /\ NoncesIncrease /\ RowsBacked
      /\ BatchPosition /\ PostsBacked /\ DeliveryBacked /\ NoncesAhead
  BY <1>1 DEF FirstClaimWins, CompletedReplied, NoncesIncrease, RowsBacked, BatchPosition,
     InBatch, PostsBacked, Replies, DeliveryBacked, NoncesAhead, Delivering
<1>4. QED
  BY <1>2, <1>3, InitTyped DEF LoopInv

\* The invariant is inductive.
LEMMA StepInv == LoopInv /\ [Next]_vars => LoopInv'
<1> SUFFICES ASSUME LoopInv, [Next]_vars PROVE LoopInv'
  OBVIOUS
<1>1. TypeOK'
  BY NextTyped DEF LoopInv
<1>2. QED
  BY <1>1, RequestsAccountedStep, FirstClaimWinsStep, CompletedRepliedStep, NoncesIncreaseStep,
     RowsBackedStep, CursorBehindRowsStep, BatchPositionStep, PostsBackedStep,
     DeliveryBackedStep, NoncesAheadStep
  DEF LoopInv

\* What the loop knows, and the properties it keeps, hold in every reachable state.
THEOREM LoopInvariance == Spec => []LoopInv
<1>1. QED
  BY InitInv, StepInv, PTL DEF Spec

\* Every variable keeps its type.
THEOREM TypeCorrect == Spec => []TypeOK
<1>1. LoopInv => TypeOK
  BY DEF LoopInv
<1>2. QED
  BY LoopInvariance, <1>1, PTL

\* Two replies for one requester and job id are one reply: they render the same
\* row, since rows are unique and never change (worker/service.py:84-89).
THEOREM OneAnswer == Spec => []OneAnswerPerJob
<1>1. LoopInv => OneAnswerPerJob
  <2> SUFFICES ASSUME LoopInv, NEW r1 \in Room, NEW r2 \in Room,
                      NEW k1 \in Replies(r1), NEW k2 \in Replies(r2),
                      streams[r1][k1].body.did = streams[r2][k2].body.did,
                      streams[r1][k1].body.job = streams[r2][k2].body.job
               PROVE  r1 = r2 /\ streams[r1][k1].body = streams[r2][k2].body
    BY DEF OneAnswerPerJob
  <2>1. PICK i \in DOMAIN jobs : RoomOf[jobs[i].text] = r1 /\ streams[r1][k1].body = Reply(jobs[i])
    BY DEF LoopInv, PostsBacked
  <2>2. PICK j \in DOMAIN jobs : RoomOf[jobs[j].text] = r2 /\ streams[r2][k2].body = Reply(jobs[j])
    BY DEF LoopInv, PostsBacked
  <2>3. jobs[i].did = jobs[j].did /\ JobOf[jobs[i].text] = JobOf[jobs[j].text]
    BY <2>1, <2>2 DEF Reply
  <2>4. QED
    BY <2>1, <2>2, <2>3 DEF LoopInv, RowsBacked
<1>2. QED
  BY LoopInvariance, <1>1, PTL

\* No request falls between the cursor and the ledger (worker/service.py:205-207).
THEOREM NothingSkipped == Spec => []RequestsAccounted
<1>1. LoopInv => RequestsAccounted
  BY DEF LoopInv
<1>2. QED
  BY LoopInvariance, <1>1, PTL

\* A job id stays with the first request that used it (worker/service.py:84-88).
THEOREM FirstClaim == Spec => []FirstClaimWins
<1>1. LoopInv => FirstClaimWins
  BY DEF LoopInv
<1>2. QED
  BY LoopInvariance, <1>1, PTL

\* A completed job's reply stands where its row says (worker/service.py:163-166).
THEOREM CompletedIsReplied == Spec => []CompletedReplied
<1>1. LoopInv => CompletedReplied
  BY DEF LoopInv
<1>2. QED
  BY LoopInvariance, <1>1, PTL

\* Nonces in a room increase (worker/state.py:104-116).
THEOREM NonceOrder == Spec => []NoncesIncrease
<1>1. LoopInv => NoncesIncrease
  BY DEF LoopInv
<1>2. QED
  BY LoopInvariance, <1>1, PTL

\* A settled job is never answered again (worker/service.py:88-89, 192-193).
THEOREM Settled == Spec => NoReplyAfterCompletion
<1> DEFINE A == \A i \in DOMAIN jobs : jobs[i].status = "completed" =>
                   LET r == RoomOf[jobs[i].text]
                   IN \A k \in DOMAIN streams'[r] \ DOMAIN streams[r] :
                         streams'[r][k].body # Reply(jobs[i])
<1>1. LoopInv /\ [Next]_vars => [A]_vars
  <2> SUFFICES ASSUME LoopInv, [Next]_vars, NEW i \in DOMAIN jobs, jobs[i].status = "completed",
                      NEW k \in DOMAIN streams'[RoomOf[jobs[i].text]]
                                  \ DOMAIN streams[RoomOf[jobs[i].text]],
                      streams'[RoomOf[jobs[i].text]][k].body = Reply(jobs[i])
               PROVE  FALSE
    BY Zenon DEF A
  <2> USE DEF LoopInv
  <2>1. RoomOf[jobs[i].text] \in Room /\ Reply(jobs[i]) \in ReplySet
    BY RowsTyped, ReplyType
  <2>2. pc = "post" /\ Published
    BY StreamsStep
  <2>3. Reply(jobs[i]) = TaskBody
    BY <2>1, <2>2, PostAdded
  <2>4. task.job # 0
    BY <2>1, <2>3, KeepaliveAssumption DEF TaskBody, ReplySet, Results
  <2>5. /\ task.job \in DOMAIN jobs /\ jobs[task.job].status = "processed"
        /\ Reply(jobs[i]) = Reply(jobs[task.job])
    BY <2>2, <2>3, <2>4 DEF TaskBody, DeliveryBacked, Delivering, Pending
  <2>6. jobs[i].did = jobs[task.job].did /\ JobOf[jobs[i].text] = JobOf[jobs[task.job].text]
    BY <2>5 DEF Reply
  <2>7. i = task.job
    BY <2>5, <2>6 DEF RowsBacked
  <2>8. QED
    BY <2>5, <2>7
<1>2. QED
  BY LoopInvariance, <1>1, PTL DEF Spec, NoReplyAfterCompletion

-----------------------------------------------------------------------------
(* What is counted *)

\* There are n numbers from 1 to n.
LEMMA UpTo ==
    ASSUME NEW n \in Nat
    PROVE  IsFiniteSet(1 .. n) /\ Cardinality(1 .. n) = n
<1>1. 1 \in Int /\ n \in Int
  BY SMT
<1>2. IsFiniteSet(1 .. n) /\ Cardinality(1 .. n) = IF 1 > n THEN 0 ELSE n - 1 + 1
  BY <1>1, FS_Interval, Zenon
<1>3. QED
  BY <1>2, SMT

SettledRows == DOMAIN jobs \ Pending

\* The rows that are done with can be counted (worker/state.py:230-236).
LEMMA SettledFinite ==
    ASSUME TypeOK
    PROVE  /\ IsFiniteSet(SettledRows) /\ Cardinality(SettledRows) \in Nat
           /\ DOMAIN jobs = 1 .. Len(jobs) /\ Len(jobs) \in Nat
           /\ IsFiniteSet(DOMAIN jobs) /\ Cardinality(DOMAIN jobs) = Len(jobs)
<1>1. DOMAIN jobs = 1 .. Len(jobs) /\ Len(jobs) \in Nat
  BY SMT DEF TypeOK
<1>2. IsFiniteSet(1 .. Len(jobs)) /\ Cardinality(1 .. Len(jobs)) = Len(jobs)
  BY <1>1, UpTo
<1>3. SettledRows \in SUBSET DOMAIN jobs
  BY DEF SettledRows
<1>4. IsFiniteSet(SettledRows)
  BY <1>1, <1>2, <1>3, FS_Subset
<1>5. QED
  BY <1>1, <1>2, <1>4, FS_CardinalityType

\* complete settles the row that is delivered, which was pending (worker/service.py:166).
LEMMA CompleteSettles ==
    ASSUME LoopInv, Complete
    PROVE  /\ task.job \in Pending /\ task.job \notin SettledRows
           /\ SettledRows' = SettledRows \cup {task.job}
<1> USE DEF LoopInv
<1>1. task.job \in Pending /\ task.job \in 1 .. Len(jobs) /\ task.posted \in Nat
      /\ jobs \in Seq(RowSet)
  BY SMT DEF Complete, DeliveryBacked, Delivering, TypeOK, TaskSet, Pending
<1>2. /\ jobs' \in Seq(RowSet) /\ Len(jobs') = Len(jobs) /\ jobs'[task.job].status = "completed"
      /\ \A j \in 1 .. Len(jobs) : j # task.job => jobs'[j] = jobs[j]
  BY <1>1, Completing DEF Complete
<1>3. DOMAIN jobs' = DOMAIN jobs /\ DOMAIN jobs = 1 .. Len(jobs)
  BY <1>1, <1>2, SMT
<1>4. QED
  BY <1>1, <1>2, <1>3 DEF SettledRows, Pending

\* No other step settles a row.
LEMMA SettledStep ==
    ASSUME LoopInv, [Next]_vars, TypeOK'
    PROVE  /\ Complete => Cardinality(SettledRows') = Cardinality(SettledRows) + 1
           /\ ~Complete => SettledRows' = SettledRows
<1> USE DEF LoopInv
<1>1. ASSUME Complete
      PROVE  Cardinality(SettledRows') = Cardinality(SettledRows) + 1
  BY <1>1, CompleteSettles, SettledFinite, FS_AddElement
<1>2. CASE UNCHANGED jobs
  BY <1>1, <1>2 DEF SettledRows, Pending
<1>3. ASSUME HandleNew, NEW result, Appended(result)
      PROVE  SettledRows' = SettledRows
  <2>1. \A i \in DOMAIN jobs : i \in DOMAIN jobs' /\ jobs'[i] = jobs[i]
    BY <1>3, NewRow
  <2>2. \A i \in DOMAIN jobs' : i \in DOMAIN jobs \/ i = Len(jobs) + 1
    BY <1>3, NewRow
  <2>3. jobs'[Len(jobs) + 1].status = "processed"
    BY <1>3, NewRow
  <2>4. QED
    BY <2>1, <2>2, <2>3 DEF SettledRows, Pending
<1>4. CASE HandleNew
  BY <1>1, <1>2, <1>3, <1>4 DEF HandleNew, Appended, ResultsOf, Results
<1>5. QED
  BY <1>1, <1>2, <1>4, StepKinds, QuietFrame
  DEF Send, Trim, Read, Advance, PostAccepted, PostAckLost, ledger

-----------------------------------------------------------------------------
(* The posts of all rooms *)

\* A post is a place in a room, a reply one with something else than a keepalive.
PostsAre ==
    \A p :
        /\ p \in AllPosts <=> \E r \in Room : \E k \in DOMAIN streams[r] : p = <<r, k>>
        /\ p \in AllReplies <=> \E r \in Room : \E k \in DOMAIN streams[r] :
                                    streams[r][k].body # Keepalive /\ p = <<r, k>>

\* PostsAre says what AllPosts and AllReplies contain.
LEMMA PostsMembers == PostsAre
<1> SUFFICES ASSUME NEW p
             PROVE  /\ p \in AllPosts <=> \E r \in Room : \E k \in DOMAIN streams[r] : p = <<r, k>>
                    /\ p \in AllReplies <=> \E r \in Room : \E k \in DOMAIN streams[r] :
                                                streams[r][k].body # Keepalive /\ p = <<r, k>>
  BY DEF PostsAre
<1>1. \A r, S : p \in {r} \X S <=> \E k \in S : p = <<r, k>>
  OBVIOUS
<1>2. /\ p \in AllPosts <=> \E r \in Room : p \in {r} \X DOMAIN streams[r]
      /\ p \in AllReplies <=> \E r \in Room : p \in {r} \X Replies(r)
  BY DEF AllPosts, AllReplies
<1>3. \A r : \A k : k \in Replies(r) <=> k \in DOMAIN streams[r] /\ streams[r][k].body # Keepalive
  BY DEF Replies
<1>4. p \in AllPosts <=> \E r \in Room : \E k \in DOMAIN streams[r] : p = <<r, k>>
  BY <1>1, <1>2
<1>5. p \in AllReplies <=> \E r \in Room : \E k \in Replies(r) : p = <<r, k>>
  BY <1>1, <1>2
<1>6. QED
  BY <1>3, <1>4, <1>5

\* What is delivered for a job is a reply, and no reply is a keepalive.
LEMMA TaskIsReply ==
    ASSUME LoopInv, Delivering
    PROVE  TaskBody = Keepalive <=> task.job = 0
<1> USE DEF LoopInv
<1>1. CASE task.job = 0
  BY <1>1 DEF TaskBody
<1>2. CASE task.job # 0
  <2>1. TaskBody \in ReplySet
    BY <1>2, RowsTyped, ReplyType DEF TaskBody, DeliveryBacked
  <2>2. QED
    BY <1>2, <2>1, KeepaliveAssumption DEF ReplySet, Results
<1>3. QED
  BY <1>1, <1>2

\* Where the next post of the delivery under way will stand.
NewPlace == <<TaskRoom, Len(streams[TaskRoom]) + 1>>

\* A post adds one place, and one reply unless it is a keepalive
\* (worker/service.py:163-165, 174-181).
LEMMA PostsStep ==
    ASSUME LoopInv, [Next]_vars, TypeOK'
    PROVE  /\ UNCHANGED streams => AllPosts' = AllPosts /\ AllReplies' = AllReplies
           /\ ~UNCHANGED streams => PostAccepted \/ PostAckLost
           /\ PostAccepted \/ PostAckLost =>
                 /\ AllPosts' = AllPosts \cup {NewPlace}
                 /\ AllReplies' = IF task.job = 0 THEN AllReplies ELSE AllReplies \cup {NewPlace}
<1> USE DEF LoopInv
<1>1. ~UNCHANGED streams => PostAccepted \/ PostAckLost
  BY StreamsStep
<1>2. UNCHANGED streams => AllPosts' = AllPosts /\ AllReplies' = AllReplies
  BY DEF AllPosts, AllReplies, Replies
<1>3. ASSUME PostAccepted \/ PostAckLost
      PROVE  /\ AllPosts' = AllPosts \cup {NewPlace}
             /\ AllReplies' = IF task.job = 0 THEN AllReplies ELSE AllReplies \cup {NewPlace}
  <2>1. pc = "post" /\ Published
    BY <1>3 DEF PostAccepted, PostAckLost
  <2> DEFINE n == Len(streams[TaskRoom]) + 1
  <2>2. /\ TaskRoom \in Room /\ n \in DOMAIN streams'[TaskRoom]
        /\ streams'[TaskRoom][n].body = TaskBody
        /\ \A r \in Room : \A k \in DOMAIN streams[r] :
              k \in DOMAIN streams'[r] /\ streams'[r][k] = streams[r][k]
        /\ \A r \in Room : \A k \in DOMAIN streams'[r] :
              k \in DOMAIN streams[r] \/ (r = TaskRoom /\ k = n)
    BY <2>1, PostAdded
  <2>3. TaskBody = Keepalive <=> task.job = 0
    BY <2>1, TaskIsReply DEF Delivering
  <2> HIDE DEF n
  <2>6. PostsAre'
    BY PostsMembers, PTL
  <2>4. AllPosts' = AllPosts \cup {<<TaskRoom, n>>}
    <3>1. ASSUME NEW p \in AllPosts'
          PROVE  p \in AllPosts \cup {<<TaskRoom, n>>}
      <4>1. PICK r \in Room : \E k \in DOMAIN streams'[r] : p = <<r, k>>
        BY <2>6, <3>1, Zenon DEF PostsAre
      <4>2. PICK k \in DOMAIN streams'[r] : p = <<r, k>>
        BY <4>1
      <4>3. k \in DOMAIN streams[r] \/ (r = TaskRoom /\ k = n)
        BY <2>2
      <4>4. QED
        BY <4>2, <4>3, PostsMembers, Zenon DEF PostsAre
    <3>2. ASSUME NEW p \in AllPosts
          PROVE  p \in AllPosts'
      <4>1. PICK r \in Room : \E k \in DOMAIN streams[r] : p = <<r, k>>
        BY <3>2, PostsMembers, Zenon DEF PostsAre
      <4>2. PICK k \in DOMAIN streams[r] : p = <<r, k>>
        BY <4>1
      <4>3. QED
        BY <2>2, <2>6, <4>2, Zenon DEF PostsAre
    <3>3. <<TaskRoom, n>> \in AllPosts'
      BY <2>2, <2>6, Zenon DEF PostsAre
    <3>4. QED
      BY <3>1, <3>2, <3>3
  <2>5. AllReplies' = IF task.job = 0 THEN AllReplies ELSE AllReplies \cup {<<TaskRoom, n>>}
    <3>1. ASSUME NEW p \in AllReplies'
          PROVE  p \in AllReplies \/ (task.job # 0 /\ p = <<TaskRoom, n>>)
      <4>1. PICK r \in Room : \E k \in DOMAIN streams'[r] :
                                 streams'[r][k].body # Keepalive /\ p = <<r, k>>
        BY <2>6, <3>1, Zenon DEF PostsAre
      <4>2. PICK k \in DOMAIN streams'[r] : streams'[r][k].body # Keepalive /\ p = <<r, k>>
        BY <4>1
      <4>3. CASE k \in DOMAIN streams[r]
        BY <2>2, <4>2, <4>3, PostsMembers, Zenon DEF PostsAre
      <4>4. CASE r = TaskRoom /\ k = n
        BY <2>2, <2>3, <4>2, <4>4
      <4>5. QED
        BY <2>2, <4>3, <4>4
    <3>2. ASSUME NEW p \in AllReplies
          PROVE  p \in AllReplies'
      <4>1. PICK r \in Room : \E k \in DOMAIN streams[r] :
                                 streams[r][k].body # Keepalive /\ p = <<r, k>>
        BY <3>2, PostsMembers, Zenon DEF PostsAre
      <4>2. PICK k \in DOMAIN streams[r] : streams[r][k].body # Keepalive /\ p = <<r, k>>
        BY <4>1
      <4>3. QED
        BY <2>2, <2>6, <4>2, Zenon DEF PostsAre
    <3>3. task.job # 0 => <<TaskRoom, n>> \in AllReplies'
      BY <2>2, <2>3, <2>6, Zenon DEF PostsAre
    <3>4. QED
      BY <3>1, <3>2, <3>3
  <2>7. NewPlace = <<TaskRoom, n>>
    BY DEF NewPlace, n
  <2>8. QED
    BY <2>4, <2>5, <2>7
<1>4. QED
  BY <1>1, <1>2, <1>3

\* Adding one element to a finite set adds one at most.
LEMMA OneMore ==
    ASSUME NEW S, IsFiniteSet(S), NEW x
    PROVE  /\ IsFiniteSet(S \cup {x})
           /\ Cardinality(S) \in Nat /\ Cardinality(S \cup {x}) \in Nat
           /\ Cardinality(S \cup {x}) <= Cardinality(S) + 1
<1>1. Cardinality(S) \in Nat
  BY FS_CardinalityType, Zenon
<1>2. /\ IsFiniteSet(S \cup {x})
      /\ Cardinality(S \cup {x}) = IF x \in S THEN Cardinality(S) ELSE Cardinality(S) + 1
  BY FS_AddElement, Zenon
<1>3. QED
  BY <1>1, <1>2, SMT

\* The places that are replies can be counted when the posts can.
LEMMA RepliesFinite ==
    ASSUME IsFiniteSet(AllPosts)
    PROVE  /\ IsFiniteSet(AllReplies) /\ Cardinality(AllReplies) \in Nat
           /\ Cardinality(AllPosts) \in Nat
<1>1. AllReplies \in SUBSET AllPosts
  BY PostsMembers, Zenon DEF PostsAre
<1>2. IsFiniteSet(AllReplies)
  BY <1>1, FS_Subset, Zenon
<1>3. QED
  BY <1>2, FS_CardinalityType, Zenon

-----------------------------------------------------------------------------
(* What a step does to the sums *)

\* The steps that neither post nor complete, by what they do to the sums.
LEMMA IdleSteps ==
    ASSUME LoopInv, [Next]_vars, ~PostAccepted, ~PostAckLost, ~Complete
    PROVE  \/ UNCHANGED <<pc, task, activity, faults, quiet>>
           \/ UNCHANGED <<pc, task, faults>> /\ SixDaysPass
           \/ UNCHANGED <<faults, quiet>> /\ RecordActivity
           \/ UNCHANGED <<activity, quiet>> /\ Fault
           \/ /\ UNCHANGED <<activity, faults, quiet>>
              /\ ~Unrecorded /\ ~Unrecorded'
<1>1. CASE Send \/ Trim \/ UNCHANGED vars
  BY <1>1 DEF Send, Trim, vars, budget, volatile
<1>2. CASE SixDaysPass
  BY <1>2 DEF SixDaysPass, volatile
<1>3. CASE RecordActivity
  BY <1>3 DEF RecordActivity, budget
<1>4. CASE ReadFails \/ VerifyRaises \/ PostLost \/ Crash
  BY <1>4 DEF ReadFails, VerifyRaises, PostLost, Crash
<1>5. CASE NextNonce \/ PostRefused
  <2>1. task.back \in {"start", "retry", "read", "advance"}
    BY SMT DEF LoopInv, TypeOK, TaskSet
  <2>2. QED
    BY <1>5, <2>1 DEF NextNonce, PostRefused, Resume, Unrecorded, budget
<1>6. CASE Cycle \/ Handle
  BY <1>6 DEF Cycle, StartCycle, RetryNext, KeepaliveIfDue, Read, EndCycle, Handle, HandleIgnored,
     HandleClaimed, HandlePending, HandleNew, HandleRaises, Advance, Handling, Returned, Raised,
     Deliver, Unrecorded, budget
<1>7. QED
  BY <1>1, <1>2, <1>3, <1>4, <1>5, <1>6
  DEF Next, WorkerStep, Delivery, Environment, Failure

\* The failures and the quiet periods are numbers, and what they come to.
LEMMA FaultTyped ==
    ASSUME TypeOK
    PROVE  /\ faults \in Nat /\ quiet \in Nat
           /\ Fault => faults' = faults + 1 /\ faults + 1 <= MaxFaults
           /\ SixDaysPass => quiet' = quiet + 1 /\ quiet + 1 <= MaxQuiet
<1>1. faults \in Nat /\ quiet \in Nat /\ MaxFaults \in Nat /\ MaxQuiet \in Nat
  BY BoundAssumption DEF TypeOK
<1>2. /\ Fault => faults < MaxFaults /\ faults' = faults + 1
      /\ SixDaysPass => quiet < MaxQuiet /\ quiet' = quiet + 1
  BY DEF Fault, SixDaysPass
<1>3. QED
  BY <1>1, <1>2, SMT

\* Every step preserves DuplicatesNeedFailures: between two posts of a reply the job
\* is completed or something failed (worker/service.py:163-166).
LEMMA DuplicatesStep ==
    ASSUME IInv, [Next]_vars, TypeOK'
    PROVE  DuplicatesNeedFailures'
<1> USE DEF IInv
<1> DEFINE C == IF pc = "complete" THEN 1 ELSE 0
<1>1. /\ IsFiniteSet(AllReplies) /\ Cardinality(AllReplies) \in Nat
      /\ Cardinality(SettledRows) \in Nat
      /\ faults \in Nat /\ faults' \in Nat
      /\ Cardinality(AllReplies) <= Cardinality(SettledRows) + faults + C
  BY RepliesFinite, SettledFinite
  DEF PostsPaid, DuplicatesNeedFailures, SettledRows, LoopInv, TypeOK
<1>2. SUFFICES Cardinality(AllReplies') <= Cardinality(SettledRows') + faults' + C'
  BY DEF DuplicatesNeedFailures, SettledRows
<1>3. CASE Complete
  <2>1. /\ pc = "complete" /\ pc' # "complete" /\ UNCHANGED <<faults, streams>>
    BY <1>3, SMT DEF Complete, Resume, LoopInv, TypeOK, TaskSet, budget
  <2>2. AllReplies' = AllReplies /\ Cardinality(SettledRows') = Cardinality(SettledRows) + 1
    BY <1>3, <2>1, PostsStep, SettledStep
  <2>3. C = 1 /\ C' = 0
    BY <2>1
  <2> HIDE DEF C
  <2>4. QED
    BY <1>1, <2>1, <2>2, <2>3, SMT
<1>4. CASE PostAccepted \/ PostAckLost
  <2>1. /\ pc = "post" /\ ~Complete
        /\ PostAckLost => faults' = faults + 1
        /\ PostAccepted => faults' = faults /\ (task.job # 0 => pc' = "complete")
    BY <1>4 DEF PostAccepted, PostAckLost, Complete, AfterPost, Fault, budget
  <2>2. SettledRows' = SettledRows
    BY <2>1, SettledStep
  <2>3. AllReplies' = IF task.job = 0 THEN AllReplies ELSE AllReplies \cup {NewPlace}
    BY <1>4, PostsStep
  <2>4. /\ Cardinality(AllReplies') \in Nat
        /\ Cardinality(AllReplies') <= Cardinality(AllReplies) + 1
        /\ task.job = 0 => Cardinality(AllReplies') = Cardinality(AllReplies)
    <3>1. CASE task.job = 0
      BY <1>1, <2>3, <3>1, SMT
    <3>2. CASE task.job # 0
      <4>1. AllReplies' = AllReplies \cup {NewPlace}
        BY <2>3, <3>2
      <4>2. QED
        BY <1>1, <3>2, <4>1, OneMore
    <3>3. QED
      BY <3>1, <3>2
  <2>5. C = 0 /\ C' \in {0, 1} /\ (PostAccepted /\ task.job # 0 => C' = 1)
    BY <2>1
  <2> HIDE DEF C
  <2>6. QED
    BY <1>1, <1>4, <2>1, <2>2, <2>4, <2>5, SMT
<1>5. CASE ~Complete /\ ~PostAccepted /\ ~PostAckLost
  <2>1. AllReplies' = AllReplies /\ SettledRows' = SettledRows
    BY <1>5, PostsStep, SettledStep
  <2>2. /\ faults' = faults \/ faults' = faults + 1
        /\ pc = "complete" /\ pc' # "complete" => faults' = faults + 1
    BY <1>5, IdleSteps, FaultTyped DEF RecordActivity, Unrecorded, LoopInv
  <2>3. C \in {0, 1} /\ C' \in {0, 1} /\ (C = 1 /\ C' = 0 => faults' = faults + 1)
    BY <2>2
  <2> HIDE DEF C
  <2>4. QED
    BY <1>1, <2>1, <2>2, <2>3, SMT
<1>6. QED
  BY <1>3, <1>4, <1>5

\* Every step preserves PostsPaid: a keepalive is posted once for a quiet period,
\* unless something fails (worker/service.py:171-182).
LEMMA PostsPaidStep ==
    ASSUME IInv, [Next]_vars, TypeOK'
    PROVE  PostsPaid'
<1> USE DEF IInv
<1> DEFINE S == IF activity = "stale" THEN 1 ELSE 0
           U == IF Unrecorded THEN 1 ELSE 0
<1>1. /\ IsFiniteSet(AllPosts) /\ Cardinality(AllPosts) \in Nat
      /\ Cardinality(SettledRows) \in Nat
      /\ faults \in Nat /\ faults' \in Nat /\ quiet \in Nat /\ quiet' \in Nat
      /\ Cardinality(AllPosts) + S <= Cardinality(SettledRows) + quiet + faults + U
      /\ S \in {0, 1} /\ S' \in {0, 1} /\ U \in {0, 1} /\ U' \in {0, 1}
  BY RepliesFinite, SettledFinite DEF PostsPaid, SettledRows, LoopInv, TypeOK
<1>2. SUFFICES /\ IsFiniteSet(AllPosts')
               /\ Cardinality(AllPosts') + S' <= Cardinality(SettledRows') + quiet' + faults' + U'
  BY DEF PostsPaid, SettledRows
<1>3. CASE Complete
  <2>1. /\ U = 1 /\ S' = S /\ UNCHANGED <<faults, quiet, streams>>
    BY <1>3 DEF Complete, Unrecorded, budget
  <2>2. AllPosts' = AllPosts /\ Cardinality(SettledRows') = Cardinality(SettledRows) + 1
    BY <1>3, <2>1, PostsStep, SettledStep
  <2> HIDE DEF S, U
  <2>3. QED
    BY <1>1, <2>1, <2>2, SMT
<1>4. CASE PostAccepted \/ PostAckLost
  <2>1. /\ ~Complete /\ U = 0 /\ S' = S /\ quiet' = quiet
        /\ PostAckLost => faults' = faults + 1
        /\ PostAccepted => faults' = faults /\ U' = 1
    <3>1. PostAccepted => task' = [task EXCEPT !.posted = PostedSeq]
      BY DEF PostAccepted
    <3>2. PostAccepted => task'.job = task.job
      BY <3>1, SMT DEF LoopInv, TypeOK, TaskSet
    <3>3. QED
      BY <1>4, <3>2 DEF PostAccepted, PostAckLost, Complete, AfterPost, Fault, Unrecorded, budget
  <2>2. SettledRows' = SettledRows
    BY <2>1, SettledStep
  <2>3. AllPosts' = AllPosts \cup {NewPlace}
    BY <1>4, PostsStep
  <2>4. /\ IsFiniteSet(AllPosts') /\ Cardinality(AllPosts') \in Nat
        /\ Cardinality(AllPosts') <= Cardinality(AllPosts) + 1
    BY <1>1, <2>3, OneMore
  <2> HIDE DEF S, U
  <2>5. QED
    BY <1>1, <1>4, <2>1, <2>2, <2>4, SMT
<1>5. CASE ~Complete /\ ~PostAccepted /\ ~PostAckLost
  <2>1. AllPosts' = AllPosts /\ SettledRows' = SettledRows
    BY <1>5, PostsStep, SettledStep
  <2>2. \/ S' = S /\ U' = U /\ faults' = faults /\ quiet' = quiet
        \/ U' = U /\ faults' = faults /\ quiet' = quiet + 1
        \/ S' = 0 /\ (U = 1 => S = 1) /\ faults' = faults /\ quiet' = quiet
        \/ S' = S /\ faults' = faults + 1 /\ quiet' = quiet
        \/ S' = S /\ U = 0 /\ faults' = faults /\ quiet' = quiet
    <3>1. CASE UNCHANGED <<pc, task, activity, faults, quiet>>
      BY <3>1 DEF Unrecorded
    <3>2. CASE UNCHANGED <<pc, task, faults>> /\ SixDaysPass
      BY <3>2, FaultTyped DEF Unrecorded, LoopInv
    <3>3. CASE UNCHANGED <<faults, quiet>> /\ RecordActivity
      BY <3>3 DEF RecordActivity, Unrecorded, BudgetKept, Delivering
    <3>4. CASE UNCHANGED <<activity, quiet>> /\ Fault
      BY <3>4, FaultTyped DEF LoopInv
    <3>5. CASE UNCHANGED <<activity, faults, quiet>> /\ ~Unrecorded
      BY <3>5
    <3>6. QED
      BY <1>5, <3>1, <3>2, <3>3, <3>4, <3>5, IdleSteps
  <2> HIDE DEF S, U
  <2>3. QED
    BY <1>1, <2>1, <2>2, SMT
<1>6. QED
  BY <1>3, <1>4, <1>5

\* No row has the id 0, which stands for the keepalive.
LEMMA RowIds ==
    ASSUME TypeOK
    PROVE  0 \notin DOMAIN jobs /\ Len(jobs) + 1 # 0
BY SMT DEF TypeOK

\* Every step preserves BudgetKept: the shared room has been quiet as long as its
\* keepalive is under way (worker/service.py:171-182).
LEMMA BudgetStep ==
    ASSUME IInv, [Next]_vars, TypeOK'
    PROVE  BudgetKept'
<1> USE DEF IInv
<1>1. Len(inbox') <= MaxInbox
  <2>1. Len(inbox) \in Nat /\ inbox \in Seq(Envelopes)
    BY SMT DEF LoopInv, TypeOK
  <2>2. CASE UNCHANGED inbox
    BY <2>2 DEF BudgetKept
  <2>3. CASE Send
    <3>1. Len(inbox) < MaxInbox /\ \E e : inbox' = Append(inbox, e)
      BY <2>3 DEF Send
    <3>2. Len(inbox') = Len(inbox) + 1
      BY <2>1, <3>1
    <3>3. QED
      BY <2>1, <3>1, <3>2, BoundAssumption, SMT
  <2>4. QED
    BY <2>2, <2>3, StepKinds, QuietFrame
    DEF Trim, Read, HandleNew, Advance, PostAccepted, PostAckLost, Complete, server
<1>2. faults' <= MaxFaults /\ quiet' <= MaxQuiet
  BY IdleSteps, FaultTyped DEF BudgetKept, LoopInv, SixDaysPass, PostAccepted, PostAckLost,
     Complete, budget
<1>3. ASSUME Delivering', task'.job = 0
      PROVE  activity' = "stale"
  <2>1. CASE Delivering /\ task.job = 0 /\ activity' = activity
    BY <2>1 DEF BudgetKept
  <2>2. CASE KeepaliveIfDue
    BY <1>3, <2>2 DEF KeepaliveIfDue, KeepaliveDue, Delivering
  <2>3. CASE Send \/ Trim \/ SixDaysPass \/ UNCHANGED vars
    <3>1. UNCHANGED <<pc, task>> /\ (activity' = activity \/ activity' = "stale")
      BY <2>3 DEF Send, Trim, SixDaysPass, vars, volatile
    <3>2. QED
      BY <1>3, <3>1 DEF BudgetKept, Delivering
  <2>4. CASE NextNonce \/ PostAccepted \/ PostRefused \/ Complete \/ PostLost \/ PostAckLost
    <3>1. Delivering /\ activity' = activity
      BY <2>4 DEF NextNonce, PostAccepted, PostRefused, Complete, PostLost, PostAckLost, Delivering
    <3>2. task'.job = task.job \/ pc' = task.back
      BY <2>4, <3>1, DeliverySteps DEF LoopInv
    <3>3. task.back \in {"start", "retry", "read", "advance"}
      BY SMT DEF LoopInv, TypeOK, TaskSet
    <3>4. QED
      BY <1>3, <2>1, <3>1, <3>2, <3>3 DEF Delivering
  <2>5. CASE RetryNext \/ HandlePending \/ HandleNew
    <3>1. task'.job = 0 => pc' \notin {"nonce", "post", "complete", "activity"}
      <4>1. CASE RetryNext
        BY <4>1, RowIds DEF RetryNext, Deliver, LoopInv, DeliveryBacked, Pending
      <4>2. CASE HandlePending
        BY <4>2, RowIds DEF HandlePending, Deliver, LoopInv, Claimed
      <4>3. CASE HandleNew
        BY <4>3, RowIds DEF HandleNew, Deliver, LoopInv, Returned
      <4>4. QED
        BY <2>5, <4>1, <4>2, <4>3
    <3>2. QED
      BY <1>3, <3>1 DEF Delivering
  <2>6. CASE \/ StartCycle \/ Read \/ EndCycle \/ HandleIgnored \/ HandleClaimed \/ HandleRaises
             \/ Advance \/ ReadFails \/ VerifyRaises \/ Crash
    BY <1>3, <2>6 DEF StartCycle, Read, EndCycle, HandleIgnored, HandleClaimed, HandleRaises,
       Advance, ReadFails, VerifyRaises, Crash, Restarted, Returned, Raised, Delivering
  <2>7. CASE RecordActivity
    <3>1. task.back \in {"start", "retry", "read", "advance"}
      BY SMT DEF LoopInv, TypeOK, TaskSet
    <3>2. QED
      BY <1>3, <2>7, <3>1 DEF RecordActivity, Resume, Delivering
  <2>8. QED
    BY <2>2, <2>3, <2>4, <2>5, <2>6, <2>7
    DEF Next, WorkerStep, Cycle, Handle, Delivery, Environment, Failure
<1>4. QED
  BY <1>1, <1>2, <1>3 DEF BudgetKept

-----------------------------------------------------------------------------
(* The invariant *)

\* The sums are right when there is nothing to count.
LEMMA InitSums == Init => IInv
<1> SUFFICES ASSUME Init PROVE IInv
  OBVIOUS
<1>1. LoopInv
  BY InitInv
<1>2. /\ DOMAIN jobs = {} /\ Len(inbox) = 0 /\ faults = 0 /\ quiet = 0 /\ pc = "start"
      /\ activity = "none" /\ \A r \in Room : DOMAIN streams[r] = {}
  BY SMT DEF Init
<1>3. BudgetKept
  BY <1>2, BoundAssumption, SMT DEF BudgetKept, Delivering
<1>4. AllPosts = {} /\ AllReplies = {}
  BY <1>2, PostsMembers DEF PostsAre
<1>5. SettledRows = {}
  BY <1>2 DEF SettledRows
<1>6. IsFiniteSet({}) /\ Cardinality({}) = 0
  BY FS_EmptySet
<1>7. PostsPaid /\ DuplicatesNeedFailures
  BY <1>2, <1>4, <1>5, <1>6, SMT DEF PostsPaid, DuplicatesNeedFailures, SettledRows, Unrecorded
<1>8. QED
  BY <1>1, <1>3, <1>7 DEF IInv

\* The inductive invariant, sums included, holds in every reachable state.
THEOREM Invariance == Spec => []IInv
<1>1. IInv /\ [Next]_vars => IInv'
  <2> SUFFICES ASSUME IInv, [Next]_vars PROVE IInv'
    OBVIOUS
  <2>1. LoopInv' /\ TypeOK'
    BY StepInv DEF IInv, LoopInv
  <2>2. QED
    BY <2>1, BudgetStep, PostsPaidStep, DuplicatesStep DEF IInv
<1>2. QED
  BY InitSums, <1>1, PTL DEF Spec

\* Delivery is at least once, and every extra copy of a reply has cost a failure
\* between its post and complete (worker/service.py:163-166).
THEOREM CopiesCostFailures == Spec => []DuplicatesNeedFailures
<1>1. IInv => DuplicatesNeedFailures
  BY DEF IInv
<1>2. QED
  BY <1>1, Invariance, PTL

-----------------------------------------------------------------------------
(* The posts fit in the places of the ledger *)

\* Every row was a message of the inbox, no two the same (worker/state.py:33-50).
LEMMA RowsFit ==
    ASSUME IInv
    PROVE  Len(jobs) \in Nat /\ Len(jobs) <= MaxInbox
<1> USE DEF IInv
<1>1. Len(inbox) \in Nat /\ DOMAIN inbox = 1 .. Len(inbox) /\ Len(inbox) <= MaxInbox
  BY SMT DEF LoopInv, TypeOK, BudgetKept
<1> DEFINE f == [i \in DOMAIN jobs |-> jobs[i].seq]
<1>2. \A i \in DOMAIN jobs : jobs[i].seq \in 1 .. Len(inbox)
  BY <1>1 DEF LoopInv, RowsBacked
<1>3. ASSUME NEW i \in DOMAIN jobs, NEW j \in DOMAIN jobs, jobs[i].seq = jobs[j].seq
      PROVE  i = j
  BY <1>3 DEF LoopInv, RowsBacked
<1>4. f \in Injection(DOMAIN jobs, 1 .. Len(inbox))
  BY <1>2, <1>3, Zenon DEF Injection, IsInjective
<1>5. IsFiniteSet(1 .. Len(inbox)) /\ Cardinality(1 .. Len(inbox)) = Len(inbox)
  BY <1>1, UpTo
<1>6. Cardinality(DOMAIN jobs) <= Len(inbox)
  BY <1>4, <1>5, FS_Injection
<1>7. QED
  BY <1>1, <1>6, SettledFinite, BoundAssumption, SMT DEF LoopInv

\* A row at complete is not settled yet (worker/service.py:166).
LEMMA SettledFit ==
    ASSUME IInv
    PROVE  Cardinality(SettledRows) + (IF pc = "complete" THEN 1 ELSE 0) <= Len(jobs)
<1> USE DEF IInv
<1>1. /\ IsFiniteSet(SettledRows) /\ Cardinality(SettledRows) \in Nat /\ Len(jobs) \in Nat
      /\ IsFiniteSet(DOMAIN jobs) /\ Cardinality(DOMAIN jobs) = Len(jobs)
  BY SettledFinite DEF LoopInv
<1>2. CASE pc = "complete"
  <2>1. SettledRows \cup {task.job} \in SUBSET DOMAIN jobs /\ task.job \notin SettledRows
    BY <1>2 DEF LoopInv, DeliveryBacked, Delivering, SettledRows
  <2>2. Cardinality(SettledRows \cup {task.job}) = Cardinality(SettledRows) + 1
    BY <1>1, <2>1, FS_AddElement
  <2>3. Cardinality(SettledRows \cup {task.job}) <= Cardinality(DOMAIN jobs)
    BY <1>1, <2>1, FS_Subset
  <2>4. QED
    BY <1>1, <1>2, <2>2, <2>3, SMT
<1>3. CASE pc # "complete"
  <2>1. SettledRows \in SUBSET DOMAIN jobs
    BY DEF SettledRows
  <2>2. Cardinality(SettledRows) <= Cardinality(DOMAIN jobs)
    BY <1>1, <2>1, FS_Subset
  <2>3. QED
    BY <1>1, <1>3, <2>2, SMT
<1>4. QED
  BY <1>2, <1>3

PlacesFit == \A r \in Room : \A k \in DOMAIN streams[r] : k \in 1 .. MaxPosts

\* However often posts are repeated, a room takes no more of them than the bounds on
\* messages, failures and quiet periods leave room for (worker/service.py:129-182).
LEMMA PostsFit == IInv => PlacesFit
<1> SUFFICES ASSUME IInv, NEW r \in Room, NEW k \in DOMAIN streams[r]
             PROVE  k \in 1 .. MaxPosts
  BY DEF PlacesFit
<1> USE DEF IInv
<1>1. k \in Nat /\ k >= 1 /\ \A l \in 1 .. k : l \in DOMAIN streams[r]
  BY SMT DEF LoopInv, TypeOK
<1>2. {r} \X (1 .. k) \in SUBSET AllPosts
  BY <1>1, PostsMembers DEF PostsAre
<1>3. Cardinality({r} \X (1 .. k)) = k
  <2>1. IsFiniteSet({r}) /\ Cardinality({r}) = 1 /\ IsFiniteSet(1 .. k) /\ Cardinality(1 .. k) = k
    BY <1>1, UpTo, FS_Singleton
  <2>2. Cardinality({r} \X (1 .. k)) = Cardinality({r}) * Cardinality(1 .. k)
    BY <2>1, FS_Product, Zenon
  <2>3. QED
    BY <1>1, <2>1, <2>2, SMT
<1>4. k <= Cardinality(AllPosts) /\ Cardinality(AllPosts) \in Nat
  <2>1. IsFiniteSet(AllPosts)
    BY DEF PostsPaid
  <2>2. Cardinality({r} \X (1 .. k)) <= Cardinality(AllPosts)
    BY <1>2, <2>1, FS_Subset, Zenon
  <2>3. QED
    BY <1>3, <2>1, <2>2, FS_CardinalityType, Zenon
<1> DEFINE S == IF activity = "stale" THEN 1 ELSE 0
           U == IF Unrecorded THEN 1 ELSE 0
           C == IF pc = "complete" THEN 1 ELSE 0
<1>5. Cardinality(AllPosts) + S <= Cardinality(SettledRows) + quiet + faults + U
  BY DEF PostsPaid, SettledRows
<1>6. U - S <= C
  BY SMT DEF Unrecorded, BudgetKept, Delivering
<1>7. S \in {0, 1} /\ U \in {0, 1} /\ C \in {0, 1}
  OBVIOUS
<1>8. Cardinality(SettledRows) + C <= Len(jobs) /\ Cardinality(SettledRows) \in Nat
  BY SettledFit, SettledFinite DEF LoopInv
<1>9. Len(jobs) \in Nat /\ Len(jobs) <= MaxInbox
  BY RowsFit
<1>10. faults \in Nat /\ quiet \in Nat /\ faults <= MaxFaults /\ quiet <= MaxQuiet
  BY DEF LoopInv, TypeOK, BudgetKept
<1> HIDE DEF S, U, C
<1>11. k <= MaxInbox + MaxFaults + MaxQuiet
  BY <1>1, <1>4, <1>5, <1>6, <1>7, <1>8, <1>9, <1>10, BoundAssumption, SMT
<1>12. QED
  BY <1>1, <1>11, BoundAssumption, SMT DEF MaxPosts

-----------------------------------------------------------------------------
(* The refinement *)

SameMeaning(i) == KeyOf(jobs'[i]) = KeyOf(jobs[i]) /\ AnswerOf(jobs'[i]) = AnswerOf(jobs[i])

\* A row means the same claim and the same answer for good (worker/state.py:170-236).
LEMMA MeaningStable ==
    ASSUME LoopInv, [Next]_vars, TypeOK'
    PROVE  \A i \in DOMAIN jobs : i \in DOMAIN jobs' /\ SameMeaning(i)
BY JobsGrow DEF LoopInv, SameMeaning, KeyOf, AnswerOf, AnswerIn

RowsMean == \A i \in DOMAIN jobs : KeyOf(jobs[i]) \in Key /\ AnswerOf(jobs[i]) \in Answer

\* A row is a key and an answer of the ledger.
LEMMA MeaningTyped == TypeOK => RowsMean
<1> SUFFICES ASSUME TypeOK, NEW i \in DOMAIN jobs
             PROVE  KeyOf(jobs[i]) \in Key /\ AnswerOf(jobs[i]) \in Answer
  BY DEF RowsMean
<1>1. jobs[i].text \in Text /\ jobs[i].did \in Did /\ RoomOf[jobs[i].text] \in Room
  BY RowsTyped
<1>2. jobs[i].result \in Results
  BY RowsTyped, SMT DEF RowSet
<1>3. JobOf[jobs[i].text] \in JobId
  BY <1>1, RequestAssumption
<1>4. QED
  BY <1>1, <1>2, <1>3 DEF KeyOf, AnswerOf, AnswerIn, Key, Answer

\* The keys that are settled, and those that become so.
LEMMA SettledKeysStep ==
    ASSUME LoopInv, [Next]_vars, TypeOK'
    PROVE  /\ SettledRows' = SettledRows => SettledKeys' = SettledKeys
           /\ Complete => SettledKeys' = SettledKeys \cup {KeyOf(jobs[task.job])}
<1>1. SettledKeys = {KeyOf(jobs[i]) : i \in SettledRows}
      /\ SettledKeys' = {KeyOf(jobs'[i]) : i \in SettledRows'}
  BY DEF SettledKeys, SettledRows
<1>2. \A i \in DOMAIN jobs : KeyOf(jobs'[i]) = KeyOf(jobs[i])
  BY MeaningStable DEF SameMeaning
<1>3. ASSUME SettledRows' = SettledRows
      PROVE  SettledKeys' = SettledKeys
  <2>1. \A i \in SettledRows : KeyOf(jobs'[i]) = KeyOf(jobs[i])
    BY <1>2 DEF SettledRows
  <2>2. QED
    BY <1>1, <1>3, <2>1
<1>4. ASSUME Complete
      PROVE  SettledKeys' = SettledKeys \cup {KeyOf(jobs[task.job])}
  <2>1. SettledRows' = SettledRows \cup {task.job} /\ task.job \in DOMAIN jobs
    BY <1>4, CompleteSettles DEF Pending
  <2>2. \A i \in SettledRows \cup {task.job} : KeyOf(jobs'[i]) = KeyOf(jobs[i])
    BY <1>2, <2>1 DEF SettledRows
  <2>3. QED
    BY <1>1, <2>1, <2>2
<1>5. QED
  BY <1>3, <1>4

\* No claimed key is settled while its row is pending: there is no other row for it.
LEMMA PendingUnsettled ==
    ASSUME LoopInv, NEW i \in Pending
    PROVE  KeyOf(jobs[i]) \notin SettledKeys
BY DEF LoopInv, RowsBacked, SettledKeys, KeyOf, Pending

\* The place after the last is none of a sequence.
LEMMA PlaceAfter ==
    ASSUME NEW S, NEW s \in Seq(S)
    PROVE  1 .. Len(s) + 1 = DOMAIN s \cup {Len(s) + 1} /\ Len(s) + 1 \notin DOMAIN s
BY SMT

\* The claims stay as they are, or one is added for a key that had none
\* (worker/service.py:84-127, worker/state.py:170-228).
LEMMA ClaimsStep ==
    ASSUME LoopInv, [Next]_vars, TypeOK'
    PROVE  \/ Claims' = Claims
           \/ /\ HandleNew
              /\ \E k \in Key, a \in Answer :
                    Claims' = Claims \cup {<<k, a>>} /\ \A c \in Claims : c[1] # k
<1> USE DEF LoopInv
<1>1. CASE SameRows
  <2>1. DOMAIN jobs' = DOMAIN jobs
    BY <1>1, SameRowsDomain
  <2>2. \A i \in DOMAIN jobs : SameMeaning(i)
    BY MeaningStable
  <2>3. Claims' = Claims
    BY <2>1, <2>2 DEF Claims, SameMeaning
  <2>4. QED
    BY <2>3
<1>2. ASSUME HandleNew, NEW result, Appended(result)
      PROVE  \E k \in Key, a \in Answer :
                Claims' = Claims \cup {<<k, a>>} /\ \A c \in Claims : c[1] # k
  <2> DEFINE n == Len(jobs) + 1
             k == KeyOf(jobs'[n])
             a == AnswerOf(jobs'[n])
  <2>1. /\ DOMAIN jobs' = 1 .. n
        /\ jobs'[n].did = inbox[seq].from /\ jobs'[n].text = inbox[seq].text
        /\ Claimed(inbox[seq]) = {}
    BY <1>2, NewRow
  <2>2. DOMAIN jobs' = DOMAIN jobs \cup {n} /\ n \in DOMAIN jobs'
    <3>1. jobs \in Seq(RowSet)
      BY Zenon DEF TypeOK
    <3>2. 1 .. n = DOMAIN jobs \cup {n}
      BY <3>1, PlaceAfter, Zenon
    <3>3. QED
      BY <2>1, <3>2, Zenon
  <2>3. k \in Key /\ a \in Answer
    <3>1. RowsMean'
      BY MeaningTyped, PTL
    <3>2. QED
      BY <2>2, <3>1 DEF RowsMean
  <2>4. \A i \in DOMAIN jobs : KeyOf(jobs[i]) # k
    BY <2>1 DEF Claimed, KeyOf
  <2>5. \A c \in Claims : c[1] # k
    BY <2>4 DEF Claims
  <2>6. \A i \in DOMAIN jobs : SameMeaning(i)
    BY MeaningStable
  <2>7. Claims' = Claims \cup {<<k, a>>}
    BY <2>2, <2>6 DEF Claims, SameMeaning
  <2>8. QED
    BY <2>3, <2>5, <2>7
<1>3. QED
  BY <1>1, <1>2, JobsStep

PublishedAt(p) == [at |-> p, key |-> KeyOf(Posted(p)), answer |-> AnswerIn(p[1], Posted(p))]
NewPublication ==
    [at |-> NewPlace, key |-> KeyOf(jobs[task.job]), answer |-> AnswerOf(jobs[task.job])]

\* What is published stays, and the post of a job's reply adds its answer, at a place
\* of its own (worker/service.py:137-165).
LEMMA PublicationsStep ==
    ASSUME LoopInv, [Next]_vars, TypeOK'
    PROVE  /\ UNCHANGED streams => Publications' = Publications
           /\ (PostAccepted \/ PostAckLost) /\ task.job = 0 => Publications' = Publications
           /\ (PostAccepted \/ PostAckLost) /\ task.job # 0 =>
                 /\ Publications' = Publications \cup {NewPublication}
                 /\ \A p \in Publications : p.at # NewPlace
<1> USE DEF LoopInv
<1> DEFINE Now(p) == streams'[p[1]][p[2]].body
           At(p, reply) == [at |-> p, key |-> KeyOf(reply), answer |-> AnswerIn(p[1], reply)]
<1>1. /\ Publications = {At(p, Posted(p)) : p \in AllReplies}
      /\ Publications' = {At(p, Now(p)) : p \in AllReplies'}
  BY DEF Publications, Posted
<1>2. ASSUME NEW p \in AllReplies
      PROVE  Now(p) = Posted(p) /\ p # NewPlace
  <2>1. PICK r \in Room : \E k \in DOMAIN streams[r] : p = <<r, k>>
    BY PostsMembers DEF PostsAre
  <2>2. PICK k \in DOMAIN streams[r] : p = <<r, k>>
    BY <2>1
  <2>3. streams'[r][k] = streams[r][k]
    BY StreamsStep, PostAdded
  <2>4. k # Len(streams[r]) + 1
    <3>1. streams[r] \in Seq(PostSet)
      BY Zenon DEF TypeOK
    <3>2. QED
      BY <3>1, PlaceAfter, Zenon
  <2>5. p # NewPlace
    BY <2>2, <2>4 DEF NewPlace
  <2>6. QED
    BY <2>2, <2>3, <2>5 DEF Posted
<1>3. ASSUME AllReplies' = AllReplies
      PROVE  Publications' = Publications
  BY <1>1, <1>2, <1>3
<1>4. \A p \in Publications : p.at # NewPlace
  BY <1>1, <1>2
<1>5. ASSUME PostAccepted \/ PostAckLost, task.job # 0
      PROVE  Publications' = Publications \cup {NewPublication}
  <2>1. AllReplies' = AllReplies \cup {NewPlace}
    BY <1>5, PostsStep
  <2>2. /\ pc = "post" /\ Published
        /\ TaskRoom = RoomOf[jobs[task.job].text] /\ TaskBody = Reply(jobs[task.job])
    BY <1>5 DEF PostAccepted, PostAckLost, TaskRoom, TaskBody
  <2>3. Now(NewPlace) = Reply(jobs[task.job])
    BY <2>2, PostAdded DEF NewPlace
  <2>4. At(NewPlace, Reply(jobs[task.job])) = NewPublication
    BY <2>2 DEF NewPublication, NewPlace, KeyOf, AnswerOf, AnswerIn, Reply
  <2>5. QED
    BY <1>1, <1>2, <2>1, <2>3, <2>4
<1>6. QED
  BY <1>3, <1>4, <1>5, PostsStep

-----------------------------------------------------------------------------
(* Each step of the worker is a step of the ledger, or none *)

\* An empty worker is an empty ledger.
LEMMA LedgerInit == Init => Ledger!Init
<1> SUFFICES ASSUME Init PROVE Ledger!Init
  OBVIOUS
<1>1. DOMAIN jobs = {} /\ \A r \in Room : DOMAIN streams[r] = {}
  BY SMT DEF Init
<1>2. AllReplies = {}
  BY <1>1, PostsMembers DEF PostsAre
<1>3. Claims = {} /\ SettledKeys = {} /\ Publications = {}
  BY <1>1, <1>2 DEF Claims, SettledKeys, Publications
<1>4. QED
  BY <1>3 DEF Ledger!Init

\* The claim of a job is Claim, the post of its reply Publish, whether or not the
\* worker learns of it, and complete is Settle (worker/service.py:84-169).
LEMMA LedgerStep == IInv /\ [Next]_vars /\ IInv' => [Ledger!Next]_(Ledger!ledgerVars)
<1> SUFFICES ASSUME IInv, [Next]_vars, IInv'
             PROVE  [Ledger!Next]_(Ledger!ledgerVars)
  OBVIOUS
<1>1. LoopInv /\ TypeOK /\ TypeOK'
  BY DEF IInv, LoopInv
<1>2. ASSUME UNCHANGED <<Claims, SettledKeys, Publications>>
      PROVE  [Ledger!Next]_(Ledger!ledgerVars)
  BY <1>2 DEF Ledger!ledgerVars
<1>3. CASE Complete
  <2>1. UNCHANGED <<Claims, Publications>>
    BY <1>1, <1>3, ClaimsStep, PublicationsStep, StepKinds DEF Complete, HandleNew, Handling
  <2>2. task.job \in Pending /\ task.job \in DOMAIN jobs
    BY <1>1, <1>3, CompleteSettles DEF Pending
  <2> DEFINE k == KeyOf(jobs[task.job])
  <2>3. SettledKeys' = SettledKeys \cup {k} /\ k \in Key
    BY <1>1, <1>3, <2>2, SettledKeysStep, MeaningTyped DEF RowsMean
  <2>4. \E p \in Publications : p.key = k
    <3>1. /\ TaskRoom = RoomOf[jobs[task.job].text] /\ TaskBody = Reply(jobs[task.job])
          /\ task.posted \in DOMAIN streams[TaskRoom]
          /\ streams[TaskRoom][task.posted].body = TaskBody
          /\ TaskRoom \in Room /\ TaskBody # Keepalive
      BY <1>1, <1>3, TaskTyped, TaskIsReply
      DEF Complete, LoopInv, DeliveryBacked, Delivering, TaskRoom, TaskBody
    <3>2. <<TaskRoom, task.posted>> \in AllReplies
      BY <3>1, PostsMembers DEF PostsAre
    <3>3. PICK q : q = <<TaskRoom, task.posted>>
      OBVIOUS
    <3>4. q \in AllReplies /\ q[1] = TaskRoom /\ q[2] = task.posted
      BY <3>2, <3>3
    <3>5. Posted(q) = Reply(jobs[task.job])
      BY <3>1, <3>4 DEF Posted
    <3>6. KeyOf(Reply(jobs[task.job])) = k
      BY DEF KeyOf, Reply
    <3>7. [at |-> q, key |-> KeyOf(Posted(q)), answer |-> AnswerIn(q[1], Posted(q))] \in Publications
      BY <3>4 DEF Publications
    <3>8. QED
      BY <3>5, <3>6, <3>7
  <2>5. Ledger!Settle(k)
    BY <2>1, <2>3, <2>4 DEF Ledger!Settle
  <2>6. QED
    BY <2>3, <2>5 DEF Ledger!Next
<1>4. CASE PostAccepted \/ PostAckLost
  <2>1. /\ pc = "post" /\ UNCHANGED jobs /\ Delivering
    BY <1>4 DEF PostAccepted, PostAckLost, Delivering, ledger
  <2>2. UNCHANGED <<Claims, SettledKeys>>
    BY <2>1 DEF Claims, SettledKeys, Pending
  <2>3. CASE task.job = 0
    BY <1>1, <1>2, <1>4, <2>2, <2>3, PublicationsStep
  <2>4. CASE task.job # 0
    <3> DEFINE k == KeyOf(jobs[task.job])
               a == AnswerOf(jobs[task.job])
    <3>1. task.job \in Pending /\ task.job \in DOMAIN jobs
      BY <1>1, <2>1, <2>4 DEF LoopInv, DeliveryBacked, Pending
    <3>2. k \in Key /\ a \in Answer /\ <<k, a>> \in Claims /\ k \notin SettledKeys
      BY <1>1, <3>1, MeaningTyped, PendingUnsettled DEF RowsMean, Claims
    <3>3. /\ Publications' = Publications \cup {[at |-> NewPlace, key |-> k, answer |-> a]}
          /\ \A p \in Publications : p.at # NewPlace
      BY <1>1, <1>4, <2>4, PublicationsStep DEF NewPublication
    <3>4. NewPlace \in Place
      <4>1. PlacesFit'
        BY PostsFit, PTL
      <4>2. TaskRoom \in Room /\ Len(streams[TaskRoom]) + 1 \in DOMAIN streams'[TaskRoom]
        BY <1>1, <1>4, <2>1, PostAdded DEF LoopInv, PostAccepted, PostAckLost
      <4>3. QED
        BY <4>1, <4>2 DEF PlacesFit, NewPlace, Place
    <3>5. Ledger!Publish(k, a, NewPlace)
      BY <2>2, <3>2, <3>3 DEF Ledger!Publish
    <3>6. QED
      BY <3>2, <3>4, <3>5 DEF Ledger!Next
  <2>5. QED
    BY <2>3, <2>4
<1>5. CASE ~Complete /\ ~PostAccepted /\ ~PostAckLost
  <2>1. UNCHANGED <<SettledKeys, Publications>>
    BY <1>1, <1>5, SettledStep, SettledKeysStep, PostsStep, PublicationsStep
  <2>2. CASE Claims' = Claims
    BY <1>2, <2>1, <2>2
  <2>3. ASSUME NEW k \in Key, NEW a \in Answer,
               Claims' = Claims \cup {<<k, a>>}, \A c \in Claims : c[1] # k
        PROVE  Ledger!Next
    <3>1. Ledger!Claim(k, a)
      BY <2>1, <2>3 DEF Ledger!Claim
    <3>2. QED
      BY <3>1 DEF Ledger!Next
  <2>4. QED
    BY <1>1, <2>2, <2>3, ClaimsStep
<1>6. QED
  BY <1>3, <1>4, <1>5

\* Whatever the network does and however often the worker dies, it does for its
\* requesters what the ledger allows and nothing else (worker/service.py:84-169,
\* worker/state.py:170-236).
THEOREM Refinement == Spec => ImplementsLedger
<1>1. QED
  BY LedgerInit, LedgerStep, Invariance, PTL DEF Spec, Ledger!Spec, ImplementsLedger
==============================================================================

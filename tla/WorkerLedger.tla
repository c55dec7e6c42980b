---------------------------- MODULE WorkerLedger ----------------------------
(***************************************************************************)
(* The worker implements the job ledger: the claims are the rows of the    *)
(* table jobs, a claim is settled when its row is completed, and what is   *)
(* published is what stands in the rooms, but for keepalives.              *)
(***************************************************************************)
EXTENDS Worker

\* The posts that the bounds leave room for.
MaxPosts == MaxInbox + MaxFaults + MaxQuiet

Key == Did \X JobId
Answer == [room : Room, text : Text, result : Results]
Place == Room \X (1 .. MaxPosts)

KeyOf(row) == <<row.did, JobOf[row.text]>>
AnswerIn(room, row) == [room |-> room, text |-> row.text, result |-> row.result]
AnswerOf(row) == AnswerIn(RoomOf[row.text], row)

Posted(p) == streams[p[1]][p[2]].body

Claims == {<<KeyOf(jobs[i]), AnswerOf(jobs[i])>> : i \in DOMAIN jobs}
SettledKeys == {KeyOf(jobs[i]) : i \in DOMAIN jobs \ Pending}
Publications ==
    {[at |-> p, key |-> KeyOf(Posted(p)), answer |-> AnswerIn(p[1], Posted(p))] : p \in AllReplies}

Ledger == INSTANCE JobLedger WITH
    claims <- Claims, settled <- SettledKeys, published <- Publications

\* Claims, retries, crashes and lost acknowledgements only ever show a requester
\* what JobLedger allows (worker/service.py:84-169, worker/state.py:170-236).
ImplementsLedger == Ledger!Spec
=============================================================================

----------------------------- MODULE WebSession -----------------------------
(***************************************************************************)
(* The web process as one browser sees it (worker/webapp.py): challenges,  *)
(* the DIDs that sessions have proved, the baselines issued to them, and   *)
(* the forwarding of signed requests to Technocore.  A request of the      *)
(* browser is a call: it is sent, a server thread serves it in the steps   *)
(* between which the thread holds no lock, and it ends "ok" or "refused".  *)
(*                                                                         *)
(* A DID stands for its key pair as well: a signature is the pair of the   *)
(* key that made it and what it signs.  The collector and the worker are   *)
(* modules of their own; here they are a cursor that advances and a set of *)
(* answers to the requests Technocore has accepted.                        *)
(***************************************************************************)
EXTENDS Integers, Sequences, FiniteSets

CONSTANTS
    Session, Did,
    Caller,          \* the browser's requests that can be under way at once
    Check,           \* what a visitor can ask to be checked
    Verdict,         \* what the worker can answer
    None,
    MaxChallenges,   \* ChallengeStore.max_items, 4096 in the code
    MaxBindings,     \* MAX_SESSION_BINDINGS, 4096 in the code
    MaxIssued,       \* bound: challenges created
    MaxTroubles      \* bound: failures, restarts, delays and acts of other browsers

ASSUME WebSessionAssumption ==
    /\ MaxChallenges \in Nat \ {0} /\ MaxBindings \in Nat \ {0}
    /\ MaxIssued \in Nat /\ MaxTroubles \in Nat
    /\ None \notin Session \cup Did \cup Check \cup Verdict \cup Nat

VARIABLES
    challenges,          \* ChallengeStore._items, in the order of their values
    issued,              \* challenges created so far; each has a fresh value
    session_dids,        \* pairs <<session, DID>>, in the order of insertion
    session_baselines,   \* -1 when there is none
    cursor,              \* the collector's cursor
    calls,               \* the calls of the browser under way
    forwarded,           \* requests Technocore accepted, in the order of seq
    answers,             \* the worker's results
    proofs,              \* history: the proofs accepted, in order
    troubles             \* how many of them so far

store == <<challenges, issued>>
bindings == <<session_dids, session_baselines>>
rooms == <<cursor, forwarded, answers>>
webVars == <<challenges, issued, session_dids, session_baselines, cursor, calls,
             forwarded, answers, proofs, troubles>>

NoCall == [op |-> "none", stage |-> "ok", session |-> None, arg |-> None, reply |-> None]

\* A request leaves the browser; a call that is served, answered or refused.
Call(op, s, arg) == [op |-> op, stage |-> "sent", session |-> s, arg |-> arg, reply |-> None]
Sent(c, op) == calls[c].op = op /\ calls[c].stage = "sent"
Held(c, op) == calls[c].op = op /\ calls[c].stage = "held"
Hold(c, reply) == calls' = [calls EXCEPT ![c].stage = "held", ![c].reply = reply]
Reply(c, reply) == calls' = [calls EXCEPT ![c].stage = "ok", ![c].reply = reply]
Refuse(c) == calls' = [calls EXCEPT ![c].stage = "refused", ![c].reply = None]

WebInit ==
    /\ challenges = {} /\ issued = 0 /\ proofs = <<>>
    /\ session_dids = <<>> /\ session_baselines = [s \in Session |-> -1]
    /\ cursor = 0 /\ forwarded = <<>> /\ answers = {}
    /\ calls = [c \in Caller |-> NoCall] /\ troubles = 0

-----------------------------------------------------------------------------
(* ChallengeStore, verify_challenge *)

\* age 0: before expires_at; 1: after it; 2: more than a minute after it.
Prune(items) == {item \in items : item.age < 2}
Evict(items) ==
    {item \in items : Cardinality({x \in items : x.value > item.value}) < MaxChallenges}
Created(s, used) == Evict(Prune(challenges \cup
    {[value |-> issued + 1, session |-> s, age |-> 0, used |-> used]}))

CreateChallenge(c) ==
    /\ Sent(c, "challenge") /\ issued < MaxIssued
    /\ issued' = issued + 1
    /\ challenges' = Created(calls[c].session, FALSE)
    /\ Reply(c, issued + 1)
    /\ UNCHANGED <<bindings, rooms, proofs, troubles>>

\* What ChallengeStore.consume finds, and leaves behind.
\* Mutant: a challenge that is spent is found again.
Known(item, value) == item.value = value
Unused(item, value) == item.value = value /\ ~item.used
Spent(value) ==
    {IF item.value = value THEN [item EXCEPT !.used = TRUE] ELSE item : item \in challenges}

\* A body without a DID is refused; else the challenge is spent before anything
\* else is looked at.
Consume(c) ==
    /\ Sent(c, "verify")
    /\ LET value == calls[c].arg.value
           s == calls[c].session
       IN IF calls[c].arg.did # None /\ \E item \in challenges : Unused(item, value)
          THEN /\ challenges' = Spent(value)
               /\ IF \E item \in challenges :
                       Unused(item, value) /\ item.session = s /\ item.age = 0
                  THEN Hold(c, None) ELSE Refuse(c)
          ELSE UNCHANGED challenges /\ Refuse(c)
    /\ UNCHANGED <<issued, bindings, rooms, proofs, troubles>>

-----------------------------------------------------------------------------
(* session_dids, session_baselines *)

\* A dict keeps the place of a key that it has.
Bound(s, d) ==
    IF \E i \in DOMAIN session_dids : session_dids[i][1] = s
    THEN [i \in DOMAIN session_dids |->
             IF session_dids[i][1] = s THEN <<s, d>> ELSE session_dids[i]]
    ELSE Append(session_dids, <<s, d>>)

\* _prune_session_bindings drops the oldest sessions, and their baselines.
Pruned(b) == IF Len(b) > MaxBindings THEN Len(b) - MaxBindings ELSE 0
BindSession(s, d) ==
    LET b == Bound(s, d)
    IN /\ session_dids' = SubSeq(b, Pruned(b) + 1, Len(b))
       /\ session_baselines' = [t \in Session |->
             IF \E i \in 1 .. Pruned(b) : b[i][1] = t THEN -1 ELSE session_baselines[t]]

\* The signature is verified under the key of the DID in the body.
Bind(c) ==
    /\ Held(c, "verify")
    /\ LET body == calls[c].arg
       IN IF body.signature = <<body.did, body.value>>
          THEN /\ BindSession(calls[c].session, body.did)
               /\ proofs' = Append(proofs, [session |-> calls[c].session, did |-> body.did,
                                            value |-> body.value])
               /\ Reply(c, None)
          ELSE UNCHANGED <<bindings, proofs>> /\ Refuse(c)
    /\ UNCHANGED <<store, rooms, troubles>>

Proved(s, d) == \E i \in DOMAIN session_dids : session_dids[i] = <<s, d>>

\* ReplyCollector.baseline.
\* Mutant: nothing yet, as before the first poll.
NoBaseline == None
Baseline == cursor

\* GET /api/reply-baseline: the session is looked up and the cursor read, then the
\* baseline is stored.
ReadBaseline(c) ==
    /\ Sent(c, "baseline")
    /\ IF \E d \in Did : Proved(calls[c].session, d) THEN Hold(c, Baseline) ELSE Refuse(c)
    /\ UNCHANGED <<store, bindings, rooms, proofs, troubles>>

StoreBaseline(c) ==
    /\ Held(c, "baseline")
    /\ session_baselines' = [session_baselines EXCEPT ![calls[c].session] = calls[c].reply]
    /\ Reply(c, calls[c].reply)
    /\ UNCHANGED <<store, session_dids, rooms, proofs, troubles>>

-----------------------------------------------------------------------------
(* POST /api/technocore/request, GET /api/jobs *)

\* Mutant: any proof of the session will do.
AnyProof(s, body) ==
    (\E d \in Did : Proved(s, d)) /\ session_baselines[s] # -1 /\ body.after = session_baselines[s]
Admitted(s, body) ==
    Proved(s, body.did) /\ session_baselines[s] # -1 /\ body.after = session_baselines[s]

CheckRequest(c) ==
    /\ Sent(c, "request")
    /\ IF Admitted(calls[c].session, calls[c].arg) THEN Hold(c, None) ELSE Refuse(c)
    /\ UNCHANGED <<store, bindings, rooms, proofs, troubles>>

\* Technocore accepts what is signed with the key of its DID.
Forward(c) ==
    /\ Held(c, "request")
    /\ LET body == calls[c].arg
       IN IF body.signer = body.did
          THEN /\ forwarded' = Append(forwarded, [session |-> calls[c].session, did |-> body.did,
                    job |-> body.job, check |-> body.check, after |-> body.after])
               /\ Reply(c, Len(forwarded) + 1)
          ELSE UNCHANGED forwarded /\ Refuse(c)
    /\ UNCHANGED <<store, bindings, cursor, answers, proofs, troubles>>

\* The worker answers a request once (module Worker), and the collector stores the
\* answer: its cursor moves.
Work ==
    /\ \E k \in DOMAIN forwarded, v \in Verdict :
          /\ \A a \in answers : a.seq # k
          /\ answers' = answers \cup {[did |-> forwarded[k].did, job |-> forwarded[k].job,
                check |-> forwarded[k].check, after |-> forwarded[k].after, seq |-> k, verdict |-> v]}
    /\ cursor' = cursor + 1
    /\ UNCHANGED <<store, bindings, forwarded, calls, proofs, troubles>>

\* A long poll ends with an answer, or with nothing.  That the server picks the
\* right one is for module Collector: any result of the worker may come here.
Poll(c) ==
    /\ Sent(c, "job")
    /\ \E a \in answers \cup {None} : Reply(c, a)
    /\ UNCHANGED <<store, bindings, rooms, proofs, troubles>>

-----------------------------------------------------------------------------
(* The environment *)

\* What does not go as the page would like it to.
Trouble == troubles < MaxTroubles /\ troubles' = troubles + 1

\* CHALLENGE_TTL_SECONDS passes for the oldest challenges, or a minute more.
ChallengesAge ==
    /\ Trouble
    /\ \E x \in challenges, age \in 1 .. 2 :
          /\ x.age < age
          /\ challenges' = {IF item.value <= x.value /\ item.age < age
                            THEN [item EXCEPT !.age = age] ELSE item : item \in challenges}
    /\ UNCHANGED <<issued, bindings, rooms, calls, proofs>>

\* Another browser has a challenge created and proves its DID.
PeerProves(s, d) ==
    /\ Trouble /\ issued < MaxIssued /\ issued' = issued + 1
    /\ challenges' = Created(s, TRUE)
    /\ BindSession(s, d)
    /\ proofs' = Append(proofs, [session |-> s, did |-> d, value |-> issued + 1])
    /\ UNCHANGED <<rooms, calls>>

\* The collector stores an answer to somebody else.
Collected ==
    /\ Trouble /\ cursor' = cursor + 1
    /\ UNCHANGED <<store, bindings, forwarded, answers, calls, proofs>>

\* Another tab of the session asks for a baseline.
OtherTab(s) ==
    /\ Trouble
    /\ \E d \in Did : Proved(s, d)
    /\ session_baselines' = [session_baselines EXCEPT ![s] = cursor]
    /\ UNCHANGED <<store, session_dids, rooms, calls, proofs>>

\* A rate limit, an error of the network or of a peer, before the call is served
\* or after, when it is the answer that is lost.
CallFails(c) ==
    /\ Trouble /\ calls[c].op # "none" /\ calls[c].stage \in {"sent", "ok"}
    /\ Refuse(c)
    /\ UNCHANGED <<store, bindings, rooms, proofs>>

\* A proxy sends the browser's proof once more.
Resend(c, again) ==
    /\ Trouble /\ calls[c].op = "verify" /\ calls[again].op = "none"
    /\ calls' = [calls EXCEPT ![again] = Call("verify", calls[c].session, calls[c].arg)]
    /\ UNCHANGED <<store, bindings, rooms, proofs>>

\* Restart of the process: its dicts are empty again.
Restart ==
    /\ Trouble
    /\ challenges' = {} /\ session_dids' = <<>>
    /\ session_baselines' = [s \in Session |-> -1]
    /\ calls' = [c \in Caller |-> IF calls[c].stage = "held"
                                  THEN [calls[c] EXCEPT !.stage = "refused", !.reply = None]
                                  ELSE calls[c]]
    /\ UNCHANGED <<issued, rooms, proofs>>

Serve(c) ==
    \/ CreateChallenge(c) \/ Consume(c) \/ Bind(c) \/ ReadBaseline(c) \/ StoreBaseline(c)
    \/ CheckRequest(c) \/ Forward(c) \/ Poll(c)
=============================================================================

----------------------------- MODULE BrowserApp -----------------------------
(***************************************************************************)
(* The page (web/app.js): one JavaScript thread whose event handlers wait  *)
(* for WebCrypto and for the web process, and read and write the globals   *)
(* of the page when they go on.  A flow is a click on Create or Import and *)
(* the demonstration of control that follows it; several can be under way, *)
(* since neither button is disabled while its handler waits.  There is one *)
(* job at a time: its form is hidden until the job is over.                *)
(***************************************************************************)
EXTENDS WebSession

CONSTANTS
    Flow,            \* identity flows that can be under way at once
    Job, Again,      \* the calls of the job, and of a proxy that repeats a call
    Me,              \* the session of the page
    MaxClicks,       \* bound: clicks of the visitor
    MaxAttempts      \* polls of one job, 36 in the code

ASSUME BrowserAssumption ==
    /\ Caller = Flow \cup {Job, Again} /\ Job \notin Flow /\ Again \notin Flow /\ Job # Again
    /\ Me \in Session /\ MaxClicks \in Nat /\ MaxAttempts \in Nat \ {0}

VARIABLES
    privateKey, did,         \* the globals of the same names
    downloaded, controlProved,
    pem,                     \* whose key the file behind pemBlobUrl holds
    shown,                   \* which parts of the page are visible; "active" is job-active
    flows,                   \* the handlers of Create and Import, demonstrateControl
    job,                     \* the handler of the form and pollReply
    currentReceipt,
    jobs, clicks             \* jobs started and clicks made so far

identity == <<privateKey, did, downloaded, pem>>
page == <<identity, controlProved, shown, flows, job, currentReceipt, jobs, clicks>>
vars == <<webVars, page>>

NoFlow == [stage |-> "idle", key |-> None]
NoJob == [stage |-> "idle", id |-> 0, check |-> None, after |-> 0, signer |-> None,
          did |-> None, seq |-> 0, polls |-> 0]

Init ==
    /\ WebInit
    /\ privateKey = None /\ did = None /\ downloaded = FALSE /\ pem = None
    /\ controlProved = FALSE
    /\ shown = {"setup", "form"}
    /\ flows = [f \in Flow |-> NoFlow] /\ job = NoJob
    /\ currentReceipt = None /\ jobs = 0 /\ clicks = 0

Click == clicks < MaxClicks /\ clicks' = clicks + 1
Goes(f, stage, key) == flows' = [flows EXCEPT ![f] = [stage |-> stage, key |-> key]]
At(f, stage) == flows[f].stage = stage
Fetch(c, op, arg) == calls' = [calls EXCEPT ![c] = Call(op, Me, arg)]
Over(c) == calls' = [calls EXCEPT ![c] = NoCall]
WebLeaves == UNCHANGED <<store, bindings, rooms, proofs, troubles>>

-----------------------------------------------------------------------------
(* Create, Import, showIdentity, Download, Use another identity *)

\* The identity row is not displayed while a job is active (web/app.css:128).
CanSetUp == "setup" \in shown /\ "active" \notin shown

ClickCreate(f) ==
    /\ CanSetUp /\ At(f, "idle") /\ Click
    /\ \E k \in Did :
          k \notin {privateKey, did, pem} /\ (\A g \in Flow : flows[g].key # k) /\ Goes(f, "generate", k)
    /\ UNCHANGED <<webVars, identity, controlProved, shown, job, currentReceipt, jobs>>

ClickImport(f) ==
    /\ CanSetUp /\ At(f, "idle") /\ Click
    /\ \E k \in Did : Goes(f, "decrypt", k)
    /\ UNCHANGED <<webVars, identity, controlProved, shown, job, currentReceipt, jobs>>

\* generateIdentity or importEncryptedPem returns; a wrong passphrase raises.
KeyReady(f) ==
    /\ \/ /\ At(f, "generate") /\ Goes(f, "name", flows[f].key)
          /\ privateKey' = flows[f].key
       \/ /\ At(f, "decrypt") /\ Goes(f, "nameImported", flows[f].key)
          /\ privateKey' = flows[f].key
       \/ At(f, "decrypt") /\ Goes(f, "idle", None) /\ UNCHANGED privateKey
    /\ UNCHANGED <<webVars, did, downloaded, pem, controlProved, shown, job, currentReceipt,
                   jobs, clicks>>

\* The key that is exported is the page's key at that moment.
ExportedKey(f) == privateKey

\* didFromPrivateKey returns; exportEncryptedPem of no key raises.
Named(f) ==
    /\ At(f, "name")
    /\ did' = flows[f].key
    /\ IF ExportedKey(f) = None THEN Goes(f, "idle", None) ELSE Goes(f, "export", ExportedKey(f))
    /\ UNCHANGED <<webVars, privateKey, downloaded, pem, controlProved, shown, job,
                   currentReceipt, jobs, clicks>>

\* showIdentity; demonstrateControl begins with a fetch.
ShowIdentity(f, hasDownload) ==
    /\ controlProved' = FALSE
    /\ shown' = (shown \ {"setup", "download"}) \cup {"ready"}
                \cup (IF hasDownload THEN {"download"} ELSE {})
    /\ Goes(f, "challenge", None)
    /\ Fetch(f, "challenge", None)

Exported(f) ==
    /\ At(f, "export")
    /\ pem' = flows[f].key /\ downloaded' = FALSE
    /\ ShowIdentity(f, TRUE)
    /\ WebLeaves /\ UNCHANGED <<privateKey, did, job, currentReceipt, jobs, clicks>>

Imported(f) ==
    /\ At(f, "nameImported")
    /\ did' = flows[f].key /\ downloaded' = TRUE
    /\ ShowIdentity(f, FALSE)
    /\ WebLeaves /\ UNCHANGED <<privateKey, pem, job, currentReceipt, jobs, clicks>>

\* The link is followed; its URL is revoked at once.
ClickDownload ==
    /\ "ready" \in shown /\ "download" \in shown /\ pem # None /\ "active" \notin shown /\ Click
    /\ downloaded' = TRUE /\ pem' = None
    /\ shown' = shown \ {"download"}
    /\ UNCHANGED <<webVars, privateKey, did, controlProved, flows, job, currentReceipt, jobs>>

\* resetGithub
Reset(s) == (s \ {"active", "result"}) \cup {"github", "form"}

ClickUseAnother ==
    /\ "ready" \in shown /\ "active" \notin shown /\ Click
    /\ privateKey' = None /\ did' = None /\ downloaded' = FALSE /\ pem' = None
    /\ controlProved' = FALSE /\ currentReceipt' = None
    /\ shown' = (Reset(shown) \ {"ready", "github"}) \cup {"setup"}
    /\ UNCHANGED <<webVars, flows, job, jobs>>

ClickCheckAnother ==
    /\ "result" \in shown /\ Click
    /\ currentReceipt' = None /\ shown' = Reset(shown)
    /\ UNCHANGED <<webVars, identity, controlProved, flows, job, jobs>>

\* AbortController.abort.
\* Mutant: the call is forgotten.
Forgotten == [calls EXCEPT ![Job] = NoCall]
Aborted == [calls EXCEPT ![Job].stage = "refused", ![Job].reply = None]

\* pagehide: the keys go and polling is aborted; the page may be shown again.
PageHide ==
    /\ Click
    /\ privateKey' = None /\ did' = None /\ pem' = None
    /\ calls' = IF job.stage = "poll" THEN Aborted ELSE calls
    /\ WebLeaves
    /\ UNCHANGED <<downloaded, controlProved, shown, flows, job, currentReceipt, jobs>>

-----------------------------------------------------------------------------
(* demonstrateControl *)

Answered(c) == calls[c].stage = "ok"
Refused(c) == calls[c].stage = "refused"

\* The catch: the identity can be set up again.
ControlFails(f) ==
    /\ shown' = (shown \ {"ready"}) \cup {"setup"}
    /\ Goes(f, "idle", None) /\ Over(f)
    /\ WebLeaves
    /\ UNCHANGED <<identity, controlProved, job, currentReceipt, jobs, clicks>>

\* sign reads the private key after the fetch.
SignChallenge(f) ==
    /\ At(f, "challenge")
    /\ \/ /\ Answered(f) /\ privateKey # None
          /\ Goes(f, "sign", privateKey)
          /\ UNCHANGED <<webVars, identity, controlProved, shown, job, currentReceipt, jobs, clicks>>
       \/ (Refused(f) \/ (privateKey = None /\ Answered(f))) /\ ControlFails(f)

\* The proof names the DID of the page after the signature.
SendProof(f) ==
    /\ At(f, "sign")
    /\ Goes(f, "verify", None)
    /\ LET value == calls[f].reply
       IN Fetch(f, "verify", [did |-> did, value |-> value, signature |-> <<flows[f].key, value>>])
    /\ WebLeaves
    /\ UNCHANGED <<identity, controlProved, shown, job, currentReceipt, jobs, clicks>>

ProofAnswered(f) ==
    /\ At(f, "verify")
    /\ \/ /\ Answered(f)
          /\ controlProved' = TRUE
          /\ shown' = shown \cup {"github"}
          /\ Goes(f, "idle", None) /\ Over(f)
          /\ WebLeaves /\ UNCHANGED <<identity, job, currentReceipt, jobs, clicks>>
       \/ Refused(f) /\ ControlFails(f)

-----------------------------------------------------------------------------
(* The form: submit, pollReply, parseWorkerReply, showResult *)

validateContribution == privateKey # None /\ controlProved
Form == "github" \in shown /\ "form" \in shown

Submit(check) ==
    /\ Form /\ validateContribution /\ Click
    /\ jobs' = jobs + 1
    /\ job' = [NoJob EXCEPT !.stage = "baseline", !.check = check, !.id = jobs + 1]
    /\ shown' = (shown \ {"form"}) \cup {"active"}
    /\ Fetch(Job, "baseline", None)
    /\ WebLeaves /\ UNCHANGED <<identity, controlProved, flows, currentReceipt>>

\* The catch: the form comes back.
\* Mutant: the form stays hidden.
FormStaysHidden(s) == s \ {"active"}
FormBack(s) == (s \ {"active"}) \cup {"form"}
JobFails ==
    /\ shown' = FormBack(shown)
    /\ job' = NoJob /\ Over(Job)
    /\ WebLeaves /\ UNCHANGED <<identity, controlProved, flows, currentReceipt, jobs, clicks>>

\* signedWrite takes the key and the DID of the page after the baseline.
BaselineAnswered ==
    /\ job.stage = "baseline"
    /\ \/ /\ Answered(Job) /\ privateKey # None
          /\ job' = [job EXCEPT !.stage = "sign", !.after = calls[Job].reply,
                                !.signer = privateKey, !.did = did]
          /\ UNCHANGED <<webVars, identity, controlProved, shown, flows, currentReceipt, jobs, clicks>>
       \/ (Refused(Job) \/ (privateKey = None /\ Answered(Job))) /\ JobFails

SendRequest ==
    /\ job.stage = "sign"
    /\ job' = [job EXCEPT !.stage = "request"]
    /\ Fetch(Job, "request", [did |-> job.did, job |-> job.id, check |-> job.check,
                              after |-> job.after, signer |-> job.signer])
    /\ WebLeaves
    /\ UNCHANGED <<identity, controlProved, shown, flows, currentReceipt, jobs, clicks>>

\* The write receipt names the DID of the page; sha256 is awaited.
RequestAnswered ==
    /\ job.stage = "request"
    /\ \/ /\ Answered(Job) /\ job.did = did
          /\ job' = [job EXCEPT !.stage = "digest", !.seq = calls[Job].reply]
          /\ UNCHANGED <<webVars, identity, controlProved, shown, flows, currentReceipt, jobs, clicks>>
       \/ (Refused(Job) \/ (Answered(Job) /\ job.did # did)) /\ JobFails

\* pollReply expects an answer to the DID of the page after the digest; a did of
\* null is refused as a malformed query.
StartPoll ==
    /\ job.stage = "digest"
    /\ \/ /\ did # None
          /\ job' = [job EXCEPT !.stage = "poll", !.did = did] /\ Fetch(Job, "job", None)
          /\ WebLeaves
          /\ UNCHANGED <<identity, controlProved, shown, flows, currentReceipt, jobs, clicks>>
       \/ did = None /\ JobFails

\* parseWorkerReply; the digest stands for the whole text of the request.
\* Mutant: the job and the digest are not compared.
AnyJob(a) == a.did = job.did /\ a.seq >= 1
Expected(a) ==
    /\ a.did = job.did /\ a.job = job.id /\ a.seq = job.seq /\ a.after = job.after
    /\ a.check = job.check

\* showResult: a receipt is shareable only when every check asked for is confirmed.
Safe(v) ==
    /\ v.repository = "CONFIRMED" /\ v.commit = "CONFIRMED"
    /\ v.file \in {"CONFIRMED", "NOT REQUESTED"}

ShowResult(a) ==
    /\ currentReceipt' = [did |-> a.did, check |-> job.check, seq |-> a.seq, shareable |-> Safe(a.verdict)]
    /\ shown' = (shown \ {"github"}) \cup {"result"}
    /\ job' = NoJob /\ Over(Job)
    /\ WebLeaves /\ UNCHANGED <<identity, controlProved, flows, jobs, clicks>>

PollAgain ==
    /\ job' = [job EXCEPT !.polls = @ + 1] /\ Fetch(Job, "job", None)
    /\ WebLeaves
    /\ UNCHANGED <<identity, controlProved, shown, flows, currentReceipt, jobs, clicks>>

PollAnswered ==
    /\ job.stage = "poll"
    /\ LET a == calls[Job].reply
           parsed == Answered(Job) /\ a # None /\ Expected(a)
       IN \/ parsed /\ a.did = did /\ ShowResult(a)
          \/ parsed /\ a.did # did /\ JobFails
          \/ Answered(Job) /\ ~parsed /\ job.polls + 1 < MaxAttempts /\ PollAgain
          \/ Answered(Job) /\ ~parsed /\ job.polls + 1 >= MaxAttempts /\ JobFails
          \/ Refused(Job) /\ JobFails

-----------------------------------------------------------------------------
FlowStep(f) ==
    \/ KeyReady(f) \/ Named(f) \/ Exported(f) \/ Imported(f)
    \/ SignChallenge(f) \/ SendProof(f) \/ ProofAnswered(f)
JobStep ==
    \/ BaselineAnswered \/ SendRequest \/ RequestAnswered \/ StartPoll \/ PollAnswered
Visit ==
    \/ \E f \in Flow : ClickCreate(f) \/ ClickImport(f)
    \/ ClickDownload \/ ClickUseAnother \/ ClickCheckAnother \/ PageHide
    \/ \E check \in Check : Submit(check)
Server == \E c \in Caller : Serve(c)
Environment ==
    \/ ChallengesAge \/ Collected \/ OtherTab(Me) \/ Restart \/ Work
    \/ \E s \in Session \ {Me}, d \in Did : PeerProves(s, d)
    \/ \E c \in Flow \cup {Job} : CallFails(c)
    \/ \E f \in Flow : Resend(f, Again)

Next ==
    \/ \E f \in Flow : FlowStep(f)
    \/ JobStep \/ Visit
    \/ (Server \/ Environment) /\ UNCHANGED page
Spec == Init /\ [][Next]_vars

-----------------------------------------------------------------------------
(* Properties *)

MaybeDid == Did \cup {None}
Answers == [did : Did, job : Nat, check : Check, after : Nat, seq : Nat, verdict : Verdict]

\* The shape of every variable, of the web process and of the page.
WebTyped ==
    /\ challenges \subseteq [value : Nat, session : Session, age : 0 .. 2, used : BOOLEAN]
    /\ issued \in Nat /\ cursor \in Nat /\ troubles \in Nat
    /\ session_dids \in Seq(Session \X Did)
    /\ session_baselines \in [Session -> Nat \cup {-1}]
    /\ forwarded \in Seq([session : Session, did : Did, job : Nat, check : Check, after : Nat])
    /\ answers \subseteq Answers
    /\ proofs \in Seq([session : Session, did : Did, value : Nat])
    /\ DOMAIN calls = Caller
    /\ \A c \in Caller :
          /\ calls[c].op \in {"none", "challenge", "verify", "baseline", "request", "job"}
          /\ calls[c].stage \in {"sent", "held", "ok", "refused"}
          /\ calls[c].session \in Session \cup {None}
Parts == {"setup", "ready", "download", "github", "form", "result", "active"}
FlowSet == [key : MaybeDid, stage : {"idle", "generate", "name", "export", "decrypt",
    "nameImported", "challenge", "sign", "verify"}]
JobSet == [stage : {"idle", "baseline", "sign", "request", "digest", "poll"}, id : Nat,
    check : Check \cup {None}, after : Nat, signer : MaybeDid, did : MaybeDid,
    seq : Nat, polls : Nat]
ReceiptSet == [did : Did, check : Check, seq : Nat, shareable : BOOLEAN]
PageTyped ==
    /\ privateKey \in MaybeDid /\ did \in MaybeDid /\ pem \in MaybeDid
    /\ downloaded \in BOOLEAN /\ controlProved \in BOOLEAN
    /\ shown \subseteq Parts /\ flows \in [Flow -> FlowSet] /\ job \in JobSet
    /\ currentReceipt \in ReceiptSet \cup {None}
    /\ jobs \in Nat /\ clicks \in Nat
TypeOK == WebTyped /\ PageTyped

\* A session is bound to a DID, and a request forwarded under it, only after that
\* very session has proved the DID, whatever the page takes for proved and however
\* its identities overlap; and the request carries a baseline that the collector had
\* reached (worker/webapp.py:281,348-364, web/app.js:53,132).
ProvedBy(s, d) == \E i \in DOMAIN proofs : proofs[i].session = s /\ proofs[i].did = d
ForwardedUnderProof ==
    /\ \A k \in DOMAIN forwarded :
          ProvedBy(forwarded[k].session, forwarded[k].did) /\ forwarded[k].after <= cursor
    /\ \A i \in DOMAIN session_dids : ProvedBy(session_dids[i][1], session_dids[i][2])

\* No challenge proves anything twice, also when a proof is sent again, the store
\* is full or the process restarts (worker/webapp.py:99-113).
ChallengeProvesOnce ==
    \A i, j \in DOMAIN proofs : i # j => proofs[i].value # proofs[j].value

\* A receipt on the page tells what the worker answered to the request this page
\* sent for this very check: under the DID the receipt names, at the seq it names,
\* and shareable only when every fact was confirmed; answers to earlier jobs and a
\* change of identity while the job runs do not mix with it (web/app.js:99-134,
\* web/protocol.js:53-62).
ReceiptVouched ==
    currentReceipt # None =>
        LET r == currentReceipt
        IN /\ r.seq \in DOMAIN forwarded
           /\ forwarded[r.seq].session = Me
           /\ forwarded[r.seq].did = r.did /\ forwarded[r.seq].check = r.check
           /\ \E a \in answers :
                 /\ a.seq = r.seq
                 /\ r.shareable => a.verdict.repository = "CONFIRMED" /\ a.verdict.commit = "CONFIRMED"

\* When nothing is under way the visitor can go on: set up an identity, leave it,
\* fill in the form or leave the result; and with an identity that is proved the
\* next check is at hand, however the last one ended (web/app.js:54-79,114,135).
Idle == job.stage = "idle" /\ \A f \in Flow : At(f, "idle")
NoDeadEnd ==
    Idle => /\ \/ CanSetUp
               \/ "ready" \in shown /\ "active" \notin shown
               \/ "result" \in shown
               \/ Form /\ validateContribution
            /\ validateContribution => Form \/ "result" \in shown

\* A handler that waits for the web process has a call there, or its answer: no
\* click, abort or restart leaves it waiting for ever (web/app.js:49-51,86-88,140).
Waits(stage, op) == calls[Job].op = op \/ job.stage # stage
CallsUnderWay ==
    /\ Waits("baseline", "baseline") /\ Waits("request", "request") /\ Waits("poll", "job")
    /\ \A f \in Flow : flows[f].stage \in {"challenge", "verify"} => calls[f].op = flows[f].stage

\* "identity.pem is the only recoverable encrypted backup of this identity"
\* (web/index.html:76): when nothing is under way and the page has a key, the file that
\* is offered holds the key of the identity shown (web/app.js:60-70).
BackupIsOfIdentity ==
    Idle /\ privateKey # None /\ "ready" \in shown /\ "download" \in shown /\ pem # None => pem = did

-----------------------------------------------------------------------------
(* The inductive invariant *)

\* A call has its five fields, is made by this page, and carries and brings back
\* what its operation is about, given how far the collector is and what it found.
CallTyped(k, reached, found) ==
    /\ k = [op |-> k.op, stage |-> k.stage, session |-> k.session, arg |-> k.arg, reply |-> k.reply]
    /\ k.op \in {"none", "challenge", "verify", "baseline", "request", "job"}
    /\ k.stage \in {"sent", "held", "ok", "refused"}
    /\ k.session \in {Me, None} /\ (k.op # "none" => k.session = Me)
    /\ k.op = "verify" => k.arg.did \in MaybeDid
    /\ k.op = "request" => k.arg.check \in Check /\ k.arg.job \in Nat /\ k.arg.after \in Nat
    /\ k.op \in {"baseline", "request"} /\ k.stage = "ok" => k.reply \in Nat
    /\ k.op = "baseline" /\ k.stage = "held" => k.reply \in Nat /\ k.reply <= reached
    /\ k.op = "job" /\ k.stage = "ok" => k.reply \in found \cup {None}
CallsTyped ==
    /\ calls = [c \in Caller |-> calls[c]]
    /\ \A c \in Caller : CallTyped(calls[c], cursor, answers)

\* A value that no challenge will be accepted for again; values proved, and those
\* of a thread that checks a signature, are burnt, each for one of them.
Burnt(value, last, items) ==
    value \in 1 .. last /\ \A item \in items : item.value = value => item.used
ProofsBurnt ==
    /\ \A item \in challenges : item.value \in 1 .. issued
    /\ \A i \in DOMAIN proofs : Burnt(proofs[i].value, issued, challenges)
    /\ \A c \in Caller : Held(c, "verify") =>
          /\ calls[c].arg.did \in Did /\ Burnt(calls[c].arg.value, issued, challenges)
          /\ \A i \in DOMAIN proofs : proofs[i].value # calls[c].arg.value
          /\ \A d \in Caller : d # c /\ Held(d, "verify") => calls[d].arg.value # calls[c].arg.value

\* No baseline is ahead of the collector, and a request that was admitted is of a
\* proved DID.
RequestsAdmitted ==
    /\ \A s \in Session : session_baselines[s] <= cursor
    /\ \A c \in Caller : Held(c, "request") =>
          ProvedBy(Me, calls[c].arg.did) /\ calls[c].arg.after <= cursor
    /\ \A k \in DOMAIN forwarded : forwarded[k].session = Me

\* An answer is to a request that was forwarded.
AnswersBacked ==
    \A a \in answers : /\ a.seq \in DOMAIN forwarded
                       /\ a.did = forwarded[a.seq].did /\ a.check = forwarded[a.seq].check

\* What of the page is visible goes with the stage of the job.
PageConsistent ==
    /\ "setup" \in shown <=> "ready" \notin shown
    /\ "active" \in shown <=> "form" \notin shown
    /\ job.stage # "idle" => "active" \in shown /\ "result" \notin shown /\ job.check \in Check
    /\ "active" \in shown => job.stage # "idle" \/ "result" \in shown
    /\ "result" \in shown => "active" \in shown
    /\ controlProved => "github" \in shown \/ "result" \in shown

IInv ==
    /\ TypeOK /\ CallsTyped /\ ProofsBurnt /\ ChallengeProvesOnce /\ RequestsAdmitted
    /\ ForwardedUnderProof /\ AnswersBacked /\ ReceiptVouched /\ PageConsistent /\ CallsUnderWay
=============================================================================

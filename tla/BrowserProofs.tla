--------------------------- MODULE BrowserProofs ---------------------------
(* Theorems about BrowserApp and WebSession for every value of their constants. *)
EXTENDS BrowserApp, SequenceTheorems, TLAPS

\* The steps of the page, and those of everything else.
PageNext == (\E f \in Flow : FlowStep(f)) \/ JobStep \/ Visit
WebNext == (Server \/ Environment) /\ UNCHANGED page

-----------------------------------------------------------------------------
(* Calls *)

\* A call that replaces a call (web/app.js:51-56,86-88,129-134; worker/webapp.py:281-379).
LEMMA CallReplaced ==
    ASSUME CallsTyped, cursor \in Nat, cursor' \in Nat, cursor <= cursor', answers \subseteq answers',
           NEW c \in Caller, NEW k, CallTyped(k, cursor', answers'),
           calls' = [calls EXCEPT ![c] = k]
    PROVE  CallsTyped' /\ calls'[c] = k /\ \A d \in Caller : d # c => calls'[d] = calls[d]
<1>1. calls' = [d \in Caller |-> IF d = c THEN k ELSE calls[d]]
  BY Zenon DEF CallsTyped
<1>2. ASSUME NEW d \in Caller, d # c PROVE CallTyped(calls[d], cursor', answers')
  <2>1. CallTyped(calls[d], cursor, answers)
    BY Zenon DEF CallsTyped
  <2>2. QED
    BY <2>1, SMT DEF CallTyped
<1>3. QED
  BY <1>1, <1>2, Zenon DEF CallsTyped

\* The calls stay, while the collector goes on.
LEMMA CallsStay ==
    ASSUME CallsTyped, cursor \in Nat, cursor' \in Nat, cursor <= cursor', answers \subseteq answers',
           calls' = calls
    PROVE  CallsTyped'
<1>1. ASSUME NEW d \in Caller PROVE CallTyped(calls[d], cursor', answers')
  <2>1. CallTyped(calls[d], cursor, answers)
    BY Zenon DEF CallsTyped
  <2>2. QED
    BY <2>1, SMT DEF CallTyped
<1>2. QED
  BY <1>1, Zenon DEF CallsTyped

\* A request that is sent, a call that is over and one that is refused.
LEMMA CallKinds ==
    /\ CallTyped(NoCall, cursor', answers')
    /\ \A k : CallTyped(k, cursor, answers) =>
          CallTyped([k EXCEPT !.stage = "refused", !.reply = None], cursor', answers')
    /\ \A op \in {"challenge", "baseline", "job"} : CallTyped(Call(op, Me, None), cursor', answers')
    /\ \A arg : arg.did \in MaybeDid => CallTyped(Call("verify", Me, arg), cursor', answers')
    /\ \A arg : arg.check \in Check /\ arg.job \in Nat /\ arg.after \in Nat =>
          CallTyped(Call("request", Me, arg), cursor', answers')
<1>1. CallTyped(NoCall, cursor', answers')
  BY SMT DEF NoCall, CallTyped
<1>2. ASSUME NEW k, CallTyped(k, cursor, answers)
      PROVE  CallTyped([k EXCEPT !.stage = "refused", !.reply = None], cursor', answers')
  <2> DEFINE r == [op |-> k.op, stage |-> "refused", session |-> k.session, arg |-> k.arg, reply |-> None]
  <2> DEFINE s == [op |-> k.op, stage |-> "refused", session |-> k.session, arg |-> k.arg, reply |-> k.reply]
  <2>1. [k EXCEPT !.stage = "refused", !.reply = None] = r
    <3>1. [k EXCEPT !.stage = "refused"] = s
      BY <1>2, SMT DEF CallTyped
    <3>2. [s EXCEPT !.reply = None] = r
      BY SMT
    <3>3. [k EXCEPT !.stage = "refused", !.reply = None] = [[k EXCEPT !.stage = "refused"] EXCEPT !.reply = None]
      BY Zenon
    <3>4. QED
      BY <3>1, <3>2, <3>3, Zenon
  <2>2. CallTyped(r, cursor', answers')
    BY <1>2, SMT DEF CallTyped
  <2>3. QED
    BY <2>1, <2>2
<1>3. ASSUME NEW op \in {"challenge", "baseline", "job"}
      PROVE  CallTyped(Call(op, Me, None), cursor', answers')
  BY SMT DEF Call, CallTyped
<1>4. ASSUME NEW arg, arg.did \in MaybeDid PROVE CallTyped(Call("verify", Me, arg), cursor', answers')
  BY <1>4, SMT DEF Call, CallTyped
<1>5. ASSUME NEW arg, arg.check \in Check, arg.job \in Nat, arg.after \in Nat
      PROVE  CallTyped(Call("request", Me, arg), cursor', answers')
  BY <1>5, SMT DEF Call, CallTyped
<1>6. QED
  BY <1>1, <1>2, <1>3, <1>4, <1>5, Zenon

\* At most one call is made, ended or aborted, and none is served.
Fetches ==
    \/ calls' = calls
    \/ \E c \in Flow \cup {Job} : \E k :
          /\ CallTyped(k, cursor', answers') /\ k.stage # "held" /\ calls' = [calls EXCEPT ![c] = k]

\* The page makes one call with a fetch (web/app.js:54-56,129-134).
LEMMA FetchFetches ==
    ASSUME NEW c \in Flow \cup {Job}
    PROVE  /\ \A op \in {"challenge", "baseline", "job"} : Fetch(c, op, None) => Fetches
           /\ \A arg : arg.did \in MaybeDid /\ Fetch(c, "verify", arg) => Fetches
           /\ \A arg : /\ arg.check \in Check /\ arg.job \in Nat /\ arg.after \in Nat
                       /\ Fetch(c, "request", arg)
                       => Fetches
           /\ Over(c) => Fetches
<1>1. \A op, arg : Call(op, Me, arg).stage # "held"
  BY SMT DEF Call
<1>2. NoCall.stage # "held"
  BY SMT DEF NoCall
<1>3. ASSUME NEW op \in {"challenge", "baseline", "job"}, Fetch(c, op, None) PROVE Fetches
  BY <1>1, <1>3, CallKinds, Zenon DEF Fetch, Fetches
<1>4. ASSUME NEW arg, arg.did \in MaybeDid, Fetch(c, "verify", arg) PROVE Fetches
  BY <1>1, <1>4, CallKinds, Zenon DEF Fetch, Fetches
<1>5. ASSUME NEW arg, arg.check \in Check, arg.job \in Nat, arg.after \in Nat, Fetch(c, "request", arg)
      PROVE  Fetches
  BY <1>1, <1>5, CallKinds, Zenon DEF Fetch, Fetches
<1>6. ASSUME Over(c) PROVE Fetches
  BY <1>2, <1>6, CallKinds, Zenon DEF Over, Fetches
<1>7. QED
  BY <1>3, <1>4, <1>5, <1>6, Zenon

\* A flow leaves the web process alone but for its calls (web/app.js:51-72).
LEMMA FlowFetches ==
    ASSUME TypeOK, CallsTyped, NEW f \in Flow, FlowStep(f) PROVE WebLeaves /\ Fetches
<1> USE FetchFetches
<1>1. CASE KeyReady(f)
  BY <1>1, Zenon DEF KeyReady, WebLeaves, Fetches, webVars, store, bindings, rooms
<1>2. CASE Named(f)
  BY <1>2, Zenon DEF Named, WebLeaves, Fetches, webVars, store, bindings, rooms
<1>3. CASE Exported(f)
  BY <1>3, Zenon DEF Exported, ShowIdentity
<1>4. CASE Imported(f)
  BY <1>4, Zenon DEF Imported, ShowIdentity
<1>5. CASE SignChallenge(f)
  BY <1>5, Zenon DEF SignChallenge, ControlFails, WebLeaves, Fetches, webVars, store, bindings, rooms
<1>6. CASE SendProof(f)
  <2> DEFINE arg == [did |-> did, value |-> calls[f].reply, signature |-> <<flows[f].key, calls[f].reply>>]
  <2>1. arg.did \in MaybeDid
    BY SMT DEF TypeOK, PageTyped
  <2>2. Fetch(f, "verify", arg) /\ WebLeaves
    BY <1>6, Zenon DEF SendProof
  <2>3. QED
    BY <2>1, <2>2, Zenon
<1>7. CASE ProofAnswered(f)
  BY <1>7, Zenon DEF ProofAnswered, ControlFails
<1>8. QED
  BY <1>1, <1>2, <1>3, <1>4, <1>5, <1>6, <1>7, Zenon DEF FlowStep

\* So does the job (web/app.js:86-90,129-138).
LEMMA JobFetches ==
    ASSUME TypeOK, PageConsistent, CallsTyped, JobStep PROVE WebLeaves /\ Fetches
<1> USE FetchFetches
<1>1. CASE BaselineAnswered
  BY <1>1, Zenon DEF BaselineAnswered, JobFails, WebLeaves, Fetches, webVars, store, bindings, rooms
<1>2. CASE SendRequest
  <2> DEFINE arg == [did |-> job.did, job |-> job.id, check |-> job.check, after |-> job.after,
                     signer |-> job.signer]
  <2>1. arg.check \in Check /\ arg.job \in Nat /\ arg.after \in Nat
    BY <1>2, SMT DEF TypeOK, PageTyped, JobSet, PageConsistent, SendRequest
  <2>2. Fetch(Job, "request", arg) /\ WebLeaves
    BY <1>2, Zenon DEF SendRequest
  <2>3. QED
    BY <2>1, <2>2, Zenon
<1>3. CASE RequestAnswered
  BY <1>3, Zenon DEF RequestAnswered, JobFails, WebLeaves, Fetches, webVars, store, bindings, rooms
<1>4. CASE StartPoll
  BY <1>4, Zenon DEF StartPoll, JobFails
<1>5. CASE PollAnswered
  BY <1>5, Zenon DEF PollAnswered, ShowResult, PollAgain, JobFails
<1>6. QED
  BY <1>1, <1>2, <1>3, <1>4, <1>5, Zenon DEF JobStep

\* So does the visitor (web/app.js:62-79,126-131,140).
LEMMA VisitFetches ==
    ASSUME TypeOK, CallsTyped, Visit PROVE WebLeaves /\ Fetches
<1> USE FetchFetches
<1>1. CASE \E f \in Flow : ClickCreate(f) \/ ClickImport(f)
  BY <1>1, Zenon DEF ClickCreate, ClickImport, WebLeaves, Fetches, webVars, store, bindings, rooms
<1>2. CASE ClickDownload \/ ClickUseAnother \/ ClickCheckAnother
  BY <1>2, Zenon DEF ClickDownload, ClickUseAnother, ClickCheckAnother, WebLeaves, Fetches, webVars,
                     store, bindings, rooms
<1>3. CASE PageHide
  <2> DEFINE k == [calls[Job] EXCEPT !.stage = "refused", !.reply = None]
  <2>1. Aborted = [calls EXCEPT ![Job] = k]
    BY Zenon DEF Aborted
  <2>2. CallTyped(calls[Job], cursor, answers)
    BY BrowserAssumption, Zenon DEF CallsTyped
  <2>3. CallTyped(k, cursor', answers')
    BY <2>2, CallKinds, Zenon
  <2>4. k.stage # "held"
    BY <2>2, SMT DEF CallTyped
  <2>5. WebLeaves /\ (calls' = Aborted \/ calls' = calls)
    BY <1>3, Zenon DEF PageHide
  <2>6. QED
    BY <2>1, <2>3, <2>4, <2>5, Zenon DEF Fetches
<1>4. CASE \E check \in Check : Submit(check)
  BY <1>4, Zenon DEF Submit
<1>5. QED
  BY <1>1, <1>2, <1>3, <1>4, Zenon DEF Visit

\* What the page may do to the web process: make and end calls.
LEMMA PageFetches ==
    ASSUME TypeOK, PageConsistent, CallsTyped, PageNext
    PROVE  /\ WebLeaves /\ CallsTyped'
           /\ \A c \in Caller : calls'[c] = calls[c] \/ calls'[c].stage # "held"
<1>1. WebLeaves /\ Fetches
  BY FlowFetches, JobFetches, VisitFetches, Zenon DEF PageNext
<1>2. cursor \in Nat /\ cursor' = cursor /\ answers' = answers
  BY <1>1, Zenon DEF TypeOK, WebTyped, WebLeaves, rooms
<1>3. cursor' \in Nat /\ cursor <= cursor' /\ answers \subseteq answers'
  BY <1>2, SMT
<1>4. CASE calls' = calls
  BY <1>1, <1>2, <1>3, <1>4, CallsStay, Zenon
<1>5. CASE \E c \in Flow \cup {Job} : \E k :
             /\ CallTyped(k, cursor', answers') /\ k.stage # "held" /\ calls' = [calls EXCEPT ![c] = k]
  <2>1. PICK c \in Flow \cup {Job} : \E k :
             /\ CallTyped(k, cursor', answers') /\ k.stage # "held" /\ calls' = [calls EXCEPT ![c] = k]
    BY <1>5
  <2>2. PICK k : CallTyped(k, cursor', answers') /\ k.stage # "held" /\ calls' = [calls EXCEPT ![c] = k]
    BY <2>1
  <2>3. c \in Caller
    BY BrowserAssumption
  <2>4. QED
    BY <1>1, <1>2, <1>3, <2>2, <2>3, CallReplaced, Zenon
<1>6. QED
  BY <1>1, <1>4, <1>5, Zenon DEF Fetches

-----------------------------------------------------------------------------
(* The page *)

\* What a handler shows are parts of the page (web/app.js:51-60,73-79,124,130,137).
LEMMA ShownUpdates ==
    /\ Reset(shown) \subseteq shown \cup Parts /\ FormBack(shown) \subseteq shown \cup Parts
    /\ \A p \in {"setup", "ready", "download", "github", "result", "active"} : p \in Parts
BY SMT DEF Reset, FormBack, Parts

\* Where a flow goes.
LEMMA Goings ==
    ASSUME flows \in [Flow -> FlowSet], NEW f \in Flow, NEW key \in MaybeDid,
           NEW stage \in {"idle", "generate", "name", "export", "decrypt",
                          "nameImported", "challenge", "sign", "verify"},
           Goes(f, stage, key)
    PROVE  flows' \in [Flow -> FlowSet]
<1>1. [stage |-> stage, key |-> key] \in FlowSet
  BY Zenon DEF FlowSet
<1>2. QED
  BY <1>1, Zenon DEF Goes

\* How a job goes on (web/app.js:86-90,129-138).
LEMMA JobUpdates ==
    ASSUME NEW j \in JobSet
    PROVE  /\ NoJob \in JobSet /\ [j EXCEPT !.stage = "request"] \in JobSet
           /\ \A check \in Check, n \in Nat :
                 [NoJob EXCEPT !.stage = "baseline", !.check = check, !.id = n] \in JobSet
           /\ \A n \in Nat, k \in MaybeDid, d \in MaybeDid :
                 [j EXCEPT !.stage = "sign", !.after = n, !.signer = k, !.did = d] \in JobSet
           /\ \A n \in Nat : [j EXCEPT !.stage = "digest", !.seq = n] \in JobSet
           /\ \A d \in MaybeDid : [j EXCEPT !.stage = "poll", !.did = d] \in JobSet
           /\ [j EXCEPT !.polls = @ + 1] \in JobSet
<1>1. NoJob \in JobSet
  BY SMT DEF NoJob, JobSet, MaybeDid
<1>2. ASSUME NEW check \in Check, NEW n \in Nat, NEW i \in JobSet
      PROVE  [i EXCEPT !.stage = "baseline", !.check = check, !.id = n] \in JobSet
  BY Zenon DEF JobSet
<1>3. [j EXCEPT !.polls = @ + 1] \in JobSet
  <2>1. j.polls + 1 \in Nat
    BY SMT DEF JobSet
  <2>2. QED
    BY <2>1, Zenon DEF JobSet
<1>4. /\ [j EXCEPT !.stage = "request"] \in JobSet
      /\ \A n \in Nat, k \in MaybeDid, d \in MaybeDid :
            [j EXCEPT !.stage = "sign", !.after = n, !.signer = k, !.did = d] \in JobSet
      /\ \A n \in Nat : [j EXCEPT !.stage = "digest", !.seq = n] \in JobSet
      /\ \A d \in MaybeDid : [j EXCEPT !.stage = "poll", !.did = d] \in JobSet
  BY Zenon DEF JobSet
<1>5. QED
  BY <1>1, <1>2, <1>3, <1>4, Zenon

\* A flow's key is a DID or none.
LEMMA FlowKeys ==
    ASSUME PageTyped PROVE None \in MaybeDid /\ \A f \in Flow : flows[f].key \in MaybeDid
<1>1. \A f \in Flow : flows[f] \in FlowSet
  BY Zenon DEF PageTyped
<1>2. QED
  BY <1>1, Zenon DEF FlowSet, MaybeDid

\* The steps of a flow keep the page well typed (web/app.js:51-72).
LEMMA FlowTyped ==
    ASSUME PageTyped, NEW f \in Flow, FlowStep(f) PROVE PageTyped'
<1> USE ShownUpdates, Goings, FlowKeys DEF PageTyped, identity
<1>1. CASE KeyReady(f)
  BY <1>1, Zenon DEF KeyReady
<1>2. CASE Named(f)
  BY <1>2, Zenon DEF Named, ExportedKey
<1>3. CASE Exported(f)
  BY <1>3, Zenon DEF Exported, ShowIdentity
<1>4. CASE Imported(f)
  BY <1>4, Zenon DEF Imported, ShowIdentity
<1>5. CASE SignChallenge(f)
  BY <1>5, Zenon DEF SignChallenge, ControlFails
<1>6. CASE SendProof(f)
  BY <1>6, Zenon DEF SendProof
<1>7. CASE ProofAnswered(f)
  BY <1>7, Zenon DEF ProofAnswered, ControlFails
<1>8. QED
  BY <1>1, <1>2, <1>3, <1>4, <1>5, <1>6, <1>7, Zenon DEF FlowStep

\* A result shown is an answer the job expects, to a check that was asked for.
LEMMA ResultShown ==
    ASSUME WebTyped, CallsTyped, PageConsistent, CallsUnderWay, PollAnswered
    PROVE  \/ PollAgain \/ JobFails
           \/ \E a \in answers : a \in Answers /\ ShowResult(a) /\ Expected(a) /\ job.check \in Check
<1>1. SUFFICES ASSUME NEW a, ShowResult(a), a = calls[Job].reply, a # None, Expected(a), Answered(Job),
                      job.stage = "poll"
               PROVE  a \in answers /\ a \in Answers /\ job.check \in Check
  BY Zenon DEF PollAnswered
<1>2. CallTyped(calls[Job], cursor, answers) /\ answers \subseteq Answers
  BY BrowserAssumption, Zenon DEF CallsTyped, WebTyped
<1>3. calls[Job].op = "job" /\ job.check \in Check
  BY <1>1, SMT DEF CallsUnderWay, Waits, PageConsistent
<1>4. QED
  BY <1>1, <1>2, <1>3, Zenon DEF CallTyped, Answered

\* What the web process answers to the job (worker/webapp.py:281-379).
LEMMA JobReplies ==
    ASSUME CallsTyped, CallsUnderWay, Answered(Job), job.stage \in {"baseline", "request"}
    PROVE  calls[Job].reply \in Nat
<1>1. CallTyped(calls[Job], cursor, answers)
  BY BrowserAssumption, Zenon DEF CallsTyped
<1>2. QED
  BY <1>1, SMT DEF CallsUnderWay, Waits, CallTyped, Answered

\* The steps of the job keep the page well typed (web/app.js:86-124,129-138).
LEMMA JobTyped ==
    ASSUME PageTyped, WebTyped, CallsTyped, PageConsistent, CallsUnderWay, JobStep PROVE PageTyped'
<1>1. Answered(Job) /\ job.stage \in {"baseline", "request"} => calls[Job].reply \in Nat
  BY JobReplies, Zenon
<1>2. ASSUME NEW a \in Answers, job.check \in Check
      PROVE  [did |-> a.did, check |-> job.check, seq |-> a.seq, shareable |-> Safe(a.verdict)] \in ReceiptSet
  <2>1. Safe(a.verdict) \in BOOLEAN
    BY Zenon DEF Safe
  <2>2. a.did \in Did /\ a.seq \in Nat
    BY Zenon DEF Answers
  <2>3. QED
    BY <1>2, <2>1, <2>2, Zenon DEF ReceiptSet
<1>3. CASE JobFails
  BY <1>3, ShownUpdates, JobUpdates, Zenon DEF JobFails, PageTyped, identity
<1>4. CASE BaselineAnswered
  <2>1. CASE ~JobFails
    <3>1. Answered(Job) /\ job.stage \in {"baseline", "request"}
      BY <1>4, <2>1, SMT DEF BaselineAnswered
    <3>2. calls[Job].reply \in Nat
      BY <1>1, <3>1
    <3>3. /\ job' = [job EXCEPT !.stage = "sign", !.after = calls[Job].reply,
                                !.signer = privateKey, !.did = did]
          /\ UNCHANGED <<identity, controlProved, shown, flows, currentReceipt, jobs, clicks>>
      BY <1>4, <2>1, Zenon DEF BaselineAnswered
    <3>4. job' \in JobSet
      BY <3>2, <3>3, JobUpdates, Zenon DEF PageTyped
    <3>5. QED
      BY <3>3, <3>4, Zenon DEF PageTyped, identity
  <2>2. QED
    BY <1>3, <2>1
<1>5. CASE SendRequest
  BY <1>5, JobUpdates, Zenon DEF SendRequest, PageTyped, identity
<1>6. CASE RequestAnswered
  <2>1. CASE ~JobFails
    <3>1. Answered(Job) /\ job.stage \in {"baseline", "request"}
      BY <1>6, <2>1, SMT DEF RequestAnswered
    <3>2. calls[Job].reply \in Nat
      BY <1>1, <3>1
    <3>3. QED
      BY <1>6, <2>1, <3>2, JobUpdates, Zenon DEF RequestAnswered, PageTyped, identity
  <2>2. QED
    BY <1>3, <2>1
<1>7. CASE StartPoll
  BY <1>3, <1>7, JobUpdates, Zenon DEF StartPoll, PageTyped, identity
<1>8. CASE PollAnswered
  <2>1. CASE PollAgain
    BY <2>1, JobUpdates, Zenon DEF PollAgain, PageTyped, identity
  <2>2. ASSUME NEW a \in Answers, ShowResult(a), job.check \in Check PROVE PageTyped'
    BY <1>2, <2>2, ShownUpdates, JobUpdates, Zenon DEF ShowResult, PageTyped, identity
  <2>3. QED
    BY <1>3, <1>8, <2>1, <2>2, ResultShown, Zenon
<1>9. QED
  BY <1>4, <1>5, <1>6, <1>7, <1>8, Zenon DEF JobStep

\* So do the clicks of the visitor (web/app.js:62-79,126-131,140).
LEMMA VisitTyped ==
    ASSUME PageTyped, Visit PROVE PageTyped'
<1>1. clicks + 1 \in Nat /\ jobs + 1 \in Nat /\ None \in MaybeDid /\ Did \subseteq MaybeDid
  BY SMT DEF PageTyped, MaybeDid
<1> USE ShownUpdates, Goings, JobUpdates DEF PageTyped, identity
<1>2. Click => clicks' \in Nat
  BY <1>1, Zenon DEF Click
<1>3. ASSUME NEW f \in Flow, ClickCreate(f) PROVE PageTyped'
  BY <1>1, <1>2, <1>3, Zenon DEF ClickCreate
<1>4. ASSUME NEW f \in Flow, ClickImport(f) PROVE PageTyped'
  BY <1>1, <1>2, <1>4, Zenon DEF ClickImport
<1>5. CASE ClickDownload
  BY <1>1, <1>2, <1>5, Zenon DEF ClickDownload
<1>6. CASE ClickUseAnother
  BY <1>1, <1>2, <1>6, Zenon DEF ClickUseAnother
<1>7. CASE ClickCheckAnother
  BY <1>2, <1>7, Zenon DEF ClickCheckAnother
<1>8. CASE PageHide
  BY <1>1, <1>2, <1>8, Zenon DEF PageHide
<1>9. ASSUME NEW check \in Check, Submit(check) PROVE PageTyped'
  BY <1>1, <1>2, <1>9, Zenon DEF Submit
<1>10. QED
  BY <1>3, <1>4, <1>5, <1>6, <1>7, <1>8, <1>9, Zenon DEF Visit

\* A job that goes on is for the same check.
LEMMA JobGoesOn ==
    ASSUME NEW j \in JobSet, NEW n, NEW k, NEW d
    PROVE  /\ LET i == [j EXCEPT !.stage = "request"] IN i.stage = "request" /\ i.check = j.check
           /\ LET i == [j EXCEPT !.stage = "sign", !.after = n, !.signer = k, !.did = d]
              IN i.stage = "sign" /\ i.check = j.check
           /\ LET i == [j EXCEPT !.stage = "digest", !.seq = n] IN i.stage = "digest" /\ i.check = j.check
           /\ LET i == [j EXCEPT !.stage = "poll", !.did = d] IN i.stage = "poll" /\ i.check = j.check
           /\ LET i == [j EXCEPT !.polls = @ + 1] IN i.stage = j.stage /\ i.check = j.check
BY Zenon DEF JobSet

\* What is visible goes with the job, whatever the page does (web/app.js:51-79,99-138).
LEMMA PageShown ==
    ASSUME WebTyped, PageTyped, CallsTyped, CallsUnderWay, PageConsistent, PageNext
    PROVE  PageConsistent'
<1>1. shown \subseteq Parts /\ controlProved \in BOOLEAN
  BY Zenon DEF PageTyped
<1>0. ASSUME UNCHANGED <<shown, controlProved>>, job'.stage = "idle" <=> job.stage = "idle",
             job'.check = job.check
      PROVE  PageConsistent'
  BY <1>0, <1>1, SMT DEF PageConsistent
<1>2. ASSUME NEW f \in Flow, FlowStep(f) PROVE PageConsistent'
  <2>1. CASE KeyReady(f) \/ Named(f) \/ SendProof(f)
    <3>1. UNCHANGED <<shown, controlProved, job>>
      BY <2>1, Zenon DEF KeyReady, Named, SendProof
    <3>2. QED
      BY <1>0, <3>1, Zenon
  <2>2. CASE Exported(f)
    BY <1>1, <2>2, SMT DEF Exported, ShowIdentity, PageConsistent
  <2>3. CASE Imported(f)
    BY <1>1, <2>3, SMT DEF Imported, ShowIdentity, PageConsistent
  <2>4. CASE ControlFails(f)
    BY <1>1, <2>4, SMT DEF ControlFails, PageConsistent
  <2>5. CASE SignChallenge(f)
    <3>1. UNCHANGED <<shown, controlProved, job>> \/ ControlFails(f)
      BY <2>5, Zenon DEF SignChallenge
    <3>2. QED
      BY <1>0, <2>4, <3>1, Zenon
  <2>6. CASE ProofAnswered(f) /\ ~ControlFails(f)
    BY <1>1, <2>6, SMT DEF ProofAnswered, PageConsistent
  <2>7. QED
    BY <1>2, <2>1, <2>2, <2>3, <2>4, <2>5, <2>6, Zenon DEF FlowStep
<1>3. CASE JobStep
  <2>1. CASE JobFails
    <3>1. NoJob.stage = "idle"
      BY SMT DEF NoJob
    <3>2. /\ shown' = (shown \ {"active"}) \cup {"form"} /\ job'.stage = "idle"
          /\ controlProved' = controlProved /\ "result" \notin shown
      <4>1. job.stage # "idle"
        BY <1>3, SMT DEF JobStep, BaselineAnswered, SendRequest, RequestAnswered, StartPoll, PollAnswered
      <4>2. QED
        BY <2>1, <3>1, <4>1, Zenon DEF JobFails, FormBack, PageConsistent
    <3>3. QED
      BY <1>1, <3>2, SMT DEF PageConsistent
  <2>2. CASE PollAgain
    <3>1. UNCHANGED <<shown, controlProved>> /\ job' = [job EXCEPT !.polls = @ + 1] /\ job \in JobSet
      BY <2>2, Zenon DEF PollAgain, PageTyped
    <3>2. QED
      BY <1>0, <3>1, JobGoesOn, Zenon
  <2>3. ASSUME NEW a, ShowResult(a), job.stage = "poll" PROVE PageConsistent'
    BY <1>1, <2>3, SMT DEF ShowResult, NoJob, PageConsistent
  <2>4. CASE PollAnswered
    BY <2>1, <2>2, <2>3, <2>4, Zenon DEF PollAnswered
  <2>5. CASE ~JobFails /\ (BaselineAnswered \/ SendRequest \/ RequestAnswered \/ StartPoll)
    <3>1. job \in JobSet
      BY Zenon DEF PageTyped
    <3>2. \/ job' = [job EXCEPT !.stage = "sign", !.after = calls[Job].reply,
                                !.signer = privateKey, !.did = did]
          \/ job' = [job EXCEPT !.stage = "request"]
          \/ job' = [job EXCEPT !.stage = "digest", !.seq = calls[Job].reply]
          \/ job' = [job EXCEPT !.stage = "poll", !.did = did]
      BY <2>5, Zenon DEF BaselineAnswered, SendRequest, RequestAnswered, StartPoll
    <3>3. job'.check = job.check /\ job'.stage \in {"sign", "request", "digest", "poll"}
      <4>1. CASE job' = [job EXCEPT !.stage = "sign", !.after = calls[Job].reply,
                                    !.signer = privateKey, !.did = did]
        BY <3>1, <4>1, Zenon DEF JobSet
      <4>2. CASE job' = [job EXCEPT !.stage = "request"]
        BY <3>1, <4>2, JobGoesOn, Zenon
      <4>3. CASE job' = [job EXCEPT !.stage = "digest", !.seq = calls[Job].reply]
        BY <3>1, <4>3, Zenon DEF JobSet
      <4>4. CASE job' = [job EXCEPT !.stage = "poll", !.did = did]
        BY <3>1, <4>4, JobGoesOn, ZenonT(60)
      <4>5. QED
        BY <3>2, <4>1, <4>2, <4>3, <4>4
    <3>4. job.stage # "idle" /\ job'.stage # "idle"
      BY <2>5, <3>3, SMT DEF BaselineAnswered, SendRequest, RequestAnswered, StartPoll
    <3>5. UNCHANGED <<shown, controlProved>>
      BY <2>5, Zenon DEF BaselineAnswered, SendRequest, RequestAnswered, StartPoll
    <3>6. QED
      BY <1>0, <3>3, <3>4, <3>5
  <2>6. QED
    BY <1>3, <2>1, <2>4, <2>5, Zenon DEF JobStep
<1>4. CASE Visit
  <2>1. ASSUME NEW f \in Flow, ClickCreate(f) \/ ClickImport(f) PROVE PageConsistent'
    <3>1. UNCHANGED <<shown, controlProved, job>>
      BY <2>1, Zenon DEF ClickCreate, ClickImport
    <3>2. QED
      BY <1>0, <3>1, Zenon
  <2>2. CASE ClickDownload
    BY <1>1, <2>2, SMT DEF ClickDownload, PageConsistent
  <2>3. CASE ClickUseAnother
    BY <1>1, <2>3, SMT DEF ClickUseAnother, Reset, PageConsistent
  <2>4. CASE ClickCheckAnother
    BY <1>1, <2>4, SMT DEF ClickCheckAnother, Reset, identity, PageConsistent
  <2>5. CASE PageHide
    <3>1. UNCHANGED <<shown, controlProved, job>>
      BY <2>5, Zenon DEF PageHide
    <3>2. QED
      BY <1>0, <3>1, Zenon
  <2>6. ASSUME NEW check \in Check, Submit(check) PROVE PageConsistent'
    <3>1. job' = [NoJob EXCEPT !.stage = "baseline", !.check = check, !.id = jobs + 1]
      BY <2>6, Zenon DEF Submit
    <3>2. job'.check = check /\ job'.stage # "idle"
      BY <3>1, SMT DEF NoJob
    <3>3. /\ shown' = (shown \ {"form"}) \cup {"active"} /\ "form" \in shown
          /\ controlProved' = controlProved
      BY <2>6, Zenon DEF Submit, Form
    <3>4. QED
      BY <1>1, <3>2, <3>3, SMT DEF PageConsistent
  <2>7. QED
    BY <1>4, <2>1, <2>2, <2>3, <2>4, <2>5, <2>6, Zenon DEF Visit
<1>5. QED
  BY <1>2, <1>3, <1>4, Zenon DEF PageNext

-----------------------------------------------------------------------------
(* Who waits has a call under way *)

\* A flow that goes on, with the call it makes or ends (web/app.js:51-60).
LEMMA FlowWaits ==
    ASSUME CallsTyped, CallsUnderWay, PageTyped, NEW f \in Flow, NEW stage, NEW key,
           Goes(f, stage, key), job' = job,
           calls' = calls \/ (\E k : calls' = [calls EXCEPT ![f] = k]),
           stage \in {"challenge", "verify"} => calls'[f].op = stage
    PROVE  CallsUnderWay'
<1>1. /\ calls'[Job] = calls[Job]
      /\ \A g \in Flow : g # f => calls'[g] = calls[g] /\ flows'[g] = flows[g]
  <2>1. f # Job /\ Flow \subseteq Caller /\ Job \in Caller
    BY BrowserAssumption
  <2>2. calls = [c \in Caller |-> calls[c]] /\ flows = [g \in Flow |-> flows[g]]
    BY Zenon DEF CallsTyped, PageTyped
  <2>3. ASSUME NEW k, calls' = [calls EXCEPT ![f] = k], NEW c \in Caller, c # f
        PROVE  calls'[c] = calls[c]
    BY <2>2, <2>3, SMT
  <2>4. \A g \in Flow : g # f => flows'[g] = flows[g]
    BY <2>2, Zenon DEF Goes
  <2>5. QED
    BY <2>1, <2>3, <2>4, Zenon
<1>2. flows'[f].stage = stage
  <2>1. flows'[f] = [stage |-> stage, key |-> key]
    BY Zenon DEF Goes, PageTyped
  <2>2. QED
    BY <2>1, SMT
<1>3. QED
  BY <1>1, <1>2, Zenon DEF CallsUnderWay, Waits

\* A job that goes on, with the call it makes or ends (web/app.js:86-90,129-138).
LEMMA JobWaits ==
    ASSUME CallsTyped, CallsUnderWay, flows' = flows,
           calls' = calls \/ (\E k : calls' = [calls EXCEPT ![Job] = k]),
           job'.stage = "baseline" => calls'[Job].op = "baseline",
           job'.stage = "request" => calls'[Job].op = "request",
           job'.stage = "poll" => calls'[Job].op = "job"
    PROVE  CallsUnderWay'
<1>1. \A f \in Flow : calls'[f] = calls[f]
  <2>1. Job \notin Flow /\ Flow \subseteq Caller /\ Job \in Caller
    BY BrowserAssumption
  <2>2. calls = [c \in Caller |-> calls[c]]
    BY Zenon DEF CallsTyped
  <2>3. QED
    BY <2>1, <2>2, SMT
<1>2. QED
  BY <1>1, Zenon DEF CallsUnderWay, Waits

\* The call that is made.
LEMMA FetchMakes ==
    ASSUME CallsTyped, NEW c \in Caller, NEW op, NEW arg, Fetch(c, op, arg)
    PROVE  calls'[c].op = op /\ \E k : calls' = [calls EXCEPT ![c] = k]
<1>1. calls'[c] = Call(op, Me, arg)
  BY Zenon DEF Fetch, CallsTyped
<1>2. Call(op, Me, arg).op = op
  BY SMT DEF Call
<1>3. QED
  BY <1>1, <1>2, Zenon DEF Fetch

\* Every handler of the page that waits has a call, whatever the page does.
LEMMA PageWaits ==
    ASSUME TypeOK, CallsTyped, CallsUnderWay, PageConsistent, PageNext PROVE CallsUnderWay'
<1>1. Flow \subseteq Caller /\ Job \in Caller
  BY BrowserAssumption
<1>2. PageTyped
  BY DEF TypeOK
<1>3. ASSUME NEW f \in Flow, FlowStep(f) PROVE CallsUnderWay'
  <2>1. CASE KeyReady(f)
    <3>1. /\ \E stage \in {"name", "nameImported", "idle"} : \E key : Goes(f, stage, key)
          /\ calls' = calls /\ job' = job
      BY <2>1, Zenon DEF KeyReady, webVars
    <3>2. QED
      BY <1>2, <3>1, FlowWaits, SMT
  <2>2. CASE Named(f)
    <3>1. /\ \E stage \in {"idle", "export"} : \E key : Goes(f, stage, key)
          /\ calls' = calls /\ job' = job
      BY <2>2, Zenon DEF Named, webVars
    <3>2. QED
      BY <1>2, <3>1, FlowWaits, SMT
  <2>3. CASE Exported(f) \/ Imported(f)
    <3>1. Goes(f, "challenge", None) /\ Fetch(f, "challenge", None) /\ job' = job
      BY <2>3, Zenon DEF Exported, Imported, ShowIdentity
    <3>2. calls'[f].op = "challenge" /\ \E k : calls' = [calls EXCEPT ![f] = k]
      BY <1>1, <3>1, FetchMakes, Zenon
    <3>3. QED
      BY <1>2, <3>1, <3>2, FlowWaits, Zenon
  <2>4. CASE ControlFails(f)
    <3>1. Goes(f, "idle", None) /\ job' = job /\ \E k : calls' = [calls EXCEPT ![f] = k]
      BY <2>4, Zenon DEF ControlFails, Over
    <3>2. QED
      BY <1>2, <3>1, FlowWaits, Zenon
  <2>5. CASE SignChallenge(f) /\ ~ControlFails(f)
    <3>1. Goes(f, "sign", privateKey) /\ job' = job /\ calls' = calls
      BY <2>5, Zenon DEF SignChallenge, webVars
    <3>2. QED
      BY <1>2, <3>1, FlowWaits, SMT
  <2>6. CASE SendProof(f)
    <3>1. Goes(f, "verify", None) /\ job' = job /\ \E arg : Fetch(f, "verify", arg)
      BY <2>6, Zenon DEF SendProof
    <3>2. calls'[f].op = "verify" /\ \E k : calls' = [calls EXCEPT ![f] = k]
      BY <1>1, <3>1, FetchMakes, Zenon
    <3>3. QED
      BY <1>2, <3>1, <3>2, FlowWaits, Zenon
  <2>7. CASE ProofAnswered(f) /\ ~ControlFails(f)
    <3>1. Goes(f, "idle", None) /\ job' = job /\ \E k : calls' = [calls EXCEPT ![f] = k]
      BY <2>7, Zenon DEF ProofAnswered, Over
    <3>2. QED
      BY <1>2, <3>1, FlowWaits, Zenon
  <2>8. QED
    BY <1>3, <2>1, <2>2, <2>3, <2>4, <2>5, <2>6, <2>7, Zenon DEF FlowStep
<1>4. CASE JobStep
  <2>1. CASE job' = NoJob /\ flows' = flows /\ Over(Job)
    <3>1. job'.stage = "idle" /\ \E k : calls' = [calls EXCEPT ![Job] = k]
      <4>1. NoJob.stage = "idle"
        BY SMT DEF NoJob
      <4>2. QED
        BY <2>1, <4>1, Zenon DEF Over
    <3>2. QED
      BY <2>1, <3>1, JobWaits, Zenon
  <2>2. CASE BaselineAnswered /\ ~JobFails
    <3>1. job' = [job EXCEPT !.stage = "sign", !.after = calls[Job].reply,
                             !.signer = privateKey, !.did = did]
      BY <2>2, Zenon DEF BaselineAnswered
    <3>2. job'.stage = "sign"
      BY <1>2, <3>1, Zenon DEF PageTyped, JobSet
    <3>3. calls' = calls /\ flows' = flows
      BY <2>2, Zenon DEF BaselineAnswered, webVars
    <3>4. QED
      BY <3>2, <3>3, JobWaits, SMT
  <2>3. CASE SendRequest
    <3>1. job' = [job EXCEPT !.stage = "request"] /\ flows' = flows /\ \E arg : Fetch(Job, "request", arg)
      BY <2>3, Zenon DEF SendRequest
    <3>2. job'.stage = "request"
      BY <1>2, <3>1, Zenon DEF PageTyped, JobSet
    <3>3. calls'[Job].op = "request" /\ \E k : calls' = [calls EXCEPT ![Job] = k]
      BY <1>1, <3>1, FetchMakes, Zenon
    <3>4. QED
      BY <3>1, <3>2, <3>3, JobWaits, Zenon
  <2>4. CASE RequestAnswered /\ ~JobFails
    <3>1. job' = [job EXCEPT !.stage = "digest", !.seq = calls[Job].reply]
      BY <2>4, Zenon DEF RequestAnswered
    <3>2. job'.stage = "digest"
      BY <1>2, <3>1, Zenon DEF PageTyped, JobSet
    <3>3. calls' = calls /\ flows' = flows
      BY <2>4, Zenon DEF RequestAnswered, webVars
    <3>4. QED
      BY <3>2, <3>3, JobWaits, SMT
  <2>5. CASE (StartPoll /\ ~JobFails) \/ (PollAgain /\ job.stage = "poll")
    <3>1. /\ Fetch(Job, "job", None) /\ flows' = flows
          /\ \/ job' = [job EXCEPT !.stage = "poll", !.did = did]
             \/ job' = [job EXCEPT !.polls = @ + 1] /\ job.stage = "poll"
      BY <2>5, Zenon DEF StartPoll, PollAgain
    <3>2. job'.stage = "poll"
      <4>1. CASE job' = [job EXCEPT !.stage = "poll", !.did = did]
        BY <1>2, <4>1, Zenon DEF PageTyped, JobSet
      <4>2. CASE job' = [job EXCEPT !.polls = @ + 1] /\ job.stage = "poll"
        BY <1>2, <4>2, Zenon DEF PageTyped, JobSet
      <4>3. QED
        BY <3>1, <4>1, <4>2
    <3>3. calls'[Job].op = "job" /\ \E k : calls' = [calls EXCEPT ![Job] = k]
      BY <1>1, <3>1, FetchMakes, Zenon
    <3>4. QED
      BY <3>1, <3>2, <3>3, JobWaits, Zenon
  <2>6. JobFails \/ (\E a : ShowResult(a)) => job' = NoJob /\ flows' = flows /\ Over(Job)
    BY Zenon DEF JobFails, ShowResult
  <2>7. CASE PollAnswered
    BY <2>1, <2>5, <2>6, <2>7, Zenon DEF PollAnswered
  <2>8. CASE JobFails
    BY <2>1, <2>6, <2>8
  <2>9. QED
    BY <1>4, <2>2, <2>3, <2>4, <2>5, <2>7, <2>8, SMT DEF JobStep
<1>5. CASE Visit
  <2>1. ASSUME NEW f \in Flow, ClickCreate(f) \/ ClickImport(f) PROVE CallsUnderWay'
    <3>1. /\ \E stage \in {"generate", "decrypt"} : \E key : Goes(f, stage, key)
          /\ calls' = calls /\ job' = job
      BY <2>1, Zenon DEF ClickCreate, ClickImport, webVars
    <3>2. QED
      BY <1>2, <3>1, FlowWaits, SMT
  <2>2. CASE ClickDownload \/ ClickUseAnother \/ ClickCheckAnother
    <3>1. calls' = calls /\ job' = job /\ flows' = flows
      BY <2>2, Zenon DEF ClickDownload, ClickUseAnother, ClickCheckAnother, webVars
    <3>2. QED
      BY <3>1, Zenon DEF CallsUnderWay, Waits
  <2>3. CASE PageHide
    <3>1. \A c \in Caller : calls'[c].op = calls[c].op
      <4>1. calls' = Aborted \/ calls' = calls
        BY <2>3, Zenon DEF PageHide
      <4>2. CallTyped(calls[Job], cursor, answers) /\ calls = [c \in Caller |-> calls[c]]
        BY <1>1, Zenon DEF CallsTyped
      <4>3. [calls[Job] EXCEPT !.stage = "refused", !.reply = None].op = calls[Job].op
        BY <4>2, Zenon DEF CallTyped
      <4>4. Aborted = [calls EXCEPT ![Job] = [calls[Job] EXCEPT !.stage = "refused", !.reply = None]]
        BY Zenon DEF Aborted
      <4>5. \A c \in Caller : Aborted[c].op = calls[c].op
        BY <1>1, <4>2, <4>3, <4>4, Zenon
      <4>6. QED
        BY <4>1, <4>5, Zenon
    <3>2. job' = job /\ flows' = flows
      BY <2>3, Zenon DEF PageHide
    <3>3. QED
      BY <1>1, <3>1, <3>2, Zenon DEF CallsUnderWay, Waits
  <2>4. ASSUME NEW check \in Check, Submit(check) PROVE CallsUnderWay'
    <3>1. /\ job' = [NoJob EXCEPT !.stage = "baseline", !.check = check, !.id = jobs + 1]
          /\ flows' = flows /\ Fetch(Job, "baseline", None)
      BY <2>4, Zenon DEF Submit
    <3>2. job'.stage = "baseline"
      BY <3>1, SMT DEF NoJob
    <3>3. calls'[Job].op = "baseline" /\ \E k : calls' = [calls EXCEPT ![Job] = k]
      BY <1>1, <3>1, FetchMakes, Zenon
    <3>4. QED
      BY <3>1, <3>2, <3>3, JobWaits, Zenon
  <2>5. QED
    BY <1>5, <2>1, <2>2, <2>3, <2>4, Zenon DEF Visit
<1>6. QED
  BY <1>3, <1>4, <1>5, Zenon DEF PageNext

-----------------------------------------------------------------------------
(* What the web process does to the calls *)

\* A call is served, answered or refused: its stage and reply change, no other call does.
Served(c, stage, r) ==
    calls' = [calls EXCEPT ![c] = [calls[c] EXCEPT !.stage = stage, !.reply = r]]

\* Hold, Reply and Refuse serve a call.
LEMMA Serving ==
    ASSUME NEW c, NEW r
    PROVE  /\ Hold(c, r) => Served(c, "held", r)
           /\ Reply(c, r) => Served(c, "ok", r)
           /\ Refuse(c) => Served(c, "refused", None)
BY Zenon DEF Hold, Reply, Refuse, Served

\* What a served call becomes.
LEMMA ServedCall ==
    ASSUME CallsTyped, NEW c \in Caller, NEW stage, NEW r, Served(c, stage, r)
    PROVE  /\ calls'[c] = [op |-> calls[c].op, stage |-> stage, session |-> calls[c].session,
                           arg |-> calls[c].arg, reply |-> r]
           /\ \A d \in Caller : d # c => calls'[d] = calls[d]
           /\ calls' = [calls EXCEPT ![c] = calls'[c]]
<1>1. CallTyped(calls[c], cursor, answers) /\ calls = [d \in Caller |-> calls[d]]
  BY Zenon DEF CallsTyped
<1> DEFINE k == calls[c]
           s == [op |-> k.op, stage |-> stage, session |-> k.session, arg |-> k.arg, reply |-> k.reply]
           t == [op |-> k.op, stage |-> stage, session |-> k.session, arg |-> k.arg, reply |-> r]
<1>2. [k EXCEPT !.stage = stage, !.reply = r] = t
  <2>1. [k EXCEPT !.stage = stage] = s
    BY <1>1, SMT DEF CallTyped
  <2>2. [s EXCEPT !.reply = r] = t
    BY SMT
  <2>3. [k EXCEPT !.stage = stage, !.reply = r] = [[k EXCEPT !.stage = stage] EXCEPT !.reply = r]
    BY Zenon
  <2>4. QED
    BY <2>1, <2>2, <2>3, Zenon
<1>3. calls' = [calls EXCEPT ![c] = t]
  BY <1>2, Zenon DEF Served
<1>4. calls'[c] = t /\ \A d \in Caller : d # c => calls'[d] = calls[d]
  BY <1>1, <1>3, Zenon
<1>5. QED
  BY <1>3, <1>4, Zenon

\* A served call is well typed when what it brings back is (worker/webapp.py:281-379).
LEMMA ServedTyped ==
    ASSUME CallsTyped, cursor \in Nat, cursor' = cursor, answers' = answers,
           NEW c \in Caller, NEW stage \in {"held", "ok", "refused"}, NEW r, Served(c, stage, r),
           calls[c].op \in {"baseline", "request"} /\ stage = "ok" => r \in Nat,
           calls[c].op = "baseline" /\ stage = "held" => r \in Nat /\ r <= cursor,
           calls[c].op = "job" /\ stage = "ok" => r \in answers \cup {None}
    PROVE  CallsTyped'
<1> DEFINE t == [op |-> calls[c].op, stage |-> stage, session |-> calls[c].session,
                 arg |-> calls[c].arg, reply |-> r]
<1>1. CallTyped(calls[c], cursor, answers)
  BY Zenon DEF CallsTyped
<1>2. CallTyped(t, cursor, answers)
  BY <1>1, SMT DEF CallTyped
<1>3. CallTyped(t, cursor', answers')
  BY <1>2
<1>4. cursor' \in Nat /\ cursor <= cursor' /\ answers \subseteq answers'
  BY SMT
<1>5. calls' = [calls EXCEPT ![c] = t]
  <2>1. calls'[c] = t
    BY ServedCall
  <2>2. calls' = [calls EXCEPT ![c] = calls'[c]]
    BY ServedCall
  <2>3. QED
    BY <2>1, <2>2, Zenon
<1>6. QED
  BY <1>3, <1>4, <1>5, CallReplaced, Zenon

\* The operations of the calls of the page, and which calls a thread serves, stay.
OpsKept == \A c \in Caller : c # Again => calls'[c].op = calls[c].op
HoldsKept == \A c \in Caller : calls'[c].stage = "held" => calls'[c] = calls[c]

\* A served call keeps its operation; if it is over, no thread began to serve one.
LEMMA ServedKeeps ==
    ASSUME CallsTyped, NEW c \in Caller, NEW stage, NEW r, Served(c, stage, r)
    PROVE  OpsKept /\ (stage # "held" => HoldsKept)
<1>1. calls'[c].op = calls[c].op /\ calls'[c].stage = stage
  <2>1. calls'[c] = [op |-> calls[c].op, stage |-> stage, session |-> calls[c].session,
                     arg |-> calls[c].arg, reply |-> r]
    BY ServedCall
  <2>2. QED
    BY <2>1, SMT
<1>2. \A d \in Caller : d # c => calls'[d] = calls[d]
  BY ServedCall, Zenon
<1>3. QED
  BY <1>1, <1>2, Zenon DEF OpsKept, HoldsKept

\* Who waits for a call keeps it.
LEMMA WaitsKept ==
    ASSUME CallsUnderWay, OpsKept, UNCHANGED page PROVE CallsUnderWay'
<1>1. Flow \subseteq Caller /\ Job \in Caller /\ Again \notin Flow /\ Job # Again
  BY BrowserAssumption
<1>2. flows' = flows /\ job' = job
  BY Zenon DEF page
<1>3. QED
  BY <1>1, <1>2, Zenon DEF CallsUnderWay, Waits, OpsKept

\* A thread that serves a call keeps the calls well typed (worker/webapp.py:281-379).
LEMMA ServerCalls ==
    ASSUME WebTyped, CallsTyped, NEW c \in Caller, Serve(c)
    PROVE  /\ CallsTyped' /\ OpsKept
           /\ HoldsKept \/ Consume(c) \/ ReadBaseline(c) \/ CheckRequest(c)
<1>1. \A r : /\ Hold(c, r) => Served(c, "held", r)
             /\ Reply(c, r) => Served(c, "ok", r)
             /\ Refuse(c) => Served(c, "refused", None)
  BY Serving, Zenon
<1>2. cursor \in Nat /\ issued + 1 \in Nat /\ Len(forwarded) + 1 \in Nat
  BY SMT DEF WebTyped
<1>3. CallTyped(calls[c], cursor, answers)
  BY Zenon DEF CallsTyped
<1>4. ASSUME cursor' = cursor, answers' = answers, NEW stage \in {"held", "ok", "refused"}, NEW r,
             Served(c, stage, r),
             calls[c].op \in {"baseline", "request"} /\ stage = "ok" => r \in Nat,
             calls[c].op = "baseline" /\ stage = "held" => r \in Nat /\ r <= cursor,
             calls[c].op = "job" /\ stage = "ok" => r \in answers \cup {None}
      PROVE  CallsTyped' /\ OpsKept /\ (stage # "held" => HoldsKept)
  BY <1>2, <1>4, ServedTyped, ServedKeeps, Zenon
<1>5. CASE CreateChallenge(c)
  <2>1. cursor' = cursor /\ answers' = answers /\ Served(c, "ok", issued + 1) /\ calls[c].op = "challenge"
    BY <1>1, <1>5, Zenon DEF CreateChallenge, Sent, rooms
  <2>2. QED
    BY <1>4, <2>1, Zenon
<1>6. CASE Consume(c)
  <2>1. /\ cursor' = cursor /\ answers' = answers /\ calls[c].op = "verify"
        /\ Served(c, "held", None) \/ Served(c, "refused", None)
    BY <1>1, <1>6, Zenon DEF Consume, Sent, rooms
  <2>2. QED
    BY <1>4, <1>6, <2>1, Zenon
<1>7. CASE Bind(c)
  <2>1. /\ cursor' = cursor /\ answers' = answers /\ calls[c].op = "verify"
        /\ Served(c, "ok", None) \/ Served(c, "refused", None)
    BY <1>1, <1>7, Zenon DEF Bind, Held, rooms
  <2>2. QED
    BY <1>4, <2>1, Zenon
<1>8. CASE ReadBaseline(c)
  <2>1. /\ cursor' = cursor /\ answers' = answers /\ calls[c].op = "baseline"
        /\ Served(c, "held", cursor) \/ Served(c, "refused", None)
    BY <1>1, <1>8, Zenon DEF ReadBaseline, Sent, rooms, Baseline
  <2>2. cursor <= cursor
    BY <1>2, SMT
  <2>3. QED
    BY <1>2, <1>4, <1>8, <2>1, <2>2, Zenon
<1>9. CASE StoreBaseline(c)
  <2>1. /\ cursor' = cursor /\ answers' = answers /\ calls[c].op = "baseline" /\ calls[c].stage = "held"
        /\ Served(c, "ok", calls[c].reply)
    BY <1>1, <1>9, Zenon DEF StoreBaseline, Held, rooms
  <2>2. calls[c].reply \in Nat
    BY <1>3, <2>1, Zenon DEF CallTyped
  <2>3. QED
    BY <1>4, <2>1, <2>2, Zenon
<1>10. CASE CheckRequest(c)
  <2>1. /\ cursor' = cursor /\ answers' = answers /\ calls[c].op = "request"
        /\ Served(c, "held", None) \/ Served(c, "refused", None)
    BY <1>1, <1>10, Zenon DEF CheckRequest, Sent, rooms
  <2>2. QED
    BY <1>4, <1>10, <2>1, Zenon
<1>11. CASE Forward(c)
  <2>1. /\ cursor' = cursor /\ answers' = answers /\ calls[c].op = "request"
        /\ Served(c, "ok", Len(forwarded) + 1) \/ Served(c, "refused", None)
    BY <1>1, <1>11, Zenon DEF Forward, Held
  <2>2. QED
    BY <1>2, <1>4, <2>1, Zenon
<1>12. CASE Poll(c)
  <2>1. /\ cursor' = cursor /\ answers' = answers /\ calls[c].op = "job"
        /\ \E a \in answers \cup {None} : Served(c, "ok", a)
    BY <1>1, <1>12, Zenon DEF Poll, Sent, rooms
  <2>2. QED
    BY <1>4, <2>1, Zenon
<1>13. QED
  BY <1>5, <1>6, <1>7, <1>8, <1>9, <1>10, <1>11, <1>12, Zenon DEF Serve

\* So does the environment.
LEMMA EnvironmentCalls ==
    ASSUME WebTyped, CallsTyped, Environment PROVE CallsTyped' /\ OpsKept /\ HoldsKept
<1>1. Flow \cup {Job, Again} = Caller /\ Again \notin Flow
  BY BrowserAssumption
<1>2. cursor \in Nat /\ cursor <= cursor /\ cursor + 1 \in Nat /\ cursor <= cursor + 1
  BY SMT DEF WebTyped
<1>3. calls = [c \in Caller |-> calls[c]] /\ \A c \in Caller : CallTyped(calls[c], cursor, answers)
  BY Zenon DEF CallsTyped
<1>4. CASE /\ calls' = calls
           /\ ChallengesAge \/ Collected \/ OtherTab(Me) \/ Work \/ \E s \in Session, d \in Did : PeerProves(s, d)
  <2>1. (cursor' = cursor \/ cursor' = cursor + 1) /\ answers \subseteq answers'
    BY <1>4, Zenon DEF ChallengesAge, Collected, OtherTab, Work, PeerProves, rooms
  <2>2. CallsTyped'
    BY <1>2, <1>4, <2>1, CallsStay, Zenon
  <2>3. QED
    BY <1>4, <2>2, Zenon DEF OpsKept, HoldsKept
<1>5. CASE Restart
  <2> DEFINE cut(c) == [calls[c] EXCEPT !.stage = "refused", !.reply = None]
  <2>1. cursor' = cursor /\ answers' = answers
    BY <1>5, Zenon DEF Restart, rooms
  <2>2. \A c \in Caller : calls'[c] = IF calls[c].stage = "held" THEN cut(c) ELSE calls[c]
    BY <1>5, Zenon DEF Restart
  <2>3. ASSUME NEW c \in Caller
        PROVE  /\ CallTyped(cut(c), cursor', answers')
               /\ cut(c).stage = "refused" /\ cut(c).op = calls[c].op
    <3>1. CallTyped(calls[c], cursor, answers)
      BY <1>3
    <3>2. CallTyped(cut(c), cursor', answers')
      BY <3>1, CallKinds, Zenon
    <3>3. cut(c).stage = "refused" /\ cut(c).op = calls[c].op
      BY <3>1, Zenon DEF CallTyped
    <3>4. QED
      BY <3>2, <3>3
  <2>4. \A c \in Caller : CallTyped(calls'[c], cursor', answers')
    BY <1>3, <2>1, <2>2, <2>3, Zenon
  <2>5. calls' = [c \in Caller |-> calls'[c]]
    BY <1>5, Zenon DEF Restart
  <2>6. OpsKept /\ HoldsKept
    BY <2>2, <2>3, Zenon DEF OpsKept, HoldsKept
  <2>7. QED
    BY <2>4, <2>5, <2>6, Zenon DEF CallsTyped
<1>6. ASSUME NEW c \in Flow \cup {Job}, CallFails(c) PROVE CallsTyped' /\ OpsKept /\ HoldsKept
  <2>1. cursor' = cursor /\ answers' = answers /\ c \in Caller /\ Served(c, "refused", None)
    BY <1>1, <1>6, Serving, Zenon DEF CallFails, rooms
  <2>2. CallsTyped'
    BY <1>2, <2>1, ServedTyped, Zenon
  <2>3. QED
    BY <2>1, <2>2, ServedKeeps
<1>7. ASSUME NEW f \in Flow, Resend(f, Again) PROVE CallsTyped' /\ OpsKept /\ HoldsKept
  <2> DEFINE k == Call("verify", Me, calls[f].arg)
  <2>1. f \in Caller /\ Again \in Caller /\ CallTyped(calls[f], cursor, answers)
    BY <1>1, <1>3
  <2>2. /\ calls[f].op = "verify" /\ cursor' = cursor /\ answers' = answers
        /\ calls' = [calls EXCEPT ![Again] = Call("verify", calls[f].session, calls[f].arg)]
    BY <1>7, Zenon DEF Resend, rooms
  <2>3. calls[f].arg.did \in MaybeDid /\ calls[f].session = Me
    BY <2>1, <2>2, SMT DEF CallTyped
  <2>4. CallTyped(k, cursor', answers')
    BY <2>3, CallKinds, Zenon
  <2>5. calls' = [calls EXCEPT ![Again] = k]
    BY <2>2, <2>3, Zenon
  <2>6. cursor' \in Nat /\ cursor <= cursor' /\ answers \subseteq answers'
    BY <1>2, <2>2, Zenon
  <2>7. CallsTyped' /\ calls'[Again] = k /\ \A d \in Caller : d # Again => calls'[d] = calls[d]
    BY <1>2, <2>1, <2>4, <2>5, <2>6, CallReplaced, Zenon
  <2>8. k.stage = "sent"
    BY SMT DEF Call
  <2>9. QED
    BY <2>7, <2>8, Zenon DEF OpsKept, HoldsKept
<1>8. QED
  <2>1. ASSUME ChallengesAge \/ Collected \/ OtherTab(Me) \/ Work \/ \E s \in Session, d \in Did : PeerProves(s, d)
        PROVE  calls' = calls
    BY <2>1, Zenon DEF ChallengesAge, Collected, OtherTab, Work, PeerProves
  <2>2. QED
    BY <1>4, <1>5, <1>6, <1>7, <2>1, Zenon DEF Environment

-----------------------------------------------------------------------------
(* The tables of the web process *)

\* What the tables hold.
Pair == Session \X Did
ChallengeSet == [value : Nat, session : Session, age : 0 .. 2, used : BOOLEAN]
ProofSet == [session : Session, did : Did, value : Nat]
ForwardSet == [session : Session, did : Did, job : Nat, check : Check, after : Nat]

\* Binding a session adds or replaces its entry and drops the oldest ones (worker/webapp.py:254-262).
LEMMA BindingKept ==
    ASSUME WebTyped, NEW s \in Session, NEW d \in Did, BindSession(s, d)
    PROVE  /\ session_dids' \in Seq(Pair)
           /\ \A i \in DOMAIN session_dids' :
                 session_dids'[i] = <<s, d>> \/ \E j \in DOMAIN session_dids : session_dids'[i] = session_dids[j]
           /\ session_baselines' \in [Session -> Nat \cup {-1}]
           /\ \A t \in Session : session_baselines'[t] \in {session_baselines[t], -1}
<1> DEFINE b == Bound(s, d)
           n == Pruned(b)
           ours(e) == e = <<s, d>> \/ \E j \in DOMAIN session_dids : e = session_dids[j]
<1>1. session_dids \in Seq(Pair) /\ <<s, d>> \in Pair
  BY Zenon DEF WebTyped, Pair
<1>2. Len(session_dids) \in Nat /\ DOMAIN session_dids = 1 .. Len(session_dids)
  BY <1>1, LenProperties, Zenon
<1>3. \A i \in DOMAIN session_dids : session_dids[i] \in Pair
  BY <1>1, <1>2, ElementOfSeq, Zenon
<1>4. b \in Seq(Pair) /\ \A i \in 1 .. Len(b) : ours(b[i])
  <2>1. CASE \E i \in DOMAIN session_dids : session_dids[i][1] = s
    <3>1. b = [i \in 1 .. Len(session_dids) |-> IF session_dids[i][1] = s THEN <<s, d>> ELSE session_dids[i]]
      BY <1>2, <2>1, Zenon DEF Bound
    <3>2. \A i \in 1 .. Len(session_dids) :
             (IF session_dids[i][1] = s THEN <<s, d>> ELSE session_dids[i]) \in Pair
      BY <1>1, <1>2, <1>3, Zenon
    <3>3. b \in Seq(Pair) /\ Len(b) = Len(session_dids)
      BY <1>2, <3>1, <3>2, IsASeq, LenProperties, SMT
    <3>4. QED
      BY <1>2, <3>1, <3>3, Zenon
  <2>2. CASE ~ \E i \in DOMAIN session_dids : session_dids[i][1] = s
    <3>1. b = Append(session_dids, <<s, d>>)
      BY <2>2, Zenon DEF Bound
    <3>2. /\ b \in Seq(Pair) /\ Len(b) = Len(session_dids) + 1
          /\ \A i \in 1 .. Len(session_dids) : b[i] = session_dids[i]
          /\ b[Len(session_dids) + 1] = <<s, d>>
      BY <1>1, <3>1, AppendProperties
    <3>3. \A i \in 1 .. Len(b) : i \in DOMAIN session_dids \/ i = Len(session_dids) + 1
      BY <1>2, <3>2, SMT
    <3>4. QED
      BY <1>2, <3>2, <3>3, Zenon
  <2>3. QED
    BY <2>1, <2>2
<1>5. n \in Nat /\ Len(b) \in Nat
  BY <1>4, LenProperties, WebSessionAssumption, SMT DEF Pruned
<1>6. session_dids' = SubSeq(b, n + 1, Len(b))
  BY Zenon DEF BindSession
<1>7. \A i \in n + 1 .. Len(b) : b[i] \in Pair
  BY <1>4, <1>5, ElementOfSeq, SMT
<1>8. /\ session_dids' \in Seq(Pair)
      /\ Len(session_dids') = IF n + 1 <= Len(b) THEN Len(b) - (n + 1) + 1 ELSE 0
      /\ \A i \in 1 .. Len(b) - (n + 1) + 1 : session_dids'[i] = b[(n + 1) + i - 1]
  <2>1. n + 1 \in Int /\ Len(b) \in Int
    BY <1>5, SMT
  <2>2. QED
    BY <1>6, <1>7, <2>1, SubSeqProperties
<1>9. ASSUME NEW i \in DOMAIN session_dids' PROVE ours(session_dids'[i])
  <2>1. i \in 1 .. Len(session_dids')
    BY <1>8, LenProperties, Zenon
  <2>2. i \in 1 .. Len(b) - (n + 1) + 1 /\ (n + 1) + i - 1 \in 1 .. Len(b)
    BY <1>5, <1>8, <2>1, SMT
  <2>3. QED
    BY <1>4, <1>8, <2>2, Zenon
<1>10. session_baselines' = [t \in Session |->
          IF \E i \in 1 .. n : b[i][1] = t THEN -1 ELSE session_baselines[t]]
  BY Zenon DEF BindSession
<1>11. session_baselines \in [Session -> Nat \cup {-1}]
  BY Zenon DEF WebTyped
<1>12. \A t \in Session : session_baselines'[t] \in {session_baselines[t], -1}
  BY <1>10, Zenon
<1>13. session_baselines' \in [Session -> Nat \cup {-1}]
  BY <1>10, <1>11, Zenon
<1>14. QED
  BY <1>8, <1>9, <1>12, <1>13, Zenon

\* A challenge that is created is new, and what else is stored was there (worker/webapp.py:90-101).
LEMMA ChallengeAdded ==
    ASSUME WebTyped, NEW s \in Session, NEW used \in BOOLEAN
    PROVE  /\ Created(s, used) \subseteq
                 challenges \cup {[value |-> issued + 1, session |-> s, age |-> 0, used |-> used]}
           /\ Created(s, used) \subseteq ChallengeSet
<1> DEFINE new == [value |-> issued + 1, session |-> s, age |-> 0, used |-> used]
<1>1. Created(s, used) \subseteq challenges \cup {new}
  BY Zenon DEF Created, Prune, Evict
<1>2. new \in ChallengeSet /\ challenges \subseteq ChallengeSet
  BY SMT DEF WebTyped, ChallengeSet
<1>3. QED
  BY <1>1, <1>2

\* The tables of the web process, and what stands for its rooms, are well typed.
Tables ==
    /\ challenges \subseteq ChallengeSet
    /\ issued \in Nat /\ cursor \in Nat /\ troubles \in Nat
    /\ session_dids \in Seq(Pair) /\ session_baselines \in [Session -> Nat \cup {-1}]
    /\ forwarded \in Seq(ForwardSet) /\ answers \subseteq Answers /\ proofs \in Seq(ProofSet)

\* The web process is well typed when its tables and the calls are
\* (worker/webapp.py:81-125,254-262).
LEMMA TablesTyped ==
    /\ WebTyped => Tables
    /\ Tables /\ CallsTyped => WebTyped
<1>1. WebTyped => Tables
  BY Zenon DEF WebTyped, Tables, ChallengeSet, Pair, ForwardSet, ProofSet
<1>2. ASSUME CallsTyped
      PROVE  /\ DOMAIN calls = Caller
             /\ \A c \in Caller :
                   /\ calls[c].op \in {"none", "challenge", "verify", "baseline", "request", "job"}
                   /\ calls[c].stage \in {"sent", "held", "ok", "refused"}
                   /\ calls[c].session \in Session \cup {None}
  <2>1. DOMAIN calls = Caller
    BY <1>2, Zenon DEF CallsTyped
  <2>2. ASSUME NEW c \in Caller
        PROVE  /\ calls[c].op \in {"none", "challenge", "verify", "baseline", "request", "job"}
               /\ calls[c].stage \in {"sent", "held", "ok", "refused"}
               /\ calls[c].session \in Session \cup {None}
    <3>1. CallTyped(calls[c], cursor, answers)
      BY <1>2, Zenon DEF CallsTyped
    <3>2. QED
      BY <3>1, BrowserAssumption, Zenon DEF CallTyped
  <2>3. QED
    BY <2>1, <2>2
<1>3. Tables /\ CallsTyped => WebTyped
  BY <1>2, Zenon DEF WebTyped, Tables, ChallengeSet, Pair, ForwardSet, ProofSet
<1>4. QED
  BY <1>1, <1>3

\* A DID that a session has proved is a DID.
LEMMA ProvedDid ==
    ASSUME Tables, NEW s, NEW d, Proved(s, d) PROVE s \in Session /\ d \in Did
<1>1. PICK i \in DOMAIN session_dids : session_dids[i] = <<s, d>>
  BY Zenon DEF Proved
<1>2. session_dids[i] \in Pair
  BY <1>1, ElementOfSeq, LenProperties, Zenon DEF Tables
<1>3. QED
  BY <1>1, <1>2, SMT DEF Pair

\* A thread keeps the tables well typed (worker/webapp.py:84-125,254-262,281-379).
LEMMA ServerTables ==
    ASSUME WebTyped, CallsTyped, ProofsBurnt, RequestsAdmitted, ForwardedUnderProof,
           NEW c \in Caller, Serve(c)
    PROVE  Tables'
<1> USE DEF store, bindings, rooms
<1>1. Tables /\ CallTyped(calls[c], cursor, answers)
  BY TablesTyped, Zenon DEF CallsTyped
<1>2. calls[c].op # "none" => calls[c].session \in Session /\ calls[c].session = Me
  BY <1>1, BrowserAssumption, Zenon DEF CallTyped
<1>3. CASE CreateChallenge(c)
  <2>1. /\ challenges' = Created(calls[c].session, FALSE) /\ issued' = issued + 1
        /\ UNCHANGED <<bindings, rooms, proofs, troubles>> /\ calls[c].op # "none"
    BY <1>3, SMT DEF CreateChallenge, Sent
  <2>2. challenges' \subseteq ChallengeSet
    BY <1>2, <2>1, ChallengeAdded, Zenon
  <2>3. issued' \in Nat
    BY <1>1, <2>1, SMT DEF Tables
  <2>4. QED
    BY <1>1, <2>1, <2>2, <2>3, Zenon DEF Tables
<1>4. CASE Consume(c)
  <2>1. \A v : Spent(v) \subseteq ChallengeSet
    <3>1. \A item \in ChallengeSet : [item EXCEPT !.used = TRUE] \in ChallengeSet
      BY Zenon DEF ChallengeSet
    <3>2. QED
      BY <1>1, <3>1, Zenon DEF Spent, Tables
  <2>2. challenges' \subseteq ChallengeSet /\ UNCHANGED <<issued, bindings, rooms, proofs, troubles>>
    BY <1>1, <1>4, <2>1, Zenon DEF Consume, Tables
  <2>3. QED
    BY <1>1, <2>2, Zenon DEF Tables
<1>5. CASE Bind(c)
  <2>1. calls[c].session \in Session /\ calls[c].arg.did \in Did /\ calls[c].arg.value \in Nat
    <3>1. Held(c, "verify") /\ calls[c].op # "none"
      BY <1>5, SMT DEF Bind, Held
    <3>2. calls[c].arg.did \in Did /\ calls[c].arg.value \in 1 .. issued
      BY <3>1, Zenon DEF ProofsBurnt, Burnt
    <3>3. QED
      BY <1>1, <1>2, <3>1, <3>2, SMT DEF Tables
  <2>2. UNCHANGED <<store, rooms, troubles>>
    BY <1>5, Zenon DEF Bind
  <2>3. CASE UNCHANGED <<bindings, proofs>>
    BY <1>1, <2>2, <2>3, Zenon DEF Tables
  <2>4. CASE /\ BindSession(calls[c].session, calls[c].arg.did)
             /\ proofs' = Append(proofs, [session |-> calls[c].session, did |-> calls[c].arg.did,
                                          value |-> calls[c].arg.value])
    <3>1. [session |-> calls[c].session, did |-> calls[c].arg.did, value |-> calls[c].arg.value] \in ProofSet
      BY <2>1, Zenon DEF ProofSet
    <3>2. proofs' \in Seq(ProofSet)
      BY <1>1, <2>4, <3>1, AppendProperties, Zenon DEF Tables
    <3>3. session_dids' \in Seq(Pair) /\ session_baselines' \in [Session -> Nat \cup {-1}]
      BY <2>1, <2>4, BindingKept, Zenon
    <3>4. QED
      BY <1>1, <2>2, <3>2, <3>3, Zenon DEF Tables
  <2>5. QED
    BY <1>5, <2>3, <2>4, Zenon DEF Bind
<1>6. CASE ReadBaseline(c) \/ CheckRequest(c) \/ Poll(c)
  <2>1. UNCHANGED <<store, bindings, rooms, proofs, troubles>>
    BY <1>6, Zenon DEF ReadBaseline, CheckRequest, Poll
  <2>2. QED
    BY <1>1, <2>1, Zenon DEF Tables
<1>7. CASE StoreBaseline(c)
  <2>1. /\ session_baselines' = [session_baselines EXCEPT ![calls[c].session] = calls[c].reply]
        /\ UNCHANGED <<store, session_dids, rooms, proofs, troubles>>
    BY <1>7, Zenon DEF StoreBaseline
  <2>2. calls[c].reply \in Nat
    BY <1>1, <1>7, Zenon DEF CallTyped, StoreBaseline, Held
  <2>3. session_baselines' \in [Session -> Nat \cup {-1}]
    BY <1>1, <2>1, <2>2, Zenon DEF Tables
  <2>4. QED
    BY <1>1, <2>1, <2>3, Zenon DEF Tables
<1>8. CASE Forward(c)
  <2>1. UNCHANGED <<store, bindings, cursor, answers, proofs, troubles>>
    BY <1>8, Zenon DEF Forward
  <2>2. CASE forwarded' = forwarded
    BY <1>1, <2>1, <2>2, Zenon DEF Tables
  <2>3. CASE forwarded' = Append(forwarded, [session |-> calls[c].session, did |-> calls[c].arg.did,
                job |-> calls[c].arg.job, check |-> calls[c].arg.check, after |-> calls[c].arg.after])
    <3>1. Held(c, "request") /\ calls[c].op = "request" /\ calls[c].op # "none"
      BY <1>8, SMT DEF Forward, Held
    <3>2. calls[c].arg.did \in Did
      <4>1. PICK i \in DOMAIN proofs : proofs[i].did = calls[c].arg.did
        BY <3>1, Zenon DEF RequestsAdmitted, ProvedBy
      <4>2. proofs[i] \in ProofSet
        BY <1>1, <4>1, ElementOfSeq, LenProperties, Zenon DEF Tables
      <4>3. QED
        BY <4>1, <4>2, SMT DEF ProofSet
    <3>3. calls[c].arg.check \in Check /\ calls[c].arg.job \in Nat /\ calls[c].arg.after \in Nat
      BY <1>1, <3>1, Zenon DEF CallTyped
    <3>4. [session |-> calls[c].session, did |-> calls[c].arg.did, job |-> calls[c].arg.job,
           check |-> calls[c].arg.check, after |-> calls[c].arg.after] \in ForwardSet
      BY <1>2, <3>1, <3>2, <3>3, Zenon DEF ForwardSet
    <3>5. forwarded' \in Seq(ForwardSet)
      BY <1>1, <2>3, <3>4, AppendProperties, Zenon DEF Tables
    <3>6. QED
      BY <1>1, <2>1, <3>5, Zenon DEF Tables
  <2>4. QED
    BY <1>8, <2>2, <2>3, Zenon DEF Forward
<1>9. QED
  BY <1>3, <1>4, <1>5, <1>6, <1>7, <1>8, Zenon DEF Serve

\* So does the environment, and a Technocore that accepts and answers.
LEMMA EnvironmentTables ==
    ASSUME WebTyped, Environment PROVE Tables'
<1> USE DEF store, bindings, rooms
<1>1. Tables /\ Me \in Session
  BY TablesTyped, BrowserAssumption, Zenon
<1>2. ASSUME Trouble PROVE troubles' \in Nat
  BY <1>1, <1>2, SMT DEF Trouble, Tables
<1>3. ASSUME NEW s \in Session, NEW d \in Did, PeerProves(s, d) PROVE Tables'
  <2>1. /\ Trouble /\ issued' = issued + 1 /\ challenges' = Created(s, TRUE) /\ BindSession(s, d)
        /\ proofs' = Append(proofs, [session |-> s, did |-> d, value |-> issued + 1])
        /\ UNCHANGED rooms
    BY <1>3, Zenon DEF PeerProves
  <2>2. challenges' \subseteq ChallengeSet
    BY <2>1, ChallengeAdded, Zenon
  <2>3. session_dids' \in Seq(Pair) /\ session_baselines' \in [Session -> Nat \cup {-1}]
    BY <2>1, BindingKept, Zenon
  <2>4. issued + 1 \in Nat
    BY <1>1, SMT DEF Tables
  <2>5. [session |-> s, did |-> d, value |-> issued + 1] \in ProofSet
    BY <2>4, Zenon DEF ProofSet
  <2>6. proofs' \in Seq(ProofSet)
    BY <1>1, <2>1, <2>5, AppendProperties, Zenon DEF Tables
  <2>7. QED
    BY <1>1, <1>2, <2>1, <2>2, <2>3, <2>4, <2>6, Zenon DEF Tables
<1>4. CASE ChallengesAge
  <2>1. PICK x \in challenges, age \in 1 .. 2 :
           challenges' = {IF item.value <= x.value /\ item.age < age
                          THEN [item EXCEPT !.age = age] ELSE item : item \in challenges}
    BY <1>4, Zenon DEF ChallengesAge
  <2>2. \A item \in ChallengeSet : [item EXCEPT !.age = age] \in ChallengeSet
    <3>1. age \in 0 .. 2
      BY SMT
    <3>2. QED
      BY <3>1, Zenon DEF ChallengeSet
  <2>3. challenges' \subseteq ChallengeSet
    BY <1>1, <2>1, <2>2, Zenon DEF Tables
  <2>4. Trouble /\ UNCHANGED <<issued, bindings, rooms, proofs>>
    BY <1>4, Zenon DEF ChallengesAge
  <2>5. QED
    BY <1>1, <1>2, <2>3, <2>4, Zenon DEF Tables
<1>5. CASE Collected
  <2>1. Trouble /\ cursor' = cursor + 1 /\ UNCHANGED <<store, bindings, forwarded, answers, proofs>>
    BY <1>5, Zenon DEF Collected
  <2>2. cursor' \in Nat
    BY <1>1, <2>1, SMT DEF Tables
  <2>3. QED
    BY <1>1, <1>2, <2>1, <2>2, Zenon DEF Tables
<1>6. CASE OtherTab(Me)
  <2>1. /\ Trouble /\ session_baselines' = [session_baselines EXCEPT ![Me] = cursor]
        /\ UNCHANGED <<store, session_dids, rooms, proofs>>
    BY <1>6, Zenon DEF OtherTab
  <2>2. session_baselines' \in [Session -> Nat \cup {-1}]
    BY <1>1, <2>1, Zenon DEF Tables
  <2>3. QED
    BY <1>1, <1>2, <2>1, <2>2, Zenon DEF Tables
<1>7. CASE Restart
  <2>1. /\ Trouble /\ challenges' = {} /\ session_dids' = <<>>
        /\ session_baselines' = [s \in Session |-> -1] /\ UNCHANGED <<issued, rooms, proofs>>
    BY <1>7, Zenon DEF Restart
  <2>2. session_dids' \in Seq(Pair)
    BY <2>1, EmptySeq, Zenon
  <2>3. session_baselines' \in [Session -> Nat \cup {-1}]
    BY <2>1, Zenon
  <2>4. QED
    BY <1>1, <1>2, <2>1, <2>2, <2>3, Zenon DEF Tables
<1>8. CASE Work
  <2>1. PICK k \in DOMAIN forwarded, v \in Verdict :
           answers' = answers \cup {[did |-> forwarded[k].did, job |-> forwarded[k].job,
              check |-> forwarded[k].check, after |-> forwarded[k].after, seq |-> k, verdict |-> v]}
    BY <1>8, Zenon DEF Work
  <2>2. forwarded[k] \in ForwardSet /\ k \in Nat
    <3>1. forwarded \in Seq(ForwardSet) /\ DOMAIN forwarded = 1 .. Len(forwarded) /\ Len(forwarded) \in Nat
      BY <1>1, LenProperties, Zenon DEF Tables
    <3>2. forwarded[k] \in ForwardSet
      BY <3>1, ElementOfSeq, Zenon
    <3>3. QED
      BY <3>1, <3>2, SMT
  <2>3. /\ forwarded[k].did \in Did /\ forwarded[k].job \in Nat /\ forwarded[k].check \in Check
        /\ forwarded[k].after \in Nat
    BY <2>2, SMT DEF ForwardSet
  <2>4. answers' \subseteq Answers
    <3>1. [did |-> forwarded[k].did, job |-> forwarded[k].job, check |-> forwarded[k].check,
           after |-> forwarded[k].after, seq |-> k, verdict |-> v] \in Answers
      BY <2>2, <2>3, Zenon DEF Answers
    <3>2. QED
      BY <1>1, <2>1, <3>1 DEF Tables
  <2>5. cursor' = cursor + 1 /\ UNCHANGED <<store, bindings, forwarded, proofs, troubles>>
    BY <1>8, Zenon DEF Work
  <2>6. cursor' \in Nat
    BY <1>1, <2>5, SMT DEF Tables
  <2>7. QED
    BY <1>1, <2>4, <2>5, <2>6, Zenon DEF Tables
<1>9. CASE (\E c \in Flow \cup {Job} : CallFails(c)) \/ (\E f \in Flow : Resend(f, Again))
  <2>1. Trouble /\ UNCHANGED <<store, bindings, rooms, proofs>>
    BY <1>9, Zenon DEF CallFails, Resend
  <2>2. QED
    BY <1>1, <1>2, <2>1, Zenon DEF Tables
<1>10. QED
  BY <1>3, <1>4, <1>5, <1>6, <1>7, <1>8, <1>9, Zenon DEF Environment

\* A step that leaves the web process leaves its tables.
LEMMA PageTables ==
    ASSUME WebTyped, WebLeaves PROVE Tables'
BY TablesTyped, Zenon DEF Tables, WebLeaves, store, bindings, rooms

-----------------------------------------------------------------------------
(* A challenge proves once *)

\* A sequence that grows by an element.
LEMMA Appended ==
    ASSUME NEW S, NEW q \in Seq(S), NEW e \in S, NEW r, r = Append(q, e)
    PROVE  /\ Len(q) \in Nat /\ DOMAIN q = 1 .. Len(q) /\ DOMAIN r = 1 .. Len(q) + 1
           /\ \A i \in DOMAIN q : i \in DOMAIN r /\ r[i] = q[i]
           /\ \A i \in DOMAIN r : i \in DOMAIN q \/ i = Len(q) + 1
           /\ r[Len(q) + 1] = e /\ Len(q) + 1 \notin DOMAIN q
<1>1. Len(q) \in Nat /\ DOMAIN q = 1 .. Len(q)
  BY LenProperties
<1>2. /\ r \in Seq(S) /\ Len(r) = Len(q) + 1
      /\ \A i \in 1 .. Len(q) : r[i] = q[i]
      /\ r[Len(q) + 1] = e
  BY AppendProperties
<1>3. DOMAIN r = 1 .. Len(q) + 1
  BY <1>2, LenProperties
<1>4. QED
  BY <1>1, <1>2, <1>3, SMT

\* Every challenge of the store was there, and is used if it was, or is the new one.
ChallengesKept ==
    /\ issued' \in {issued, issued + 1}
    /\ \A item \in challenges' :
          \/ \E x \in challenges : item.value = x.value /\ (x.used => item.used)
          \/ item.value = issued + 1 /\ issued' = issued + 1

\* ChallengeStore loses, ages and spends challenges, and makes new ones
\* (worker/webapp.py:81-117).
LEMMA ChallengesKeep ==
    ASSUME WebTyped, CallsTyped, TypeOK, PageConsistent, [Next]_vars PROVE ChallengesKept
<1>1. Tables /\ Me \in Session
  BY TablesTyped, BrowserAssumption, Zenon
<1>2. ASSUME UNCHANGED store PROVE ChallengesKept
  BY <1>2, Zenon DEF store, ChallengesKept
<1>3. ASSUME NEW s \in Session, NEW used \in BOOLEAN, challenges' = Created(s, used), issued' = issued + 1
      PROVE  ChallengesKept
  <2> DEFINE new == [value |-> issued + 1, session |-> s, age |-> 0, used |-> used]
  <2>1. challenges' \subseteq challenges \cup {new}
    BY <1>3, ChallengeAdded, Zenon
  <2>2. new.value = issued + 1
    BY SMT
  <2>3. QED
    BY <1>3, <2>1, <2>2, Zenon DEF ChallengesKept
<1>4. ASSUME NEW c \in Caller, CreateChallenge(c) PROVE ChallengesKept
  <2>1. CallTyped(calls[c], cursor, answers)
    BY Zenon DEF CallsTyped
  <2>2. calls[c].op # "none"
    BY <1>4, SMT DEF CreateChallenge, Sent
  <2>3. calls[c].session \in Session
    BY <1>1, <2>1, <2>2, Zenon DEF CallTyped
  <2>4. QED
    BY <1>3, <1>4, <2>3, Zenon DEF CreateChallenge
<1>5. ASSUME NEW c \in Caller, Consume(c) PROVE ChallengesKept
  <2>1. issued' = issued /\ (challenges' = challenges \/ \E v : challenges' = Spent(v))
    BY <1>5, Zenon DEF Consume
  <2>2. \A x \in challenges : [x EXCEPT !.used = TRUE].value = x.value /\ [x EXCEPT !.used = TRUE].used
    BY <1>1, Zenon DEF Tables, ChallengeSet
  <2>3. \A v : \A item \in Spent(v) : \E x \in challenges : item = x \/ item = [x EXCEPT !.used = TRUE]
    BY Zenon DEF Spent
  <2>4. \A v : \A item \in Spent(v) : \E x \in challenges : item.value = x.value /\ (x.used => item.used)
    BY <2>2, <2>3, Zenon
  <2>5. QED
    BY <2>1, <2>4, Zenon DEF ChallengesKept
<1>6. CASE ChallengesAge
  <2>1. PICK x \in challenges, age \in 1 .. 2 :
           challenges' = {IF item.value <= x.value /\ item.age < age
                          THEN [item EXCEPT !.age = age] ELSE item : item \in challenges}
    BY <1>6, Zenon DEF ChallengesAge
  <2>2. \A i \in challenges : [i EXCEPT !.age = age].value = i.value /\ [i EXCEPT !.age = age].used = i.used
    BY <1>1, Zenon DEF Tables, ChallengeSet
  <2>3. \A item \in challenges' : \E i \in challenges : item = i \/ item = [i EXCEPT !.age = age]
    BY <2>1, Zenon
  <2>4. \A item \in challenges' : \E i \in challenges : item.value = i.value /\ (i.used => item.used)
    BY <2>2, <2>3, Zenon
  <2>5. issued' = issued
    BY <1>6, Zenon DEF ChallengesAge
  <2>6. QED
    BY <2>4, <2>5, Zenon DEF ChallengesKept
<1>7. CASE Restart
  BY <1>7, Zenon DEF Restart, ChallengesKept
<1>8. ASSUME NEW s \in Session, NEW d \in Did, PeerProves(s, d) PROVE ChallengesKept
  BY <1>3, <1>8, Zenon DEF PeerProves
<1>9. CASE PageNext \/ UNCHANGED vars
  BY <1>2, <1>9, PageFetches, Zenon DEF WebLeaves, vars, webVars, store
<1>10. CASE Server \/ Environment
  <2>1. ASSUME NEW c \in Caller, Bind(c) \/ ReadBaseline(c) \/ StoreBaseline(c) \/ CheckRequest(c)
                                 \/ Forward(c) \/ Poll(c)
        PROVE  UNCHANGED store
    BY <2>1, Zenon DEF Bind, ReadBaseline, StoreBaseline, CheckRequest, Forward, Poll
  <2>2. ASSUME Collected \/ OtherTab(Me) \/ Work \/ (\E c \in Flow \cup {Job} : CallFails(c))
               \/ (\E f \in Flow : Resend(f, Again))
        PROVE  UNCHANGED store
    BY <2>2, Zenon DEF Collected, OtherTab, Work, CallFails, Resend
  <2>3. CASE Server
    BY <1>2, <1>4, <1>5, <2>1, <2>3, Zenon DEF Server, Serve
  <2>4. CASE Environment
    BY <1>2, <1>6, <1>7, <1>8, <2>2, <2>4, Zenon DEF Environment
  <2>5. QED
    BY <1>10, <2>3, <2>4
<1>11. QED
  BY <1>9, <1>10, Zenon DEF Next, PageNext

\* What is burnt stays burnt.
LEMMA BurntKept ==
    ASSUME Tables, ChallengesKept, \A item \in challenges : item.value \in 1 .. issued
    PROVE  /\ \A v : Burnt(v, issued, challenges) => Burnt(v, issued', challenges')
           /\ \A item \in challenges' : item.value \in 1 .. issued'
<1>1. issued \in Nat /\ issued' \in {issued, issued + 1}
  BY Zenon DEF Tables, ChallengesKept
<1>2. \A v : v \in 1 .. issued => v \in 1 .. issued' /\ v # issued + 1
  BY <1>1, SMT
<1>3. issued + 1 \in 1 .. issued + 1
  BY <1>1, SMT
<1>4. ASSUME NEW v, Burnt(v, issued, challenges) PROVE Burnt(v, issued', challenges')
  BY <1>2, <1>4, Zenon DEF Burnt, ChallengesKept
<1>5. ASSUME NEW item \in challenges' PROVE item.value \in 1 .. issued'
  BY <1>2, <1>3, Zenon DEF ChallengesKept
<1>6. QED
  BY <1>4, <1>5

\* A thread that serves such a call served it before.
HeldKept(op) ==
    \A c \in Caller : calls'[c].op = op /\ calls'[c].stage = "held" => calls'[c] = calls[c]

\* Only verify-challenge makes a proof wait for its signature to be checked, and only
\* the checks of a request let it wait for Technocore (worker/webapp.py:294-310,348-364).
LEMMA HeldKeep ==
    ASSUME WebTyped, CallsTyped, TypeOK, PageConsistent, [Next]_vars
    PROVE  /\ CallsTyped'
           /\ HeldKept("verify") \/ \E c \in Caller : Consume(c)
           /\ HeldKept("request") \/ \E c \in Caller : CheckRequest(c)
<1>1. HoldsKept => HeldKept("verify") /\ HeldKept("request")
  BY Zenon DEF HoldsKept, HeldKept
<1>2. CASE PageNext
  BY <1>2, PageFetches, Zenon DEF HeldKept
<1>3. CASE Environment
  BY <1>1, <1>3, EnvironmentCalls, Zenon
<1>4. ASSUME NEW c \in Caller, Serve(c)
      PROVE  /\ CallsTyped'
             /\ HeldKept("verify") \/ Consume(c)
             /\ HeldKept("request") \/ CheckRequest(c)
  <2>1. CallsTyped' /\ (HoldsKept \/ Consume(c) \/ ReadBaseline(c) \/ CheckRequest(c))
    BY <1>4, ServerCalls, Zenon
  <2>2. ASSUME NEW op \in {"verify", "baseline", "request"}, calls[c].op = op,
               NEW stage, NEW r, Served(c, stage, r)
        PROVE  \A o : o # op => HeldKept(o)
    <3>1. calls'[c] = [op |-> calls[c].op, stage |-> stage, session |-> calls[c].session,
                       arg |-> calls[c].arg, reply |-> r]
      BY <2>2, ServedCall
    <3>2. calls'[c].op = op
      BY <2>2, <3>1, SMT
    <3>3. \A d \in Caller : d # c => calls'[d] = calls[d]
      BY <2>2, ServedCall, Zenon
    <3>4. QED
      BY <3>2, <3>3, Zenon DEF HeldKept
  <2>3. CASE Consume(c)
    <3>1. calls[c].op = "verify" /\ \E stage, r : Served(c, stage, r)
      BY <2>3, Serving, Zenon DEF Consume, Sent
    <3>2. HeldKept("request")
      BY <2>2, <3>1, SMT
    <3>3. QED
      BY <2>1, <2>3, <3>2
  <2>4. CASE ReadBaseline(c)
    <3>1. calls[c].op = "baseline" /\ \E stage, r : Served(c, stage, r)
      BY <2>4, Serving, Zenon DEF ReadBaseline, Sent
    <3>2. \A o : o # "baseline" => HeldKept(o)
      BY <2>2, <3>1, Zenon
    <3>3. HeldKept("request") /\ HeldKept("verify")
      BY <3>2
    <3>4. QED
      BY <2>1, <3>3
  <2>5. CASE CheckRequest(c)
    <3>1. calls[c].op = "request" /\ \E stage, r : Served(c, stage, r)
      BY <2>5, Serving, Zenon DEF CheckRequest, Sent
    <3>2. HeldKept("verify")
      BY <2>2, <3>1, SMT
    <3>3. QED
      BY <2>1, <2>5, <3>2
  <2>6. QED
    BY <1>1, <2>1, <2>3, <2>4, <2>5, Zenon
<1>5. CASE UNCHANGED vars
  <2>1. calls' = calls /\ cursor' = cursor /\ answers' = answers /\ cursor \in Nat
    BY <1>5, Zenon DEF vars, webVars, WebTyped
  <2>2. cursor' \in Nat /\ cursor <= cursor' /\ answers \subseteq answers'
    BY <2>1, SMT
  <2>3. CallsTyped'
    BY <2>1, <2>2, CallsStay, Zenon
  <2>4. QED
    BY <2>1, <2>3, Zenon DEF HeldKept
<1>6. QED
  BY <1>2, <1>3, <1>4, <1>5, Zenon DEF Next, PageNext, Server

\* Proofs are made by the browser and by other browsers.
LEMMA ProofsMade ==
    ASSUME TypeOK, PageConsistent, CallsTyped, [Next]_vars
    PROVE  \/ proofs' = proofs
           \/ \E c \in Caller :
                 /\ Bind(c)
                 /\ proofs' = Append(proofs, [session |-> calls[c].session,
                                 did |-> calls[c].arg.did, value |-> calls[c].arg.value])
           \/ \E s \in Session, d \in Did : PeerProves(s, d)
<1>1. CASE PageNext \/ UNCHANGED vars
  BY <1>1, PageFetches, Zenon DEF WebLeaves, vars, webVars
<1>2. ASSUME NEW c \in Caller, Serve(c)
      PROVE  \/ proofs' = proofs
             \/ /\ Bind(c)
                /\ proofs' = Append(proofs, [session |-> calls[c].session,
                                did |-> calls[c].arg.did, value |-> calls[c].arg.value])
  BY <1>2, Zenon DEF Serve, CreateChallenge, Consume, Bind, ReadBaseline, StoreBaseline, CheckRequest,
     Forward, Poll
<1>3. CASE Environment
  BY <1>3, Zenon DEF Environment, ChallengesAge, Collected, OtherTab, Restart, Work, CallFails, Resend
<1>4. QED
  BY <1>1, <1>2, <1>3, Zenon DEF Next, PageNext, Server

\* Without a new proof, nothing new is to be told apart.
LEMMA NoProofAdded ==
    ASSUME Tables, ProofsBurnt, ChallengeProvesOnce, ChallengesKept, HeldKept("verify"), proofs' = proofs
    PROVE  ProofsBurnt' /\ ChallengeProvesOnce'
<1>1. /\ \A w : Burnt(w, issued, challenges) => Burnt(w, issued', challenges')
      /\ \A item \in challenges' : item.value \in 1 .. issued'
  BY BurntKept, Zenon DEF ProofsBurnt
<1>2. \A i \in DOMAIN proofs' : Burnt(proofs'[i].value, issued', challenges')
  BY <1>1, Zenon DEF ProofsBurnt
<1>3. ASSUME NEW c \in Caller, calls'[c].op = "verify", calls'[c].stage = "held"
      PROVE  /\ calls'[c].arg.did \in Did /\ Burnt(calls'[c].arg.value, issued', challenges')
             /\ \A i \in DOMAIN proofs' : proofs'[i].value # calls'[c].arg.value
             /\ \A e \in Caller : e # c /\ calls'[e].op = "verify" /\ calls'[e].stage = "held" =>
                   calls'[e].arg.value # calls'[c].arg.value
  <2>1. calls'[c] = calls[c] /\ Held(c, "verify")
    BY <1>3, Zenon DEF HeldKept, Held
  <2>2. QED
    BY <1>1, <2>1, Zenon DEF ProofsBurnt, HeldKept, Held
<1>4. QED
  BY <1>1, <1>2, <1>3, Zenon DEF ProofsBurnt, ChallengeProvesOnce, Held

\* The challenge of a proof that is checked is spent, and nothing else that is
\* checked or proved has its value (worker/webapp.py:103-117,294-310).
LEMMA ConsumeOnce ==
    ASSUME Tables, CallsTyped, CallsTyped', ProofsBurnt, ChallengeProvesOnce, ChallengesKept,
           NEW c \in Caller, Consume(c)
    PROVE  ProofsBurnt' /\ ChallengeProvesOnce'
<1> DEFINE v == calls[c].arg.value
<1>1. /\ \A w : Burnt(w, issued, challenges) => Burnt(w, issued', challenges')
      /\ \A item \in challenges' : item.value \in 1 .. issued'
  BY BurntKept, Zenon DEF ProofsBurnt
<1>2. proofs' = proofs /\ issued' = issued /\ Sent(c, "verify")
  BY Zenon DEF Consume
<1>3. ASSUME HoldsKept PROVE ProofsBurnt' /\ ChallengeProvesOnce'
  <2>1. HeldKept("verify")
    BY <1>3, Zenon DEF HoldsKept, HeldKept
  <2>2. QED
    BY <1>2, <2>1, NoProofAdded
<1>4. CASE Refuse(c)
  <2>1. Served(c, "refused", None)
    BY <1>4, Serving, Zenon
  <2>2. HoldsKept
    BY <2>1, ServedKeeps, SMT
  <2>3. QED
    BY <1>3, <2>2
<1>5. CASE /\ Hold(c, None) /\ calls[c].arg.did # None /\ \E item \in challenges : Unused(item, v)
           /\ challenges' = Spent(v)
  <2>1. PICK item \in challenges : item.value = v /\ ~item.used
    BY <1>5, Zenon DEF Unused
  <2>2. v \in 1 .. issued
    BY <2>1, Zenon DEF ProofsBurnt
  <2>3. \A i \in challenges : [i EXCEPT !.used = TRUE].used /\ [i EXCEPT !.used = TRUE].value = i.value
    BY Zenon DEF Tables, ChallengeSet
  <2>4. \A i \in challenges' : i.value = v => i.used
    BY <1>5, <2>3, Zenon DEF Spent
  <2>5. Burnt(v, issued', challenges')
    BY <1>2, <2>2, <2>4, Zenon DEF Burnt
  <2>6. calls'[c] = [op |-> calls[c].op, stage |-> "held", session |-> calls[c].session,
                     arg |-> calls[c].arg, reply |-> None]
        /\ \A d \in Caller : d # c => calls'[d] = calls[d]
    BY <1>5, Serving, ServedCall
  <2>7. calls'[c].arg = calls[c].arg
    BY <2>6, SMT
  <2>8. calls[c].arg.did \in Did
    <3>1. CallTyped(calls[c], cursor, answers)
      BY Zenon DEF CallsTyped
    <3>2. QED
      BY <1>2, <1>5, <3>1, SMT DEF CallTyped, Sent, MaybeDid
  <2>9. /\ \A i \in DOMAIN proofs : proofs[i].value # v
        /\ \A d \in Caller : d # c /\ calls[d].op = "verify" /\ calls[d].stage = "held" =>
              calls[d].arg.value # v
    BY <2>1, Zenon DEF ProofsBurnt, Burnt, Held
  <2>10. ProofsBurnt'
    <3>1. ASSUME NEW d \in Caller, calls'[d].op = "verify", calls'[d].stage = "held"
          PROVE  /\ calls'[d].arg.did \in Did /\ Burnt(calls'[d].arg.value, issued', challenges')
                 /\ \A i \in DOMAIN proofs : proofs[i].value # calls'[d].arg.value
                 /\ \A e \in Caller : e # d /\ calls'[e].op = "verify" /\ calls'[e].stage = "held" =>
                       calls'[e].arg.value # calls'[d].arg.value
      <4>1. CASE d = c
        BY <2>5, <2>6, <2>7, <2>8, <2>9, <4>1, Zenon
      <4>2. CASE d # c
        BY <1>1, <2>6, <2>7, <2>9, <3>1, <4>2, ZenonT(60) DEF ProofsBurnt, Held
      <4>3. QED
        BY <4>1, <4>2
    <3>2. QED
      BY <1>1, <1>2, <3>1, Zenon DEF ProofsBurnt, Held
  <2>11. QED
    BY <1>2, <2>10, Zenon DEF ChallengeProvesOnce
<1>6. QED
  BY <1>4, <1>5, Zenon DEF Consume

\* A proof that is added has a value of its own.
LEMMA ProofAddedOnce ==
    ASSUME Tables, ProofsBurnt, ChallengeProvesOnce, ChallengesKept, HeldKept("verify"),
           NEW p \in ProofSet, proofs' = Append(proofs, p), Burnt(p.value, issued', challenges'),
           \A i \in DOMAIN proofs : proofs[i].value # p.value,
           \A c \in Caller : calls'[c].op = "verify" /\ calls'[c].stage = "held" =>
              calls'[c].arg.value # p.value
    PROVE  ProofsBurnt' /\ ChallengeProvesOnce'
<1>1. /\ \A w : Burnt(w, issued, challenges) => Burnt(w, issued', challenges')
      /\ \A item \in challenges' : item.value \in 1 .. issued'
  BY BurntKept, Zenon DEF ProofsBurnt
<1>2. proofs \in Seq(ProofSet)
  BY DEF Tables
<1>3. /\ \A i \in DOMAIN proofs : i \in DOMAIN proofs' /\ proofs'[i] = proofs[i]
      /\ \A i \in DOMAIN proofs' : i \in DOMAIN proofs \/ i = Len(proofs) + 1
      /\ proofs'[Len(proofs) + 1] = p
  BY <1>2, Appended
<1>4. ASSUME NEW i \in DOMAIN proofs', NEW j \in DOMAIN proofs', i # j
      PROVE  proofs'[i].value # proofs'[j].value
  BY <1>3, <1>4, Zenon DEF ChallengeProvesOnce
<1>5. \A i \in DOMAIN proofs' : Burnt(proofs'[i].value, issued', challenges')
  BY <1>1, <1>3, Zenon DEF ProofsBurnt
<1>6. ASSUME NEW c \in Caller, calls'[c].op = "verify", calls'[c].stage = "held"
      PROVE  /\ calls'[c].arg.did \in Did /\ Burnt(calls'[c].arg.value, issued', challenges')
             /\ \A i \in DOMAIN proofs' : proofs'[i].value # calls'[c].arg.value
             /\ \A e \in Caller : e # c /\ calls'[e].op = "verify" /\ calls'[e].stage = "held" =>
                   calls'[e].arg.value # calls'[c].arg.value
  <2>1. calls'[c] = calls[c] /\ Held(c, "verify")
    BY <1>6, Zenon DEF HeldKept, Held
  <2>2. \A i \in DOMAIN proofs' : proofs'[i].value # calls'[c].arg.value
    BY <1>3, <1>6, <2>1, ZenonT(60) DEF ProofsBurnt
  <2>3. QED
    BY <1>1, <2>1, <2>2, Zenon DEF ProofsBurnt, HeldKept, Held
<1>7. QED
  BY <1>1, <1>4, <1>5, <1>6, Zenon DEF ProofsBurnt, ChallengeProvesOnce, Held

\* Every step keeps the proofs apart.
LEMMA ProvesOnceStep ==
    ASSUME IInv, [Next]_vars PROVE ProofsBurnt' /\ ChallengeProvesOnce'
<1>1. /\ WebTyped /\ TypeOK /\ Tables /\ CallsTyped /\ PageConsistent /\ ProofsBurnt
      /\ ChallengeProvesOnce
  BY TablesTyped, Zenon DEF IInv, TypeOK
<1>2. ChallengesKept /\ CallsTyped' /\ (HeldKept("verify") \/ \E c \in Caller : Consume(c))
  BY <1>1, ChallengesKeep, HeldKeep, Zenon
<1>3. /\ \A w : Burnt(w, issued, challenges) => Burnt(w, issued', challenges')
      /\ \A item \in challenges' : item.value \in 1 .. issued'
  BY <1>1, <1>2, BurntKept, Zenon DEF ProofsBurnt
<1>4. CASE \E c \in Caller : Consume(c)
  BY <1>1, <1>2, <1>4, ConsumeOnce, Zenon
<1>5. CASE HeldKept("verify") /\ proofs' = proofs
  BY <1>1, <1>2, <1>5, NoProofAdded
<1>6. ASSUME HeldKept("verify"), NEW c \in Caller, Bind(c),
             proofs' = Append(proofs, [session |-> calls[c].session,
                          did |-> calls[c].arg.did, value |-> calls[c].arg.value])
      PROVE  ProofsBurnt' /\ ChallengeProvesOnce'
  <2> DEFINE p == [session |-> calls[c].session, did |-> calls[c].arg.did, value |-> calls[c].arg.value]
  <2>1. Held(c, "verify") /\ calls[c].op # "none" /\ calls[c].stage = "held"
    BY <1>6, SMT DEF Bind, Held
  <2>2. /\ calls[c].arg.did \in Did /\ Burnt(calls[c].arg.value, issued, challenges)
        /\ \A i \in DOMAIN proofs : proofs[i].value # calls[c].arg.value
        /\ \A d \in Caller : d # c /\ Held(d, "verify") => calls[d].arg.value # calls[c].arg.value
    BY <1>1, <2>1, Zenon DEF ProofsBurnt
  <2>3. calls[c].session \in Session
    <3>1. CallTyped(calls[c], cursor, answers)
      BY <1>1, Zenon DEF CallsTyped
    <3>2. QED
      BY <2>1, <3>1, BrowserAssumption, Zenon DEF CallTyped
  <2>4. calls[c].arg.value \in Nat
    BY <1>1, <2>2, SMT DEF Burnt, Tables
  <2>5. p \in ProofSet
    BY <2>2, <2>3, <2>4, Zenon DEF ProofSet
  <2>6. p.value = calls[c].arg.value
    BY SMT
  <2>7. calls'[c].stage # "held" /\ \A d \in Caller : d # c => calls'[d] = calls[d]
    <3>1. \E r : \E stage \in {"ok", "refused"} : Served(c, stage, r)
      BY <1>6, Serving, Zenon DEF Bind
    <3>2. PICK r : \E stage \in {"ok", "refused"} : Served(c, stage, r)
      BY <3>1, Zenon
    <3>3. PICK stage \in {"ok", "refused"} : Served(c, stage, r)
      BY <3>2
    <3>4. /\ calls'[c] = [op |-> calls[c].op, stage |-> stage, session |-> calls[c].session,
                          arg |-> calls[c].arg, reply |-> r]
          /\ \A d \in Caller : d # c => calls'[d] = calls[d]
      BY <1>1, <3>3, ServedCall
    <3>5. QED
      BY <3>4, SMT
  <2>8. \A d \in Caller : calls'[d].op = "verify" /\ calls'[d].stage = "held" =>
           calls'[d].arg.value # p.value
    BY <2>2, <2>6, <2>7, Zenon DEF Held
  <2>9. Burnt(p.value, issued', challenges') /\ \A i \in DOMAIN proofs : proofs[i].value # p.value
    BY <1>3, <2>2, <2>6, Zenon
  <2>10. QED
    BY <1>1, <1>2, <1>6, <2>5, <2>8, <2>9, ProofAddedOnce, Zenon
<1>7. ASSUME HeldKept("verify"), NEW s \in Session, NEW d \in Did, PeerProves(s, d)
      PROVE  ProofsBurnt' /\ ChallengeProvesOnce'
  <2> DEFINE p == [session |-> s, did |-> d, value |-> issued + 1]
             new == [value |-> issued + 1, session |-> s, age |-> 0, used |-> TRUE]
  <2>1. /\ issued' = issued + 1 /\ challenges' = Created(s, TRUE) /\ proofs' = Append(proofs, p)
    BY <1>7, Zenon DEF PeerProves
  <2>2. issued \in Nat /\ issued + 1 \in Nat /\ issued + 1 \in 1 .. issued + 1
    BY <1>1, SMT DEF Tables
  <2>3. \A v : v \in 1 .. issued => v # issued + 1
    BY <2>2, SMT
  <2>4. p \in ProofSet
    BY <2>2, Zenon DEF ProofSet
  <2>5. p.value = issued + 1 /\ new.used
    BY SMT
  <2>6. challenges' \subseteq challenges \cup {new}
    BY <1>1, <2>1, ChallengeAdded, Zenon
  <2>7. Burnt(p.value, issued', challenges')
    BY <1>1, <2>1, <2>2, <2>3, <2>5, <2>6, Zenon DEF Burnt, ProofsBurnt
  <2>8. \A i \in DOMAIN proofs : proofs[i].value # p.value
    BY <1>1, <2>3, <2>5, Zenon DEF ProofsBurnt, Burnt
  <2>9. \A c \in Caller : calls'[c].op = "verify" /\ calls'[c].stage = "held" =>
           calls'[c].arg.value # p.value
    BY <1>1, <1>7, <2>3, <2>5, Zenon DEF ProofsBurnt, Burnt, HeldKept, Held
  <2>10. QED
    BY <1>1, <1>2, <1>7, <2>1, <2>4, <2>7, <2>8, <2>9, ProofAddedOnce, Zenon
<1>8. QED
  BY <1>1, <1>2, <1>4, <1>5, <1>6, <1>7, ProofsMade, Zenon

-----------------------------------------------------------------------------
(* Only what is proved is forwarded *)

\* Few steps touch the bindings, the rooms and the proofs.
LEMMA StepKinds ==
    ASSUME TypeOK, PageConsistent, CallsTyped, [Next]_vars
    PROVE  \/ UNCHANGED <<bindings, rooms, proofs>>
           \/ \E c \in Caller : Bind(c) \/ StoreBaseline(c) \/ Forward(c)
           \/ Work \/ Collected \/ OtherTab(Me) \/ Restart
           \/ \E s \in Session, d \in Did : PeerProves(s, d)
<1>1. CASE PageNext \/ UNCHANGED vars
  BY <1>1, PageFetches, Zenon DEF WebLeaves, vars, webVars, bindings, rooms
<1>2. ASSUME NEW c \in Caller, Serve(c)
      PROVE  UNCHANGED <<bindings, rooms, proofs>> \/ Bind(c) \/ StoreBaseline(c) \/ Forward(c)
  BY <1>2, Zenon DEF Serve, CreateChallenge, Consume, ReadBaseline, CheckRequest, Poll
<1>3. CASE Environment
  BY <1>3, Zenon DEF Environment, ChallengesAge, CallFails, Resend
<1>4. QED
  BY <1>1, <1>2, <1>3, Zenon DEF Next, PageNext, Server

\* ProvedBy after the step.
Proven(s, d) == \E i \in DOMAIN proofs' : proofs'[i].session = s /\ proofs'[i].did = d
ProofsGrow == \A i \in DOMAIN proofs : i \in DOMAIN proofs' /\ proofs'[i] = proofs[i]
BaselinesReached ==
    \A t \in Session : session_baselines'[t] \in {session_baselines[t], -1} \/ session_baselines'[t] <= cursor'
BindingsProved ==
    \A i \in DOMAIN session_dids' :
        \/ \E j \in DOMAIN session_dids : session_dids'[i] = session_dids[j]
        \/ Proven(session_dids'[i][1], session_dids'[i][2])
ForwardsAdmitted ==
    \/ forwarded' = forwarded
    \/ \E r \in ForwardSet : /\ forwarded' = Append(forwarded, r)
                             /\ r.session = Me /\ ProvedBy(Me, r.did) /\ r.after <= cursor

\* A binding is made with its proof (worker/webapp.py:254-262,294-310).
LEMMA BindProves ==
    ASSUME Tables, WebTyped, NEW s \in Session, NEW d \in Did, NEW v \in Nat, BindSession(s, d),
           proofs' = Append(proofs, [session |-> s, did |-> d, value |-> v])
    PROVE  ProofsGrow /\ BaselinesReached /\ BindingsProved
<1> DEFINE p == [session |-> s, did |-> d, value |-> v]
<1>1. p \in ProofSet /\ proofs \in Seq(ProofSet)
  BY Zenon DEF ProofSet, Tables
<1>2. /\ Len(proofs) + 1 \in DOMAIN proofs' /\ proofs'[Len(proofs) + 1] = p
      /\ \A i \in DOMAIN proofs : i \in DOMAIN proofs' /\ proofs'[i] = proofs[i]
  <2>1. /\ Len(proofs) \in Nat /\ DOMAIN proofs' = 1 .. Len(proofs) + 1
        /\ proofs'[Len(proofs) + 1] = p
        /\ \A i \in DOMAIN proofs : i \in DOMAIN proofs' /\ proofs'[i] = proofs[i]
    BY <1>1, Appended
  <2>2. QED
    BY <2>1, SMT
<1>3. p.session = s /\ p.did = d
  BY SMT
<1>4. /\ \A i \in DOMAIN session_dids' :
            session_dids'[i] = <<s, d>> \/ \E j \in DOMAIN session_dids : session_dids'[i] = session_dids[j]
      /\ \A t \in Session : session_baselines'[t] \in {session_baselines[t], -1}
  BY BindingKept, Zenon
<1>5. \A i \in DOMAIN session_dids' : session_dids'[i] = <<s, d>> =>
         session_dids'[i][1] = s /\ session_dids'[i][2] = d
  BY SMT
<1>6. BindingsProved
  BY <1>2, <1>3, <1>4, <1>5, Zenon DEF BindingsProved, Proven
<1>7. QED
  BY <1>2, <1>4, <1>6, Zenon DEF ProofsGrow, BaselinesReached

\* What a step may do to the bindings, the rooms and the proofs.
LEMMA TablesGrow ==
    ASSUME IInv, [Next]_vars
    PROVE  /\ cursor' \in Nat /\ cursor <= cursor' /\ answers \subseteq answers'
           /\ ProofsGrow /\ BaselinesReached /\ BindingsProved /\ ForwardsAdmitted
<1> USE DEF bindings, rooms, store
<1>1. /\ TypeOK /\ WebTyped /\ Tables /\ CallsTyped /\ PageConsistent /\ ProofsBurnt
      /\ RequestsAdmitted /\ Me \in Session
  BY TablesTyped, BrowserAssumption, Zenon DEF IInv, TypeOK
<1>2. cursor \in Nat /\ cursor <= cursor /\ cursor + 1 \in Nat /\ cursor <= cursor + 1
  BY <1>1, SMT DEF Tables
<1>3. ASSUME UNCHANGED proofs PROVE ProofsGrow
  BY <1>3, Zenon DEF ProofsGrow
<1>4. ASSUME UNCHANGED session_dids PROVE BindingsProved
  BY <1>4, Zenon DEF BindingsProved
<1>5. ASSUME UNCHANGED session_baselines PROVE BaselinesReached
  BY <1>5, Zenon DEF BaselinesReached
<1>6. CASE UNCHANGED <<bindings, rooms, proofs>>
  BY <1>2, <1>3, <1>4, <1>5, <1>6, Zenon DEF ForwardsAdmitted
<1>7. ASSUME NEW c \in Caller, Bind(c)
      PROVE  UNCHANGED rooms /\ ProofsGrow /\ BaselinesReached /\ BindingsProved
  <2>1. UNCHANGED rooms
    BY <1>7, Zenon DEF Bind
  <2>2. CASE UNCHANGED <<bindings, proofs>>
    BY <1>3, <1>4, <1>5, <2>1, <2>2, Zenon
  <2>3. CASE /\ BindSession(calls[c].session, calls[c].arg.did)
             /\ proofs' = Append(proofs, [session |-> calls[c].session, did |-> calls[c].arg.did,
                                          value |-> calls[c].arg.value])
    <3>1. Held(c, "verify") /\ calls[c].op # "none" /\ calls[c].stage = "held"
      BY <1>7, SMT DEF Bind, Held
    <3>2. calls[c].arg.did \in Did /\ calls[c].arg.value \in 1 .. issued
      BY <1>1, <3>1, Zenon DEF ProofsBurnt, Burnt
    <3>3. calls[c].arg.value \in Nat
      BY <1>1, <3>2, SMT DEF Tables
    <3>4. CallTyped(calls[c], cursor, answers)
      BY <1>1, Zenon DEF CallsTyped
    <3>5. calls[c].session \in Session
      BY <1>1, <3>1, <3>4, Zenon DEF CallTyped
    <3>6. QED
      BY <1>1, <2>1, <2>3, <3>2, <3>3, <3>5, BindProves, Zenon
  <2>4. QED
    BY <1>7, <2>2, <2>3, Zenon DEF Bind
<1>8. ASSUME NEW c \in Caller, StoreBaseline(c)
      PROVE  UNCHANGED <<rooms, proofs, session_dids>> /\ BaselinesReached
  <2>1. /\ UNCHANGED <<rooms, proofs, session_dids>> /\ Held(c, "baseline")
        /\ session_baselines' = [session_baselines EXCEPT ![calls[c].session] = calls[c].reply]
    BY <1>8, Zenon DEF StoreBaseline
  <2>2. CallTyped(calls[c], cursor, answers)
    BY <1>1, Zenon DEF CallsTyped
  <2>3. calls[c].reply <= cursor'
    BY <2>1, <2>2, Zenon DEF CallTyped, Held
  <2>4. session_baselines \in [Session -> Nat \cup {-1}]
    BY <1>1, Zenon DEF Tables
  <2>5. QED
    BY <2>1, <2>3, <2>4, Zenon DEF BaselinesReached
<1>9. ASSUME NEW c \in Caller, Forward(c)
      PROVE  UNCHANGED <<bindings, cursor, answers, proofs>> /\ ForwardsAdmitted
  <2> DEFINE r == [session |-> calls[c].session, did |-> calls[c].arg.did, job |-> calls[c].arg.job,
                   check |-> calls[c].arg.check, after |-> calls[c].arg.after]
  <2>1. UNCHANGED <<bindings, cursor, answers, proofs>> /\ Held(c, "request")
    BY <1>9, Zenon DEF Forward
  <2>2. calls[c].op = "request" /\ calls[c].op # "none" /\ CallTyped(calls[c], cursor, answers)
    BY <1>1, <2>1, SMT DEF CallsTyped, Held
  <2>3. calls[c].session = Me /\ calls[c].arg.check \in Check /\ calls[c].arg.job \in Nat /\ calls[c].arg.after \in Nat
    BY <2>2, Zenon DEF CallTyped
  <2>4. ProvedBy(Me, calls[c].arg.did) /\ calls[c].arg.after <= cursor
    BY <1>1, <2>1, Zenon DEF RequestsAdmitted
  <2>5. calls[c].arg.did \in Did
    <3>1. PICK i \in DOMAIN proofs : proofs[i].did = calls[c].arg.did
      BY <2>4, Zenon DEF ProvedBy
    <3>2. proofs[i] \in ProofSet
      BY <1>1, <3>1, ElementOfSeq, LenProperties, Zenon DEF Tables
    <3>3. QED
      BY <3>1, <3>2, SMT DEF ProofSet
  <2>6. r \in ForwardSet
    BY <1>1, <2>3, <2>5, Zenon DEF ForwardSet
  <2>7. r.session = Me /\ r.did = calls[c].arg.did /\ r.after = calls[c].arg.after
    BY <2>3, SMT
  <2>8. forwarded' = forwarded \/ forwarded' = Append(forwarded, r)
    BY <1>9, Zenon DEF Forward
  <2>9. QED
    BY <2>1, <2>4, <2>6, <2>7, <2>8, Zenon DEF ForwardsAdmitted
<1>10. CASE Work \/ Collected
  <2>1. /\ cursor' = cursor + 1 /\ answers \subseteq answers'
        /\ UNCHANGED <<bindings, proofs, forwarded>>
    BY <1>10, Zenon DEF Work, Collected
  <2>2. QED
    BY <1>2, <1>3, <1>4, <1>5, <2>1, Zenon DEF ForwardsAdmitted
<1>11. CASE OtherTab(Me)
  <2>1. /\ UNCHANGED <<rooms, proofs, session_dids>>
        /\ session_baselines' = [session_baselines EXCEPT ![Me] = cursor]
    BY <1>11, Zenon DEF OtherTab
  <2>2. session_baselines \in [Session -> Nat \cup {-1}]
    BY <1>1, Zenon DEF Tables
  <2>3. \A t \in Session : session_baselines'[t] = session_baselines[t] \/ session_baselines'[t] = cursor
    BY <2>1, <2>2, Zenon
  <2>4. BaselinesReached
    BY <1>2, <2>1, <2>3, Zenon DEF BaselinesReached
  <2>5. QED
    BY <1>2, <1>3, <1>4, <2>1, <2>4, Zenon DEF ForwardsAdmitted
<1>12. CASE Restart
  <2>1. /\ session_dids' = <<>> /\ session_baselines' = [s \in Session |-> -1]
        /\ UNCHANGED <<rooms, proofs>>
    BY <1>12, Zenon DEF Restart
  <2>2. DOMAIN session_dids' = {}
    BY <2>1, SMT
  <2>3. BindingsProved /\ BaselinesReached
    BY <2>1, <2>2, Zenon DEF BindingsProved, BaselinesReached
  <2>4. QED
    BY <1>2, <1>3, <2>1, <2>3, Zenon DEF ForwardsAdmitted
<1>13. ASSUME NEW s \in Session, NEW d \in Did, PeerProves(s, d)
       PROVE  UNCHANGED rooms /\ ProofsGrow /\ BaselinesReached /\ BindingsProved
  <2>1. /\ UNCHANGED rooms /\ BindSession(s, d)
        /\ proofs' = Append(proofs, [session |-> s, did |-> d, value |-> issued + 1])
    BY <1>13, Zenon DEF PeerProves
  <2>2. issued + 1 \in Nat
    BY <1>1, SMT DEF Tables
  <2>3. QED
    BY <1>1, <2>1, <2>2, BindProves, Zenon
<1>14. QED
  <2>1. UNCHANGED rooms => /\ cursor' \in Nat /\ cursor <= cursor' /\ answers \subseteq answers'
                           /\ ForwardsAdmitted
    BY <1>2, Zenon DEF ForwardsAdmitted
  <2>2. ASSUME NEW c \in Caller, Bind(c) \/ StoreBaseline(c) \/ Forward(c)
        PROVE  /\ cursor' \in Nat /\ cursor <= cursor' /\ answers \subseteq answers'
               /\ ProofsGrow /\ BaselinesReached /\ BindingsProved /\ ForwardsAdmitted
    BY <1>2, <1>3, <1>4, <1>5, <1>7, <1>8, <1>9, <2>1, <2>2, Zenon
  <2>3. QED
    BY <1>1, <1>6, <1>10, <1>11, <1>12, <1>13, <2>1, <2>2, StepKinds, Zenon

\* What is admitted and forwarded has been proved, whatever happens.
LEMMA ForwardedStep ==
    ASSUME IInv, [Next]_vars PROVE RequestsAdmitted' /\ ForwardedUnderProof'
<1>1. /\ TypeOK /\ WebTyped /\ Tables /\ CallsTyped /\ PageConsistent /\ RequestsAdmitted
      /\ ForwardedUnderProof
  BY TablesTyped, Zenon DEF IInv, TypeOK
<1>2. /\ cursor \in Nat /\ cursor' \in Nat /\ cursor <= cursor'
      /\ ProofsGrow /\ BaselinesReached /\ BindingsProved /\ ForwardsAdmitted
  BY <1>1, TablesGrow, Zenon DEF Tables
<1>3. \A s, d : ProvedBy(s, d) => Proven(s, d)
  BY <1>2, Zenon DEF ProvedBy, Proven, ProofsGrow
<1>4. ASSUME NEW t \in Session PROVE session_baselines'[t] <= cursor'
  <2>1. session_baselines[t] <= cursor /\ session_baselines[t] \in Nat \cup {-1}
    BY <1>1, Zenon DEF RequestsAdmitted, Tables
  <2>2. session_baselines'[t] = session_baselines[t] \/ session_baselines'[t] = -1
        \/ session_baselines'[t] <= cursor'
    BY <1>2, Zenon DEF BaselinesReached
  <2>3. QED
    BY <1>2, <2>1, <2>2, SMT
<1>5. \A i \in DOMAIN session_dids' : Proven(session_dids'[i][1], session_dids'[i][2])
  <2>1. ASSUME NEW i \in DOMAIN session_dids', NEW j \in DOMAIN session_dids,
               session_dids'[i] = session_dids[j]
        PROVE  Proven(session_dids'[i][1], session_dids'[i][2])
    BY <1>1, <1>3, <2>1, Zenon DEF ForwardedUnderProof
  <2>2. QED
    BY <1>2, <2>1, Zenon DEF BindingsProved
<1>6. \A k \in DOMAIN forwarded' :
         /\ forwarded'[k].session = Me /\ forwarded'[k].after <= cursor'
         /\ Proven(forwarded'[k].session, forwarded'[k].did)
  <2>1. ASSUME NEW k \in DOMAIN forwarded
        PROVE  /\ forwarded[k].session = Me /\ forwarded[k].after <= cursor'
               /\ Proven(forwarded[k].session, forwarded[k].did)
    <3>1. forwarded[k].session = Me /\ forwarded[k].after <= cursor
      BY <1>1, Zenon DEF ForwardedUnderProof, RequestsAdmitted
    <3>2. forwarded[k].after \in Nat
      <4>1. forwarded[k] \in ForwardSet
        BY <1>1, ElementOfSeq, LenProperties, Zenon DEF Tables
      <4>2. QED
        BY <4>1, SMT DEF ForwardSet
    <3>3. forwarded[k].after <= cursor'
      BY <1>2, <3>1, <3>2, SMT
    <3>4. QED
      BY <1>1, <1>3, <3>1, <3>3, Zenon DEF ForwardedUnderProof
  <2>2. CASE forwarded' = forwarded
    BY <2>1, <2>2, Zenon
  <2>3. ASSUME NEW r \in ForwardSet, forwarded' = Append(forwarded, r), r.session = Me,
               ProvedBy(Me, r.did), r.after <= cursor, NEW k \in DOMAIN forwarded'
        PROVE  /\ forwarded'[k].session = Me /\ forwarded'[k].after <= cursor'
               /\ Proven(forwarded'[k].session, forwarded'[k].did)
    <3>1. /\ \A i \in DOMAIN forwarded : forwarded'[i] = forwarded[i]
          /\ k \in DOMAIN forwarded \/ k = Len(forwarded) + 1
          /\ forwarded'[Len(forwarded) + 1] = r
      <4>1. forwarded \in Seq(ForwardSet)
        BY <1>1, Zenon DEF Tables
      <4>2. QED
        BY <2>3, <4>1, Appended
    <3>2. r.after <= cursor'
      <4>1. r.after \in Nat
        BY SMT DEF ForwardSet
      <4>2. QED
        BY <1>2, <2>3, <4>1, SMT
    <3>3. CASE k \in DOMAIN forwarded
      BY <2>1, <3>1, <3>3, Zenon
    <3>4. CASE k = Len(forwarded) + 1
      BY <1>3, <2>3, <3>1, <3>2, <3>4, Zenon
    <3>5. QED
      BY <3>1, <3>3, <3>4, Zenon
  <2>4. QED
    BY <1>2, <2>2, <2>3, Zenon DEF ForwardsAdmitted
<1>7. ASSUME NEW c \in Caller, calls'[c].op = "request", calls'[c].stage = "held"
      PROVE  Proven(Me, calls'[c].arg.did) /\ calls'[c].arg.after <= cursor'
  <2>1. CallTyped(calls[c], cursor, answers)
    BY <1>1, Zenon DEF CallsTyped
  <2>2. ASSUME calls'[c] = calls[c]
        PROVE  Proven(Me, calls'[c].arg.did) /\ calls'[c].arg.after <= cursor'
    <3>1. Held(c, "request")
      BY <1>7, <2>2, Zenon DEF Held
    <3>2. ProvedBy(Me, calls[c].arg.did) /\ calls[c].arg.after <= cursor
      BY <1>1, <3>1, Zenon DEF RequestsAdmitted
    <3>3. calls[c].arg.after \in Nat
      BY <2>1, <3>1, Zenon DEF CallTyped, Held
    <3>4. calls[c].arg.after <= cursor'
      BY <1>2, <3>2, <3>3, SMT
    <3>5. QED
      BY <1>3, <2>2, <3>2, <3>4, Zenon
  <2>3. CASE HeldKept("request")
    BY <1>7, <2>2, <2>3, Zenon DEF HeldKept
  <2>4. ASSUME NEW e \in Caller, CheckRequest(e)
        PROVE  Proven(Me, calls'[c].arg.did) /\ calls'[c].arg.after <= cursor'
    <3>1. \E stage \in {"held", "refused"} : Served(e, stage, None)
      BY <2>4, Serving, Zenon DEF CheckRequest
    <3>2. CASE e # c
      BY <1>1, <2>2, <3>1, <3>2, ServedCall, Zenon
    <3>3. CASE e = c
      <4>1. calls'[c].arg = calls[c].arg /\ (Refuse(c) => calls'[c].stage = "refused")
        <5>1. PICK stage \in {"held", "refused"} : Served(e, stage, None)
          BY <3>1
        <5>2. calls'[c] = [op |-> calls[c].op, stage |-> stage, session |-> calls[c].session,
                           arg |-> calls[c].arg, reply |-> None]
          BY <1>1, <3>3, <5>1, ServedCall
        <5>3. ASSUME Refuse(c) PROVE calls'[c].stage = "refused"
          <6>1. Served(c, "refused", None)
            BY <5>3, Serving, Zenon
          <6>2. calls'[c] = [op |-> calls[c].op, stage |-> "refused", session |-> calls[c].session,
                             arg |-> calls[c].arg, reply |-> None]
            BY <1>1, <6>1, ServedCall
          <6>3. QED
            BY <6>2, SMT
        <5>4. QED
          BY <5>2, <5>3, SMT
      <4>2. Admitted(calls[c].session, calls[c].arg)
        BY <1>7, <2>4, <3>3, <4>1, Zenon DEF CheckRequest
      <4>3. calls[c].op = "request" /\ calls[c].op # "none"
        BY <2>4, <3>3, SMT DEF CheckRequest, Sent
      <4>4. calls[c].session = Me /\ Me \in Session
        BY <2>1, <4>3, BrowserAssumption, Zenon DEF CallTyped
      <4>5. ProvedBy(Me, calls[c].arg.did)
        <5>1. PICK i \in DOMAIN session_dids : session_dids[i] = <<Me, calls[c].arg.did>>
          BY <4>2, <4>4, Zenon DEF Admitted, Proved
        <5>2. session_dids[i][1] = Me /\ session_dids[i][2] = calls[c].arg.did
          BY <5>1, SMT
        <5>3. QED
          BY <1>1, <5>2, Zenon DEF ForwardedUnderProof
      <4>6. calls[c].arg.after <= cursor /\ calls[c].arg.after \in Nat
        BY <1>1, <2>1, <4>2, <4>3, <4>4, Zenon DEF Admitted, RequestsAdmitted, CallTyped
      <4>7. calls'[c].arg.after <= cursor'
        BY <1>2, <4>1, <4>6, SMT
      <4>8. QED
        BY <1>3, <4>1, <4>5, <4>7, Zenon
    <3>4. QED
      BY <3>2, <3>3
  <2>5. QED
    BY <1>1, <2>3, <2>4, HeldKeep, Zenon
<1>8. RequestsAdmitted'
  BY <1>4, <1>6, <1>7, Zenon DEF RequestsAdmitted, Held, ProvedBy, Proven
<1>9. ForwardedUnderProof'
  BY <1>5, <1>6, Zenon DEF ForwardedUnderProof, ProvedBy, Proven
<1>10. QED
  BY <1>8, <1>9

-----------------------------------------------------------------------------
(* A receipt tells what the worker answered *)

\* Handlers leave the receipt, drop it or show an answer to their job
\* (web/app.js:73-79,99-124,134).
LEMMA ReceiptsShown ==
    ASSUME WebTyped, CallsTyped, PageConsistent, CallsUnderWay, [Next]_vars
    PROVE  \/ currentReceipt' \in {currentReceipt, None}
           \/ \E a \in answers : a \in Answers /\ ShowResult(a) /\ Expected(a) /\ job.check \in Check
<1>1. ASSUME NEW f \in Flow, FlowStep(f) PROVE UNCHANGED currentReceipt
  BY <1>1, Zenon DEF FlowStep, KeyReady, Named, Exported, Imported, SignChallenge, SendProof, ProofAnswered,
     ControlFails
<1>2. ASSUME BaselineAnswered \/ SendRequest \/ RequestAnswered \/ StartPoll \/ PollAgain \/ JobFails
      PROVE  UNCHANGED currentReceipt
  BY <1>2, Zenon DEF BaselineAnswered, SendRequest, RequestAnswered, StartPoll, PollAgain, JobFails
<1>3. CASE PollAnswered
  BY <1>2, <1>3, ResultShown, Zenon
<1>4. CASE Visit
  BY <1>4, Zenon DEF Visit, ClickCreate, ClickImport, ClickDownload, ClickUseAnother, ClickCheckAnother,
     PageHide, Submit
<1>5. CASE UNCHANGED page \/ UNCHANGED vars
  BY <1>5, Zenon DEF page, vars
<1>6. QED
  BY <1>1, <1>2, <1>3, <1>4, <1>5, Zenon DEF Next, JobStep

\* The requests that Technocore accepted, and the answers, stay
\* (worker/webapp.py:348-379).
LEMMA AnswersGrow ==
    ASSUME IInv, [Next]_vars
    PROVE  /\ \A k \in DOMAIN forwarded : k \in DOMAIN forwarded' /\ forwarded'[k] = forwarded[k]
           /\ answers \subseteq answers'
           /\ \A a \in answers' \ answers :
                 a.seq \in DOMAIN forwarded /\ a.did = forwarded[a.seq].did /\ a.check = forwarded[a.seq].check
<1>1. /\ TypeOK /\ PageConsistent /\ CallsTyped /\ forwarded \in Seq(ForwardSet)
  BY TablesTyped, Zenon DEF IInv, TypeOK, Tables
<1>2. answers \subseteq answers' /\ ForwardsAdmitted
  BY TablesGrow, Zenon
<1>3. \A k \in DOMAIN forwarded : k \in DOMAIN forwarded' /\ forwarded'[k] = forwarded[k]
  <2>1. ASSUME NEW r \in ForwardSet, forwarded' = Append(forwarded, r)
        PROVE  \A k \in DOMAIN forwarded : k \in DOMAIN forwarded' /\ forwarded'[k] = forwarded[k]
    BY <1>1, <2>1, Appended
  <2>2. QED
    BY <1>2, <2>1, Zenon DEF ForwardsAdmitted
<1>4. CASE Work
  <2>1. PICK k \in DOMAIN forwarded, v \in Verdict :
           answers' = answers \cup {[did |-> forwarded[k].did, job |-> forwarded[k].job,
              check |-> forwarded[k].check, after |-> forwarded[k].after, seq |-> k, verdict |-> v]}
    BY <1>4, Zenon DEF Work
  <2> DEFINE r == [did |-> forwarded[k].did, job |-> forwarded[k].job, check |-> forwarded[k].check,
                   after |-> forwarded[k].after, seq |-> k, verdict |-> v]
  <2>2. r.seq = k /\ r.did = forwarded[k].did /\ r.check = forwarded[k].check
    BY SMT
  <2>3. \A a \in answers' \ answers : a = r
    BY <2>1, Zenon
  <2>4. QED
    BY <1>2, <1>3, <2>2, <2>3, Zenon
<1>5. CASE ~Work
  <2>1. answers' = answers
    BY <1>1, <1>5, StepKinds, Zenon DEF rooms, Bind, StoreBaseline, Forward, Collected, OtherTab, Restart,
       PeerProves
  <2>2. QED
    BY <1>2, <1>3, <2>1, Zenon
<1>6. QED
  BY <1>4, <1>5

\* Every receipt is vouched for, whatever happens.
LEMMA VouchedStep ==
    ASSUME IInv, [Next]_vars PROVE AnswersBacked' /\ ReceiptVouched'
<1>1. /\ WebTyped /\ CallsTyped /\ PageConsistent /\ CallsUnderWay /\ RequestsAdmitted
      /\ AnswersBacked /\ ReceiptVouched
  BY Zenon DEF IInv, TypeOK
<1>2. /\ \A k \in DOMAIN forwarded : k \in DOMAIN forwarded' /\ forwarded'[k] = forwarded[k]
      /\ answers \subseteq answers'
      /\ \A a \in answers' \ answers :
            a.seq \in DOMAIN forwarded /\ a.did = forwarded[a.seq].did /\ a.check = forwarded[a.seq].check
  BY AnswersGrow, Zenon
<1>3. AnswersBacked'
  BY <1>1, <1>2, Zenon DEF AnswersBacked
<1>4. CASE currentReceipt' = currentReceipt
  BY <1>1, <1>2, <1>3, <1>4, Zenon DEF ReceiptVouched
<1>5. CASE currentReceipt' = None
  BY <1>3, <1>5, Zenon DEF ReceiptVouched
<1>6. ASSUME NEW a \in answers, ShowResult(a), Expected(a) PROVE ReceiptVouched'
  <2> DEFINE r == [did |-> a.did, check |-> job.check, seq |-> a.seq, shareable |-> Safe(a.verdict)]
  <2>1. currentReceipt' = r
    BY <1>6, Zenon DEF ShowResult
  <2>2. /\ r.did = a.did /\ r.check = job.check /\ r.seq = a.seq
        /\ r.shareable => Safe(a.verdict)
    BY Zenon
  <2>3. a.check = job.check
    BY <1>6, Zenon DEF Expected
  <2>4. /\ a.seq \in DOMAIN forwarded /\ a.did = forwarded[a.seq].did /\ a.check = forwarded[a.seq].check
        /\ forwarded[a.seq].session = Me
    BY <1>1, <1>6, Zenon DEF AnswersBacked, RequestsAdmitted
  <2>5. /\ r.seq \in DOMAIN forwarded' /\ forwarded'[r.seq].session = Me
        /\ forwarded'[r.seq].did = r.did /\ forwarded'[r.seq].check = r.check
    BY <1>2, <2>2, <2>3, <2>4, Zenon
  <2>6. /\ a \in answers' /\ a.seq = r.seq
        /\ r.shareable => a.verdict.repository = "CONFIRMED" /\ a.verdict.commit = "CONFIRMED"
    BY <1>2, <1>6, <2>2, Zenon DEF Safe
  <2>7. QED
    BY <2>1, <2>5, <2>6, Zenon DEF ReceiptVouched
<1>7. QED
  BY <1>1, <1>3, <1>4, <1>5, <1>6, ReceiptsShown, Zenon

-----------------------------------------------------------------------------
(* The theorems *)

\* The invariant holds at the start.
LEMMA InitInv == Init => IInv
<1>1. SUFFICES ASSUME Init PROVE IInv
  OBVIOUS
<1>2. /\ challenges = {} /\ issued = 0 /\ proofs = <<>> /\ session_dids = <<>>
      /\ session_baselines = [s \in Session |-> -1] /\ cursor = 0 /\ forwarded = <<>> /\ answers = {}
      /\ calls = [c \in Caller |-> NoCall] /\ troubles = 0
  BY <1>1, Zenon DEF Init, WebInit
<1>3. /\ privateKey = None /\ did = None /\ downloaded = FALSE /\ pem = None /\ controlProved = FALSE
      /\ shown = {"setup", "form"} /\ flows = [f \in Flow |-> NoFlow] /\ job = NoJob
      /\ currentReceipt = None /\ jobs = 0 /\ clicks = 0
  BY <1>1, Zenon DEF Init
<1>4. DOMAIN proofs = {} /\ DOMAIN session_dids = {} /\ DOMAIN forwarded = {}
  BY <1>2, SMT
<1>5. NoCall.op = "none" /\ NoCall.stage = "ok" /\ \A c \in Caller : calls[c] = NoCall
  BY <1>2, SMT DEF NoCall
<1>6. CallsTyped
  <2>1. CallTyped(NoCall, cursor, answers)
    BY SMT DEF NoCall, CallTyped
  <2>2. QED
    BY <1>2, <2>1, Zenon DEF CallsTyped
<1>7. WebTyped
  <2>1. Tables
    <3>1. 0 \in Nat
      BY SMT
    <3>2. session_baselines \in [Session -> Nat \cup {-1}]
      BY <1>2, Zenon
    <3>3. proofs \in Seq(ProofSet) /\ session_dids \in Seq(Pair) /\ forwarded \in Seq(ForwardSet)
      BY <1>2, EmptySeq, Zenon
    <3>4. QED
      BY <1>2, <3>1, <3>2, <3>3, Zenon DEF Tables
  <2>2. QED
    BY <1>6, <2>1, TablesTyped, Zenon
<1>8. PageTyped
  <2>1. NoFlow \in FlowSet
    BY Zenon DEF NoFlow, FlowSet, MaybeDid
  <2>2. NoJob \in JobSet
    <3>1. 0 \in Nat
      BY SMT
    <3>2. QED
      BY <3>1, Zenon DEF NoJob, JobSet, MaybeDid
  <2>3. {"setup", "form"} \subseteq Parts /\ 0 \in Nat
    BY SMT DEF Parts
  <2>4. QED
    BY <1>3, <2>1, <2>2, <2>3, Zenon DEF PageTyped, MaybeDid
<1>9. ProofsBurnt /\ ChallengeProvesOnce
  <2>1. \A c \in Caller : ~Held(c, "verify")
    BY <1>5, SMT DEF Held
  <2>2. QED
    BY <1>2, <1>4, <2>1, Zenon DEF ProofsBurnt, ChallengeProvesOnce
<1>10. RequestsAdmitted /\ ForwardedUnderProof
  <2>1. \A c \in Caller : ~Held(c, "request")
    BY <1>5, SMT DEF Held
  <2>2. \A s \in Session : session_baselines[s] <= cursor
    BY <1>2, SMT
  <2>3. QED
    BY <1>4, <2>1, <2>2, Zenon DEF RequestsAdmitted, ForwardedUnderProof
<1>11. AnswersBacked /\ ReceiptVouched
  BY <1>2, <1>3, Zenon DEF AnswersBacked, ReceiptVouched
<1>12. job.stage = "idle" /\ \A f \in Flow : flows[f].stage = "idle"
  BY <1>3, SMT DEF NoJob, NoFlow
<1>13. PageConsistent
  BY <1>3, <1>12, SMT DEF PageConsistent
<1>14. CallsUnderWay
  BY <1>12, SMT DEF CallsUnderWay, Waits
<1>15. QED
  BY <1>6, <1>7, <1>8, <1>9, <1>10, <1>11, <1>13, <1>14, Zenon DEF IInv, TypeOK

\* The web process and the page stay well typed, and the page consistent.
LEMMA ShapeStep ==
    ASSUME IInv, [Next]_vars PROVE TypeOK' /\ CallsTyped' /\ PageConsistent' /\ CallsUnderWay'
<1>1. /\ TypeOK /\ WebTyped /\ PageTyped /\ CallsTyped /\ PageConsistent /\ CallsUnderWay
      /\ ProofsBurnt /\ RequestsAdmitted /\ ForwardedUnderProof
  BY Zenon DEF IInv, TypeOK
<1>2. CallsTyped'
  BY <1>1, HeldKeep, Zenon
<1>3. Tables' => WebTyped'
  <2>1. Tables' /\ CallsTyped' => WebTyped'
    BY TablesTyped, PTL
  <2>2. QED
    BY <1>2, <2>1
<1>4. CASE PageNext
  <2>1. Tables' /\ PageConsistent' /\ CallsUnderWay'
    BY <1>1, <1>4, PageFetches, PageTables, PageShown, PageWaits, Zenon
  <2>2. PageTyped'
    BY <1>1, <1>4, FlowTyped, JobTyped, VisitTyped, Zenon DEF PageNext
  <2>3. QED
    BY <1>2, <1>3, <2>1, <2>2, Zenon DEF TypeOK
<1>5. ASSUME UNCHANGED page PROVE PageTyped' /\ PageConsistent'
  BY <1>1, <1>5, Zenon DEF page, identity, PageTyped, PageConsistent
<1>6. CASE WebNext
  <2>1. OpsKept
    BY <1>1, <1>6, ServerCalls, EnvironmentCalls, Zenon DEF WebNext, Server
  <2>2. CallsUnderWay' /\ PageTyped' /\ PageConsistent'
    BY <1>1, <1>5, <1>6, <2>1, WaitsKept, Zenon DEF WebNext
  <2>3. Tables'
    BY <1>1, <1>6, ServerTables, EnvironmentTables, Zenon DEF WebNext, Server
  <2>4. QED
    BY <1>2, <1>3, <2>2, <2>3, Zenon DEF TypeOK
<1>7. CASE UNCHANGED vars
  <2>1. UNCHANGED page /\ calls' = calls
    BY <1>7, Zenon DEF vars, webVars
  <2>2. OpsKept
    BY <2>1, Zenon DEF OpsKept
  <2>3. Tables
    BY <1>1, TablesTyped, Zenon
  <2>4. Tables'
    BY <1>7, <2>3, Zenon DEF Tables, vars, webVars
  <2>5. QED
    BY <1>1, <1>2, <1>3, <1>5, <2>1, <2>2, <2>4, WaitsKept, Zenon DEF TypeOK
<1>8. QED
  BY <1>4, <1>6, <1>7, Zenon DEF Next, PageNext, WebNext

\* Every step keeps the invariant.
LEMMA StepInv == IInv /\ [Next]_vars => IInv'
BY ShapeStep, ProvesOnceStep, ForwardedStep, VouchedStep, Zenon DEF IInv

\* The inductive invariant of the page and the web process holds in every state.
THEOREM Invariance == Spec => []IInv
BY InitInv, StepInv, PTL DEF Spec

\* Every variable of the page and of the web process keeps its type.
THEOREM TypeCorrect == Spec => []TypeOK
<1>1. IInv => TypeOK
  BY Zenon DEF IInv
<1>2. QED
  BY <1>1, Invariance, PTL

\* A session is bound to a DID, and a request forwarded, only after the session has
\* proved the DID, with any number of sessions, identities and challenges
\* (worker/webapp.py:281-310,348-364).
THEOREM Forwarded == Spec => []ForwardedUnderProof
<1>1. IInv => ForwardedUnderProof
  BY Zenon DEF IInv
<1>2. QED
  BY <1>1, Invariance, PTL

\* No challenge proves anything twice, whatever the size of the store
\* (worker/webapp.py:99-117).
THEOREM ProvesOnce == Spec => []ChallengeProvesOnce
<1>1. IInv => ChallengeProvesOnce
  BY Zenon DEF IInv
<1>2. QED
  BY <1>1, Invariance, PTL

\* A receipt tells what the worker answered to this page's request, with any number
\* of flows and jobs (web/app.js:99-134, web/protocol.js:53-62).
THEOREM Vouched == Spec => []ReceiptVouched
<1>1. IInv => ReceiptVouched
  BY Zenon DEF IInv
<1>2. QED
  BY <1>1, Invariance, PTL

\* Nobody waits for a call that is not there (web/app.js:49-51,86-88,140).
THEOREM UnderWay == Spec => []CallsUnderWay
<1>1. IInv => CallsUnderWay
  BY Zenon DEF IInv
<1>2. QED
  BY <1>1, Invariance, PTL

\* There is always something the visitor can do (web/app.js:54-79,114,135).
THEOREM GoesOn == Spec => []NoDeadEnd
<1>1. IInv => NoDeadEnd
  <2>1. PageConsistent => NoDeadEnd
    BY Zenon DEF PageConsistent, NoDeadEnd, Idle, CanSetUp, Form, validateContribution
  <2>2. QED
    BY <2>1, Zenon DEF IInv
<1>2. QED
  BY <1>1, Invariance, PTL
=============================================================================

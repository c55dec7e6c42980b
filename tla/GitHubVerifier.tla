-------------------------- MODULE GitHubVerifier --------------------------
(***************************************************************************)
(* The verification of one contribution (worker/github.py): up to three    *)
(* requests to the GitHub API, for the repository, the commit and the tree *)
(* of its files, each of which may be redirected once.  Between any two    *)
(* requests repositories are renamed, created, hidden and pushed to.       *)
(*                                                                         *)
(* External: a name leads to the repository that bears it, or else by a    *)
(* redirect to the one that last did; a repository that is not visible, or *)
(* not there, is not told apart from one that is private.                  *)
(***************************************************************************)
EXTENDS Integers, FiniteSets

CONSTANTS
    Name, Repo,
    Asked,          \* the name in the request
    Nobody,         \* no name, no repository
    MaxChanges      \* bound: changes on GitHub, and failures

ASSUME VerifierAssumption ==
    /\ Asked \in Name /\ Nobody \notin Name \cup Repo /\ MaxChanges \in Nat

VARIABLES
    owner, former,       \* which repository bears a name, or last did
    reachable, holds,       \* the visible repositories; those that hold the commit
    tree,                \* the file asked for, in the tree of the commit
    stage, target, hop,  \* the request under way: what is asked of whom, redirected or not
    full_name,           \* repo["full_name"]
    checks,              \* the Verification, or none
    changes,
    led, bore,           \* history: where a name led, and who bore it, since the start
    lacked,              \* history: the repositories without the commit at the start
    failed               \* history: GitHub failed to answer, or to answer well

github == <<owner, former, reachable, holds, tree>>
history == <<led, bore, lacked, failed>>
verifierVars == <<github, stage, target, hop, full_name, checks, changes, history>>

NoChecks == [repository |-> "none", commit |-> "none", file |-> "none"]
LedTo(n, o, f, p) ==
    IF o[n] \in p THEN o[n] ELSE IF o[n] = Nobody /\ f[n] \in p THEN f[n] ELSE Nobody
Facts(o, f, p) == {<<n, LedTo(n, o, f, p)>> : n \in Name}
Bearers(o) == {<<n, o[n]>> : n \in Name}

VerifierInit ==
    /\ owner \in [Name -> Repo \cup {Nobody}] /\ former = [n \in Name |-> Nobody]
    /\ \A n, m \in Name : n # m /\ owner[n] # Nobody => owner[n] # owner[m]
    /\ reachable = Repo /\ holds \in SUBSET Repo
    /\ tree \in [asked : BOOLEAN, file : {"listed", "cut off", "absent"}]
    /\ stage = "repository" /\ target = [name |-> Asked, id |-> Nobody] /\ hop = 0
    /\ full_name = Nobody /\ checks = NoChecks /\ changes = 0
    /\ led = Facts(owner, former, reachable) /\ bore = Bearers(owner) /\ lacked = Repo \ holds /\ failed = FALSE

-----------------------------------------------------------------------------
(* verify: what becomes of an answer *)

Done(repository, commit, file) ==
    /\ checks' = [repository |-> repository, commit |-> commit, file |-> file]
    /\ stage' = "done" /\ UNCHANGED <<target, hop, full_name>>

\* _failure
Failure(status) == IF status = 404 THEN "NOT_FOUND" ELSE "UNAVAILABLE"

\* An answer other than 200 settles the check it was for.
Status(status) ==
    \/ stage = "repository" /\ Done(Failure(status), "NOT_CHECKED", "NOT_CHECKED")
    \/ stage = "commit" /\ Done("CONFIRMED", Failure(status), "NOT_CHECKED")
    \/ stage = "tree" /\ Done("CONFIRMED", "CONFIRMED", Failure(status))

\* except: whatever was confirmed is dropped.
Boundary == Done("UNAVAILABLE", "NOT_CHECKED", "NOT_CHECKED")

\* Mutant: the file is missed in a tree that was cut off.
WholeTree(file) == IF file = "listed" THEN "CONFIRMED" ELSE "NOT_FOUND"
FileCheck(file) ==
    IF file = "listed" THEN "CONFIRMED" ELSE IF file = "cut off" THEN "UNAVAILABLE" ELSE "NOT_FOUND"

Ask(what, n) ==
    /\ stage' = what /\ target' = [name |-> n, id |-> Nobody] /\ hop' = 0 /\ UNCHANGED checks

\* The answer 200 about r, which bears the name n.
Ok(r, n) ==
    \/ stage = "repository" /\ full_name' = n /\ Ask("commit", n)
    \/ /\ stage = "commit" /\ r \in holds
       /\ \/ tree.asked /\ Ask("tree", full_name) /\ UNCHANGED full_name
          \/ ~tree.asked /\ Done("CONFIRMED", "CONFIRMED", "NOT_CHECKED")
    \/ stage = "tree" /\ r \in holds /\ Done("CONFIRMED", "CONFIRMED", FileCheck(tree.file))

-----------------------------------------------------------------------------
(* HTTPSGetter: GitHub's answers *)

Bears(r) == {n \in Name : owner[n] = r}
Reached(r) == r # Nobody /\ r \in reachable
Direct == IF target.id # Nobody THEN target.id ELSE owner[target.name]

\* The request is answered by the repository it names.
Found == Reached(Direct) /\ \E n \in Bears(Direct) : Ok(Direct, n)

\* A commit that the repository lacks is unprocessable (422) or not found.
NoCommit ==
    /\ Reached(Direct) /\ stage # "repository" /\ Direct \notin holds
    /\ \E status \in {404, 422} : Status(status)

\* A renamed repository: one redirect is followed, to the place of the repository.
Redirect ==
    /\ target.id = Nobody /\ owner[target.name] = Nobody /\ Reached(former[target.name])
    /\ hop = 0 /\ hop' = 1 /\ target' = [target EXCEPT !.id = former[target.name]]
    /\ UNCHANGED <<stage, full_name, checks>>

\* Nothing visible: not found, or a repository that says it is private.
Missing ==
    /\ ~Reached(Direct)
    /\ target.id # Nobody \/ owner[target.name] # Nobody \/ ~Reached(former[target.name])
    /\ \/ Status(404)
       \/ stage = "repository" /\ Done("NOT_FOUND", "NOT_CHECKED", "NOT_CHECKED")

\* A rate limit or an error of the server; or no answer, one too large, malformed,
\* about another commit, or redirected out of bounds.
Fails == failed' = TRUE /\ ((\E status \in {403, 500} : Status(status)) \/ Boundary)

Answered ==
    /\ stage # "done"
    /\ \/ (Found \/ NoCommit \/ Redirect \/ Missing) /\ UNCHANGED <<failed, changes>>
       \/ Fails /\ changes < MaxChanges /\ changes' = changes + 1
    /\ UNCHANGED <<github, led, bore, lacked>>

-----------------------------------------------------------------------------
(* The world goes on *)

Free(n) == owner[n] = Nobody
Renamed(n, m) ==
    /\ owner[n] # Nobody /\ Free(m)
    /\ owner' = [owner EXCEPT ![n] = Nobody, ![m] = owner[n]]
    /\ former' = [former EXCEPT ![n] = owner[n], ![m] = Nobody]
    /\ UNCHANGED <<reachable, holds>>
Created(n, r) ==
    /\ Free(n) /\ \A m \in Name : owner[m] # r
    /\ owner' = [owner EXCEPT ![n] = r]
    /\ former' = [m \in Name |-> IF m = n \/ former[m] = r THEN Nobody ELSE former[m]]
    /\ UNCHANGED <<reachable, holds>>
Hidden(r) == reachable' = reachable \ {r} /\ UNCHANGED <<owner, former, holds>>
Pushed(r) == holds' = holds \cup {r} /\ UNCHANGED <<owner, former, reachable>>

WorldChanges ==
    /\ stage # "done" /\ changes < MaxChanges /\ changes' = changes + 1
    /\ \/ \E n, m \in Name : Renamed(n, m)
       \/ \E n \in Name, r \in Repo : Created(n, r)
       \/ \E r \in Repo : Hidden(r) \/ Pushed(r)
    /\ led' = led \cup Facts(owner', former', reachable') /\ bore' = bore \cup Bearers(owner')
    /\ UNCHANGED <<tree, lacked, stage, target, hop, full_name, checks, failed>>

VerifierNext == Answered \/ WorldChanges

VerifierSpec == VerifierInit /\ [][VerifierNext]_verifierVars

-----------------------------------------------------------------------------
\* Every part of a verdict was true on GitHub at some time while it was found, also
\* when repositories are renamed and names are taken over between the requests: a
\* confirmed repository was where the name asked for led and bore the name that is
\* reported; a confirmed commit was in a repository that this name led to; a file is
\* confirmed or found missing in the tree of that commit, and never missed because
\* the tree was cut off; and "unavailable" is said only when GitHub failed or did not
\* tell (worker/github.py:127-238).
VerdictBacked ==
    LET hidden == Repo \ reachable
        Led(n, rs) == \E r \in rs : <<n, r>> \in led
    IN stage = "done" =>
       /\ checks.repository = "CONFIRMED" =>
             \E r \in Repo : <<Asked, r>> \in led /\ <<full_name, r>> \in bore
       /\ checks.repository = "NOT_FOUND" => Led(Asked, hidden \cup {Nobody})
       /\ checks.repository = "UNAVAILABLE" => failed
       /\ checks.commit = "CONFIRMED" => checks.repository = "CONFIRMED" /\ Led(full_name, holds)
       /\ checks.commit = "NOT_FOUND" => Led(full_name, lacked \cup hidden \cup {Nobody})
       /\ checks.commit = "UNAVAILABLE" => failed \/ Led(full_name, lacked)
       /\ checks.file = "CONFIRMED" => checks.commit = "CONFIRMED" /\ tree.file = "listed"
       /\ checks.file = "NOT_FOUND" =>
             tree.file = "absent" \/ Led(full_name, lacked \cup hidden \cup {Nobody})
       /\ checks.file = "UNAVAILABLE" => failed \/ tree.file = "cut off" \/ Led(full_name, lacked)

Outcomes == {"none", "CONFIRMED", "NOT_FOUND", "UNAVAILABLE", "NOT_CHECKED"}
Anyone == Repo \cup {Nobody}
VerifierTypeOK ==
    /\ owner \in [Name -> Anyone] /\ former \in [Name -> Anyone]
    /\ reachable \subseteq Repo /\ holds \subseteq Repo /\ lacked \subseteq Repo
    /\ tree \in [asked : BOOLEAN, file : {"listed", "cut off", "absent"}]
    /\ stage \in {"repository", "commit", "tree", "done"} /\ hop \in {0, 1}
    /\ target \in [name : Name, id : Anyone] /\ full_name \in Name \cup {Nobody}
    /\ checks \in [repository : Outcomes, commit : Outcomes, file : Outcomes]
    /\ changes \in Nat /\ failed \in BOOLEAN
    /\ led \subseteq Name \X Anyone /\ bore \subseteq Name \X Anyone

\* The history knows the present.
HistoryKept ==
    /\ Facts(owner, former, reachable) \subseteq led /\ Bearers(owner) \subseteq bore
    /\ Repo \ holds \subseteq lacked

\* Whom a request is about: the name asked for, then the name that its answer bore.
RequestBacked ==
    /\ target.id # Nobody => <<target.name, target.id>> \in led
    /\ stage = "repository" => target.name = Asked
    /\ stage \in {"commit", "tree"} =>
          /\ full_name \in Name /\ target.name = full_name
          /\ \E r \in Repo : <<Asked, r>> \in led /\ <<full_name, r>> \in bore
    /\ stage = "tree" => \E r \in holds : <<full_name, r>> \in led

\* What holds in every reachable state and is preserved by every step.
VerifierInv == VerifierTypeOK /\ HistoryKept /\ RequestBacked /\ VerdictBacked
=============================================================================

------------------------------ MODULE JobLedger ------------------------------
(***************************************************************************)
(* What the worker promises its requesters, whatever the network does: a   *)
(* requester and job id get one answer, fixed when the job is claimed; the *)
(* answer is published at least once; when the job is settled the answer   *)
(* has been published, and it is not published again.                      *)
(***************************************************************************)
CONSTANTS Key,         \* pairs of a requester and a job id
          Answer,      \* what can be answered
          Place        \* where an answer can be published

VARIABLES claims,      \* the answer of each claimed key: a set of pairs
          settled,     \* the keys that are done with
          published    \* publications: [at, key, answer]

ledgerVars == <<claims, settled, published>>

Init == claims = {} /\ settled = {} /\ published = {}

Claim(k, a) ==
    /\ \A c \in claims : c[1] # k
    /\ claims' = claims \cup {<<k, a>>}
    /\ UNCHANGED <<settled, published>>

Publish(k, a, place) ==
    /\ <<k, a>> \in claims
    /\ k \notin settled
    /\ \A p \in published : p.at # place
    /\ published' = published \cup {[at |-> place, key |-> k, answer |-> a]}
    /\ UNCHANGED <<claims, settled>>

Settle(k) ==
    /\ \E p \in published : p.key = k
    /\ settled' = settled \cup {k}
    /\ UNCHANGED <<claims, published>>

Next == \E k \in Key :
           \/ \E a \in Answer : Claim(k, a) \/ \E place \in Place : Publish(k, a, place)
           \/ Settle(k)

Spec == Init /\ [][Next]_ledgerVars
=============================================================================

---------------------------- MODULE RateLimiter ----------------------------
(***************************************************************************)
(* RateLimiter of the web process (worker/webapp.py): for every client and *)
(* bucket the start of a window and a count, in a dict that drops the      *)
(* oldest window when it is full.  allow reads the clock before it takes   *)
(* the lock, so the requests of other threads may come in between.         *)
(***************************************************************************)
EXTENDS Integers, FiniteSets

CONSTANTS
    Client,       \* pairs of a client and a bucket
    MaxKeys,      \* max_keys: 4096
    Limit,        \* limit of the bucket
    Window,       \* window: 60 seconds
    MaxDelay,     \* bound: how long a thread waits between the clock and the lock
    MaxTime,      \* bound: the clock
    MaxRequests   \* bound: requests of one key

ASSUME RateLimiterAssumption ==
    MaxKeys \in Nat \ {0} /\ Limit \in Nat \ {0} /\ Window \in Nat \ {0}
    /\ MaxDelay \in 0 .. Window - 1 /\ MaxTime \in Nat /\ MaxRequests \in Nat

VARIABLES
    now,           \* the monotonic clock
    items,         \* _items: [key, started, count]
    allowed,       \* history: every request of a key that was allowed, by the time read,
                   \* and as which of its window it was counted
    refused,       \* history: the latest refusal, or none
    evicted        \* history: keys that were dropped

limiterVars == <<now, items, allowed, refused, evicted>>
Of(k) == {a \in allowed : a.key = k}
Within(k, from, to) == Cardinality({a \in Of(k) : a.at \in from .. to})
NoRefusal == [key |-> "none", at |-> 0]

LimiterInit ==
    /\ now = 0 /\ items = {} /\ allowed = {} /\ refused = NoRefusal /\ evicted = {}

\* Mutant: the count outlives its window.
NeverOver(started, at) == FALSE
WindowOver(started, at) == at - started >= Window

Entry(k, at) ==
    IF \E i \in items : i.key = k /\ ~WindowOver(i.started, at) THEN CHOOSE i \in items : i.key = k
    ELSE [key |-> k, started |-> at, count |-> 0]
Without(k) == {i \in items : i.key # k}

Admission(k, at, e) ==
    [key |-> k, nth |-> Cardinality(Of(k)) + 1, at |-> at, started |-> e.started, count |-> e.count + 1]

\* min over the windows' starts: of several, any may be the first of the dict.
Oldest(full) == {i \in full : \A j \in full : i.started <= j.started}

\* at is the time the thread read, not long ago.
Allow(k, at) ==
    /\ now - at <= MaxDelay
    /\ Cardinality(Of(k)) < MaxRequests
    /\ LET e == Entry(k, at)
           full == Without(k) \cup {[e EXCEPT !.count = @ + 1]}
       IN IF e.count >= Limit
          THEN refused' = [key |-> k, at |-> at] /\ UNCHANGED <<items, allowed, evicted>>
          ELSE /\ allowed' = allowed \cup {Admission(k, at, e)} /\ UNCHANGED refused
               /\ IF Cardinality(full) > MaxKeys
                  THEN \E i \in Oldest(full) : items' = full \ {i} /\ evicted' = evicted \cup {i.key}
                  ELSE items' = full /\ UNCHANGED evicted
    /\ UNCHANGED now

Tick == now < MaxTime /\ now' = now + 1 /\ UNCHANGED <<items, allowed, refused, evicted>>
LimiterNext == Tick \/ \E k \in Client, at \in 0 .. now : Allow(k, at)

LimiterSpec == LimiterInit /\ [][LimiterNext]_limiterVars

-----------------------------------------------------------------------------
\* Unless the full dict has dropped its key, a client gets fewer than twice the limit
\* in any 60 seconds, not only in those that start with a window of its own; and it
\* is refused only when it has had the limit within the last 60 seconds, whatever
\* other clients do: give or take the time a thread waits for the lock after it read
\* the clock (worker/webapp.py:149-163).
LimitHolds ==
    /\ \A k \in Client \ evicted, from \in 0 .. MaxTime : Within(k, from, from + Window - MaxDelay - 1) <= 2 * Limit - 1
    /\ refused # NoRefusal =>
         Within(refused.key, refused.at - Window + 1 - MaxDelay, refused.at + MaxDelay) >= Limit

LimiterTypeOK ==
    /\ now \in 0 .. MaxTime /\ evicted \subseteq Client
    /\ items \subseteq [key : Client, started : 0 .. now, count : 1 .. Limit]
    /\ allowed \subseteq [key : Client, nth : Nat, at : 0 .. now, started : 0 .. now, count : 1 .. Limit]
    /\ IsFiniteSet(allowed)
    /\ refused \in [key : Client \cup {"none"}, at : 0 .. now]

\* A window admits requests from a delay before it starts until it is over; the first
\* of them starts it.
InWindow ==
    \A a \in allowed :
        /\ a.at \in a.started - MaxDelay .. a.started + Window - 1
        /\ a.count = 1 => a.at = a.started

\* A key has one window in the dict, and all that the window counts was allowed.
Counted ==
    /\ \A i, j \in items : i.key = j.key => i = j
    /\ \A i \in items : \A c \in 1 .. i.count :
          \E a \in Of(i.key) : a.started = i.started /\ a.count = c

\* The windows of a key that was never dropped follow each other, the one in the dict
\* is the last, and each counts on from one.
Successive ==
    /\ \A a \in allowed : a.key \notin evicted =>
          \E i \in items : /\ i.key = a.key
                           /\ \/ a.started = i.started /\ a.count <= i.count
                              \/ i.started - a.started >= Window
    /\ \A a, b \in allowed : a.key = b.key /\ a.key \notin evicted =>
          \/ a.started - b.started >= Window \/ b.started - a.started >= Window
          \/ a.started = b.started /\ (a.count = b.count => a = b)

\* What holds in every reachable state and is preserved by every step.
LimiterInv ==
    LimiterTypeOK /\ InWindow /\ Counted /\ Successive
    /\ (refused # NoRefusal =>
          Within(refused.key, refused.at - Window + 1 - MaxDelay, refused.at + MaxDelay) >= Limit)
=============================================================================

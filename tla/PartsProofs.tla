----------------------------- MODULE PartsProofs -----------------------------
(* Theorems about the parts that stand alone: RateLimiter, for every number of  *)
(* clients, every limit, window and size of the dict, and every delay shorter   *)
(* than a window; GitHubVerifier, for all names and repositories, and any       *)
(* number of changes and failures between the requests; WalletPanel, for any    *)
(* number of wallets; HdKey, for groups of every order and whatever the hash    *)
(* is; and Algorithms, for all legal inputs.                                    *)
EXTENDS RateLimiter, GitHubVerifier, WalletPanel, Algorithms, Messages, FiniteSetTheorems,
        WellFoundedInduction, TLAPS

USE RateLimiterAssumption

-----------------------------------------------------------------------------
(* Counting *)

\* Of finitely many admissions, finitely many are of one key and one time.
LEMMA WithinFinite ==
    ASSUME IsFiniteSet(allowed), NEW k, NEW from, NEW to
    PROVE  /\ IsFiniteSet(Of(k)) /\ IsFiniteSet({a \in Of(k) : a.at \in from .. to})
           /\ Cardinality(Of(k)) \in Nat /\ Within(k, from, to) \in Nat
<1>1. Of(k) \subseteq allowed /\ {a \in Of(k) : a.at \in from .. to} \subseteq allowed
  BY DEF Of
<1>2. IsFiniteSet(Of(k)) /\ IsFiniteSet({a \in Of(k) : a.at \in from .. to})
  BY <1>1, FS_Subset
<1>3. QED
  BY <1>2, FS_CardinalityType DEF Within

\* There are as many numbers up to n, and one less without one of them.
LEMMA UpTo ==
    ASSUME NEW n \in Nat \ {0}, NEW v \in 1 .. n
    PROVE  /\ IsFiniteSet(1 .. n) /\ Cardinality(1 .. n) = n
           /\ IsFiniteSet((1 .. n) \ {v}) /\ Cardinality((1 .. n) \ {v}) = n - 1
<1>1. /\ IsFiniteSet(1 .. n)
      /\ Cardinality(1 .. n) = IF 1 > n THEN 0 ELSE n - 1 + 1
  <2>1. 1 \in Int /\ n \in Int
    OBVIOUS
  <2>2. QED
    BY <2>1, FS_Interval, Zenon
<1>2. Cardinality(1 .. n) = n
  BY <1>1, SMT
<1>3. /\ IsFiniteSet((1 .. n) \ {v})
      /\ Cardinality((1 .. n) \ {v}) = IF v \in 1 .. n THEN Cardinality(1 .. n) - 1 ELSE Cardinality(1 .. n)
  BY <1>1, FS_RemoveElement, Zenon
<1>4. QED
  BY <1>1, <1>2, <1>3

\* A key that has the limit's worth of admissions in an interval has them all there.
LEMMA AtLeast ==
    ASSUME IsFiniteSet(allowed), NEW k, NEW from, NEW to, NEW started,
           \A c \in 1 .. Limit : \E a \in Of(k) : a.started = started /\ a.count = c /\ a.at \in from .. to
    PROVE  Within(k, from, to) >= Limit
<1> DEFINE S == {a \in Of(k) : a.at \in from .. to}
           f == [c \in 1 .. Limit |-> CHOOSE a \in S : a.count = c]
<1>1. \A c \in 1 .. Limit : f[c] \in S /\ f[c].count = c
  <2>1. ASSUME NEW c \in 1 .. Limit
        PROVE  \E a \in S : a.count = c
    OBVIOUS
  <2>2. QED
    BY <2>1
<1>2. f \in Injection(1 .. Limit, S)
  BY <1>1 DEF Injection, IsInjective
<1>3. IsFiniteSet(S)
  <2>1. S \subseteq allowed
    BY DEF Of
  <2>2. QED
    BY <2>1, FS_Subset
<1>4. Cardinality(1 .. Limit) <= Cardinality(S)
  BY <1>2, <1>3, FS_Injection
<1>5. Cardinality(1 .. Limit) = Limit
  <2>1. 1 \in 1 .. Limit
    OBVIOUS
  <2>2. QED
    BY <2>1, UpTo, Zenon
<1>6. Cardinality(S) \in Nat
  BY <1>3, FS_CardinalityType
<1>7. QED
  BY <1>4, <1>5, <1>6 DEF Within

\* Admissions that differ by a number up to n, other than v, are at most n - 1.
LEMMA AtMost ==
    ASSUME NEW S, NEW n \in Nat \ {0}, NEW v \in 1 .. n, NEW f \in [S -> (1 .. n) \ {v}],
           \A a, b \in S : f[a] = f[b] => a = b
    PROVE  Cardinality(S) <= n - 1
<1>1. f \in Injection(S, (1 .. n) \ {v})
  BY DEF Injection, IsInjective
<1>2. Cardinality(S) <= Cardinality((1 .. n) \ {v})
  BY <1>1, UpTo, FS_Injection
<1>3. QED
  BY <1>2, UpTo

-----------------------------------------------------------------------------
(* Windows *)

\* The window that a request is counted in began by the time it was read or a delay
\* later at most, and is not over (worker/webapp.py:153-155).
LEMMA EntryIs ==
    ASSUME LimiterInv, NEW k \in Client, NEW at \in 0 .. now, now - at <= MaxDelay
    PROVE  \/ /\ Entry(k, at) \in items /\ Entry(k, at).key = k
              /\ at - Entry(k, at).started < Window
           \/ /\ Entry(k, at) = [key |-> k, started |-> at, count |-> 0]
              /\ \A i \in items : i.key = k => at - i.started >= Window
<1>1. CASE \E i \in items : i.key = k /\ ~WindowOver(i.started, at)
  <2>1. PICK i \in items : i.key = k /\ ~WindowOver(i.started, at)
    BY <1>1
  <2>2. \A j \in items : j.key = k => j = i
    BY <2>1 DEF LimiterInv, Counted
  <2>3. (CHOOSE j \in items : j.key = k) = i
    BY <2>1, <2>2
  <2>4. Entry(k, at) = i
    BY <1>1, <2>3 DEF Entry
  <2>5. i.started \in Nat
    BY <2>1 DEF LimiterInv, LimiterTypeOK
  <2>6. at - i.started < Window
    BY <2>1, <2>5 DEF WindowOver
  <2>7. QED
    BY <2>1, <2>4, <2>6
<1>2. CASE ~\E i \in items : i.key = k /\ ~WindowOver(i.started, at)
  BY <1>2 DEF Entry, WindowOver
<1>3. QED
  BY <1>1, <1>2

\* The windows that one interval can reach are two at most, and of two it reaches the
\* first request of one only.
LEMMA TwoWindows ==
    ASSUME LimiterInv, NEW k \in Client \ evicted, NEW from \in Int,
           NEW a \in Of(k), NEW b \in Of(k), NEW c \in Of(k),
           {a.at, b.at, c.at} \subseteq from .. from + Window - MaxDelay - 1
    PROVE  /\ a.started = b.started \/ b.started = c.started \/ a.started = c.started
           /\ a.count = 1 /\ b.count = 1 => a.started = b.started
<1>1. /\ {a, b, c} \subseteq allowed /\ a.key = k /\ b.key = k /\ c.key = k
      /\ k \notin evicted
  BY DEF Of
<1>2. /\ a.started \in Nat /\ b.started \in Nat /\ c.started \in Nat
      /\ a.at \in Nat /\ b.at \in Nat /\ c.at \in Nat
  BY <1>1 DEF LimiterInv, LimiterTypeOK
<1>3. /\ a.at >= a.started - MaxDelay /\ a.at <= a.started + Window - 1
      /\ b.at >= b.started - MaxDelay /\ b.at <= b.started + Window - 1
      /\ c.at >= c.started - MaxDelay /\ c.at <= c.started + Window - 1
      /\ a.count = 1 => a.at = a.started
      /\ b.count = 1 => b.at = b.started
  BY <1>1, <1>2 DEF LimiterInv, InWindow
<1>4. ASSUME NEW x \in Of(k), NEW y \in Of(k)
      PROVE  x.started - y.started >= Window \/ y.started - x.started >= Window \/ x.started = y.started
  BY <1>1 DEF LimiterInv, Successive, Of
<1>5. /\ a.started - b.started >= Window \/ b.started - a.started >= Window \/ a.started = b.started
      /\ b.started - c.started >= Window \/ c.started - b.started >= Window \/ b.started = c.started
      /\ a.started - c.started >= Window \/ c.started - a.started >= Window \/ a.started = c.started
  BY <1>4
<1>6. /\ a.at - b.at < Window - MaxDelay /\ b.at - a.at < Window - MaxDelay
      /\ b.at - c.at < Window - MaxDelay /\ c.at - b.at < Window - MaxDelay
      /\ a.at - c.at < Window - MaxDelay /\ c.at - a.at < Window - MaxDelay
  BY <1>2
<1>7. QED
  BY <1>2, <1>3, <1>5, <1>6

\* In an interval shorter than a window, by the delay at most, a key is allowed fewer
\* than twice the limit (worker/webapp.py:149-163).
LEMMA LessThanTwice ==
    ASSUME LimiterInv, NEW k \in Client \ evicted, NEW from \in Int
    PROVE  Within(k, from, from + Window - MaxDelay - 1) <= 2 * Limit - 1
<1> DEFINE S == {a \in Of(k) : a.at \in from .. from + Window - MaxDelay - 1}
<1>1. SUFFICES Cardinality(S) <= 2 * Limit - 1
  BY DEF Within
<1>2. ASSUME NEW a \in S
      PROVE  a \in Of(k) /\ a.at \in from .. from + Window - MaxDelay - 1 /\ a.count \in 1 .. Limit
             /\ a.started \in Nat
  BY DEF Of, LimiterInv, LimiterTypeOK
<1>3. ASSUME NEW a \in S, NEW b \in S, a.started = b.started, a.count = b.count
      PROVE  a = b
  BY <1>3, SMT DEF Of, LimiterInv, Successive, LimiterTypeOK
<1>4. ASSUME NEW a \in S, NEW b \in S, NEW c \in S
      PROVE  /\ a.started = b.started \/ b.started = c.started \/ a.started = c.started
             /\ a.count = 1 /\ b.count = 1 => a.started = b.started
  <2>1. {a.at, b.at, c.at} \subseteq from .. from + Window - MaxDelay - 1
    BY <1>2
  <2>2. QED
    BY <1>2, <2>1, TwoWindows
<1>5. CASE S = {}
  <2>1. Cardinality(S) = 0
    BY <1>5, FS_EmptySet, Zenon
  <2>2. QED
    BY <2>1, SMT
<1>6. CASE S # {}
  <2>1. PICK a \in S : TRUE
    BY <1>6
  <2>2. PICK first : /\ \/ first = a.started
                        \/ \E b \in S : first = b.started
                     /\ \A b \in S : b.count = 1 => b.started = first
    <3>1. CASE \E b \in S : b.count = 1
      BY <1>4, <3>1
    <3>2. CASE ~\E b \in S : b.count = 1
      BY <3>2
    <3>3. QED
      BY <3>1, <3>2
  <2> DEFINE f == [b \in S |-> IF b.started = first THEN b.count ELSE Limit + b.count]
  <2> HIDE DEF S
  <2>3. ASSUME NEW b \in S
        PROVE  /\ b.started = first => f[b] = b.count
               /\ b.started # first => f[b] = Limit + b.count
               /\ b.count \in 1 .. Limit
               /\ b.started # first => b.count # 1
    BY <1>2, <2>2
  <2>4. \A b \in S : f[b] \in (1 .. 2 * Limit) \ {Limit + 1}
    BY <2>3
  <2>5. ASSUME NEW b \in S, NEW c \in S, f[b] = f[c]
        PROVE  b = c
    <3>1. /\ b.count = c.count
          /\ b.started = first <=> c.started = first
      BY <2>3, <2>5
    <3>2. b.started = c.started
      BY <1>4, <2>1, <2>2, <3>1
    <3>3. QED
      BY <1>3, <3>1, <3>2
  <2>6. f \in [S -> (1 .. 2 * Limit) \ {Limit + 1}]
    BY <2>4
  <2>7. 2 * Limit \in Nat \ {0} /\ Limit + 1 \in 1 .. 2 * Limit
    OBVIOUS
  <2> HIDE DEF f
  <2>8. QED
    BY <2>5, <2>6, <2>7, AtMost
<1>7. QED
  BY <1>5, <1>6

-----------------------------------------------------------------------------
(* The invariant *)

\* A limiter that begins has counted nothing.
LEMMA LimiterBegins ==
    ASSUME LimiterInit
    PROVE  LimiterInv
<1>1. IsFiniteSet(allowed) /\ allowed = {} /\ items = {} /\ refused = NoRefusal /\ now = 0 /\ evicted = {}
  BY FS_EmptySet DEF LimiterInit
<1>2. LimiterTypeOK
  BY <1>1 DEF LimiterTypeOK, NoRefusal
<1>3. InWindow /\ Counted /\ Successive
  BY <1>1 DEF InWindow, Counted, Successive
<1>4. QED
  BY <1>1, <1>2, <1>3 DEF LimiterInv

\* A refusal is backed by as many admissions as the limit.
RefusalBacked ==
    refused # NoRefusal =>
        Within(refused.key, refused.at - Window + 1 - MaxDelay, refused.at + MaxDelay) >= Limit

\* It stays so, as nothing that was allowed is forgotten.
LEMMA RefusalStays ==
    ASSUME RefusalBacked, UNCHANGED refused, allowed \subseteq allowed', IsFiniteSet(allowed')
    PROVE  RefusalBacked'
<1> DEFINE from == refused.at - Window + 1 - MaxDelay
           to == refused.at + MaxDelay
           S == {a \in Of(refused.key) : a.at \in from .. to}
<1>1. S \subseteq S' /\ S' \subseteq allowed'
  BY DEF Of
<1>2. IsFiniteSet(S')
  BY <1>1, FS_Subset
<1>3. Cardinality(S) <= Cardinality(S') /\ IsFiniteSet(S)
  BY <1>1, <1>2, FS_Subset
<1>4. Cardinality(S) \in Nat /\ Cardinality(S') \in Nat
  BY <1>2, <1>3, FS_CardinalityType
<1>5. refused # NoRefusal => Cardinality(S) >= Limit
  BY DEF RefusalBacked, Within
<1>6. refused # NoRefusal => Cardinality(S') >= Limit
  BY <1>3, <1>4, <1>5
<1>7. QED
  BY <1>6 DEF RefusalBacked, Within

\* The clock goes on.
LEMMA TickStep ==
    ASSUME LimiterInv, Tick
    PROVE  LimiterInv'
<1>1. /\ now \in Nat /\ now' = now + 1 /\ now < MaxTime
      /\ UNCHANGED <<items, allowed, refused, evicted>>
  BY DEF Tick, LimiterInv, LimiterTypeOK
<1>2. 0 .. now \subseteq 0 .. now' /\ now' \in 0 .. MaxTime
  BY <1>1
<1>3. LimiterTypeOK'
  BY <1>1, <1>2 DEF LimiterInv, LimiterTypeOK
<1>4. InWindow' /\ Counted' /\ Successive'
  BY <1>1 DEF LimiterInv, InWindow, Counted, Successive, Of
<1>5. RefusalBacked'
  BY <1>1, RefusalStays DEF LimiterInv, RefusalBacked, LimiterTypeOK
<1>6. QED
  BY <1>3, <1>4, <1>5 DEF LimiterInv, RefusalBacked

\* A request is refused when the window in the dict has admitted the limit
\* (worker/webapp.py:156-157).
LEMMA RefusalStep ==
    ASSUME LimiterInv, NEW k \in Client, NEW at \in 0 .. now, now - at <= MaxDelay,
           Entry(k, at).count >= Limit,
           refused' = [key |-> k, at |-> at], UNCHANGED <<now, items, allowed, evicted>>
    PROVE  LimiterInv'
<1>1. /\ now \in Nat /\ at \in Nat /\ IsFiniteSet(allowed)
  BY DEF LimiterInv, LimiterTypeOK
<1>2. PICK i \in items : i.key = k /\ at - i.started < Window /\ i.count >= Limit
  <2>1. Entry(k, at) # [key |-> k, started |-> at, count |-> 0]
    <3>1. [key |-> k, started |-> at, count |-> 0].count = 0
      OBVIOUS
    <3>2. QED
      BY <3>1
  <2>2. QED
    BY <2>1, EntryIs
<1>3. i.started \in Nat /\ i.count \in Nat
  BY <1>2 DEF LimiterInv, LimiterTypeOK
<1>4. ASSUME NEW c \in 1 .. Limit
      PROVE  \E a \in Of(k) : /\ a.started = i.started /\ a.count = c
                              /\ a.at \in at - Window + 1 - MaxDelay .. at + MaxDelay
  <2>1. c \in 1 .. i.count
    BY <1>2, <1>3
  <2>2. PICK a \in Of(k) : a.started = i.started /\ a.count = c
    BY <1>2, <2>1 DEF LimiterInv, Counted
  <2>3. a \in allowed /\ a.at \in 0 .. now /\ a.at >= a.started - MaxDelay
    BY <2>2 DEF Of, LimiterInv, LimiterTypeOK, InWindow
  <2>4. QED
    BY <1>1, <1>2, <1>3, <2>2, <2>3
<1>5. Within(k, at - Window + 1 - MaxDelay, at + MaxDelay) >= Limit
  BY <1>1, <1>4, AtLeast
<1>6. refused'.key = k /\ refused'.at = at /\ allowed' = allowed
  OBVIOUS
<1>7. RefusalBacked'
  BY <1>5, <1>6 DEF RefusalBacked, Within, Of
<1>8. LimiterTypeOK'
  BY DEF LimiterInv, LimiterTypeOK
<1>9. InWindow' /\ Counted' /\ Successive'
  BY DEF LimiterInv, InWindow, Counted, Successive, Of
<1>10. QED
  BY <1>7, <1>8, <1>9 DEF LimiterInv, RefusalBacked

\* The window in which a request is counted next, and what was admitted of its key.
LEMMA EntryFacts ==
    ASSUME LimiterInv, NEW k \in Client, NEW at \in 0 .. now, now - at <= MaxDelay
    PROVE  /\ Entry(k, at) \in [key : {k}, started : 0 .. now, count : 0 .. Limit]
           /\ at \in Entry(k, at).started - MaxDelay .. Entry(k, at).started + Window - 1
           /\ Entry(k, at).count = 0 => at = Entry(k, at).started
           /\ \A c \in 1 .. Entry(k, at).count :
                 \E a \in Of(k) : a.started = Entry(k, at).started /\ a.count = c
           /\ \A a \in Of(k) : k \notin evicted =>
                 \/ a.started = Entry(k, at).started /\ a.count <= Entry(k, at).count
                 \/ Entry(k, at).started - a.started >= Window
<1> DEFINE e == Entry(k, at)
<1>1. now \in Nat /\ at \in Nat /\ items \subseteq [key : Client, started : 0 .. now, count : 1 .. Limit]
  BY DEF LimiterInv, LimiterTypeOK
<1>2. ASSUME NEW a \in Of(k), k \notin evicted
      PROVE  \E i \in items : /\ i.key = k
                              /\ \/ a.started = i.started /\ a.count <= i.count
                                 \/ i.started - a.started >= Window
  BY <1>2 DEF LimiterInv, Successive, Of
<1>3. CASE e \in items /\ e.key = k /\ at - e.started < Window
  <2>1. e.started \in 0 .. now /\ e.count \in 1 .. Limit
    BY <1>1, <1>3
  <2>2. e \in [key : {k}, started : 0 .. now, count : 0 .. Limit]
    <3>1. e \in [key : Client, started : 0 .. now, count : 1 .. Limit]
      BY <1>1, <1>3
    <3>2. QED
      BY <1>3, <2>1, <3>1
  <2>3. \A i \in items : i.key = k => i = e
    BY <1>3 DEF LimiterInv, Counted
  <2>4. \A c \in 1 .. e.count : \E a \in Of(k) : a.started = e.started /\ a.count = c
    BY <1>3 DEF LimiterInv, Counted
  <2>5. at \in e.started - MaxDelay .. e.started + Window - 1 /\ e.count # 0
    BY <1>1, <1>3, <2>1
  <2>6. QED
    BY <1>2, <2>2, <2>3, <2>4, <2>5
<1>4. CASE /\ e = [key |-> k, started |-> at, count |-> 0]
           /\ \A i \in items : i.key = k => at - i.started >= Window
  <2>1. e.key = k /\ e.started = at /\ e.count = 0
    BY <1>4
  <2>2. e \in [key : {k}, started : 0 .. now, count : 0 .. Limit]
    BY <1>4
  <2>3. at \in e.started - MaxDelay .. e.started + Window - 1
    BY <1>1, <2>1
  <2>4. ASSUME NEW a \in Of(k), k \notin evicted
        PROVE  e.started - a.started >= Window
    <3>1. PICK i \in items : /\ i.key = k
                             /\ \/ a.started = i.started /\ a.count <= i.count
                                \/ i.started - a.started >= Window
      BY <1>2, <2>4
    <3>2. i.started \in Nat /\ a.started \in Nat
      BY <3>1 DEF Of, LimiterInv, LimiterTypeOK
    <3>3. QED
      BY <1>1, <1>4, <2>1, <3>1, <3>2
  <2>5. \A c \in 1 .. e.count : \E a \in Of(k) : a.started = e.started /\ a.count = c
    BY <2>1
  <2>6. QED
    BY <2>1, <2>2, <2>3, <2>4, <2>5
<1>5. QED
  BY <1>3, <1>4, EntryIs

\* A request is admitted while its window has not admitted the limit; the dict may
\* drop a key for it, that of the request or another (worker/webapp.py:158-161).
LEMMA AdmissionStep ==
    ASSUME LimiterInv, NEW k \in Client, NEW at \in 0 .. now, now - at <= MaxDelay,
           NEW e, e = Entry(k, at), ~(e.count >= Limit),
           NEW full, full = Without(k) \cup {[e EXCEPT !.count = @ + 1]},
           allowed' = allowed \cup {Admission(k, at, e)}, UNCHANGED <<now, refused>>,
           items' \subseteq full, evicted \subseteq evicted', evicted' \subseteq Client,
           \A i \in full : i.key \notin evicted' => i \in items'
    PROVE  LimiterInv'
<1> DEFINE n == [e EXCEPT !.count = @ + 1]
           new == Admission(k, at, e)
<1>1. /\ e \in [key : {k}, started : 0 .. now, count : 0 .. Limit]
      /\ at \in e.started - MaxDelay .. e.started + Window - 1
      /\ e.count = 0 => at = e.started
      /\ \A c \in 1 .. e.count : \E a \in Of(k) : a.started = e.started /\ a.count = c
      /\ \A a \in Of(k) : k \notin evicted =>
            \/ a.started = e.started /\ a.count <= e.count
            \/ e.started - a.started >= Window
  BY EntryFacts
<1>2. /\ now \in Nat /\ now <= MaxTime /\ at \in Nat /\ e.started \in 0 .. now
      /\ e.count \in Nat /\ e.count + 1 \in 1 .. Limit
  BY <1>1 DEF LimiterInv, LimiterTypeOK
<1>3. n = [key |-> k, started |-> e.started, count |-> e.count + 1]
  BY <1>1
<1>4. /\ n.key = k /\ n.started = e.started /\ n.count = e.count + 1
      /\ n \in [key : Client, started : 0 .. now, count : 1 .. Limit]
  BY <1>2, <1>3
<1>5. IsFiniteSet(allowed) /\ Cardinality(Of(k)) \in Nat
  BY WithinFinite DEF LimiterInv, LimiterTypeOK
<1>6. /\ new.key = k /\ new.at = at /\ new.started = e.started /\ new.count = e.count + 1
      /\ new \in [key : Client, nth : Nat, at : 0 .. now, started : 0 .. now, count : 1 .. Limit]
  BY <1>2, <1>5 DEF Admission
<1>7. /\ items' \subseteq Without(k) \cup {n}
      /\ allowed' = allowed \cup {new} /\ now' = now /\ refused' = refused
      /\ \A i \in Without(k) \cup {n} : i.key \notin evicted' => i \in items'
  OBVIOUS
<1> HIDE DEF n, new
<1>8. LimiterTypeOK'
  <2>1. Without(k) \subseteq items
    BY DEF Without
  <2>2. IsFiniteSet(allowed')
    BY <1>5, <1>7, FS_AddElement
  <2>3. QED
    BY <1>4, <1>6, <1>7, <2>1, <2>2 DEF LimiterInv, LimiterTypeOK
<1>9. InWindow'
  <2>1. /\ new.at \in new.started - MaxDelay .. new.started + Window - 1
        /\ new.count = 1 => new.at = new.started
    BY <1>1, <1>2, <1>6
  <2>2. QED
    BY <1>7, <2>1 DEF LimiterInv, InWindow
<1>10. Counted'
  <2>1. ASSUME NEW i \in items', NEW j \in items', i.key = j.key
        PROVE  i = j
    BY <1>4, <1>7, <2>1 DEF LimiterInv, Counted, Without
  <2>2. ASSUME NEW i \in items', NEW c \in 1 .. i.count
        PROVE  \E a \in Of(i.key)' : a.started = i.started /\ a.count = c
    <3>1. Of(i.key) \subseteq Of(i.key)'
      BY <1>7 DEF Of
    <3>2. CASE i \in Without(k)
      BY <3>1, <3>2 DEF LimiterInv, Counted, Without
    <3>3. CASE i = n /\ c <= e.count
      <4>1. c \in 1 .. e.count
        BY <1>2, <1>4, <3>3
      <4>2. QED
        BY <1>1, <1>4, <3>1, <3>3, <4>1
    <3>4. CASE i = n /\ c = e.count + 1
      <4>1. new \in Of(i.key)'
        BY <1>4, <1>6, <1>7, <3>4 DEF Of
      <4>2. QED
        BY <1>4, <1>6, <3>4, <4>1
    <3>5. i = n => c <= e.count \/ c = e.count + 1
      BY <1>2, <1>4
    <3>6. QED
      BY <1>7, <3>2, <3>3, <3>4, <3>5
  <2>3. QED
    BY <2>1, <2>2 DEF Counted
<1>11. Successive'
  <2>1. ASSUME NEW a \in allowed', a.key \notin evicted'
        PROVE  \E i \in items' : /\ i.key = a.key
                                 /\ \/ a.started = i.started /\ a.count <= i.count
                                    \/ i.started - a.started >= Window
    <3>1. CASE a = new
      <4>1. n \in items'
        BY <1>4, <1>6, <1>7, <2>1, <3>1
      <4>2. a.started = n.started /\ a.count <= n.count /\ n.key = a.key
        BY <1>2, <1>4, <1>6, <3>1
      <4>3. QED
        BY <4>1, <4>2
    <3>2. CASE a \in allowed /\ a.key # k
      <4>1. PICK i \in items : /\ i.key = a.key
                               /\ \/ a.started = i.started /\ a.count <= i.count
                                  \/ i.started - a.started >= Window
        BY <2>1, <3>2 DEF LimiterInv, Successive
      <4>2. i \in items'
        BY <1>7, <2>1, <3>2, <4>1 DEF Without
      <4>3. QED
        BY <4>1, <4>2
    <3>3. CASE a \in allowed /\ a.key = k
      <4>1. a \in Of(k) /\ k \notin evicted /\ a.count \in Nat
        BY <2>1, <3>3 DEF Of, LimiterInv, LimiterTypeOK
      <4>2. n \in items'
        BY <1>4, <1>7, <2>1, <3>3
      <4>3. \/ a.started = n.started /\ a.count <= n.count
            \/ n.started - a.started >= Window
        BY <1>1, <1>2, <1>4, <4>1
      <4>4. QED
        BY <1>4, <3>3, <4>2, <4>3
    <3>4. QED
      BY <1>7, <3>1, <3>2, <3>3
  <2>2. ASSUME NEW a \in allowed, a.key = k, k \notin evicted'
        PROVE  \/ new.started - a.started >= Window
               \/ a.started = new.started /\ a.count # new.count
    <3>1. a \in Of(k) /\ k \notin evicted /\ a.count \in Nat
      BY <2>2 DEF Of, LimiterInv, LimiterTypeOK
    <3>2. QED
      BY <1>1, <1>2, <1>6, <3>1
  <2>3. ASSUME NEW a \in allowed', NEW b \in allowed', a.key = b.key, a.key \notin evicted'
        PROVE  \/ a.started - b.started >= Window \/ b.started - a.started >= Window
               \/ a.started = b.started /\ (a.count = b.count => a = b)
    <3>1. CASE a \in allowed /\ b \in allowed
      BY <2>3, <3>1 DEF LimiterInv, Successive
    <3>2. CASE a = new /\ b \in allowed
      BY <1>6, <2>2, <2>3, <3>2
    <3>3. CASE a \in allowed /\ b = new
      BY <1>6, <2>2, <2>3, <3>3
    <3>4. CASE a = new /\ b = new
      BY <3>4
    <3>5. QED
      BY <1>7, <3>1, <3>2, <3>3, <3>4
  <2>4. QED
    BY <2>1, <2>3 DEF Successive
<1>12. RefusalBacked'
  <2>1. IsFiniteSet(allowed')
    BY <1>8 DEF LimiterTypeOK
  <2>2. QED
    BY <1>7, <2>1, RefusalStays DEF LimiterInv, RefusalBacked
<1>13. QED
  BY <1>8, <1>9, <1>10, <1>11, <1>12 DEF LimiterInv, RefusalBacked

\* Every step keeps the invariant.
LEMMA LimiterStep ==
    ASSUME LimiterInv, [LimiterNext]_limiterVars
    PROVE  LimiterInv'
<1>1. CASE Tick
  BY <1>1, TickStep
<1>2. ASSUME NEW k \in Client, NEW at \in 0 .. now, Allow(k, at)
      PROVE  LimiterInv'
  <2> DEFINE e == Entry(k, at)
             full == Without(k) \cup {[e EXCEPT !.count = @ + 1]}
  <2>1. now - at <= MaxDelay /\ now' = now
    BY <1>2 DEF Allow
  <2>2. CASE e.count >= Limit
    <3>1. refused' = [key |-> k, at |-> at] /\ UNCHANGED <<items, allowed, evicted>>
      BY <1>2, <2>2 DEF Allow
    <3>2. QED
      BY <2>1, <2>2, <3>1, RefusalStep
  <2>3. CASE ~(e.count >= Limit)
    <3>1. /\ allowed' = allowed \cup {Admission(k, at, e)} /\ UNCHANGED refused
          /\ \/ \E i \in Oldest(full) : items' = full \ {i} /\ evicted' = evicted \cup {i.key}
             \/ items' = full /\ UNCHANGED evicted
      BY <1>2, <2>3 DEF Allow
    <3>2. \A i \in full : i.key \in Client
      <4>1. Without(k) \subseteq items /\ \A i \in items : i.key \in Client
        BY DEF Without, LimiterInv, LimiterTypeOK
      <4>2. [e EXCEPT !.count = @ + 1].key = k
        BY <2>1, EntryFacts
      <4>3. QED
        BY <4>1, <4>2
    <3>3. evicted \subseteq Client
      BY DEF LimiterInv, LimiterTypeOK
    <3> HIDE DEF full
    <3>4. /\ items' \subseteq full /\ evicted \subseteq evicted' /\ evicted' \subseteq Client
          /\ \A i \in full : i.key \notin evicted' => i \in items'
      BY <3>1, <3>2, <3>3 DEF Oldest
    <3>5. full = Without(k) \cup {[e EXCEPT !.count = @ + 1]} /\ e = Entry(k, at)
      BY DEF full
    <3> HIDE DEF e
    <3>6. QED
      BY <2>1, <2>3, <3>1, <3>4, <3>5, AdmissionStep
  <2>4. QED
    BY <2>2, <2>3
<1>3. CASE UNCHANGED limiterVars
  <2>1. UNCHANGED <<now, items, allowed, refused, evicted>>
    BY <1>3 DEF limiterVars
  <2>2. LimiterTypeOK'
    BY <2>1 DEF LimiterInv, LimiterTypeOK
  <2>3. InWindow' /\ Counted' /\ Successive' /\ RefusalBacked'
    BY <2>1 DEF LimiterInv, InWindow, Counted, Successive, RefusalBacked, Within, Of
  <2>4. QED
    BY <2>2, <2>3 DEF LimiterInv, RefusalBacked
<1>4. QED
  BY <1>1, <1>2, <1>3 DEF LimiterNext

\* The invariant holds in every reachable state.
THEOREM LimiterInvariance == LimiterSpec => []LimiterInv
BY LimiterBegins, LimiterStep, PTL DEF LimiterSpec

\* A client that the dict has not dropped gets fewer than twice the limit in any 60
\* seconds, and nobody is refused who has not had the limit in them, give or take the
\* wait for the lock: for any number of clients and any limit, window and size of the
\* dict (worker/webapp.py:149-163).
THEOREM LimitIsKept == LimiterSpec => []LimitHolds
<1>1. ASSUME LimiterInv
      PROVE  LimitHolds
  <2>1. ASSUME NEW k \in Client \ evicted, NEW from \in 0 .. MaxTime
        PROVE  Within(k, from, from + Window - MaxDelay - 1) <= 2 * Limit - 1
    <3>1. from \in Int
      OBVIOUS
    <3>2. QED
      BY <1>1, <3>1, LessThanTwice
  <2>2. QED
    BY <1>1, <2>1 DEF LimitHolds, LimiterInv
<1>2. QED
  BY <1>1, LimiterInvariance, PTL

HIDE RateLimiterAssumption
USE VerifierAssumption

-----------------------------------------------------------------------------
(* Where a name leads *)

\* A name leads to a repository or nowhere.
LEMMA LedToTyped ==
    ASSUME NEW o \in [Name -> Anyone], NEW f \in [Name -> Anyone], NEW p \in SUBSET Repo, NEW n \in Name
    PROVE  LedTo(n, o, f, p) \in Anyone
BY DEF LedTo, Anyone

\* What is known of the present holds of every name.
LEMMA Known ==
    ASSUME HistoryKept, NEW n \in Name
    PROVE  <<n, LedTo(n, owner, former, reachable)>> \in led /\ <<n, owner[n]>> \in bore
BY DEF HistoryKept, Facts, Bearers

\* The repository that answers is one that the name in the request led to
\* (worker/github.py:127-180).
LEMMA ReachedLed ==
    ASSUME VerifierInv, Reached(Direct)
    PROVE  Direct \in Repo /\ <<target.name, Direct>> \in led
<1> USE DEF VerifierInv
<1>1. target.name \in Name /\ target.id \in Anyone
  BY DEF VerifierTypeOK
<1>2. Direct \in reachable /\ Direct \in Repo
  BY DEF Reached, VerifierTypeOK
<1>3. CASE target.id # Nobody
  BY <1>2, <1>3 DEF Direct, RequestBacked
<1>4. CASE target.id = Nobody
  <2>1. Direct = owner[target.name]
    BY <1>4 DEF Direct
  <2>2. LedTo(target.name, owner, former, reachable) = Direct
    BY <1>2, <2>1 DEF LedTo
  <2>3. QED
    BY <1>1, <1>2, <2>2, Known
<1>5. QED
  BY <1>3, <1>4

Unanswered ==
    /\ ~Reached(Direct)
    /\ target.id # Nobody \/ owner[target.name] # Nobody \/ ~Reached(former[target.name])

\* When no repository answers, the name led nowhere or to one that is hidden.
LEMMA MissingLed ==
    ASSUME VerifierInv, Unanswered
    PROVE  \E r \in (Repo \ reachable) \cup {Nobody} : <<target.name, r>> \in led
<1> USE DEF VerifierInv, Unanswered
<1>1. /\ target.name \in Name /\ target.id \in Anyone /\ Nobody \notin Repo /\ reachable \subseteq Repo
      /\ owner[target.name] \in Anyone
  BY DEF VerifierTypeOK
<1>2. CASE target.id # Nobody
  <2>1. target.id \in Repo \ reachable /\ <<target.name, target.id>> \in led
    BY <1>1, <1>2 DEF Direct, Reached, Anyone, RequestBacked
  <2>2. QED
    BY <2>1
<1>3. CASE target.id = Nobody
  <2>1. owner[target.name] \notin reachable
    BY <1>1, <1>3 DEF Direct, Reached
  <2>2. LedTo(target.name, owner, former, reachable) = Nobody
    BY <1>1, <1>3, <2>1 DEF LedTo, Reached
  <2>3. QED
    BY <1>1, <2>2, Known
<1>4. QED
  BY <1>2, <1>3

\* The places a redirect leads to are known too.
LEMMA RedirectLed ==
    ASSUME VerifierInv, Redirect
    PROVE  former[target.name] \in Repo /\ <<target.name, former[target.name]>> \in led
<1> USE DEF VerifierInv
<1>1. target.name \in Name /\ Nobody \notin reachable /\ reachable \subseteq Repo
  BY DEF VerifierTypeOK
<1>2. owner[target.name] = Nobody /\ former[target.name] \in reachable
  BY DEF Redirect, Reached
<1>3. LedTo(target.name, owner, former, reachable) = former[target.name]
  BY <1>1, <1>2 DEF LedTo
<1>4. QED
  BY <1>1, <1>2, <1>3, Known

-----------------------------------------------------------------------------
(* Type correctness *)

\* A request is well typed (worker/github.py:127-238).
LEMMA TargetTyped ==
    ASSUME NEW n \in Name
    PROVE  [name |-> n, id |-> Nobody] \in [name : Name, id : Anyone]
BY DEF Anyone

\* A settled verdict is well typed.
LEMMA DoneTyped ==
    ASSUME VerifierTypeOK, NEW a \in Outcomes, NEW b \in Outcomes, NEW c \in Outcomes, Done(a, b, c)
    PROVE  /\ checks' \in [repository : Outcomes, commit : Outcomes, file : Outcomes]
           /\ stage' = "done" /\ UNCHANGED <<target, hop, full_name>>
BY DEF Done

AnswerTypes ==
    /\ stage' \in {"repository", "commit", "tree", "done"} /\ hop' \in {0, 1}
    /\ target' \in [name : Name, id : Anyone] /\ full_name' \in Name \cup {Nobody}
    /\ checks' \in [repository : Outcomes, commit : Outcomes, file : Outcomes]

\* A refused request settles a well typed verdict.
LEMMA StatusTyped ==
    ASSUME VerifierTypeOK, NEW status, Status(status)
    PROVE  AnswerTypes
<1>1. {"NOT_CHECKED", "CONFIRMED", Failure(status)} \subseteq Outcomes
  BY DEF Outcomes, Failure
<1>2. QED
  BY <1>1, DoneTyped DEF Status, AnswerTypes, VerifierTypeOK

\* Every answer leaves the verification well typed.
LEMMA AnsweredTyped ==
    ASSUME VerifierInv, Answered
    PROVE  VerifierTypeOK'
<1> USE DEF VerifierInv
<1>1. {"NOT_CHECKED", "CONFIRMED", "NOT_FOUND", "UNAVAILABLE", FileCheck(tree.file)} \subseteq Outcomes
  BY DEF Outcomes, FileCheck
<1>2. ASSUME NEW r, NEW n \in Name, Ok(r, n)
      PROVE  AnswerTypes
  BY <1>1, <1>2, DoneTyped, TargetTyped DEF Ok, Ask, AnswerTypes, VerifierTypeOK, RequestBacked
<1>3. /\ stage \in {"repository", "commit", "tree", "done"} /\ full_name \in Name \cup {Nobody}
      /\ checks \in [repository : Outcomes, commit : Outcomes, file : Outcomes]
      /\ target \in [name : Name, id : Anyone]
  BY DEF VerifierTypeOK
<1>4. ASSUME Redirect
      PROVE  AnswerTypes
  <2>1. former[target.name] \in Anyone
    BY <1>4, RedirectLed DEF Anyone
  <2>2. target' \in [name : Name, id : Anyone]
    BY <1>3, <1>4, <2>1 DEF Redirect
  <2>3. hop' = 1 /\ stage' = stage /\ full_name' = full_name /\ checks' = checks
    BY <1>4 DEF Redirect
  <2>4. QED
    BY <1>3, <2>2, <2>3 DEF AnswerTypes
<1>5. ASSUME NEW a \in Outcomes, NEW b \in Outcomes, NEW c \in Outcomes, Done(a, b, c)
      PROVE  AnswerTypes
  <2>1. hop \in {0, 1}
    BY DEF VerifierTypeOK
  <2>2. QED
    BY <1>3, <1>5, <2>1, DoneTyped DEF AnswerTypes
<1>6. AnswerTypes
  <2>1. CASE Found
    <3>1. PICK n \in Name : Ok(Direct, n)
      BY <2>1 DEF Found, Bears
    <3>2. QED
      BY <1>2, <3>1
  <2>2. CASE NoCommit
    BY <2>2, StatusTyped DEF NoCommit
  <2>3. CASE Missing
    BY <1>1, <1>5, <2>3, StatusTyped DEF Missing
  <2>4. CASE Fails
    BY <1>1, <1>5, <2>4, StatusTyped DEF Fails, Boundary
  <2>5. Found \/ NoCommit \/ Redirect \/ Missing \/ Fails
    BY DEF Answered
  <2>6. QED
    BY <1>4, <2>1, <2>2, <2>3, <2>4, <2>5
<1>7. changes' \in Nat /\ failed' \in BOOLEAN
  <2>1. changes \in Nat /\ failed \in BOOLEAN
    BY DEF VerifierTypeOK
  <2>2. /\ changes' = changes \/ changes' = changes + 1
        /\ failed' = failed \/ failed' = TRUE
    BY DEF Answered, Fails
  <2>3. changes' \in Nat
    BY <2>1, <2>2, SMT
  <2>4. QED
    BY <2>1, <2>2, <2>3
<1>8. /\ UNCHANGED <<owner, former, reachable, holds, tree, led, bore, lacked>>
  BY DEF Answered, github
<1>9. QED
  BY <1>6, <1>7, <1>8 DEF AnswerTypes, VerifierTypeOK

\* A rename leads no name anywhere but to repositories.
LEMMA RenamedTyped ==
    ASSUME VerifierTypeOK, NEW n \in Name, NEW m \in Name, Renamed(n, m)
    PROVE  owner' \in [Name -> Anyone] /\ former' \in [Name -> Anyone]
BY DEF Renamed, VerifierTypeOK, Anyone

\* Nor does a new repository.
LEMMA CreatedTyped ==
    ASSUME VerifierTypeOK, NEW n \in Name, NEW r \in Repo, Created(n, r)
    PROVE  owner' \in [Name -> Anyone] /\ former' \in [Name -> Anyone]
BY DEF Created, VerifierTypeOK, Anyone

\* What happens on GitHub meanwhile keeps the types and the history, and only hides
\* repositories and adds commits.
LEMMA WorldStep ==
    ASSUME VerifierInv, WorldChanges
    PROVE  /\ VerifierTypeOK' /\ HistoryKept'
           /\ holds \subseteq holds' /\ led \subseteq led' /\ bore \subseteq bore'
           /\ UNCHANGED <<tree, lacked, stage, target, hop, full_name, checks, failed>>
           /\ stage # "done"
<1> USE DEF VerifierInv
<1>1. /\ owner' \in [Name -> Anyone] /\ former' \in [Name -> Anyone]
      /\ reachable' \subseteq Repo /\ holds' \subseteq Repo /\ holds \subseteq holds'
  <2>1. CASE \E n, m \in Name : Renamed(n, m)
    BY <2>1, RenamedTyped DEF Renamed, VerifierTypeOK
  <2>2. CASE \E n \in Name, r \in Repo : Created(n, r)
    BY <2>2, CreatedTyped DEF Created, VerifierTypeOK
  <2>3. CASE \E r \in Repo : Hidden(r) \/ Pushed(r)
    BY <2>3 DEF Hidden, Pushed, VerifierTypeOK
  <2>4. QED
    BY <2>1, <2>2, <2>3 DEF WorldChanges
<1>2. /\ led' = led \cup Facts(owner', former', reachable') /\ bore' = bore \cup Bearers(owner')
      /\ UNCHANGED <<tree, lacked, stage, target, hop, full_name, checks, failed>>
      /\ changes' = changes + 1 /\ stage # "done"
  BY DEF WorldChanges
<1>3. led' \subseteq Name \X Anyone
  <2>1. ASSUME NEW fact \in Facts(owner', former', reachable')
        PROVE  fact \in Name \X Anyone
    <3>1. PICK n \in Name : fact = <<n, LedTo(n, owner', former', reachable')>>
      BY DEF Facts
    <3>2. LedTo(n, owner', former', reachable') \in Anyone
      BY <1>1, LedToTyped
    <3>3. QED
      BY <3>1, <3>2
  <2>2. led \subseteq Name \X Anyone
    BY DEF VerifierTypeOK
  <2>3. QED
    BY <1>2, <2>1, <2>2
<1>4. bore' \subseteq Name \X Anyone
  <2>1. ASSUME NEW fact \in Bearers(owner')
        PROVE  fact \in Name \X Anyone
    <3>1. PICK n \in Name : fact = <<n, owner'[n]>>
      BY DEF Bearers
    <3>2. QED
      BY <1>1, <3>1
  <2>2. bore \subseteq Name \X Anyone
    BY DEF VerifierTypeOK
  <2>3. QED
    BY <1>2, <2>1, <2>2
<1>5. changes' \in Nat
  <2>1. changes \in Nat
    BY DEF VerifierTypeOK
  <2>2. QED
    BY <1>2, <2>1, SMT
<1>6. VerifierTypeOK'
  BY <1>1, <1>2, <1>3, <1>4, <1>5 DEF VerifierTypeOK
<1>7. HistoryKept'
  BY <1>1, <1>2 DEF HistoryKept
<1>8. QED
  BY <1>1, <1>2, <1>6, <1>7

-----------------------------------------------------------------------------
(* Requests and verdicts *)

\* An answer takes the verification on to a request about a name that is backed: the
\* one asked for, or the one that the repository it led to bore
\* (worker/github.py:127-238).
LEMMA AnsweredRequest ==
    ASSUME VerifierInv, Answered
    PROVE  RequestBacked'
<1> USE DEF VerifierInv
<1>1. /\ UNCHANGED <<owner, former, reachable, holds, tree, led, bore, lacked>>
      /\ stage # "done"
  BY DEF Answered, github
<1>2. /\ stage \in {"repository", "commit", "tree", "done"} /\ target \in [name : Name, id : Anyone]
      /\ Nobody \notin Name /\ Nobody \notin Repo
  BY DEF VerifierTypeOK
<1>3. ASSUME NEW a, NEW b, NEW c, Done(a, b, c)
      PROVE  RequestBacked'
  <2>1. stage' = "done" /\ target' = target
    BY <1>3 DEF Done
  <2>2. target.id # Nobody => <<target.name, target.id>> \in led
    BY DEF RequestBacked
  <2>3. QED
    BY <1>1, <2>1, <2>2 DEF RequestBacked
<1>4. ASSUME NEW status, Status(status)
      PROVE  RequestBacked'
  BY <1>3, <1>4 DEF Status
<1>5. ASSUME Redirect
      PROVE  RequestBacked'
  <2>1. /\ target'.name = target.name /\ target'.id = former[target.name]
        /\ stage' = stage /\ full_name' = full_name
    BY <1>2, <1>5 DEF Redirect
  <2>2. <<target.name, former[target.name]>> \in led
    BY <1>5, RedirectLed
  <2>3. QED
    BY <1>1, <2>1, <2>2 DEF RequestBacked
<1>6. ASSUME Found
      PROVE  RequestBacked'
  <2>1. PICK n \in Name : owner[n] = Direct /\ Ok(Direct, n)
    BY <1>6 DEF Found, Bears
  <2>2. Direct \in Repo /\ <<target.name, Direct>> \in led /\ <<n, Direct>> \in bore
    BY <1>6, <2>1, ReachedLed, Known DEF Found
  <2>3. CASE stage = "repository" /\ full_name' = n /\ Ask("commit", n)
    <3>1. target' = [name |-> n, id |-> Nobody] /\ stage' = "commit" /\ target.name = Asked
      BY <2>3 DEF Ask, RequestBacked
    <3>2. target'.name = n /\ target'.id = Nobody
      BY <3>1
    <3>3. QED
      BY <1>1, <2>1, <2>2, <2>3, <3>1, <3>2 DEF RequestBacked
  <2>4. CASE stage = "commit" /\ Direct \in holds /\ Ask("tree", full_name) /\ full_name' = full_name
    <3>1. target' = [name |-> full_name, id |-> Nobody] /\ stage' = "tree"
      BY <2>4 DEF Ask
    <3>2. target'.name = full_name /\ target'.id = Nobody
      BY <3>1
    <3>3. /\ full_name \in Name /\ target.name = full_name
          /\ \E r \in Repo : <<Asked, r>> \in led /\ <<full_name, r>> \in bore
      BY <2>4 DEF RequestBacked
    <3>4. QED
      BY <1>1, <2>2, <2>4, <3>1, <3>2, <3>3 DEF RequestBacked
  <2>5. CASE \E a, b, c : Done(a, b, c)
    BY <1>3, <2>5
  <2>6. QED
    BY <2>1, <2>3, <2>4, <2>5 DEF Ok
<1>7. ASSUME NoCommit \/ Missing \/ Fails
      PROVE  RequestBacked'
  BY <1>3, <1>4, <1>7 DEF NoCommit, Missing, Fails, Boundary
<1>8. QED
  BY <1>5, <1>6, <1>7 DEF Answered

\* What a verdict must answer for, check by check.
LEMMA DoneBacked ==
    ASSUME stage' = "done", UNCHANGED <<owner, reachable, holds, tree, led, bore, lacked, full_name>>,
           NEW a, NEW b, NEW c, checks'.repository = a, checks'.commit = b, checks'.file = c,
           a = "CONFIRMED" => \E r \in Repo : <<Asked, r>> \in led /\ <<full_name, r>> \in bore,
           a = "NOT_FOUND" => \E r \in (Repo \ reachable) \cup {Nobody} : <<Asked, r>> \in led,
           a = "UNAVAILABLE" => failed',
           b = "CONFIRMED" => a = "CONFIRMED" /\ \E r \in holds : <<full_name, r>> \in led,
           b = "NOT_FOUND" => \E r \in lacked \cup (Repo \ reachable) \cup {Nobody} : <<full_name, r>> \in led,
           b = "UNAVAILABLE" => failed' \/ \E r \in lacked : <<full_name, r>> \in led,
           c = "CONFIRMED" => b = "CONFIRMED" /\ tree.file = "listed",
           c = "NOT_FOUND" =>
              \/ tree.file = "absent"
              \/ \E r \in lacked \cup (Repo \ reachable) \cup {Nobody} : <<full_name, r>> \in led,
           c = "UNAVAILABLE" => failed' \/ tree.file = "cut off" \/ \E r \in lacked : <<full_name, r>> \in led
    PROVE  VerdictBacked'
BY DEF VerdictBacked

\* An answer settles a verdict only when it is backed, each check by what the requests
\* before it led to (worker/github.py:127-238).
LEMMA AnsweredVerdict ==
    ASSUME VerifierInv, Answered
    PROVE  VerdictBacked'
<1> USE DEF VerifierInv
<1>1. /\ UNCHANGED <<owner, former, reachable, holds, tree, led, bore, lacked>>
      /\ stage # "done"
  BY DEF Answered, github
<1>2. /\ stage \in {"repository", "commit", "tree", "done"} /\ target.name \in Name
      /\ Nobody \notin Name /\ Nobody \notin Repo /\ Repo \ holds \subseteq lacked
  BY DEF VerifierTypeOK, HistoryKept
<1>3. stage \in {"commit", "tree"} =>
         /\ target.name = full_name
         /\ \E r \in Repo : <<Asked, r>> \in led /\ <<full_name, r>> \in bore
  BY DEF RequestBacked
<1>4. stage = "repository" => target.name = Asked
  BY DEF RequestBacked
<1>5. stage = "tree" => \E r \in holds : <<full_name, r>> \in led
  BY DEF RequestBacked
<1>6. ASSUME Redirect
      PROVE  VerdictBacked'
  BY <1>1, <1>6 DEF Redirect, VerdictBacked
<1>7. ASSUME NEW a, NEW b, NEW c, Done(a, b, c)
      PROVE  /\ checks'.repository = a /\ checks'.commit = b /\ checks'.file = c
             /\ stage' = "done" /\ UNCHANGED <<owner, reachable, holds, tree, led, bore, lacked, full_name>>
  BY <1>1, <1>7 DEF Done
<1>8. ASSUME Found
      PROVE  VerdictBacked'
  <2>1. PICK n \in Name : owner[n] = Direct /\ Ok(Direct, n)
    BY <1>8 DEF Found, Bears
  <2>2. Direct \in Repo /\ <<target.name, Direct>> \in led
    BY <1>8, ReachedLed DEF Found
  <2>3. CASE stage' # "done"
    BY <2>3 DEF VerdictBacked
  <2>4. CASE stage = "commit" /\ Direct \in holds /\ Done("CONFIRMED", "CONFIRMED", "NOT_CHECKED")
    <3>1. \E r \in holds : <<full_name, r>> \in led
      BY <1>3, <2>2, <2>4
    <3>2. /\ checks'.repository = "CONFIRMED" /\ checks'.commit = "CONFIRMED" /\ checks'.file = "NOT_CHECKED"
          /\ stage' = "done" /\ UNCHANGED <<owner, reachable, holds, tree, led, bore, lacked, full_name>>
      BY <1>7, <2>4
    <3>3. QED
      BY <1>3, <2>4, <3>1, <3>2, DoneBacked
  <2>5. CASE stage = "tree" /\ Direct \in holds /\ Done("CONFIRMED", "CONFIRMED", FileCheck(tree.file))
    <3>1. FileCheck(tree.file) = "CONFIRMED" => tree.file = "listed"
      BY DEF FileCheck
    <3>2. FileCheck(tree.file) = "NOT_FOUND" => tree.file = "absent"
      BY DEF FileCheck, VerifierTypeOK
    <3>3. FileCheck(tree.file) = "UNAVAILABLE" => tree.file = "cut off"
      BY DEF FileCheck
    <3>4. QED
      <4>1. \E r \in holds : <<full_name, r>> \in led
        BY <1>3, <2>2, <2>5
      <4>2. /\ checks'.repository = "CONFIRMED" /\ checks'.commit = "CONFIRMED" /\ checks'.file = FileCheck(tree.file)
            /\ stage' = "done" /\ UNCHANGED <<owner, reachable, holds, tree, led, bore, lacked, full_name>>
        BY <1>7, <2>5
      <4>3. QED
        BY <1>3, <2>5, <3>1, <3>2, <3>3, <4>1, <4>2, DoneBacked
  <2>6. QED
    BY <2>1, <2>3, <2>4, <2>5 DEF Ok, Ask
<1>9. ASSUME NEW gone \in (Repo \ reachable) \cup {Nobody} \cup lacked, <<target.name, gone>> \in led,
             stage = "repository" => gone \in (Repo \ reachable) \cup {Nobody},
             NEW status, Status(status), status \in {404, 422},
             status = 422 => gone \in lacked /\ stage # "repository"
      PROVE  VerdictBacked'
  <2>1. /\ Failure(status) \in {"NOT_FOUND", "UNAVAILABLE"}
        /\ Failure(status) = "UNAVAILABLE" => gone \in lacked /\ stage # "repository"
    BY <1>9 DEF Failure
  <2>2. CASE stage = "repository" /\ Done(Failure(status), "NOT_CHECKED", "NOT_CHECKED")
    <3>1. \E r \in (Repo \ reachable) \cup {Nobody} : <<Asked, r>> \in led
      BY <1>4, <1>9, <2>2
    <3>2. /\ checks'.repository = "NOT_FOUND" /\ checks'.commit = "NOT_CHECKED" /\ checks'.file = "NOT_CHECKED"
          /\ stage' = "done" /\ UNCHANGED <<owner, reachable, holds, tree, led, bore, lacked, full_name>>
      BY <1>7, <2>1, <2>2
    <3>3. QED
      BY <3>1, <3>2, DoneBacked
  <2>3. CASE stage = "commit" /\ Done("CONFIRMED", Failure(status), "NOT_CHECKED")
    <3>1. /\ <<full_name, gone>> \in led
          /\ gone \in lacked \cup (Repo \ reachable) \cup {Nobody}
      BY <1>3, <1>9, <2>3
    <3>2. /\ checks'.repository = "CONFIRMED" /\ checks'.commit = Failure(status) /\ checks'.file = "NOT_CHECKED"
          /\ stage' = "done" /\ UNCHANGED <<owner, reachable, holds, tree, led, bore, lacked, full_name>>
      BY <1>7, <2>3
    <3>3. QED
      BY <1>3, <2>1, <2>3, <3>1, <3>2, DoneBacked
  <2>4. CASE stage = "tree" /\ Done("CONFIRMED", "CONFIRMED", Failure(status))
    <3>1. /\ <<full_name, gone>> \in led
          /\ gone \in lacked \cup (Repo \ reachable) \cup {Nobody}
      BY <1>3, <1>9, <2>4
    <3>2. /\ checks'.repository = "CONFIRMED" /\ checks'.commit = "CONFIRMED" /\ checks'.file = Failure(status)
          /\ stage' = "done" /\ UNCHANGED <<owner, reachable, holds, tree, led, bore, lacked, full_name>>
      BY <1>7, <2>4
    <3>3. QED
      BY <1>3, <1>5, <2>1, <2>4, <3>1, <3>2, DoneBacked
  <2>5. QED
    BY <1>9, <2>2, <2>3, <2>4 DEF Status
<1>10. ASSUME NoCommit
       PROVE  VerdictBacked'
  <2>1. Direct \in lacked /\ <<target.name, Direct>> \in led /\ stage # "repository"
    BY <1>2, <1>10, ReachedLed DEF NoCommit
  <2>2. QED
    BY <1>9, <1>10, <2>1 DEF NoCommit
<1>11. ASSUME Missing
       PROVE  VerdictBacked'
  <2>1. PICK gone \in (Repo \ reachable) \cup {Nobody} : <<target.name, gone>> \in led
    BY <1>11, MissingLed DEF Missing, Unanswered
  <2>2. CASE Status(404)
    BY <1>9, <2>1, <2>2
  <2>3. CASE stage = "repository" /\ Done("NOT_FOUND", "NOT_CHECKED", "NOT_CHECKED")
    <3>1. <<Asked, gone>> \in led
      BY <1>4, <2>1, <2>3
    <3>2. /\ checks'.repository = "NOT_FOUND" /\ checks'.commit = "NOT_CHECKED" /\ checks'.file = "NOT_CHECKED"
          /\ stage' = "done" /\ UNCHANGED <<owner, reachable, holds, tree, led, bore, lacked, full_name>>
      BY <1>7, <2>3
    <3>3. QED
      BY <2>1, <3>1, <3>2, DoneBacked
  <2>4. QED
    BY <1>11, <2>2, <2>3 DEF Missing
<1>12. ASSUME Fails
       PROVE  VerdictBacked'
  <2>1. failed' = TRUE
    BY <1>12 DEF Fails
  <2>2. ASSUME NEW status \in {403, 500}, Status(status)
        PROVE  VerdictBacked'
    <3>1. Failure(status) = "UNAVAILABLE"
      BY <2>2 DEF Failure
    <3>2. CASE stage = "repository" /\ Done("UNAVAILABLE", "NOT_CHECKED", "NOT_CHECKED")
      BY <1>7, <2>1, <3>2, DoneBacked
    <3>3. CASE stage = "commit" /\ Done("CONFIRMED", "UNAVAILABLE", "NOT_CHECKED")
      BY <1>3, <1>7, <2>1, <3>3, DoneBacked
    <3>4. CASE stage = "tree" /\ Done("CONFIRMED", "CONFIRMED", "UNAVAILABLE")
      BY <1>3, <1>5, <1>7, <2>1, <3>4, DoneBacked
    <3>5. QED
      BY <2>2, <3>1, <3>2, <3>3, <3>4 DEF Status
  <2>3. CASE Boundary
    BY <1>7, <2>1, <2>3, DoneBacked DEF Boundary
  <2>4. QED
    BY <1>12, <2>2, <2>3 DEF Fails
<1>13. QED
  BY <1>6, <1>8, <1>10, <1>11, <1>12 DEF Answered

-----------------------------------------------------------------------------
(* The specification *)

\* A verification that begins knows the present and has said nothing.
LEMMA VerifierBegins ==
    ASSUME VerifierInit
    PROVE  VerifierInv
<1>1. /\ owner \in [Name -> Anyone] /\ former \in [Name -> Anyone]
      /\ reachable \in SUBSET Repo
  BY DEF VerifierInit, Anyone
<1>2. led \subseteq Name \X Anyone
  <2>1. ASSUME NEW fact \in Facts(owner, former, reachable)
        PROVE  fact \in Name \X Anyone
    <3>1. PICK n \in Name : fact = <<n, LedTo(n, owner, former, reachable)>>
      BY DEF Facts
    <3>2. QED
      BY <1>1, <3>1, LedToTyped
  <2>2. QED
    BY <2>1 DEF VerifierInit
<1>3. bore \subseteq Name \X Anyone
  <2>1. ASSUME NEW fact \in Bearers(owner)
        PROVE  fact \in Name \X Anyone
    <3>1. PICK n \in Name : fact = <<n, owner[n]>>
      BY DEF Bearers
    <3>2. QED
      BY <1>1, <3>1
  <2>2. QED
    BY <2>1 DEF VerifierInit
<1>4. target \in [name : Name, id : Anyone] /\ target.id = Nobody /\ target.name = Asked
  BY TargetTyped DEF VerifierInit
<1>5. checks \in [repository : Outcomes, commit : Outcomes, file : Outcomes]
  BY DEF VerifierInit, NoChecks, Outcomes
<1>6. VerifierTypeOK
  BY <1>1, <1>2, <1>3, <1>4, <1>5 DEF VerifierInit, VerifierTypeOK
<1>7. HistoryKept /\ VerdictBacked
  BY DEF VerifierInit, HistoryKept, VerdictBacked
<1>8. RequestBacked
  BY <1>4 DEF VerifierInit, RequestBacked
<1>9. QED
  BY <1>6, <1>7, <1>8 DEF VerifierInv

\* Every step keeps the invariant.
LEMMA VerifierStep ==
    ASSUME VerifierInv, [VerifierNext]_verifierVars
    PROVE  VerifierInv'
<1>1. CASE Answered
  <2>1. HistoryKept'
    BY <1>1 DEF Answered, github, HistoryKept, VerifierInv, Facts, Bearers, LedTo
  <2>2. QED
    BY <1>1, <2>1, AnsweredTyped, AnsweredRequest, AnsweredVerdict DEF VerifierInv
<1>2. CASE WorldChanges
  <2>1. VerdictBacked'
    BY <1>2, WorldStep DEF VerdictBacked
  <2>2. RequestBacked'
    BY <1>2, WorldStep DEF RequestBacked, VerifierInv
  <2>3. QED
    BY <1>2, <2>1, <2>2, WorldStep DEF VerifierInv
<1>3. CASE UNCHANGED verifierVars
  <2>1. /\ UNCHANGED <<owner, former, reachable, holds, tree, stage, target, hop, full_name, checks>>
        /\ UNCHANGED <<changes, led, bore, lacked, failed>>
    BY <1>3 DEF verifierVars, github, history
  <2>2. VerifierTypeOK'
    BY <2>1 DEF VerifierInv, VerifierTypeOK
  <2>3. HistoryKept'
    BY <2>1 DEF VerifierInv, HistoryKept, Facts, Bearers, LedTo
  <2>4. RequestBacked'
    BY <2>1 DEF VerifierInv, RequestBacked
  <2>5. VerdictBacked'
    BY <2>1 DEF VerifierInv, VerdictBacked
  <2>6. QED
    BY <2>2, <2>3, <2>4, <2>5 DEF VerifierInv
<1>4. QED
  BY <1>1, <1>2, <1>3 DEF VerifierNext

\* The invariant holds in every reachable state.
THEOREM VerifierInvariance == VerifierSpec => []VerifierInv
BY VerifierBegins, VerifierStep, PTL DEF VerifierSpec

\* Every part of a verdict was true on GitHub while it was found, for all names and
\* repositories and however many changes come between the requests
\* (worker/github.py:127-238).
THEOREM VerdictIsBacked == VerifierSpec => []VerdictBacked
<1>1. VerifierInv => VerdictBacked
  BY DEF VerifierInv
<1>2. QED
  BY <1>1, VerifierInvariance, PTL

HIDE VerifierAssumption

-----------------------------------------------------------------------------
(* The panel *)

\* The panel is empty at first: nothing is shown or acknowledged (web/wallet-ui.js:5-7).
LEMMA PanelInitInv == PanelInit => PanelInv
<1>1. 0 \in 0 .. MaxWallets /\ 0 \in 0 .. 0
  BY WalletPanelAssumption, SMT
<1>2. QED
  BY <1>1, Zenon DEF PanelInit, PanelInv, PanelTypeOK, PhraseNeedsReveal

\* A new wallet has a number of its own, and every number before stays one
\* (web/wallet-ui.js:32-42).
LEMMA PanelTyped == ASSUME PanelInv, [PanelNext]_panelVars PROVE PanelTypeOK'
<1> USE DEF PanelInv, PanelTypeOK
<1>1. CASE CreateWallet
  <2>1. made \in Nat /\ made' = made + 1 /\ wallet' = made' /\ made' <= MaxWallets
    BY <1>1, WalletPanelAssumption, SMT DEF CreateWallet
  <2>2. /\ made' \in 0 .. MaxWallets /\ wallet' \in 0 .. made' /\ passphrase \in 0 .. made'
        /\ 0 \in 0 .. made' /\ 1 .. made \subseteq 1 .. made' /\ {} \subseteq 0 .. made'
    BY <2>1, WalletPanelAssumption, SMT
  <2>3. QED
    BY <1>1, <2>2, Zenon DEF CreateWallet, renderWallet, concealPhrase, labels
<1>2. CASE Acknowledge
  <2>1. wallet \in 0 .. made
    OBVIOUS
  <2>2. consent' \subseteq 0 .. made
    BY <1>2, <2>1 DEF Acknowledge
  <2>3. QED
    BY <1>2, <2>2, Zenon DEF Acknowledge, labels
<1>3. CASE ConfirmReveal
  <2>1. seen' \subseteq 1 .. made
    BY <1>3, SMT DEF ConfirmReveal
  <2>2. QED
    BY <1>3, <2>1, Zenon DEF ConfirmReveal, labels
<1>4. CASE Saved \/ Conceal \/ PanelPageHide
  <2>1. 0 \in 0 .. made /\ {} \subseteq 0 .. made
    BY SMT
  <2>2. QED
    BY <1>4, <2>1, Zenon DEF Saved, Conceal, PanelPageHide, concealPhrase, labels, concealed
<1>5. CASE FeedbackEnds \/ \E button \in {"phrase", "address"} : Copied(button)
  BY <1>5, ZenonT(60) DEF FeedbackEnds, Copied, concealed
<1>6. CASE Reveal \/ CopyPhrase \/ CopyAddress \/ UNCHANGED panelVars
  BY <1>6, Zenon DEF Reveal, CopyPhrase, CopyAddress, panelVars, labels, concealed
<1>7. QED
  BY <1>1, <1>2, <1>3, <1>4, <1>5, <1>6 DEF PanelNext

\* Every step keeps the phrase hidden until it is acknowledged: what is created, hidden
\* or restored in between takes the acknowledgement along (web/wallet-ui.js:21-72).
LEMMA PanelStepInv == PanelInv /\ [PanelNext]_panelVars => PanelInv'
<1> SUFFICES ASSUME PanelInv, [PanelNext]_panelVars PROVE PanelInv'
  OBVIOUS
<1>1. PanelTypeOK'
  BY PanelTyped
<1>2. /\ phraseSaved \in BOOLEAN /\ ready \in BOOLEAN /\ savedState \in BOOLEAN /\ visible \in BOOLEAN
      /\ confirming \in BOOLEAN /\ revealable \in BOOLEAN /\ acknowledge \in BOOLEAN
  BY DEF PanelInv, PanelTypeOK
<1> USE DEF PhraseNeedsReveal
<1>3. CASE CreateWallet
  BY <1>1, <1>2, <1>3 DEF PanelInv, CreateWallet, renderWallet, concealPhrase, labels
<1>4. CASE Reveal
  BY <1>1, <1>2, <1>4 DEF PanelInv, Reveal, labels
<1>5. CASE Acknowledge
  BY <1>1, <1>2, <1>5 DEF PanelInv, Acknowledge, labels
<1>6. CASE ConfirmReveal
  <2>1. /\ ~visible /\ wallet # 0 /\ wallet \in consent /\ ready /\ ~revealable
        /\ savedState => phraseSaved
        /\ phraseSaved => wallet \in seen
        /\ passphrase # 0 => passphrase \in seen
    BY <1>2, <1>6 DEF PanelInv, ConfirmReveal
  <2>2. /\ phrase' = wallet /\ ~confirming' /\ visible' /\ seen' = seen \cup {wallet}
        /\ UNCHANGED <<wallet, phraseSaved, ready, savedState, revealable, acknowledge, passphrase, consent>>
    BY <1>6 DEF ConfirmReveal
  <2>3. QED
    BY <1>1, <2>1, <2>2 DEF PanelInv
<1>7. CASE CopyPhrase \/ CopyAddress
  BY <1>1, <1>2, <1>7 DEF PanelInv, CopyPhrase, CopyAddress, concealed
<1>8. CASE FeedbackEnds \/ \E button \in {"phrase", "address"} : Copied(button)
  BY <1>1, <1>2, <1>8 DEF PanelInv, FeedbackEnds, Copied, concealed
<1>9. CASE Saved \/ Conceal
  BY <1>1, <1>2, <1>9 DEF PanelInv, Saved, Conceal, concealPhrase, labels
<1>10. CASE PanelPageHide \/ UNCHANGED panelVars
  BY <1>1, <1>2, <1>10 DEF PanelInv, PanelPageHide, panelVars, concealed, labels
<1>11. QED
  BY <1>3, <1>4, <1>5, <1>6, <1>7, <1>8, <1>9, <1>10 DEF PanelNext

\* The inductive invariant of the wallet section holds in every reachable state.
THEOREM PanelInvariance == PanelSpec => []PanelInv
BY PanelInitInv, PanelStepInv, PTL DEF PanelSpec

\* "The recovery phrase stays hidden until an explicit acknowledge-and-reveal"
\* (README.md:220), of this wallet, however many wallets are created and however the
\* events of the page are ordered (web/wallet-ui.js:21-72).
THEOREM PhraseHidden == PanelSpec => []PhraseNeedsReveal
<1>1. PanelInv => PhraseNeedsReveal
  BY DEF PanelInv
<1>2. QED
  BY <1>1, PanelInvariance, PTL
-----------------------------------------------------------------------------
(* Hierarchical keys *)

\* The least of a set of numbers.
LEMMA Smallest ==
    ASSUME NEW C \in SUBSET Nat, C # {}
    PROVE  \E n \in C : \A m \in C : n <= m
<1> DEFINE Below == {0 .. n : n \in C}
<1>1. Below \subseteq FiniteSubsetsOf(Nat) /\ Below # {}
  <2>1. ASSUME NEW n \in C
        PROVE  0 .. n \in FiniteSubsetsOf(Nat)
    <3>1. 0 \in Int /\ n \in Int /\ 0 .. n \subseteq Nat
      OBVIOUS
    <3>2. IsFiniteSet(0 .. n)
      BY <3>1, FS_Interval, Zenon
    <3>3. QED
      BY <3>1, <3>2 DEF FiniteSubsetsOf
  <2>2. QED
    BY <2>1
<1>2. PICK x \in Below : \A y \in Below : ~(<<y, x>> \in StrictSubsetOrdering(Nat))
  BY <1>1, FS_StrictSubsetOrderingWellFounded, WFMin, Zenon
<1>3. PICK n \in C : x = 0 .. n
  BY <1>2
<1>4. ASSUME NEW m \in C, m < n
      PROVE  FALSE
  <2>1. 0 .. m \in Below
    OBVIOUS
  <2>2. <<0 .. m, 0 .. n>> \in StrictSubsetOrdering(Nat)
    BY <1>4 DEF StrictSubsetOrdering
  <2>3. QED
    BY <1>2, <1>3, <2>1, <2>2
<1>5. \A m \in C : n <= m
  BY <1>4
<1>6. QED
  BY <1>5

\* What is less than the divisor is its own remainder.
LEMMA SmallRemainder ==
    ASSUME NEW n \in Nat \ {0}, NEW x \in 0 .. n - 1
    PROVE  x % n = x
<1> DEFINE q == x \div n
           r == x % n
<1>1. q \in Int /\ r \in 0 .. n - 1 /\ x = n * q + r
  BY SMT
<1> HIDE DEF q, r
<1>2. q >= 1 => n * q >= n
  BY <1>1, SMT
<1>3. q <= -1 => n * q <= -n
  BY <1>1, SMT
<1>4. q = 0 => n * q = 0
  BY <1>1, SMT
<1>5. QED
  BY <1>1, <1>2, <1>3, <1>4, SMT DEF r

Order == N \in Nat /\ N > 1
Hardened == Offset \in Nat \ {0}

\* A derivation is settled at the first index that is, and past the last index at the
\* latest, where the call raises (web/wallet.js:5005-5012, 5142-5187).
LEMMA SettlesFirst ==
    ASSUME Hardened, NEW key, NEW index \in Indexes
    PROVE  LET i == FirstSettled(key, index)
           IN i \in index .. 2 * Offset /\ Settled(key, i) /\ \A j \in index .. i - 1 : ~Settled(key, j)
<1> DEFINE C == {i \in index .. 2 * Offset : Settled(key, i)}
<1>1. index \in Nat /\ index < 2 * Offset
  BY DEF Indexes, Hardened
<1>2. 2 * Offset \in C
  BY <1>1 DEF Settled, Raises, Indexes, Hardened
<1>3. C \in SUBSET Nat
  BY <1>1 DEF Hardened
<1>4. PICK n \in C : \A m \in C : n <= m
  BY <1>2, <1>3, Smallest
<1>5. \A j \in index .. n - 1 : ~Settled(key, j)
  BY <1>1, <1>4 DEF Hardened
<1>6. QED
  BY <1>4, <1>5 DEF FirstSettled

\* At every index that is not hardened the public key settles as the private key does,
\* and its child is that of the private key without its private part: the tweak is
\* the same, and added to the point it is added to the scalar (web/wallet.js:5142-5187).
LEMMA SameAtIndex ==
    ASSUME Order, Hardened,
           NEW k \in 1 .. N - 1, NEW c, NEW d \in Nat, NEW x, NEW p,
           Key(k, None, c, d, x, p) # NoKey, NEW i \in 0 .. Offset - 1
    PROVE  LET key == Key(k, None, c, d, x, p)
           IN /\ Raises(Wiped(key), i) <=> Raises(key, i)
              /\ ~Raises(key, i) => ChildAt(Wiped(key), i) = Wiped(ChildAt(key, i))
              /\ ~Raises(key, i) => (ChildAt(Wiped(key), i) = NoKey <=> ChildAt(key, i) = NoKey)
<1> DEFINE key == Key(k, None, c, d, x, p)
           pub == Wiped(key)
           I == Prf(c, <<k % N, i>>)
           t == I.tweak
           f == Hash160(k % N)
<1>1. /\ key = [priv |-> k, pub |-> k % N, chain |-> c, depth |-> d, index |-> x, parent |-> p]
      /\ k # None /\ i < Offset /\ ~(i >= Offset)
  BY DEF Key, PublicOf, None, Hardened
<1>2. pub = [priv |-> None, pub |-> k % N, chain |-> c, depth |-> d, index |-> x, parent |-> p]
  BY <1>1 DEF Wiped
<1> HIDE DEF key, pub
<1>3. ChildData(key, i) = <<k % N, i>> /\ ChildData(pub, i) = <<k % N, i>>
  BY <1>1, <1>2 DEF ChildData
<1>4. Prf(key.chain, ChildData(key, i)) = I /\ Prf(pub.chain, ChildData(pub, i)) = I
  BY <1>1, <1>2, <1>3
<1>5. Raises(pub, i) <=> Raises(key, i)
  BY <1>1, <1>4 DEF Raises
<1>6. ASSUME t \in 1 .. N - 1
      PROVE  /\ ((k % N) + (t % N)) % N = (k + t) % N
             /\ (k + t) % N \in 0 .. N - 1
             /\ (k + t) % N # 0 => (k + t) % N \in 1 .. N - 1 /\ ((k + t) % N) % N = (k + t) % N
  <2> HIDE DEF t
  <2>1. k % N = k /\ t % N = t
    <3>1. \A m \in 1 .. N - 1 : m % N = m
      BY SmallRemainder DEF Order
    <3>2. QED
      BY <1>6, <3>1
  <2>2. (k + t) % N \in 0 .. N - 1
    BY <1>6 DEF Order
  <2>3. (k + t) % N # 0 => (k + t) % N \in 1 .. N - 1
    BY <2>2 DEF Order
  <2>4. (k + t) % N # 0 => ((k + t) % N) % N = (k + t) % N
    BY <2>3, SmallRemainder DEF Order
  <2>5. QED
    BY <2>1, <2>2, <2>3, <2>4
<1> DEFINE a == (k + t) % N
           derived == [priv |-> a, pub |-> a % N, chain |-> I.chain, depth |-> d + 1, index |-> i, parent |-> f]
           public == [priv |-> None, pub |-> a, chain |-> I.chain, depth |-> d + 1, index |-> i, parent |-> f]
<1>7. ~Raises(key, i) => t \in 1 .. N - 1
  BY <1>4 DEF Raises, IsValidPrivateKey
<1>8. ASSUME t \in 1 .. N - 1
      PROVE  ChildAt(key, i) = IF a = 0 THEN NoKey ELSE derived
  <2>1. key.priv = k /\ fingerprint(key) = f /\ key.depth = d /\ key.priv # None
    BY <1>1 DEF fingerprint
  <2>2. ChildAt(key, i) = IF a = 0 THEN NoKey ELSE Key(a, None, I.chain, d + 1, i, f)
    BY <1>4, <2>1, Zenon DEF ChildAt, Child
  <2>3. a # 0 => Key(a, None, I.chain, d + 1, i, f) = derived
    <3>1. a # 0 => a # None /\ IsValidPrivateKey(a) /\ d + 1 # 0
      BY <1>6, <1>8 DEF None, IsValidPrivateKey
    <3> HIDE DEF a, I, f
    <3>2. QED
      BY <3>1 DEF Key, PublicOf
  <2>4. QED
    BY <2>2, <2>3, Zenon
<1>9. ASSUME t \in 1 .. N - 1
      PROVE  ChildAt(pub, i) = IF a = 0 THEN NoKey ELSE public
  <2>1. pub.priv = None /\ pub.pub = k % N /\ fingerprint(pub) = f /\ pub.depth = d
    BY <1>2 DEF fingerprint
  <2>2. (pub.pub + PublicOf(t)) % N = a
    BY <1>6, <1>9, <2>1 DEF PublicOf
  <2>3. ChildAt(pub, i) = IF a = 0 THEN NoKey ELSE Key(None, a, I.chain, d + 1, i, f)
    <3> HIDE DEF a
    <3>1. QED
      BY <1>4, <2>1, <2>2, Zenon DEF ChildAt, Child
  <2>4. Key(None, a, I.chain, d + 1, i, f) = public
    <3>1. d + 1 # 0
      OBVIOUS
    <3> HIDE DEF a, I, f
    <3>2. QED
      BY <3>1 DEF Key
  <2>5. QED
    BY <2>3, <2>4, Zenon
<1>10. ASSUME t \in 1 .. N - 1, a # 0
       PROVE  derived # NoKey /\ public # NoKey /\ Wiped(derived) = public /\ derived.index = i
  <2>1. a % N = a /\ a # None
    BY <1>6, <1>10 DEF None
  <2> HIDE DEF a, I, f
  <2>2. derived.priv # NoKey.priv /\ public.pub # NoKey.pub
    BY <2>1 DEF NoKey
  <2>3. Wiped(derived) = public
    BY <2>1 DEF Wiped
  <2>4. QED
    BY <2>2, <2>3
<1>11. Wiped(NoKey) = NoKey
  BY DEF Wiped, NoKey
<1> HIDE DEF a, derived, public, t
<1>12. ASSUME t \in 1 .. N - 1
       PROVE  /\ ChildAt(pub, i) = Wiped(ChildAt(key, i))
              /\ ChildAt(pub, i) = NoKey <=> ChildAt(key, i) = NoKey
  BY <1>8, <1>9, <1>10, <1>11, <1>12
<1>13. QED
  BY <1>5, <1>7, <1>12 DEF key, pub

\* A child has the index it was made at.
LEMMA ChildKeepsIndex ==
    ASSUME NEW key, NEW i, ChildAt(key, i) # NoKey
    PROVE  ChildAt(key, i).index = i
BY DEF ChildAt, Child, Key

\* The public part of a key derives the public part of the child of the key, also where
\* invalid children are passed over, up to the boundary of the hardened indexes: from
\* there on it raises, whatever the private key would derive (web/wallet.js:5142-5187).
THEOREM PublicDerivation ==
    ASSUME Order, Hardened,
           NEW k \in 1 .. N - 1, NEW c, NEW d \in Nat, NEW x, NEW p,
           Key(k, None, c, d, x, p) # NoKey, NEW index \in Indexes
    PROVE  LET key == Key(k, None, c, d, x, p)
               child == deriveChild(key, index)
               public == deriveChild(Wiped(key), index)
           IN /\ public # NoKey => Wiped(child) = public
              /\ child # NoKey /\ child.index < Offset => Wiped(child) = public
              /\ index >= Offset => public = NoKey
<1> DEFINE key == Key(k, None, c, d, x, p)
           pub == Wiped(key)
           i == FirstSettled(key, index)
           j == FirstSettled(pub, index)
           child == deriveChild(key, index)
           public == deriveChild(pub, index)
<1>1. pub.priv = None /\ pub # NoKey /\ key # NoKey
  <2>1. key.pub = k % N /\ k % N # None
    BY SmallRemainder DEF Key, PublicOf, None, Order
  <2>2. pub.priv = None /\ pub.pub = key.pub
    BY DEF Wiped, Key
  <2>3. QED
    BY <2>1, <2>2 DEF NoKey
<1>2. \A n \in 0 .. Offset - 1 :
        /\ Raises(pub, n) <=> Raises(key, n)
        /\ ~Raises(key, n) => ChildAt(pub, n) = Wiped(ChildAt(key, n))
        /\ ~Raises(key, n) => (ChildAt(pub, n) = NoKey <=> ChildAt(key, n) = NoKey)
  BY SameAtIndex
<1>3. \A n \in 0 .. Offset - 1 : Settled(pub, n) <=> Settled(key, n)
  BY <1>2 DEF Settled
<1>4. index \in Nat /\ index < 2 * Offset /\ Offset \in Nat \ {0}
  BY DEF Indexes, Hardened
<1> HIDE DEF key, pub, i, j
<1>5. /\ i \in index .. 2 * Offset /\ Settled(key, i) /\ \A n \in index .. i - 1 : ~Settled(key, n)
      /\ j \in index .. 2 * Offset /\ Settled(pub, j) /\ \A n \in index .. j - 1 : ~Settled(pub, n)
  BY SettlesFirst DEF i, j
<1>6. /\ child = IF Raises(key, i) THEN NoKey ELSE ChildAt(key, i)
      /\ public = IF Raises(pub, j) THEN NoKey ELSE ChildAt(pub, j)
  BY <1>1, Zenon DEF deriveChild, i, j
<1>7. j >= Offset => Raises(pub, j)
  BY <1>1 DEF Raises
<1>8. Wiped(NoKey) = NoKey
  BY DEF Wiped, NoKey
<1> HIDE DEF child, public
<1>9. CASE i < Offset
  <2>1. i \in 0 .. Offset - 1 /\ i \in Nat /\ j \in Nat
    BY <1>4, <1>5, <1>9
  <2>2. j = i
    <3>1. ~(j < i)
      <4>1. j < i => j \in index .. i - 1 /\ j \in 0 .. Offset - 1
        BY <1>4, <1>5, <2>1
      <4>2. QED
        BY <1>3, <1>5, <4>1
    <3>2. ~(i < j)
      <4>1. i < j => i \in index .. j - 1
        BY <1>4, <1>5, <2>1
      <4>2. QED
        BY <1>3, <1>5, <2>1, <4>1
    <3>3. QED
      BY <2>1, <3>1, <3>2
  <2>3. /\ Raises(pub, i) <=> Raises(key, i)
        /\ ~Raises(key, i) => ChildAt(pub, i) = Wiped(ChildAt(key, i))
    BY <1>2, <2>1
  <2>4. public = Wiped(child)
    BY <1>6, <1>8, <2>2, <2>3
  <2>5. ~(index >= Offset)
    BY <1>4, <1>5, <1>9
  <2>6. QED
    BY <2>4, <2>5 DEF child, public, key, pub
<1>10. CASE i >= Offset
  <2>1. i \in Nat /\ j \in Nat
    BY <1>4, <1>5
  <2>2. j >= Offset
    <3>1. j < Offset => j \in 0 .. Offset - 1 /\ j \in index .. i - 1
      BY <1>4, <1>5, <1>10, <2>1
    <3>2. ~(j < Offset)
      BY <1>3, <1>5, <3>1
    <3>3. QED
      BY <1>4, <2>1, <3>2
  <2>3. public = NoKey
    BY <1>6, <1>7, <2>2
  <2>4. child # NoKey => child.index = i
    BY <1>6, ChildKeepsIndex
  <2>5. ~(child # NoKey /\ child.index < Offset)
    BY <1>4, <1>10, <2>1, <2>4
  <2>6. QED
    BY <2>3, <2>5 DEF child, public, key, pub
<1>11. QED
  BY <1>4, <1>5, <1>9, <1>10

\* The child of a private key is a private key.
LEMMA ChildIsPrivate ==
    ASSUME Order, NEW k \in 1 .. N - 1, NEW c, NEW d \in Nat, NEW x, NEW p,
           Key(k, None, c, d, x, p) # NoKey, NEW index,
           deriveChild(Key(k, None, c, d, x, p), index) # NoKey
    PROVE  \E l \in 1 .. N - 1, e \in Nat : \E b, y, q :
               deriveChild(Key(k, None, c, d, x, p), index) = Key(l, None, b, e, y, q)
<1> DEFINE key == Key(k, None, c, d, x, p)
           i == FirstSettled(key, index)
           child == deriveChild(key, index)
           I == Prf(key.chain, ChildData(key, i))
           a == (k + I.tweak) % N
<1>1. key.priv = k /\ key.depth = d /\ key.priv # None
  BY DEF Key, None
<1> HIDE DEF key, i
<1>2. child = ChildAt(key, i) /\ ~Raises(key, i)
  BY DEF deriveChild, key, i
<1>3. I.tweak \in 1 .. N - 1
  BY <1>2 DEF Raises, IsValidPrivateKey
<1>4. child = IF a = 0 THEN NoKey ELSE Key(a, None, I.chain, d + 1, i, fingerprint(key))
  <2> HIDE DEF child
  <2>1. QED
    BY <1>1, <1>2, Zenon DEF ChildAt, Child
<1>5. a \in 0 .. N - 1
  <2>1. \A m \in 1 .. N - 1 : (k + m) % N \in 0 .. N - 1
    BY DEF Order
  <2>2. QED
    BY <1>3, <2>1
<1> HIDE DEF a, I
<1>6. child # NoKey
  BY DEF key
<1> HIDE DEF child
<1>7. a \in 1 .. N - 1 /\ d + 1 \in Nat /\ child = Key(a, None, I.chain, d + 1, i, fingerprint(key))
  BY <1>4, <1>5, <1>6
<1>8. \E l \in 1 .. N - 1, e \in Nat : \E b, y, q : child = Key(l, None, b, e, y, q)
  BY <1>7, Zenon
<1>9. QED
  BY <1>8 DEF child, key

\* The wallet's address can be derived from the public part of its account: two steps
\* that are not hardened, on public keys, come to the public part of the key that the
\* same steps come to on private ones (web/wallet.js:5142-5187, 5437-5462).
THEOREM AccountDerivesAddress ==
    ASSUME Order, Hardened,
           NEW k \in 1 .. N - 1, NEW c, NEW d \in Nat, NEW x, NEW p,
           Key(k, None, c, d, x, p) # NoKey, NEW m \in 0 .. Offset - 1, NEW n \in 0 .. Offset - 1
    PROVE  LET account == Key(k, None, c, d, x, p)
               leaf == deriveChild(deriveChild(account, m), n)
               public == deriveChild(deriveChild(Wiped(account), m), n)
           IN public # NoKey => Wiped(leaf) = public /\ leaf.pub = public.pub
<1> DEFINE account == Key(k, None, c, d, x, p)
           child == deriveChild(account, m)
           next == deriveChild(Wiped(account), m)
<1>1. m \in Indexes /\ n \in Indexes
  BY DEF Indexes, Hardened
<1>2. next # NoKey => Wiped(child) = next
  BY <1>1, PublicDerivation
<1>3. next = NoKey => deriveChild(next, n) = NoKey
  <2> HIDE DEF next
  <2>1. QED
    BY DEF deriveChild
<1>4. Wiped(NoKey) = NoKey
  BY DEF Wiped, NoKey
<1>5. child # NoKey => \E l \in 1 .. N - 1, e \in Nat : \E b, y, q : child = Key(l, None, b, e, y, q)
  <2>1. ASSUME child # NoKey
        PROVE  \E l \in 1 .. N - 1, e \in Nat : \E b, y, q : child = Key(l, None, b, e, y, q)
    BY <2>1, ChildIsPrivate
  <2>2. QED
    BY <2>1
<1> HIDE DEF child, next
<1>6. SUFFICES ASSUME deriveChild(next, n) # NoKey
               PROVE  Wiped(deriveChild(child, n)) = deriveChild(next, n)
                      /\ deriveChild(child, n).pub = deriveChild(next, n).pub
  BY DEF child, next
<1>7. next = Wiped(child) /\ child # NoKey
  BY <1>2, <1>3, <1>4, <1>6
<1>8. PICK l \in 1 .. N - 1, e \in Nat : \E b, y, q : child = Key(l, None, b, e, y, q)
  BY <1>5, <1>7
<1>9. PICK b, y, q : child = Key(l, None, b, e, y, q)
  BY <1>8
<1>10. Wiped(deriveChild(child, n)) = deriveChild(Wiped(child), n)
  <2>1. Key(l, None, b, e, y, q) # NoKey
    BY <1>7, <1>9
  <2>2. deriveChild(Wiped(Key(l, None, b, e, y, q)), n) # NoKey =>
            Wiped(deriveChild(Key(l, None, b, e, y, q), n)) = deriveChild(Wiped(Key(l, None, b, e, y, q)), n)
    BY <1>1, <2>1, PublicDerivation
  <2>3. QED
    BY <1>6, <1>7, <1>9, <2>2
<1>11. ASSUME NEW key
       PROVE  "pub" \in DOMAIN key => Wiped(key).pub = key.pub
  BY DEF Wiped
<1>12. "pub" \in DOMAIN deriveChild(child, n)
  BY Zenon DEF deriveChild, ChildAt, Child, Key, NoKey
<1>13. QED
  BY <1>7, <1>10, <1>11, <1>12

\* An extended key gives back the key it was made of, the public one without the private
\* part, at every depth that fits the byte it is written in (web/wallet.js:5032-5078, 5223-5229).
THEOREM ExtendedKeysRoundTrip ==
    ASSUME Order, Depths \in Nat \ {0},
           NEW k \in 1 .. N - 1, NEW c, NEW d \in 0 .. Depths - 1, NEW x, NEW p,
           Key(k, None, c, d, x, p) # NoKey
    PROVE  LET key == Key(k, None, c, d, x, p)
           IN /\ fromExtendedKey(privateExtendedKey(key)) = key
              /\ fromExtendedKey(publicExtendedKey(key)) = Wiped(key)
<1> DEFINE key == Key(k, None, c, d, x, p)
           public == [priv |-> None, pub |-> k % N, chain |-> c, depth |-> d, index |-> x, parent |-> p]
<1>1. k # None /\ ~(d = 0 /\ (x # 0 \/ p # 0))
  BY DEF Key, None
<1>2. key = [priv |-> k, pub |-> k % N, chain |-> c, depth |-> d, index |-> x, parent |-> p]
  BY <1>1 DEF Key, PublicOf
<1>3. d % Depths = d
  BY SmallRemainder
<1> HIDE DEF key
<1>4. privateExtendedKey(key) = [version |-> "xprv", depth |-> d, parent |-> p, index |-> x, chain |-> c, key |-> <<0, k>>]
  BY <1>2, <1>3 DEF privateExtendedKey, serialize, Versions
<1>5. publicExtendedKey(key) = [version |-> "xpub", depth |-> d, parent |-> p, index |-> x, chain |-> c, key |-> <<2, k % N>>]
  BY <1>2, <1>3 DEF publicExtendedKey, serialize, Versions
<1>6. fromExtendedKey(privateExtendedKey(key)) = Key(k, None, c, d, x, p)
  BY <1>4 DEF fromExtendedKey, Versions
<1>7. fromExtendedKey(publicExtendedKey(key)) = Key(None, k % N, c, d, x, p)
  BY <1>5 DEF fromExtendedKey, Versions
<1>8. Key(None, k % N, c, d, x, p) = public
  BY <1>1 DEF Key
<1>9. Wiped(key) = public
  BY <1>2 DEF Wiped
<1>10. QED
  BY <1>6, <1>7, <1>8, <1>9 DEF key

\* So the public part of every key derives what it should, at every index, and both its
\* extended keys give it back, for groups of every order and whatever the hash is
\* (web/wallet.js:5030-5230).
THEOREM DerivationMatches ==
    ASSUME Order, Hardened, Depths \in Nat \ {0},
           NEW k \in 1 .. N - 1, NEW c, NEW d \in 0 .. Depths - 1, NEW x, NEW p,
           Key(k, None, c, d, x, p) # NoKey, NEW index \in Indexes
    PROVE  ChildrenMatch(Key(k, None, c, d, x, p), index)
<1> DEFINE key == Key(k, None, c, d, x, p)
<1>1. d \in Nat
  OBVIOUS
<1>2. /\ deriveChild(Wiped(key), index) # NoKey => Wiped(deriveChild(key, index)) = deriveChild(Wiped(key), index)
      /\ deriveChild(key, index) # NoKey /\ deriveChild(key, index).index < Offset =>
            Wiped(deriveChild(key, index)) = deriveChild(Wiped(key), index)
      /\ index >= Offset => deriveChild(Wiped(key), index) = NoKey
  BY <1>1, PublicDerivation
<1>3. fromExtendedKey(privateExtendedKey(key)) = key /\ fromExtendedKey(publicExtendedKey(key)) = Wiped(key)
  BY ExtendedKeysRoundTrip
<1> HIDE DEF key
<1>4. ChildrenMatch(key, index)
  BY <1>2, <1>3, Zenon DEF ChildrenMatch
<1>5. QED
  BY <1>4 DEF key

\* The keys along a path, one for each part of it (web/wallet.js:5117-5141).
LEMMA AlongRuns ==
    ASSUME NEW key, NEW path, Len(path) \in Nat
    PROVE  \E f : /\ f[0] = key /\ \A n \in 1 .. Len(path) : f[n] = DeriveStep(f[n - 1], path[n])
                 /\ derive(key, path) = f[Len(path)]
<1> DEFINE Is(f, M) == f = [n \in 0 .. M |-> IF n = 0 THEN key ELSE DeriveStep(f[n - 1], path[n])]
           S == {M \in Nat : \E f : Is(f, M)}
           along == CHOOSE f : Is(f, Len(path))
<1>1. 0 \in S
  <2>1. Is([n \in 0 .. 0 |-> key], 0)
    OBVIOUS
  <2>2. QED
    BY <2>1
<1>2. ASSUME NEW M \in Nat, M \in S
      PROVE  M + 1 \in S
  <2>1. PICK f : Is(f, M)
    BY <1>2
  <2> DEFINE g == [n \in 0 .. M + 1 |-> IF n <= M THEN f[n] ELSE DeriveStep(f[M], path[M + 1])]
  <2>2. Is(g, M + 1)
    BY <2>1
  <2> HIDE DEF Is, g
  <2>3. QED
    BY <2>2
<1>3. Len(path) \in S
  <2> HIDE DEF S
  <2>1. QED
    BY <1>1, <1>2, AllNumbers
<1>4. Is(along, Len(path))
  <2> HIDE DEF Is
  <2>1. QED
    BY <1>3, Zenon
<1>5. derive(key, path) = along[Len(path)]
  BY Zenon DEF derive
<1> HIDE DEF along
<1>6. along[0] = key /\ \A n \in 1 .. Len(path) : along[n] = DeriveStep(along[n - 1], path[n])
  BY <1>4
<1>7. QED
  BY <1>5, <1>6, Zenon

\* A path of two is one part after the other (web/wallet.js:5126-5140).
LEMMA PathOfTwo ==
    ASSUME NEW key, NEW m, NEW n
    PROVE  derive(key, <<m, n>>) = DeriveStep(DeriveStep(key, m), n)
<1> DEFINE path == <<m, n>>
<1>1. Len(path) = 2 /\ path[1] = m /\ path[2] = n
  OBVIOUS
<1> HIDE DEF path
<1>2. Len(path) \in Nat
  BY <1>1
<1>3. PICK f : /\ f[0] = key /\ \A i \in 1 .. Len(path) : f[i] = DeriveStep(f[i - 1], path[i])
               /\ derive(key, path) = f[Len(path)]
  BY <1>2, AlongRuns
<1>4. /\ f[1] = DeriveStep(key, m) /\ f[2] = DeriveStep(f[1], n)
      /\ derive(key, path) = f[2]
  BY <1>1, <1>3
<1>5. QED
  BY <1>4 DEF path

\* So is a path of three.
LEMMA PathOfThree ==
    ASSUME NEW key, NEW a, NEW b, NEW c
    PROVE  derive(key, <<a, b, c>>) = DeriveStep(DeriveStep(DeriveStep(key, a), b), c)
<1> DEFINE path == <<a, b, c>>
<1>1. Len(path) = 3 /\ path[1] = a /\ path[2] = b /\ path[3] = c
  OBVIOUS
<1> HIDE DEF path
<1>2. Len(path) \in Nat
  BY <1>1
<1>3. PICK f : /\ f[0] = key /\ \A i \in 1 .. Len(path) : f[i] = DeriveStep(f[i - 1], path[i])
               /\ derive(key, path) = f[Len(path)]
  BY <1>2, AlongRuns
<1>4. /\ f[1] = DeriveStep(key, a) /\ f[2] = DeriveStep(f[1], b) /\ f[3] = DeriveStep(f[2], c)
      /\ derive(key, path) = f[3]
  BY <1>1, <1>3
<1>5. QED
  BY <1>4 DEF path

\* And a path of five.
LEMMA PathOfFive ==
    ASSUME NEW key, NEW a, NEW b, NEW c, NEW m, NEW n
    PROVE  derive(key, <<a, b, c, m, n>>) = 
               DeriveStep(DeriveStep(DeriveStep(DeriveStep(DeriveStep(key, a), b), c), m), n)
<1> DEFINE path == <<a, b, c, m, n>>
<1>1. Len(path) = 5 /\ path[1] = a /\ path[2] = b /\ path[3] = c /\ path[4] = m /\ path[5] = n
  OBVIOUS
<1> HIDE DEF path
<1>2. Len(path) \in Nat
  BY <1>1
<1>3. PICK f : /\ f[0] = key /\ \A i \in 1 .. Len(path) : f[i] = DeriveStep(f[i - 1], path[i])
               /\ derive(key, path) = f[Len(path)]
  BY <1>2, AlongRuns
<1>4. /\ f[1] = DeriveStep(key, a) /\ f[2] = DeriveStep(f[1], b) /\ f[3] = DeriveStep(f[2], c) /\ f[4] = DeriveStep(f[3], m) /\ f[5] = DeriveStep(f[4], n)
      /\ derive(key, path) = f[5]
  BY <1>1, <1>3
<1>5. QED
  BY <1>4 DEF path

\* The first three parts of a path of five, and the last two.
LEMMA PartsOfFive ==
    ASSUME NEW a, NEW b, NEW c, NEW m, NEW n
    PROVE  SubSeq(<<a, b, c, m, n>>, 1, 3) = <<a, b, c>> /\ SubSeq(<<a, b, c, m, n>>, 4, 5) = <<m, n>>
<1> DEFINE S == {a, b, c, m, n}
           path == <<a, b, c, m, n>>
           first == SubSeq(path, 1, 3)
           last == SubSeq(path, 4, 5)
<1>1. IsMessage(path) /\ IsMessage(<<a, b, c>>) /\ IsMessage(<<m, n>>)
  <2>1. path \in Seq(S) /\ <<a, b, c>> \in Seq(S) /\ <<m, n>> \in Seq(S)
    OBVIOUS
  <2> HIDE DEF S, path
  <2>2. QED
    BY <2>1, Zenon DEF IsMessage
<1>2. /\ Len(path) = 5 /\ path[1] = a /\ path[2] = b /\ path[3] = c /\ path[4] = m /\ path[5] = n
      /\ Len(<<a, b, c>>) = 3 /\ Len(<<m, n>>) = 2
  OBVIOUS
<1> HIDE DEF S, path
<1>3. IsMessage(first) /\ Len(first) = 3 /\ first[1] = a /\ first[2] = b /\ first[3] = c
  <2>1. 1 \in Nat \ {0} /\ 3 \in Nat /\ 3 <= Len(path)
    BY <1>2
  <2>2. /\ IsMessage(first) /\ Len(first) = IF 1 <= 3 THEN 3 - 1 + 1 ELSE 0
        /\ \A i \in 1 .. 3 - 1 + 1 : first[i] = path[1 + i - 1]
    BY <1>1, <2>1, PartOf, ZenonT(60)
  <2> HIDE DEF first
  <2>3. QED
    BY <1>2, <2>2
<1>4. IsMessage(last) /\ Len(last) = 2 /\ last[1] = m /\ last[2] = n
  <2>1. 4 \in Nat \ {0} /\ 5 \in Nat /\ 5 <= Len(path)
    BY <1>2
  <2>2. /\ IsMessage(last) /\ Len(last) = IF 4 <= 5 THEN 5 - 4 + 1 ELSE 0
        /\ \A i \in 1 .. 5 - 4 + 1 : last[i] = path[4 + i - 1]
    BY <1>1, <2>1, PartOf, ZenonT(60)
  <2> HIDE DEF last
  <2>3. QED
    BY <1>2, <2>2
<1> HIDE DEF first, last
<1>5. \A i \in 1 .. 3 : first[i] = <<a, b, c>>[i]
  BY <1>3
<1>6. \A i \in 1 .. 2 : last[i] = <<m, n>>[i]
  BY <1>4
<1>7. first = <<a, b, c>>
  BY <1>1, <1>2, <1>3, <1>5, SameMessage
<1>8. last = <<m, n>>
  BY <1>1, <1>2, <1>4, <1>6, SameMessage
<1>9. QED
  BY <1>7, <1>8 DEF first, last, path

\* A key with a private part.
IsPrivate(key) ==
    /\ key # NoKey
    /\ \E k \in 1 .. N - 1, d \in Nat : \E c, x, p : key = Key(k, None, c, d, x, p)

\* From a private key, a part of a path makes a private key, if any (web/wallet.js:5126-5140).
LEMMA StepKeepsPrivate ==
    ASSUME Order, NEW key, key = NoKey \/ IsPrivate(key), NEW part
    PROVE  DeriveStep(key, part) = NoKey \/ IsPrivate(DeriveStep(key, part))
<1>1. SUFFICES ASSUME DeriveStep(key, part) # NoKey
               PROVE  IsPrivate(DeriveStep(key, part))
  OBVIOUS
<1>2. DeriveStep(key, part) = deriveChild(key, PathIndex(part)) /\ key # NoKey
  <2>1. DeriveStep(key, part) = deriveChild(key, PathIndex(part))
    BY <1>1 DEF DeriveStep
  <2>2. QED
    BY <1>1, <2>1, Zenon DEF deriveChild
<1>3. PICK k \in 1 .. N - 1, d \in Nat : \E c, x, p : key = Key(k, None, c, d, x, p)
  BY <1>2 DEF IsPrivate
<1>4. PICK c, x, p : key = Key(k, None, c, d, x, p)
  BY <1>3
<1>5. \E l \in 1 .. N - 1, e \in Nat : \E b, y, q : deriveChild(key, PathIndex(part)) = Key(l, None, b, e, y, q)
  <2>1. \A i : deriveChild(Key(k, None, c, d, x, p), i) # NoKey =>
            \E l \in 1 .. N - 1, e \in Nat : \E b, y, q :
                deriveChild(Key(k, None, c, d, x, p), i) = Key(l, None, b, e, y, q)
    BY <1>2, <1>4, ChildIsPrivate
  <2>2. QED
    BY <1>1, <1>2, <1>4, <2>1, Zenon
<1>6. QED
  BY <1>1, <1>2, <1>5, Zenon DEF IsPrivate

\* The public key of the wallet, whose hash is its address, can be derived from the public
\* part of its account, whatever the seed and the path's first numbers; and no public key is
\* derived where the wallet has none (web/wallet.js:5142-5187, 5437-5462).
THEOREM AccountsMatch ==
    ASSUME Order, Hardened, NEW seed, Prf(None, seed).tweak \in Nat, NEW purpose, NEW coin
    PROVE  AccountMatches(seed, purpose, coin)
<1> DEFINE h == [number |-> 0, hardened |-> TRUE]
           s == [number |-> 0, hardened |-> FALSE]
           a == [number |-> purpose, hardened |-> TRUE]
           b == [number |-> coin, hardened |-> TRUE]
           root == fromMasterSeed(seed)
           account == DeriveStep(DeriveStep(DeriveStep(root, a), b), h)
           leaf == DeriveStep(DeriveStep(account, s), s)
           public == DeriveStep(DeriveStep(Wiped(account), s), s)
           path == EVM_DERIVATION_PATH(purpose, coin)
<1>1. path = <<a, b, h, s, s>> /\ SubSeq(path, 1, 3) = <<a, b, h>> /\ SubSeq(path, 4, 5) = <<s, s>>
  <2>1. path = <<a, b, h, s, s>>
    BY DEF EVM_DERIVATION_PATH
  <2> HIDE DEF path, a, b, h, s
  <2>2. SubSeq(<<a, b, h, s, s>>, 1, 3) = <<a, b, h>> /\ SubSeq(<<a, b, h, s, s>>, 4, 5) = <<s, s>>
    BY PartsOfFive
  <2>3. QED
    BY <2>1, <2>2
<1>2. root = NoKey \/ IsPrivate(root)
  <2> DEFINE I == Prf(None, seed)
  <2>1. root = Key(I.tweak, None, I.chain, 0, 0, 0)
    BY DEF fromMasterSeed
  <2>2. I.tweak # None
    BY DEF None
  <2> HIDE DEF I
  <2>3. root # NoKey => I.tweak \in 1 .. N - 1
    BY <2>1, <2>2 DEF Key, IsValidPrivateKey
  <2> HIDE DEF root
  <2>4. QED
    BY <2>1, <2>3, Zenon DEF IsPrivate
<1>3. account = NoKey \/ IsPrivate(account)
  <2> HIDE DEF root, a, b, h
  <2>1. DeriveStep(root, a) = NoKey \/ IsPrivate(DeriveStep(root, a))
    BY <1>2, StepKeepsPrivate
  <2>2. DeriveStep(DeriveStep(root, a), b) = NoKey \/ IsPrivate(DeriveStep(DeriveStep(root, a), b))
    BY <2>1, StepKeepsPrivate
  <2>3. QED
    BY <2>2, StepKeepsPrivate
<1>4. \A key : DeriveStep(key, s) = deriveChild(key, 0)
  BY DEF DeriveStep, PathIndex, Hardened
<1>5. /\ derive(root, path) = leaf
      /\ derive(root, SubSeq(path, 1, 3)) = account
      /\ derive(Wiped(account), SubSeq(path, 4, 5)) = public
  <2> HIDE DEF root, a, b, h, s, path
  <2>1. derive(root, <<a, b, h, s, s>>) = leaf
    BY PathOfFive
  <2>2. derive(root, <<a, b, h>>) = account
    BY PathOfThree
  <2>3. derive(Wiped(account), <<s, s>>) = public
    <3> HIDE DEF account
    <3>1. QED
      BY PathOfTwo
  <2>4. QED
    BY <1>1, <2>1, <2>2, <2>3
<1>6. leaf = deriveChild(deriveChild(account, 0), 0) /\ public = deriveChild(deriveChild(Wiped(account), 0), 0)
  <2> HIDE DEF account, s
  <2>1. QED
    BY <1>4
<1> HIDE DEF account, leaf, public, root, path, s
<1>7. CASE account = NoKey
  <2>1. Wiped(NoKey) = NoKey
    BY DEF Wiped, NoKey
  <2>2. \A i : deriveChild(NoKey, i) = NoKey
    BY DEF deriveChild
  <2>3. leaf = NoKey /\ public = NoKey
    BY <1>6, <1>7, <2>1, <2>2, Zenon
  <2>4. QED
    BY <1>5, <2>3, Zenon DEF AccountMatches, root, path
<1>8. CASE IsPrivate(account)
  <2>1. PICK k \in 1 .. N - 1, d \in Nat : \E c, x, p : account = Key(k, None, c, d, x, p)
    BY <1>8 DEF IsPrivate
  <2>2. PICK c, x, p : account = Key(k, None, c, d, x, p)
    BY <2>1
  <2>3. 0 \in 0 .. Offset - 1
    BY DEF Hardened
  <2>4. Key(k, None, c, d, x, p) # NoKey
    BY <1>8, <2>2 DEF IsPrivate
  <2>5. LET acc == Key(k, None, c, d, x, p)
            l == deriveChild(deriveChild(acc, 0), 0)
            q == deriveChild(deriveChild(Wiped(acc), 0), 0)
        IN q # NoKey => Wiped(l) = q /\ l.pub = q.pub
    BY <2>3, <2>4, AccountDerivesAddress
  <2>6. public # NoKey => Wiped(leaf) = public /\ leaf.pub = public.pub
    BY <1>6, <2>2, <2>5
  <2>7. Wiped(NoKey) = NoKey
    BY DEF Wiped, NoKey
  <2>8. QED
    BY <1>5, <2>6, <2>7, Zenon DEF AccountMatches, walletPublicKey, root, path
<1>9. QED
  BY <1>3, <1>7, <1>8

\* The case of the letters of an address is decided by its digits, in whatever case it was
\* given (web/wallet.js:5439-5444).
THEOREM CasesMatch ==
    ASSUME NEW address \in Seq([digit : 0 .. 15, upper : BOOLEAN]), NEW other \in Seq([digit : 0 .. 15, upper : BOOLEAN])
    PROVE  CaseMatches(address, other)
<1>1. SUFFICES ASSUME lower(address) = lower(other)
               PROVE  checksumAddress(address) = checksumAddress(other)
  BY DEF CaseMatches
<1> DEFINE Nibble == [digit : 0 .. 15, upper : BOOLEAN]
<1>2. ASSUME NEW c \in Nibble
      PROVE  [c EXCEPT !.upper = FALSE].digit = c.digit
  OBVIOUS
<1>3. /\ DOMAIN address = 1 .. Len(address) /\ DOMAIN other = 1 .. Len(other)
      /\ \A i \in DOMAIN address : address[i] \in Nibble
      /\ \A i \in DOMAIN other : other[i] \in Nibble
  <2>1. address \in Seq(Nibble) /\ other \in Seq(Nibble)
    OBVIOUS
  <2> HIDE DEF Nibble
  <2>2. QED
    BY <2>1
<1> HIDE DEF Nibble
<1>4. DOMAIN lower(address) = DOMAIN address /\ DOMAIN lower(other) = DOMAIN other
  BY DEF lower
<1>5. DOMAIN address = DOMAIN other
  BY <1>1, <1>4
<1>6. ASSUME NEW i \in DOMAIN address
      PROVE  address[i].digit = other[i].digit
  <2>1. lower(address)[i] = [address[i] EXCEPT !.upper = FALSE] /\ lower(other)[i] = [other[i] EXCEPT !.upper = FALSE]
    BY <1>5 DEF lower
  <2>2. address[i] \in Nibble /\ other[i] \in Nibble
    BY <1>3, <1>5
  <2>3. QED
    BY <1>1, <1>2, <2>1, <2>2, Zenon
<1>7. \A i \in DOMAIN address : IsLetter(address[i]) = IsLetter(other[i])
  BY <1>6 DEF IsLetter
<1>8. QED
  BY <1>1, <1>5, <1>6, <1>7 DEF checksumAddress

-----------------------------------------------------------------------------
(* The algorithms, as the run checks them *)

\* The runs of the compression functions: the whole words are those of the halves.
ShaRuns ==
    {r \in [task : {"sha2"}, wide : {Sha!WholeRun(q) : q \in Sha!SplitRuns}, split : Sha!SplitRuns]
     : r.wide = Sha!WholeRun(r.split)}
\* The runs of the permutation: the lanes of the standard are those of the halves.
KeccakRuns ==
    {r \in [task : {"keccak"}, start : KeccakStates, s : Sha3!States,
            lanes : {Sha3!State(s) : s \in Sha3!States}, round : 0 .. 24]
     : r.lanes = Sha3!State(r.s)}
AlgorithmsInv ==
    \/ run \in [task : {"hash"}, pieces : Updates]
    \/ run \in [task : {"pbkdf2"}, request : KeyRequests]
    \/ run \in ShaRuns
    \/ run \in KeccakRuns
    \/ run \in [task : {"hd"}, key : ParentKeys, index : Indexes]
    \/ run \in [task : {"path"}, seed : Seeds, purpose : Numbers, coin : Numbers]
    \/ run \in [task : {"address"}, address : Addresses, other : Addresses]
    \/ run \in [task : {"radix"}, text : Texts]
    \/ run \in [task : {"mnemonic"}, entropy : Entropies]
    \/ run \in [task : {"words"}, words : Phrases]

\* A run on halves, and that on its whole words, is a run of the compression functions.
LEMMA ShaRunIs ==
    ASSUME NEW p, NEW q, Sha!Agree(p, q)
    PROVE  [task |-> "sha2", wide |-> p, split |-> q] \in ShaRuns
<1>1. q \in Sha!SplitRuns /\ p = Sha!WholeRun(q)
  BY DEF Sha!Agree
<1>2. QED
  BY <1>1 DEF ShaRuns

\* Every run begins with legal inputs (web/wallet.js:5235-5299).
LEMMA AlgorithmsBegin == AlgorithmsInit => AlgorithmsInv
<1>1. SUFFICES ASSUME run \in Runs
               PROVE  AlgorithmsInv
  BY DEF AlgorithmsInit
<1>2. ASSUME NEW s \in KeccakStates
      PROVE  [task |-> "keccak", start |-> s, s |-> s, lanes |-> Sha3!State(s), round |-> 0] \in KeccakRuns
  <2>1. s \in Sha3!States
    BY InputsAssumption
  <2>2. QED
    BY <2>1 DEF KeccakRuns
<1> DEFINE Sha2Run(c) == [task |-> "sha2", wide |-> Sha!Start256(c.v, c.block),
                           split |-> Sha!Start512(Sha!Halved(c.v), Sha!Halved(c.block))]
           sha2 == {Sha2Run(c) : c \in Compressions}
<1>3. run \in sha2 => run \in ShaRuns
  <2>1. ASSUME NEW c \in Compressions
        PROVE  Sha2Run(c) \in ShaRuns
    <3> DEFINE v == c.v
               block == c.block
    <3>1. v \in [1 .. 8 -> SUBSET Sha!Wide] /\ block \in [1 .. 16 -> SUBSET Sha!Wide]
      BY InputsAssumption
    <3>2. Sha!Registers = 1 .. 8 /\ Sha!Width /\ Sha!Constants
      BY AlgorithmsAssumption DEF Sha!Registers
    <3> HIDE DEF v, block
    <3>3. Sha!Agree(Sha!Start256(v, block), Sha!Start512(Sha!Halved(v), Sha!Halved(block)))
      BY <3>1, <3>2, Sha!RunsStart
    <3>4. QED
      BY <3>3, ShaRunIs, Zenon DEF v, block
  <2> HIDE DEF Sha2Run
  <2>2. QED
    BY <2>1
<1> DEFINE begun == {[task |-> "keccak", start |-> s, s |-> s, lanes |-> Sha3!State(s), round |-> 0] : s \in KeccakStates}
<1>4. run \in begun => run \in KeccakRuns
  BY <1>2
<1>5. \/ run \in [task : {"hash"}, pieces : Updates]
      \/ run \in [task : {"pbkdf2"}, request : KeyRequests]
      \/ run \in sha2
      \/ run \in begun
      \/ run \in [task : {"hd"}, key : ParentKeys, index : Indexes]
      \/ run \in [task : {"path"}, seed : Seeds, purpose : Numbers, coin : Numbers]
      \/ run \in [task : {"address"}, address : Addresses, other : Addresses]
      \/ run \in [task : {"radix"}, text : Texts]
      \/ run \in [task : {"mnemonic"}, entropy : Entropies]
      \/ run \in [task : {"words"}, words : Phrases]
  BY <1>1, Zenon DEF Runs
<1> HIDE DEF begun, sha2
<1>6. QED
  BY <1>3, <1>4, <1>5, Zenon DEF AlgorithmsInv

\* A round of SHA-512 on halves is a round on whole words, and a round of the permutation the
\* round of FIPS 202 (web/wallet.js:747-775, 5259-5298).
LEMMA AlgorithmsStep == AlgorithmsInv /\ [AlgorithmsNext]_run => AlgorithmsInv'
<1>1. CASE UNCHANGED run
  BY <1>1 DEF AlgorithmsInv
<1>2. ASSUME AlgorithmsInv, KeccakRound
      PROVE  AlgorithmsInv'
  <2>1. run \in KeccakRuns
    BY <1>2 DEF AlgorithmsInv, KeccakRound, ShaRuns
  <2> DEFINE s == Sha3!KeccakRound(run.s, run.round)
             lanes == Sha3!ReferenceRound(run.lanes, run.round)
  <2>2. /\ run.s \in Sha3!States /\ run.lanes = Sha3!State(run.s)
        /\ run.round \in 0 .. 23 /\ run.start \in KeccakStates
    BY <1>2, <2>1 DEF KeccakRuns, KeccakRound
  <2>3. s \in Sha3!States /\ lanes = Sha3!State(s)
    BY <2>2, Sha3!RoundIsReference
  <2>4. run' = [run EXCEPT !.s = s, !.lanes = lanes, !.round = run.round + 1]
    BY <1>2 DEF KeccakRound
  <2> HIDE DEF s, lanes
  <2>5. run' = [task |-> "keccak", start |-> run.start, s |-> s, lanes |-> lanes, round |-> run.round + 1]
    BY <2>1, <2>4 DEF KeccakRuns
  <2>6. run' \in KeccakRuns
    BY <2>2, <2>3, <2>5 DEF KeccakRuns
  <2>7. QED
    BY <2>6 DEF AlgorithmsInv
<1>3. ASSUME AlgorithmsInv, ShaRound
      PROVE  AlgorithmsInv'
  <2>1. run \in ShaRuns
    BY <1>3 DEF AlgorithmsInv, ShaRound, KeccakRuns
  <2> DEFINE p == Sha!Step256(run.wide)
             q == Sha!Step512(run.split)
  <2>2. /\ run.split \in Sha!SplitRuns /\ run.wide = Sha!WholeRun(run.split) /\ run.wide.i < ShaRounds
        /\ run = [task |-> "sha2", wide |-> run.wide, split |-> run.split]
    BY <1>3, <2>1 DEF ShaRuns, ShaRound
  <2>3. Sha!Agree(p, q)
    <3>1. Sha!Agree(run.wide, run.split)
      BY <2>2 DEF Sha!Agree
    <3>2. Sha!Width /\ Sha!Constants
      BY AlgorithmsAssumption
    <3>3. QED
      BY <2>2, <3>1, <3>2, Sha!RunsStep
  <2>4. run' = [run EXCEPT !.wide = p, !.split = q]
    BY <1>3 DEF ShaRound
  <2> HIDE DEF p, q
  <2>5. run' = [task |-> "sha2", wide |-> p, split |-> q]
    BY <2>1, <2>4 DEF ShaRuns
  <2>6. run' \in ShaRuns
    BY <2>3, <2>5, ShaRunIs
  <2>7. QED
    BY <2>6 DEF AlgorithmsInv
<1>4. QED
  BY <1>1, <1>2, <1>3 DEF AlgorithmsNext

\* The inputs of every run stay legal, the compression function on halves in step with that
\* on whole words, and the permutation with the standard (web/wallet.js:727-785, 5235-5299).
THEOREM AlgorithmsInvariance == AlgorithmsSpec => []AlgorithmsInv
<1>1. QED
  BY AlgorithmsBegin, AlgorithmsStep, PTL DEF AlgorithmsSpec

\* Every hash, of every message in any pieces, is the hash of the standard
\* (web/wallet.js:302-386, 5300-5405).
THEOREM HashesMatch == AlgorithmsSpec => []HashIsReference
<1>1. AlgorithmsInv => HashIsReference
  <2>1. SUFFICES ASSUME AlgorithmsInv, run.task = "hash"
                 PROVE  Hashes!HashIsReference(run.pieces) /\ Sha3!HashIsReference(run.pieces)
    BY DEF HashIsReference
  <2>2. run.pieces \in Seq(Seq(Byte))
    BY <2>1, InputsAssumption DEF AlgorithmsInv, KeccakRuns, ShaRuns
  <2>3. Hashes!Sizes /\ Sha3!Sizes
    BY AlgorithmsAssumption DEF Hashes!Sizes, Sha3!Sizes
  <2>4. Hashes!HashIsReference(run.pieces)
    BY <2>2, <2>3, Hashes!HashesAreReference
  <2>5. Sha3!HashIsReference(run.pieces)
    BY <2>2, <2>3, Sha3!SpongeIsReference
  <2>6. QED
    BY <2>4, <2>5
<1>2. QED
  BY <1>1, AlgorithmsInvariance, PTL

\* Every key of PBKDF2 is the key of the standard (web/wallet.js:238-281).
THEOREM KeysMatch == AlgorithmsSpec => []Pbkdf2IsReference
<1>1. AlgorithmsInv => Pbkdf2IsReference
  <2>1. SUFFICES ASSUME AlgorithmsInv, run.task = "pbkdf2"
                 PROVE  Hashes!Pbkdf2IsReference(run.request.password, run.request.salt, run.request.c, run.request.dkLen)
    BY DEF Pbkdf2IsReference
  <2>2. run.request \in [password : Seq(Byte), salt : Seq(Byte), c : Nat \ {0}, dkLen : Nat]
    BY <2>1, InputsAssumption DEF AlgorithmsInv, KeccakRuns, ShaRuns
  <2>3. /\ run.request.password \in Seq(Byte) /\ run.request.salt \in Seq(Byte)
        /\ run.request.c \in Nat \ {0} /\ run.request.dkLen \in Nat
    BY <2>2
  <2>4. Hashes!Sizes
    BY AlgorithmsAssumption DEF Hashes!Sizes
  <2>5. QED
    BY <2>3, <2>4, Hashes!KeysAreReference
<1>2. QED
  BY <1>1, AlgorithmsInvariance, PTL

\* The hash on halves is the hash on whole words after every round
\* (web/wallet.js:423-457, 554-588, 727-785).
THEOREM CompressionsMatch == AlgorithmsSpec => []SplitIsWhole
<1>1. AlgorithmsInv => SplitIsWhole
  <2>1. SUFFICES ASSUME AlgorithmsInv, run.task = "sha2"
                 PROVE  Sha!SplitIsWhole(run.wide, run.split)
    BY DEF SplitIsWhole
  <2>2. run \in ShaRuns
    BY <2>1 DEF AlgorithmsInv, KeccakRuns
  <2>3. Sha!Agree(run.wide, run.split)
    BY <2>2 DEF ShaRuns, Sha!Agree
  <2>4. Sha!Width
    BY AlgorithmsAssumption
  <2>5. QED
    BY <2>3, <2>4, Sha!RunsEnd
<1>2. QED
  BY <1>1, AlgorithmsInvariance, PTL

\* The permutation is that of the standard after every round (web/wallet.js:5235-5299).
THEOREM RoundsMatch == AlgorithmsSpec => []KeccakIsReference
<1>1. AlgorithmsInv => KeccakIsReference
  <2>1. SUFFICES ASSUME AlgorithmsInv, run.task = "keccak"
                 PROVE  Sha3!KeccakIsReference(run.s, run.lanes)
    BY DEF KeccakIsReference
  <2>2. run \in KeccakRuns
    BY <2>1 DEF AlgorithmsInv, ShaRuns
  <2>3. QED
    BY <2>2 DEF KeccakRuns, Sha3!KeccakIsReference
<1>2. QED
  BY <1>1, AlgorithmsInvariance, PTL

\* Every key, path and address is derived as it should be (web/wallet.js:5030-5230, 5437-5462).
THEOREM DerivationsMatch == AlgorithmsSpec => []PublicDerivationMatches
<1>1. AlgorithmsInv => PublicDerivationMatches
  <2>1. Order /\ Hardened /\ Depths \in Nat \ {0}
    BY AlgorithmsAssumption DEF Order, Hardened
  <2>2. ASSUME AlgorithmsInv, run.task = "hd"
        PROVE  ChildrenMatch(run.key, run.index)
    <3>1. run.key \in ParentKeys /\ run.index \in Indexes
      BY <2>2 DEF AlgorithmsInv, KeccakRuns, ShaRuns
    <3>2. IsPrivateKey(run.key)
      BY <3>1, InputsAssumption
    <3> DEFINE key == run.key
    <3> HIDE DEF key
    <3>3. /\ key # NoKey /\ key.priv \in 1 .. N - 1 /\ key.depth \in 0 .. Depths - 1
          /\ key = Key(key.priv, None, key.chain, key.depth, key.index, key.parent)
      BY <3>2, Zenon DEF IsPrivateKey, IsValidPrivateKey, key
    <3>4. Key(key.priv, None, key.chain, key.depth, key.index, key.parent) # NoKey
      BY <3>3, Zenon
    <3>5. ChildrenMatch(Key(key.priv, None, key.chain, key.depth, key.index, key.parent), run.index)
      BY <2>1, <3>1, <3>3, <3>4, DerivationMatches, Zenon
    <3>6. QED
      BY <3>3, <3>5, Zenon DEF key
  <2>3. ASSUME AlgorithmsInv, run.task = "path"
        PROVE  AccountMatches(run.seed, run.purpose, run.coin)
    <3>1. run.seed \in Seeds
      BY <2>3 DEF AlgorithmsInv, KeccakRuns, ShaRuns
    <3>2. Prf(None, run.seed).tweak \in Nat
      BY <3>1, InputsAssumption
    <3>3. QED
      BY <2>1, <3>2, AccountsMatch
  <2>4. ASSUME AlgorithmsInv, run.task = "address"
        PROVE  CaseMatches(run.address, run.other)
    <3>1. run.address \in Addresses /\ run.other \in Addresses
      BY <2>4 DEF AlgorithmsInv, KeccakRuns, ShaRuns
    <3>2. QED
      BY <3>1, InputsAssumption, CasesMatch
  <2>5. QED
    BY <2>2, <2>3, <2>4, Zenon DEF PublicDerivationMatches
<1>2. QED
  BY <1>1, AlgorithmsInvariance, PTL

\* Every text, mnemonic and phrase is coded and decoded as it should be (web/wallet.js:880-1135).
THEOREM CodecsMatch == AlgorithmsSpec => []CodecsRoundTrip
<1>1. AlgorithmsInv => CodecsRoundTrip
  <2>1. ASSUME AlgorithmsInv, run.task = "radix"
        PROVE  Codecs!TextMatches(run.text.bytes, run.text.from, run.text.to, run.text.sum)
    <3>1. run.text \in Texts
      BY <2>1 DEF AlgorithmsInv, KeccakRuns, ShaRuns
    <3>2. PICK t : t = run.text
      OBVIOUS
    <3>3. /\ t.from \in 2 .. 256 /\ t.to \in Nat \ {0, 1} /\ t.bytes \in Seq(0 .. t.from - 1)
          /\ Checksum(t.bytes) \in Seq(0 .. 255) /\ t.sum \in 1 .. Len(Checksum(t.bytes))
      BY <3>1, <3>2, InputsAssumption, Zenon
    <3>4. Codecs!Base(t.from) /\ t.from <= 256 /\ Codecs!Base(t.to)
      <4>1. \A x \in 2 .. 256 : x \in Nat \ {0, 1} /\ x <= 256
        OBVIOUS
      <4>2. QED
        BY <3>3, <4>1, Zenon DEF Codecs!Base
    <3>5. t.sum \in Nat \ {0} /\ t.sum <= Len(Checksum(t.bytes))
      <4>1. Len(Checksum(t.bytes)) \in Nat
        BY <3>3, LenProperties, Zenon
      <4>2. QED
        BY <3>3, <4>1
    <3>6. Codecs!TextMatches(t.bytes, t.from, t.to, t.sum)
      BY <3>3, <3>4, <3>5, Codecs!TextsMatch, Zenon
    <3>7. QED
      BY <3>2, <3>6, Zenon
  <2>2. ASSUME AlgorithmsInv, run.task = "mnemonic"
        PROVE  Codecs!MnemonicMatches(run.entropy)
    <3>1. run.entropy \in Entropies
      BY <2>2 DEF AlgorithmsInv, KeccakRuns, ShaRuns
    <3>2. PICK e : e = run.entropy
      OBVIOUS
    <3>3. Len(e) \in Codecs!EntropyLengths /\ e \in Seq(0 .. 255) /\ Checksum(e) \in Seq(0 .. 255) \ {<<>>}
      BY <3>1, <3>2, InputsAssumption, Zenon
    <3>4. Codecs!MnemonicMatches(e)
      BY <3>3, Codecs!MnemonicsMatch
    <3>5. QED
      BY <3>2, <3>4, Zenon
  <2>3. ASSUME AlgorithmsInv, run.task = "words"
        PROVE  Codecs!PhraseMatches(run.words)
    <3>1. run.words \in Phrases
      BY <2>3 DEF AlgorithmsInv, KeccakRuns, ShaRuns
    <3>2. PICK w : w = run.words
      OBVIOUS
    <3>3. w \in Seq([letter : Nat]) /\ Checksum(Codecs!mnemonicToEntropy(w).value) \in Seq(0 .. 255) \ {<<>>}
      BY <3>1, <3>2, InputsAssumption, Zenon
    <3>4. Codecs!IsMessage(w)
      BY <3>3, Zenon DEF Codecs!IsMessage
    <3>5. Codecs!PhraseMatches(w)
      BY <3>3, <3>4, Codecs!PhrasesMatch
    <3>6. QED
      BY <3>2, <3>5, Zenon
  <2>4. QED
    BY <2>1, <2>2, <2>3, Zenon DEF CodecsRoundTrip
<1>2. QED
  BY <1>1, AlgorithmsInvariance, PTL
=============================================================================

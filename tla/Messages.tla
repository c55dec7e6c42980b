------------------------------ MODULE Messages ------------------------------
(* Induction and facts about sequences, for the proofs about words and hashes.  *)
EXTENDS Integers, Sequences, FiniteSetTheorems, SequenceTheorems, WellFoundedInduction, TLAPS

\* A set of numbers that has zero, and the next of each, has all of them.
LEMMA AllNumbers ==
    ASSUME NEW S, 0 \in S, \A n \in Nat : n \in S => n + 1 \in S
    PROVE  \A n \in Nat : n \in S
<1> DEFINE Missing == Nat \ S
           Below == {0 .. n : n \in Missing}
<1>1. SUFFICES ASSUME Missing # {}
               PROVE  FALSE
  OBVIOUS
<1>2. Below \subseteq FiniteSubsetsOf(Nat) /\ Below # {}
  <2>1. ASSUME NEW n \in Missing
        PROVE  0 .. n \in FiniteSubsetsOf(Nat)
    <3>1. 0 \in Int /\ n \in Int /\ 0 .. n \subseteq Nat
      OBVIOUS
    <3>2. IsFiniteSet(0 .. n)
      BY <3>1, FS_Interval, Zenon
    <3>3. QED
      BY <3>1, <3>2 DEF FiniteSubsetsOf
  <2>2. QED
    BY <1>1, <2>1
<1>3. PICK x \in Below : \A y \in Below : ~(<<y, x>> \in StrictSubsetOrdering(Nat))
  BY <1>2, FS_StrictSubsetOrderingWellFounded, WFMin, Zenon
<1>4. PICK n \in Missing : x = 0 .. n
  BY <1>3
<1>5. n # 0 /\ n - 1 \in Nat
  OBVIOUS
<1>6. n - 1 \in Missing
  <2>1. n - 1 \in S => (n - 1) + 1 \in S
    BY <1>5
  <2>2. QED
    BY <1>5, <2>1
<1>7. <<0 .. n - 1, 0 .. n>> \in StrictSubsetOrdering(Nat)
  BY <1>5 DEF StrictSubsetOrdering
<1>8. QED
  BY <1>3, <1>4, <1>6, <1>7


-----------------------------------------------------------------------------
(* Messages: sequences of anything *)

IsMessage(s) == \E S : s \in Seq(S)

\* A message is a function on the numbers up to its length.
LEMMA MessageIs ==
    ASSUME NEW s, IsMessage(s)
    PROVE  Len(s) \in Nat /\ DOMAIN s = 1 .. Len(s) /\ s = [i \in 1 .. Len(s) |-> s[i]]
<1>1. PICK S : s \in Seq(S)
  BY DEF IsMessage
<1>2. Len(s) \in Nat /\ DOMAIN s = 1 .. Len(s) /\ s \in [1 .. Len(s) -> S]
  BY <1>1, LenProperties
<1>3. QED
  BY <1>2

\* A function on the numbers up to n is a message of length n.
LEMMA MessageBy ==
    ASSUME NEW n \in Nat, NEW f, f = [i \in 1 .. n |-> f[i]]
    PROVE  IsMessage(f) /\ Len(f) = n
<1> DEFINE S == {f[i] : i \in 1 .. n}
<1>1. f \in [1 .. n -> S]
  OBVIOUS
<1>2. f \in Seq(S)
  BY <1>1
<1>3. Len(f) \in Nat /\ DOMAIN f = 1 .. Len(f)
  BY <1>2, LenProperties
<1>4. DOMAIN f = 1 .. n
  BY <1>1
<1>5. Len(f) = n
  BY <1>3, <1>4, SMT
<1>6. QED
  BY <1>2, <1>5 DEF IsMessage

\* Messages of the same length and elements are the same.
LEMMA SameMessage ==
    ASSUME NEW s, NEW t, IsMessage(s), IsMessage(t), Len(s) = Len(t), \A i \in 1 .. Len(s) : s[i] = t[i]
    PROVE  s = t
<1>1. s = [i \in 1 .. Len(s) |-> s[i]] /\ t = [i \in 1 .. Len(s) |-> t[i]]
  BY MessageIs
<1>2. [i \in 1 .. Len(s) |-> s[i]] = [i \in 1 .. Len(s) |-> t[i]]
  OBVIOUS
<1>3. QED
  BY <1>1, <1>2

\* One message after another.
LEMMA Concatenated ==
    ASSUME NEW s, NEW t, IsMessage(s), IsMessage(t)
    PROVE  /\ IsMessage(s \o t) /\ Len(s \o t) = Len(s) + Len(t) /\ Len(s) \in Nat /\ Len(t) \in Nat
           /\ \A i \in 1 .. Len(s) + Len(t) : (s \o t)[i] = IF i <= Len(s) THEN s[i] ELSE t[i - Len(s)]
<1>1. PICK S : s \in Seq(S)
  BY DEF IsMessage
<1>2. PICK T : t \in Seq(T)
  BY DEF IsMessage
<1>3. s \in Seq(S \cup T) /\ t \in Seq(S \cup T)
  BY <1>1, <1>2, SeqMonotonic
<1>4. /\ s \o t \in Seq(S \cup T) /\ Len(s \o t) = Len(s) + Len(t)
      /\ \A i \in 1 .. Len(s) + Len(t) : (s \o t)[i] = IF i <= Len(s) THEN s[i] ELSE t[i - Len(s)]
  BY <1>3, ConcatProperties
<1>5. QED
  BY <1>1, <1>2, <1>4, LenProperties DEF IsMessage

\* A part of a message.
LEMMA PartOf ==
    ASSUME NEW s, IsMessage(s), NEW m \in Nat \ {0}, NEW n \in Nat, n <= Len(s)
    PROVE  /\ IsMessage(SubSeq(s, m, n)) /\ Len(SubSeq(s, m, n)) = IF m <= n THEN n - m + 1 ELSE 0
           /\ \A i \in 1 .. n - m + 1 : SubSeq(s, m, n)[i] = s[m + i - 1]
<1>1. PICK S : s \in Seq(S)
  BY DEF IsMessage
<1>2. \A i \in m .. n : s[i] \in S
  BY <1>1, ElementOfSeq, MessageIs
<1>3. /\ SubSeq(s, m, n) \in Seq(S) /\ Len(SubSeq(s, m, n)) = IF m <= n THEN n - m + 1 ELSE 0
      /\ \A i \in 1 .. n - m + 1 : SubSeq(s, m, n)[i] = s[m + i - 1]
  BY <1>2, SubSeqProperties
<1>4. QED
  BY <1>3 DEF IsMessage

\* A message with something at its end.
LEMMA Appended ==
    ASSUME NEW s, IsMessage(s), NEW e
    PROVE  /\ IsMessage(Append(s, e)) /\ Len(Append(s, e)) = Len(s) + 1
           /\ \A i \in 1 .. Len(s) : Append(s, e)[i] = s[i]
           /\ Append(s, e)[Len(s) + 1] = e
<1>1. PICK S : s \in Seq(S)
  BY DEF IsMessage
<1>2. s \in Seq(S \cup {e}) /\ e \in S \cup {e}
  BY <1>1, SeqMonotonic
<1>3. QED
  BY <1>2, AppendProperties DEF IsMessage

\* The empty message.
LEMMA Empty ==
    IsMessage(<<>>) /\ Len(<<>>) = 0 /\ \A s : IsMessage(s) => <<>> \o s = s /\ s \o <<>> = s
<1>1. <<>> \in Seq({}) /\ Len(<<>>) = 0
  OBVIOUS
<1>2. ASSUME NEW s, IsMessage(s)
      PROVE  <<>> \o s = s /\ s \o <<>> = s
  BY <1>2, ConcatEmptySeq DEF IsMessage
<1>3. QED
  BY <1>1, <1>2 DEF IsMessage

\* Concatenation is associative.
LEMMA Associated ==
    ASSUME NEW s, NEW t, NEW u, IsMessage(s), IsMessage(t), IsMessage(u)
    PROVE  (s \o t) \o u = s \o (t \o u)
<1>1. PICK S : s \in Seq(S)
  BY DEF IsMessage
<1>2. PICK T : t \in Seq(T)
  BY DEF IsMessage
<1>3. PICK U : u \in Seq(U)
  BY DEF IsMessage
<1>4. s \in Seq(S \cup T \cup U) /\ t \in Seq(S \cup T \cup U) /\ u \in Seq(S \cup T \cup U)
  BY <1>1, <1>2, <1>3, SeqMonotonic
<1>5. QED
  BY <1>4, ConcatAssociative

\* A message is its first part and the rest.
LEMMA Parted ==
    ASSUME NEW s, IsMessage(s), NEW k \in Nat, NEW n \in Nat, k <= n, n <= Len(s)
    PROVE  SubSeq(s, 1, k) \o SubSeq(s, k + 1, n) = SubSeq(s, 1, n) /\ SubSeq(s, 1, Len(s)) = s /\ SubSeq(s, 1, 0) = <<>>
<1>1. PICK S : s \in Seq(S)
  BY DEF IsMessage
<1>2. Len(s) \in Nat /\ 1 \in 1 .. Len(s) + 1 /\ k \in 1 - 1 .. Len(s) /\ n \in k .. Len(s)
  BY MessageIs
<1>3. SubSeq(s, 1, k) \o SubSeq(s, k + 1, n) = SubSeq(s, 1, n)
  BY <1>1, <1>2, ConcatAdjacentSubSeq
<1>4. SubSeq(s, 1, Len(s)) = s
  BY <1>1, SubSeqFull
<1>5. SubSeq(s, 1, 0) = <<>>
  BY SubSeqEmpty
<1>6. QED
  BY <1>3, <1>4, <1>5

-----------------------------------------------------------------------------
(* Division *)

\* Quotient and remainder are what they are.
LEMMA Divided ==
    ASSUME NEW d \in Nat \ {0}, NEW q \in Nat, NEW r \in 0 .. d - 1
    PROVE  (d * q + r) \div d = q /\ (d * q + r) % d = r
<1> DEFINE x == d * q + r
           p == x \div d
           s == x % d
<1>1. x \in Int /\ p \in Int /\ s \in 0 .. d - 1 /\ x = d * p + s
  BY SMT
<1>0. x = d * q + r
  OBVIOUS
<1> HIDE DEF x, p, s
<1>2. d * (p - q) = r - s
  BY <1>1, <1>0, SMT
<1>3. p - q >= 1 => d * (p - q) >= d
  BY <1>1, SMT
<1>4. p - q <= -1 => d * (p - q) <= -d
  BY <1>1, SMT
<1>5. p = q
  BY <1>1, <1>2, <1>3, <1>4, SMT
<1>6. r = s
  BY <1>1, <1>0, <1>5, SMT
<1>7. QED
  BY <1>5, <1>6 DEF x, p, s

\* Every number has a quotient and a remainder.
LEMMA Divides ==
    ASSUME NEW d \in Nat \ {0}, NEW x \in Nat
    PROVE  x \div d \in Nat /\ x % d \in 0 .. d - 1 /\ x = d * (x \div d) + (x % d)
<1> DEFINE p == x \div d
           s == x % d
<1>1. p \in Int /\ s \in 0 .. d - 1 /\ x = d * p + s
  BY SMT
<1> HIDE DEF p, s
<1>2. p <= -1 => d * p <= -d
  BY <1>1, SMT
<1>3. p \in Nat
  BY <1>1, <1>2, SMT
<1>4. QED
  BY <1>1, <1>3, Zenon DEF p, s
=============================================================================

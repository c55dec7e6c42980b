---------------------------- MODULE CodecProofs ----------------------------
(* Theorems about the codecs: digits of every radix converted to another and    *)
(* back, with the zeros in front and with a checksum; and mnemonics of every    *)
(* entropy, and every phrase that is accepted, whatever the hash is.            *)
EXTENDS BaseCodec, Messages

-----------------------------------------------------------------------------
(* Digits and what they are worth *)

Base(b) == b \in Nat \ {0, 1}

\* A turn of a long division: the quotient is a digit of the old radix, the remainder one of
\* the new (web/wallet.js:932-940).
LEMMA DigitDivided ==
    ASSUME NEW a \in Nat \ {0}, NEW b \in Nat \ {0}, NEW c \in 0 .. b - 1, NEW d \in 0 .. a - 1
    PROVE  /\ (a * c + d) \div b \in 0 .. a - 1 /\ (a * c + d) % b \in 0 .. b - 1
           /\ a * c + d = b * ((a * c + d) \div b) + ((a * c + d) % b)
<1> DEFINE x == a * c + d
           q == x \div b
           r == x % b
<1>1. a * c \in Nat /\ x \in Nat
  BY SMT
<1>2. q \in Nat /\ r \in 0 .. b - 1 /\ x = b * q + r
  <2> HIDE DEF x
  <2>1. QED
    BY <1>1, Divides
<1>3. x < b * a
  <2>1. c + 1 <= b
    OBVIOUS
  <2>2. a * (c + 1) <= a * b
    BY <2>1, SMT
  <2>3. a * (c + 1) = a * c + a /\ a * b = b * a
    BY SMT
  <2>4. QED
    BY <1>1, <2>2, <2>3, SMT
<1> HIDE DEF x, q, r
<1>4. q >= a => b * q >= b * a
  BY <1>2, SMT
<1>5. b * q \in Nat /\ b * a \in Nat
  BY <1>2, SMT
<1>6. q < a
  BY <1>1, <1>2, <1>3, <1>4, <1>5
<1>7. q \in 0 .. a - 1
  BY <1>2, <1>6
<1>8. QED
  BY <1>2, <1>7, Zenon DEF x, q, r

\* What the first digits of a number are worth.
Worth(v, d, b, n) == v[0] = 0 /\ \A i \in 1 .. n : v[i] = v[i - 1] * b + d[i]

\* There are such values.
LEMMA ValuesRun ==
    ASSUME NEW d, IsMessage(d), NEW b
    PROVE  Values(d, b) = [i \in 0 .. Len(d) |-> Values(d, b)[i]] /\ Worth(Values(d, b), d, b, Len(d))
<1> DEFINE At(f, i) == IF i = 0 THEN 0 ELSE f[i - 1] * b + d[i]
           Is(f, most) == f = [i \in 0 .. most |-> At(f, i)]
           S == {most \in Nat : \E f : Is(f, most)}
           top == Len(d)
           w == CHOOSE f : Is(f, top)
<1>0. top \in Nat
  BY MessageIs
<1>1. 0 \in S
  <2>1. Is([i \in 0 .. 0 |-> 0], 0)
    OBVIOUS
  <2> HIDE DEF Is
  <2>2. QED
    BY <2>1
<1>2. ASSUME NEW most \in Nat, most \in S
      PROVE  most + 1 \in S
  <2>1. PICK f : Is(f, most)
    BY <1>2, Zenon
  <2> DEFINE g == [i \in 0 .. most + 1 |-> IF i <= most THEN f[i] ELSE At(f, i)]
  <2>2. \A i \in 0 .. most : g[i] = f[i]
    OBVIOUS
  <2>3. \A i \in 0 .. most + 1 : i # 0 => i - 1 \in 0 .. most
    OBVIOUS
  <2>4. \A i \in 0 .. most : f[i] = At(f, i)
    <3>1. f = [i \in 0 .. most |-> At(f, i)]
      BY <2>1, Zenon
    <3> HIDE DEF At
    <3>2. QED
      BY <3>1, Zenon
  <2>5. g = [i \in 0 .. most + 1 |-> IF i <= most THEN f[i] ELSE At(f, i)]
    OBVIOUS
  <2> HIDE DEF g
  <2>6. \A i \in 0 .. most + 1 : At(g, i) = At(f, i)
    BY <2>2, <2>3
  <2> HIDE DEF At
  <2>7. \A i \in 0 .. most + 1 : (IF i <= most THEN f[i] ELSE At(f, i)) = At(g, i)
    BY <2>4, <2>6
  <2>8. g = [i \in 0 .. most + 1 |-> At(g, i)]
    BY <2>5, <2>7
  <2>9. Is(g, most + 1)
    BY <2>8
  <2> HIDE DEF Is
  <2>10. QED
    BY <2>9
<1>3. top \in S
  <2> HIDE DEF S, top
  <2>1. QED
    BY <1>0, <1>1, <1>2, AllNumbers
<1>4. Is(w, top)
  <2> HIDE DEF Is
  <2>1. QED
    BY <1>3, Zenon
<1>5. Values(d, b) = w
  BY Zenon DEF Values
<1>6. w = [i \in 0 .. top |-> At(w, i)]
  BY <1>4, Zenon
<1> HIDE DEF w
<1>7. w = [i \in 0 .. top |-> w[i]] /\ \A i \in 0 .. top : w[i] = At(w, i)
  <2> HIDE DEF At
  <2>1. QED
    BY <1>6
<1>8. Worth(w, d, b, top)
  <2>1. w[0] = At(w, 0) /\ \A i \in 1 .. top : w[i] = At(w, i)
    <3> HIDE DEF At, top
    <3>1. QED
      BY <1>0, <1>7
  <2>2. \A i \in 1 .. top : i # 0
    OBVIOUS
  <2>3. QED
    BY <2>1, <2>2, Zenon DEF Worth
<1>9. QED
  BY <1>5, <1>7, <1>8, Zenon

\* They are numbers, and a value is zero when its digits are.
LEMMA WorthNumbers ==
    ASSUME NEW b, Base(b), NEW n \in Nat, NEW d, \A i \in 1 .. n : d[i] \in 0 .. b - 1, NEW v, Worth(v, d, b, n)
    PROVE  \A k \in 0 .. n : v[k] \in Nat /\ (v[k] = 0 <=> \A i \in 1 .. k : d[i] = 0)
<1> DEFINE P(k) == v[k] \in Nat /\ (v[k] = 0 <=> \A i \in 1 .. k : d[i] = 0)
           S == {k \in Nat : k <= n => P(k)}
<1>1. 0 \in S
  BY DEF Worth
<1>2. ASSUME NEW k \in Nat, k \in S
      PROVE  k + 1 \in S
  <2>1. SUFFICES ASSUME k + 1 <= n
                 PROVE  P(k + 1)
    OBVIOUS
  <2>2. P(k)
    BY <1>2, <2>1
  <2>3. v[k + 1] = v[k] * b + d[k + 1] /\ d[k + 1] \in 0 .. b - 1
    BY <2>1 DEF Worth
  <2>4. v[k] * b \in Nat /\ (v[k] * b = 0 <=> v[k] = 0)
    <3>1. b \in Nat /\ b > 0 /\ v[k] \in Nat
      BY <2>2 DEF Base
    <3>2. QED
      BY <3>1, SMT
  <2>5. v[k + 1] \in Nat /\ (v[k + 1] = 0 <=> v[k] = 0 /\ d[k + 1] = 0)
    BY <2>3, <2>4 DEF Base
  <2>6. (\A i \in 1 .. k + 1 : d[i] = 0) <=> (\A i \in 1 .. k : d[i] = 0) /\ d[k + 1] = 0
    OBVIOUS
  <2>7. QED
    BY <2>2, <2>5, <2>6, Zenon
<1>3. \A k \in Nat : k \in S
  <2> HIDE DEF S
  <2>1. QED
    BY <1>1, <1>2, AllNumbers
<1>4. QED
  BY <1>3

-----------------------------------------------------------------------------
(* A pass of the long division *)

\* What is carried from digit to digit.
LEMMA CarriesRun ==
    ASSUME NEW p, IsMessage(p.digits), p.pos \in Nat \ {0}, NEW from, NEW to
    PROVE  /\ Carries(p, from, to)[0] = 0
           /\ \A i \in 1 .. Len(p.digits) :
                 Carries(p, from, to)[i] =
                    IF i < p.pos THEN 0 ELSE (from * Carries(p, from, to)[i - 1] + p.digits[i]) % to
<1> DEFINE Turn(x, i) == (from * x + p.digits[i]) % to
           At(f, i) == IF i < p.pos THEN 0 ELSE Turn(f[i - 1], i)
           Is(f, most) == f = [i \in 0 .. most |-> At(f, i)]
           S == {most \in Nat : \E f : Is(f, most)}
           top == Len(p.digits)
           w == CHOOSE f : Is(f, top)
<1>00. Carries(p, from, to) = w
  BY Zenon DEF Carries
<1>01. \A i : Turn(Carries(p, from, to)[i - 1], i) = (from * Carries(p, from, to)[i - 1] + p.digits[i]) % to
  OBVIOUS
<1> HIDE DEF Turn
<1>0. top \in Nat
  BY MessageIs
<1>1. 0 \in S
  <2>1. Is([i \in 0 .. 0 |-> 0], 0)
    OBVIOUS
  <2> HIDE DEF Is
  <2>2. QED
    BY <2>1
<1>2. ASSUME NEW most \in Nat, most \in S
      PROVE  most + 1 \in S
  <2>1. PICK f : Is(f, most)
    BY <1>2, Zenon
  <2> DEFINE g == [i \in 0 .. most + 1 |-> IF i <= most THEN f[i] ELSE At(f, i)]
  <2>2. \A i \in 0 .. most : g[i] = f[i]
    OBVIOUS
  <2>3. \A i \in 0 .. most + 1 : i # 0 => i - 1 \in 0 .. most
    OBVIOUS
  <2>4. \A i \in 0 .. most : f[i] = At(f, i)
    <3>1. f = [i \in 0 .. most |-> At(f, i)]
      BY <2>1, Zenon
    <3> HIDE DEF At
    <3>2. QED
      BY <3>1, Zenon
  <2>5. g = [i \in 0 .. most + 1 |-> IF i <= most THEN f[i] ELSE At(f, i)]
    OBVIOUS
  <2> HIDE DEF g
  <2>6. \A i \in 0 .. most + 1 : At(g, i) = At(f, i)
    BY <2>2, <2>3
  <2> HIDE DEF At
  <2>7. \A i \in 0 .. most + 1 : (IF i <= most THEN f[i] ELSE At(f, i)) = At(g, i)
    BY <2>4, <2>6
  <2>8. g = [i \in 0 .. most + 1 |-> At(g, i)]
    BY <2>5, <2>7
  <2>9. Is(g, most + 1)
    BY <2>8
  <2> HIDE DEF Is
  <2>10. QED
    BY <2>9
<1>3. top \in S
  <2> HIDE DEF S, top
  <2>1. QED
    BY <1>0, <1>1, <1>2, AllNumbers
<1>4. Is(w, top)
  <2> HIDE DEF Is
  <2>1. QED
    BY <1>3, Zenon
<1> HIDE DEF w
<1>5. \A i \in 0 .. top : w[i] = At(w, i)
  <2>1. w = [i \in 0 .. top |-> At(w, i)]
    BY <1>4, Zenon
  <2> HIDE DEF At
  <2>2. QED
    BY <2>1, Zenon
<1>6. w[0] = 0 /\ \A i \in 1 .. top : w[i] = At(w, i)
  <2>1. w[0] = At(w, 0) /\ \A i \in 1 .. top : w[i] = At(w, i)
    <3> HIDE DEF At, top
    <3>1. QED
      BY <1>0, <1>5
  <2>2. 0 < p.pos
    OBVIOUS
  <2>3. QED
    BY <2>1, <2>2, Zenon
<1>7. QED
  BY <1>00, <1>01, <1>6, Zenon

\* The passes, one after another.
LEMMA PassesRun ==
    ASSUME NEW d, NEW from, NEW to, MostPasses(d, from) \in Nat
    PROVE  LET passes == Passes(d, from, to)
           IN /\ DOMAIN passes = 0 .. MostPasses(d, from)
              /\ passes[0] = [digits |-> d, carry |-> 0, done |-> FALSE, pos |-> 1]
              /\ \A i \in 1 .. MostPasses(d, from) : passes[i] = Pass(passes[i - 1], from, to)
<1> DEFINE Turn(x) == Pass(x, from, to)
           start == [digits |-> d, carry |-> 0, done |-> FALSE, pos |-> 1]
           At(f, i) == IF i = 0 THEN start ELSE Turn(f[i - 1])
           Is(f, most) == f = [i \in 0 .. most |-> At(f, i)]
           S == {most \in Nat : \E f : Is(f, most)}
           top == MostPasses(d, from)
           w == CHOOSE f : Is(f, top)
<1>00. Passes(d, from, to) = w
  BY Zenon DEF Passes
<1>01. \A x : Turn(x) = Pass(x, from, to)
  BY Zenon
<1>02. start = [digits |-> d, carry |-> 0, done |-> FALSE, pos |-> 1]
  BY Zenon
<1> HIDE DEF Turn, start
<1>0. top \in Nat
  BY Zenon
<1>1. 0 \in S
  <2>1. Is([i \in 0 .. 0 |-> start], 0)
    OBVIOUS
  <2> HIDE DEF Is
  <2>2. QED
    BY <2>1
<1>2. ASSUME NEW most \in Nat, most \in S
      PROVE  most + 1 \in S
  <2>1. PICK f : Is(f, most)
    BY <1>2, Zenon
  <2> DEFINE g == [i \in 0 .. most + 1 |-> IF i <= most THEN f[i] ELSE At(f, i)]
  <2>2. \A i \in 0 .. most : g[i] = f[i]
    OBVIOUS
  <2>3. \A i \in 0 .. most + 1 : i # 0 => i - 1 \in 0 .. most
    OBVIOUS
  <2>4. \A i \in 0 .. most : f[i] = At(f, i)
    <3>1. f = [i \in 0 .. most |-> At(f, i)]
      BY <2>1, Zenon
    <3> HIDE DEF At
    <3>2. QED
      BY <3>1, Zenon
  <2>5. g = [i \in 0 .. most + 1 |-> IF i <= most THEN f[i] ELSE At(f, i)]
    OBVIOUS
  <2> HIDE DEF g
  <2>6. \A i \in 0 .. most + 1 : At(g, i) = At(f, i)
    BY <2>2, <2>3
  <2> HIDE DEF At
  <2>7. \A i \in 0 .. most + 1 : (IF i <= most THEN f[i] ELSE At(f, i)) = At(g, i)
    BY <2>4, <2>6
  <2>8. g = [i \in 0 .. most + 1 |-> At(g, i)]
    BY <2>5, <2>7
  <2>9. Is(g, most + 1)
    BY <2>8
  <2> HIDE DEF Is
  <2>10. QED
    BY <2>9
<1>3. top \in S
  <2> HIDE DEF S, top
  <2>1. QED
    BY <1>0, <1>1, <1>2, AllNumbers
<1>4. Is(w, top)
  <2> HIDE DEF Is
  <2>1. QED
    BY <1>3, Zenon
<1> HIDE DEF w
<1>5. w = [i \in 0 .. top |-> At(w, i)]
  BY <1>4, Zenon
<1>6. DOMAIN w = 0 .. top /\ \A i \in 0 .. top : w[i] = At(w, i)
  <2> HIDE DEF At, top
  <2>1. QED
    BY <1>5, Zenon
<1>7. w[0] = start /\ \A i \in 1 .. top : w[i] = Turn(w[i - 1])
  <2>1. w[0] = At(w, 0) /\ \A i \in 1 .. top : w[i] = At(w, i)
    <3> HIDE DEF At, top
    <3>1. QED
      BY <1>0, <1>6
  <2>2. \A i \in 1 .. top : i # 0
    <3> HIDE DEF top
    <3>1. QED
      BY <1>0
  <2>3. QED
    BY <2>1, <2>2, Zenon
<1>8. QED
  BY <1>00, <1>01, <1>02, <1>6, <1>7, Zenon

\* What is worth as much as its first digits, in its own digits.
IsDigits(d, b, n) == IsMessage(d) /\ Len(d) = n /\ \A i \in 1 .. n : d[i] \in 0 .. b - 1
IsPass(p, b, n) == IsDigits(p.digits, b, n) /\ p.pos \in 1 .. n /\ \A i \in 1 .. p.pos - 1 : p.digits[i] = 0

\* A set of numbers between two has its last.
LEMMA LastOf ==
    ASSUME NEW a \in Nat, NEW n \in Nat, NEW S \in SUBSET (a .. n), S # {}
    PROVE  \E i \in S : \A j \in S : j <= i
<1> DEFINE T == {k \in Nat : (\E j \in S : n - k <= j) => \E i \in S : \A j \in S : j <= i}
<1>1. 0 \in T
  <2>1. ASSUME NEW j \in S, n - 0 <= j
        PROVE  \A l \in S : l <= j
    BY <2>1
  <2>2. QED
    BY <2>1
<1>2. ASSUME NEW k \in Nat, k \in T
      PROVE  k + 1 \in T
  <2>1. SUFFICES ASSUME NEW j \in S, n - (k + 1) <= j
                 PROVE  \E i \in S : \A l \in S : l <= i
    OBVIOUS
  <2>2. CASE \E l \in S : n - k <= l
    BY <1>2, <2>2
  <2>3. CASE \A l \in S : ~(n - k <= l)
    <3>1. \A l \in S : l <= j
      BY <2>1, <2>3
    <3>2. QED
      BY <3>1
  <2>4. QED
    BY <2>2, <2>3
<1>3. \A k \in Nat : k \in T
  <2> HIDE DEF T
  <2>1. QED
    BY <1>1, <1>2, AllNumbers
<1>4. PICK j : j \in S
  OBVIOUS
<1>5. n \in T /\ n - n <= j
  BY <1>3, <1>4
<1>6. QED
  BY <1>4, <1>5

\* The quotient of a pass has digits of the old radix, and zeros before its place; what is
\* carried out of the pass is a digit of the new radix.
LEMMA PassKeeps ==
    ASSUME NEW from, Base(from), NEW to, Base(to), NEW n \in Nat \ {0}, NEW p, IsPass(p, from, n)
    PROVE  /\ IsPass(Pass(p, from, to), from, n)
           /\ Pass(p, from, to).carry \in 0 .. to - 1
           /\ Pass(p, from, to).done <=> \A i \in 1 .. n : Pass(p, from, to).digits[i] = 0
           /\ Pass(p, from, to).carry = Carries(p, from, to)[n]
           /\ \A i \in 1 .. n : Pass(p, from, to).digits[i] =
                 IF i < p.pos THEN p.digits[i] ELSE (from * Carries(p, from, to)[i - 1] + p.digits[i]) \div to
           /\ \A i \in 0 .. n : Carries(p, from, to)[i] \in 0 .. to - 1
<1> DEFINE carry == Carries(p, from, to)
           Part(i) == (from * carry[i - 1] + p.digits[i]) \div to
           quotient == [i \in 1 .. n |-> IF i < p.pos THEN p.digits[i] ELSE Part(i)]
           zeros == {i \in p.pos .. n : \A j \in p.pos .. i : quotient[j] = 0}
           pos == IF zeros = {} THEN p.pos ELSE CHOOSE i \in zeros : \A j \in zeros : j <= i
           q == [digits |-> quotient, carry |-> carry[n], done |-> zeros = p.pos .. n, pos |-> pos]
<1>1. Len(p.digits) = n /\ IsMessage(p.digits) /\ p.pos \in 1 .. n /\ \A i \in 1 .. n : p.digits[i] \in 0 .. from - 1
  BY DEF IsPass, IsDigits
<1>2. Pass(p, from, to) = q
  <2> DEFINE Q(m) ==
        LET quo == [i \in 1 .. m |-> IF i < p.pos THEN p.digits[i] ELSE Part(i)]
            zer == {i \in p.pos .. m : \A j \in p.pos .. i : quo[j] = 0}
        IN [digits |-> quo, carry |-> carry[m], done |-> zer = p.pos .. m,
            pos |-> IF zer = {} THEN p.pos ELSE CHOOSE i \in zer : \A j \in zer : j <= i]
  <2>1. Pass(p, from, to) = Q(Len(p.digits))
    BY Zenon DEF Pass
  <2>2. Q(n) = q
    BY Zenon
  <2> HIDE DEF Q, q
  <2>3. QED
    BY <1>1, <2>1, <2>2
<1>3. /\ carry[0] = 0
      /\ \A i \in 1 .. n : carry[i] = IF i < p.pos THEN 0 ELSE (from * carry[i - 1] + p.digits[i]) % to
  <2>1. p.pos \in Nat \ {0}
    BY <1>1
  <2>2. /\ carry[0] = 0
        /\ \A i \in 1 .. Len(p.digits) :
              carry[i] = IF i < p.pos THEN 0 ELSE (from * carry[i - 1] + p.digits[i]) % to
    <3>1. p.pos \in Nat \ {0} /\ IsMessage(p.digits)
      BY <1>1, <2>1, Zenon
    <3>2. QED
      BY <3>1, CarriesRun
  <2> HIDE DEF carry
  <2>3. QED
    BY <1>1, <2>2, Zenon
<1> HIDE DEF carry
<1>4. \A i \in 0 .. n : carry[i] \in 0 .. to - 1
  <2> DEFINE T == {i \in Nat : i <= n => carry[i] \in 0 .. to - 1}
  <2>1. 0 \in T
    BY <1>3 DEF Base
  <2>2. ASSUME NEW i \in Nat, i \in T
        PROVE  i + 1 \in T
    <3>1. SUFFICES ASSUME i + 1 <= n
                   PROVE  carry[i + 1] \in 0 .. to - 1
      OBVIOUS
    <3>2. i + 1 \in 1 .. n /\ (i + 1) - 1 = i /\ carry[i] \in 0 .. to - 1
      BY <2>2, <3>1
    <3>3. carry[i + 1] = IF i + 1 < p.pos THEN 0 ELSE (from * carry[i] + p.digits[i + 1]) % to
      BY <1>3, <3>2
    <3>4. from \in Nat \ {0} /\ to \in Nat \ {0} /\ p.digits[i + 1] \in 0 .. from - 1
      BY <1>1, <3>2 DEF Base
    <3>5. (from * carry[i] + p.digits[i + 1]) % to \in 0 .. to - 1
      BY <3>2, <3>4, DigitDivided
    <3>6. 0 \in 0 .. to - 1
      BY <3>4
    <3>7. QED
      BY <3>3, <3>5, <3>6, Zenon
  <2>3. \A i \in Nat : i \in T
    <3> HIDE DEF T
    <3>1. QED
      BY <2>1, <2>2, AllNumbers
  <2>4. QED
    BY <2>3
<1>5. \A i \in 1 .. n : Part(i) \in 0 .. from - 1
  <2>1. TAKE i \in 1 .. n
  <2>2. from \in Nat \ {0} /\ to \in Nat \ {0} /\ p.digits[i] \in 0 .. from - 1 /\ carry[i - 1] \in 0 .. to - 1
    BY <1>1, <1>4 DEF Base
  <2>3. QED
    BY <2>2, DigitDivided
<1>6. \A i \in 1 .. n : quotient[i] = IF i < p.pos THEN p.digits[i] ELSE Part(i)
  <2> HIDE DEF Part
  <2>1. QED
    OBVIOUS
<1>7. IsDigits(quotient, from, n)
  <2>1. quotient = [i \in 1 .. n |-> quotient[i]]
    <3> HIDE DEF Part
    <3>1. QED
      OBVIOUS
  <2> HIDE DEF quotient
  <2>2. IsMessage(quotient) /\ Len(quotient) = n
    BY <2>1, MessageBy
  <2>3. \A i \in 1 .. n : quotient[i] \in 0 .. from - 1
    BY <1>1, <1>5, <1>6, Zenon
  <2>4. QED
    BY <2>2, <2>3 DEF IsDigits
<1>8. \A i \in 1 .. p.pos - 1 : quotient[i] = 0
  <2>1. \A i \in 1 .. p.pos - 1 : p.digits[i] = 0
    BY DEF IsPass
  <2>2. \A i \in 1 .. p.pos - 1 : i \in 1 .. n /\ i < p.pos
    BY <1>1
  <2>3. QED
    BY <1>6, <2>1, <2>2, Zenon
<1> HIDE DEF quotient
<1>9. zeros \subseteq p.pos .. n
  OBVIOUS
<1>10. pos \in 1 .. n /\ \A i \in 1 .. pos - 1 : quotient[i] = 0
  <2>1. CASE zeros = {}
    BY <1>1, <1>8, <2>1
  <2>2. CASE zeros # {}
    <3>1. \E i \in zeros : \A j \in zeros : j <= i
      <4>1. p.pos \in Nat /\ n \in Nat /\ zeros \in SUBSET (p.pos .. n)
        BY <1>1, <1>9
      <4> HIDE DEF zeros
      <4>2. QED
        BY <2>2, <4>1, LastOf
    <3>2. pos \in zeros
      <4> HIDE DEF zeros
      <4>1. QED
        BY <2>2, <3>1, Zenon
    <3>3. pos \in p.pos .. n /\ \A j \in p.pos .. pos : quotient[j] = 0
      <4> HIDE DEF pos
      <4>1. QED
        BY <3>2
    <3> HIDE DEF pos, zeros
    <3>4. QED
      BY <1>1, <1>8, <3>3
  <2>3. QED
    BY <2>1, <2>2
<1>11. zeros = p.pos .. n <=> \A i \in 1 .. n : quotient[i] = 0
  <2>1. ASSUME zeros = p.pos .. n
        PROVE  \A i \in 1 .. n : quotient[i] = 0
    <3>1. n \in zeros
      BY <1>1, <2>1
    <3>2. \A j \in p.pos .. n : quotient[j] = 0
      BY <3>1
    <3>3. QED
      BY <1>1, <1>8, <3>2
  <2>2. ASSUME \A i \in 1 .. n : quotient[i] = 0
        PROVE  zeros = p.pos .. n
    BY <1>1, <2>2
  <2>3. QED
    BY <2>1, <2>2
<1>12. q.digits = quotient /\ q.pos = pos /\ q.carry = carry[n] /\ q.done = (zeros = p.pos .. n)
  <2> HIDE DEF pos, zeros
  <2>1. QED
    BY Zenon
<1> HIDE DEF pos, zeros, q
<1>13. IsPass(q, from, n)
  BY <1>7, <1>10, <1>12, Zenon DEF IsPass
<1>14. n \in 0 .. n
  OBVIOUS
<1>15. \A i \in 1 .. n : q.digits[i] = IF i < p.pos THEN p.digits[i] ELSE (from * carry[i - 1] + p.digits[i]) \div to
  BY <1>6, <1>12, Zenon
<1> HIDE DEF Part
<1>16. q.carry \in 0 .. to - 1
  BY <1>4, <1>12, <1>14, Zenon
<1>17. q.done <=> \A i \in 1 .. n : q.digits[i] = 0
  BY <1>11, <1>12, Zenon
<1>18. QED
  BY <1>2, <1>4, <1>12, <1>13, <1>15, <1>16, <1>17, Zenon DEF carry

\* One turn, in what the digits so far are worth.
LEMMA TurnWorth ==
    ASSUME NEW a \in Nat, NEW b \in Nat, NEW v \in Nat, NEW c \in Nat, NEW d \in Nat, NEW x \in Nat, NEW r \in Nat,
           a * c + d = b * x + r
    PROVE  (b * v + c) * a + d = b * (v * a + x) + r
<1>1. (b * v + c) * a = b * (v * a) + a * c
  BY SMT
<1>2. b * (v * a + x) = b * (v * a) + b * x
  BY SMT
<1>3. b * (v * a) \in Nat /\ a * c \in Nat /\ b * x \in Nat
  BY SMT
<1>4. PICK p \in Nat : p = b * (v * a)
  BY <1>3
<1>5. PICK q \in Nat : q = a * c
  BY <1>3
<1>6. PICK s \in Nat : s = b * x
  BY <1>3
<1>7. (b * v + c) * a = p + q /\ b * (v * a + x) = p + s /\ q + d = s + r
  BY <1>1, <1>2, <1>4, <1>5, <1>6, Zenon
<1>8. (p + q) + d = (p + s) + r
  <2>1. q + d = s + r
    BY <1>7
  <2>2. QED
    BY <2>1
<1>9. QED
  BY <1>7, <1>8, Zenon

\* The digits are worth the quotient, times the new radix, and what is carried out.
LEMMA PassWorth ==
    ASSUME NEW from, Base(from), NEW to, Base(to), NEW n \in Nat \ {0}, NEW p, IsPass(p, from, n)
    PROVE  ValueOf(p.digits, from) = to * ValueOf(Pass(p, from, to).digits, from) + Pass(p, from, to).carry
<1> DEFINE q == Pass(p, from, to)
           carry == Carries(p, from, to)
           v == Values(p.digits, from)
           w == Values(q.digits, from)
<1>1. IsDigits(p.digits, from, n) /\ p.pos \in 1 .. n /\ \A i \in 1 .. p.pos - 1 : p.digits[i] = 0
  BY DEF IsPass
<1>2. /\ IsPass(q, from, n) /\ q.carry = carry[n]
      /\ \A i \in 1 .. n : q.digits[i] =
            IF i < p.pos THEN p.digits[i] ELSE (from * carry[i - 1] + p.digits[i]) \div to
      /\ \A i \in 0 .. n : carry[i] \in 0 .. to - 1
  <2>1. IsPass(q, from, n) /\ q.carry = carry[n]
    BY PassKeeps
  <2>2. \A i \in 1 .. n : q.digits[i] =
            IF i < p.pos THEN p.digits[i] ELSE (from * carry[i - 1] + p.digits[i]) \div to
    BY PassKeeps
  <2>3. \A i \in 0 .. n : carry[i] \in 0 .. to - 1
    BY PassKeeps
  <2> HIDE DEF q, carry
  <2>4. QED
    BY <2>1, <2>2, <2>3, Zenon
<1>3. IsDigits(q.digits, from, n)
  BY <1>2 DEF IsPass
<1>4. /\ carry[0] = 0
      /\ \A i \in 1 .. n : carry[i] = IF i < p.pos THEN 0 ELSE (from * carry[i - 1] + p.digits[i]) % to
  <2>1. p.pos \in Nat \ {0} /\ IsMessage(p.digits) /\ Len(p.digits) = n
    BY <1>1 DEF IsDigits
  <2>2. /\ carry[0] = 0
        /\ \A i \in 1 .. Len(p.digits) :
              carry[i] = IF i < p.pos THEN 0 ELSE (from * carry[i - 1] + p.digits[i]) % to
    BY <2>1, CarriesRun
  <2> HIDE DEF carry
  <2>3. QED
    BY <2>1, <2>2, Zenon
<1>5. Worth(v, p.digits, from, n) /\ Worth(w, q.digits, from, n)
  <2>1. IsMessage(p.digits) /\ Len(p.digits) = n /\ IsMessage(q.digits) /\ Len(q.digits) = n
    BY <1>1, <1>3 DEF IsDigits
  <2>2. Worth(v, p.digits, from, Len(p.digits)) /\ Worth(w, q.digits, from, Len(q.digits))
    BY <2>1, ValuesRun
  <2> HIDE DEF v, w, q
  <2>3. QED
    BY <2>1, <2>2
<1>6. ValueOf(p.digits, from) = v[n] /\ ValueOf(q.digits, from) = w[n]
  BY <1>1, <1>3 DEF IsDigits, ValueOf
<1> HIDE DEF q, carry, v, w
<1>7. from \in Nat \ {0} /\ to \in Nat \ {0}
  BY DEF Base
<1>8. \A i \in 0 .. n : w[i] \in Nat
  <2>1. \A i \in 1 .. n : q.digits[i] \in 0 .. from - 1
    BY <1>3 DEF IsDigits
  <2>2. QED
    BY <1>5, <2>1, WorthNumbers
<1> DEFINE S == {i \in Nat : i <= n => v[i] = to * w[i] + carry[i]}
<1>9. 0 \in S
  BY <1>4, <1>5, <1>7 DEF Worth
<1>10. ASSUME NEW i \in Nat, i \in S
       PROVE  i + 1 \in S
  <2>1. SUFFICES ASSUME i + 1 <= n
                 PROVE  v[i + 1] = to * w[i + 1] + carry[i + 1]
    OBVIOUS
  <2>2. i + 1 \in 1 .. n /\ (i + 1) - 1 = i /\ v[i] = to * w[i] + carry[i] /\ i \in 0 .. n
    BY <1>10, <2>1
  <2>3. v[i + 1] = v[i] * from + p.digits[i + 1] /\ w[i + 1] = w[i] * from + q.digits[i + 1]
    <3>1. v[i + 1] = v[(i + 1) - 1] * from + p.digits[i + 1] /\ w[i + 1] = w[(i + 1) - 1] * from + q.digits[i + 1]
      BY <1>5, <2>2, Zenon DEF Worth
    <3>2. QED
      BY <2>2, <3>1, Zenon
  <2>4. p.digits[i + 1] \in 0 .. from - 1 /\ q.digits[i + 1] \in 0 .. from - 1
    BY <1>1, <1>3, <2>2 DEF IsDigits
  <2>5. carry[i] \in Nat /\ carry[i] \in 0 .. to - 1 /\ carry[i + 1] \in Nat /\ w[i] \in Nat
    BY <1>2, <1>8, <2>2
  <2>6. from * carry[i] + p.digits[i + 1] = to * q.digits[i + 1] + carry[i + 1]
    <3>1. CASE i + 1 < p.pos
      <4>1. carry[i + 1] = 0 /\ q.digits[i + 1] = p.digits[i + 1] /\ p.digits[i + 1] = 0
        BY <1>1, <1>2, <1>4, <2>2, <3>1
      <4>2. carry[i] = 0
        <5>1. CASE i = 0
          BY <1>4, <5>1
        <5>2. CASE i # 0
          <6>1. i \in 1 .. n /\ i < p.pos
            BY <1>1, <2>2, <3>1, <5>2
          <6>2. QED
            BY <1>4, <6>1, Zenon
        <5>3. QED
          BY <5>1, <5>2
      <4>3. QED
        BY <1>7, <4>1, <4>2
    <3>2. CASE ~(i + 1 < p.pos)
      <4> DEFINE x == from * carry[i] + p.digits[i + 1]
      <4>1. x = to * (x \div to) + (x % to)
        <5>1. carry[i] \in 0 .. to - 1 /\ p.digits[i + 1] \in 0 .. from - 1
          BY <2>4, <2>5
        <5>2. from \in Nat \ {0} /\ to \in Nat \ {0}
          BY <1>7
        <5> DEFINE c == carry[i]
                   d == p.digits[i + 1]
        <5>3. c \in 0 .. to - 1 /\ d \in 0 .. from - 1
          BY <5>1
        <5> HIDE DEF c, d
        <5>4. from * c + d = to * ((from * c + d) \div to) + ((from * c + d) % to)
          BY <5>2, <5>3, DigitDivided
        <5>5. QED
          BY <5>4, Zenon DEF c, d
      <4>2. carry[i + 1] = x % to
        BY <1>4, <2>2, <3>2, Zenon
      <4>3. q.digits[i + 1] = x \div to
        BY <1>2, <2>2, <3>2, Zenon
      <4> HIDE DEF x
      <4>4. x = to * q.digits[i + 1] + carry[i + 1]
        BY <4>1, <4>2, <4>3, Zenon
      <4>5. QED
        BY <4>4 DEF x
    <3>3. QED
      BY <3>1, <3>2
  <2>7. (to * w[i] + carry[i]) * from + p.digits[i + 1] = to * (w[i] * from + q.digits[i + 1]) + carry[i + 1]
    <3>1. from \in Nat /\ to \in Nat /\ p.digits[i + 1] \in Nat /\ q.digits[i + 1] \in Nat
      BY <1>7, <2>4
    <3> DEFINE vv == w[i]
               cc == carry[i]
               dd == p.digits[i + 1]
               xx == q.digits[i + 1]
               rr == carry[i + 1]
    <3>2. /\ vv \in Nat /\ cc \in Nat /\ dd \in Nat /\ xx \in Nat /\ rr \in Nat
          /\ from * cc + dd = to * xx + rr
      BY <2>5, <2>6, <3>1
    <3> HIDE DEF vv, cc, dd, xx, rr
    <3>3. (to * vv + cc) * from + dd = to * (vv * from + xx) + rr
      BY <3>1, <3>2, TurnWorth
    <3>4. QED
      BY <3>3 DEF vv, cc, dd, xx, rr
  <2>8. QED
    BY <2>2, <2>3, <2>7, Zenon
<1>11. n \in S
  <2> HIDE DEF S
  <2>1. QED
    BY <1>9, <1>10, AllNumbers
<1>12. v[n] = to * w[n] + carry[n]
  BY <1>11
<1>13. QED
  BY <1>2, <1>6, <1>12, Zenon DEF q

-----------------------------------------------------------------------------
(* Enough passes *)

\* Powers of two, up to the Nth.
Doubles(f, most) == f[0] = 1 /\ (\A i \in 1 .. most : f[i] = 2 * f[i - 1]) /\ \A i \in 0 .. most : f[i] \in Nat \ {0}

\* There are powers of two.
LEMMA DoublesExist ==
    ASSUME NEW most \in Nat
    PROVE  \E f : Doubles(f, most)
<1> DEFINE S == {k \in Nat : \E f : Doubles(f, k)}
<1>1. 0 \in S
  <2>1. Doubles([i \in 0 .. 0 |-> 1], 0)
    BY DEF Doubles
  <2>2. QED
    BY <2>1
<1>2. ASSUME NEW k \in Nat, k \in S
      PROVE  k + 1 \in S
  <2>1. PICK f : Doubles(f, k)
    BY <1>2
  <2> DEFINE g == [i \in 0 .. k + 1 |-> IF i <= k THEN f[i] ELSE 2 * f[k]]
  <2>2. (\A i \in 0 .. k : g[i] = f[i]) /\ g[k + 1] = 2 * f[k]
    OBVIOUS
  <2> HIDE DEF g
  <2>3. g[0] = 1 /\ f[k] \in Nat \ {0}
    BY <2>1, <2>2 DEF Doubles
  <2>4. \A i \in 1 .. k + 1 : g[i] = 2 * g[i - 1]
    <3>1. TAKE i \in 1 .. k + 1
    <3>2. CASE i = k + 1
      BY <2>2, <3>2
    <3>3. CASE i # k + 1
      <4>1. i \in 1 .. k /\ i \in 0 .. k /\ i - 1 \in 0 .. k
        BY <3>3
      <4>2. QED
        BY <2>1, <2>2, <4>1 DEF Doubles
    <3>4. QED
      BY <3>2, <3>3
  <2>5. \A i \in 0 .. k + 1 : g[i] \in Nat \ {0}
    <3>1. TAKE i \in 0 .. k + 1
    <3>2. CASE i = k + 1
      BY <2>2, <2>3, <3>2
    <3>3. CASE i # k + 1
      <4>1. i \in 0 .. k
        BY <3>3
      <4>2. QED
        BY <2>1, <2>2, <4>1 DEF Doubles
    <3>4. QED
      BY <3>2, <3>3
  <2>6. Doubles(g, k + 1)
    BY <2>3, <2>4, <2>5 DEF Doubles
  <2>7. QED
    BY <2>6
<1>3. most \in S
  <2> HIDE DEF S
  <2>1. QED
    BY <1>1, <1>2, AllNumbers
<1>4. QED
  BY <1>3

\* Powers of two rise faster than products.
LEMMA Rises ==
    ASSUME NEW most \in Nat, NEW f, Doubles(f, most), NEW k \in Nat, NEW x \in Nat, x + 1 <= f[k], k <= most
    PROVE  \A m \in Nat : k + m <= most => (x + 1) * (m + 1) <= f[k + m]
<1> DEFINE y == x + 1
           S == {m \in Nat : k + m <= most => y * (m + 1) <= f[k + m]}
<1>0. y \in Nat
  OBVIOUS
<1>1. 0 \in S
  OBVIOUS
<1>2. ASSUME NEW m \in Nat, m \in S
      PROVE  m + 1 \in S
  <2>1. SUFFICES ASSUME k + (m + 1) <= most
                 PROVE  y * ((m + 1) + 1) <= f[k + (m + 1)]
    OBVIOUS
  <2>2. k + m <= most /\ k + m \in 0 .. most /\ k + (m + 1) \in 1 .. most /\ (k + (m + 1)) - 1 = k + m
    BY <2>1
  <2>3. y * (m + 1) <= f[k + m]
    BY <1>2, <2>2
  <2>4. f[k + (m + 1)] = 2 * f[k + m] /\ f[k + m] \in Nat
    BY <2>2 DEF Doubles
  <2> HIDE DEF y
  <2>5. y * ((m + 1) + 1) = y * (m + 1) + y /\ y * (m + 1) = y * m + y /\ y * m \in Nat
    BY <1>0, SMT
  <2> DEFINE p == y * m
             q == y * (m + 1)
             r == y * ((m + 1) + 1)
  <2> HIDE DEF p, q, r
  <2>6. r = q + y /\ q = p + y /\ p \in Nat /\ q <= f[k + m]
    BY <2>3, <2>5 DEF p, q, r
  <2>7. r <= 2 * f[k + m]
    BY <1>0, <2>4, <2>6
  <2>8. QED
    BY <2>4, <2>7 DEF r
<1>3. \A m \in Nat : m \in S
  <2> HIDE DEF S
  <2>1. QED
    BY <1>1, <1>2, AllNumbers
<1>4. QED
  BY <1>3

\* Digits are worth less than a power of two with as many bits to a digit as the radix has units.
LEMMA WorthBelow ==
    ASSUME NEW b, Base(b), NEW n \in Nat, NEW d, \A i \in 1 .. n : d[i] \in 0 .. b - 1,
           NEW v, Worth(v, d, b, n), NEW f, Doubles(f, b * n)
    PROVE  v[n] + 1 <= f[b * n]
<1>0. b \in Nat /\ b * n \in Nat
  <2>1. b \in Nat
    BY DEF Base
  <2>2. QED
    BY <2>1, SMT
<1>1. \A k \in 0 .. n : v[k] \in Nat
  BY WorthNumbers
<1> DEFINE S == {k \in Nat : k <= n => v[k] + 1 <= f[b * k]}
<1>2. 0 \in S
  <2>1. b * 0 = 0
    BY <1>0, SMT
  <2>2. v[0] = 0 /\ f[0] = 1
    BY DEF Worth, Doubles
  <2>3. v[0] + 1 <= f[b * 0]
    BY <2>1, <2>2
  <2>4. QED
    BY <2>3
<1>3. ASSUME NEW k \in Nat, k \in S
      PROVE  k + 1 \in S
  <2>1. SUFFICES ASSUME k + 1 <= n
                 PROVE  v[k + 1] + 1 <= f[b * (k + 1)]
    OBVIOUS
  <2>2. v[k] + 1 <= f[b * k] /\ k \in 0 .. n /\ k + 1 \in 1 .. n
    BY <1>3, <2>1
  <2>3. v[k] \in Nat /\ d[k + 1] \in 0 .. b - 1 /\ v[k + 1] = v[k] * b + d[k + 1]
    BY <1>1, <2>2 DEF Worth
  <2>4. b * (k + 1) = b * k + b /\ b * k \in Nat
    BY <1>0, SMT
  <2>5. b * (k + 1) <= b * n
    BY <1>0, <2>1, SMT
  <2>6. (v[k] + 1) * (b + 1) <= f[b * k + b]
    <3> DEFINE most == b * n
               m == b * k
    <3>1. most \in Nat /\ m \in Nat /\ m + b <= most /\ m <= most
      BY <1>0, <2>4, <2>5
    <3>2. Doubles(f, most) /\ v[k] + 1 <= f[m]
      BY <2>2
    <3> HIDE DEF most, m
    <3>3. \A j \in Nat : m + j <= most => (v[k] + 1) * (j + 1) <= f[m + j]
      BY <2>3, <3>1, <3>2, Rises
    <3>4. (v[k] + 1) * (b + 1) <= f[m + b]
      BY <1>0, <3>1, <3>3
    <3>5. QED
      BY <3>4 DEF m
  <2>7. (v[k] + 1) * (b + 1) = v[k] * b + b + v[k] + 1 /\ v[k] * b \in Nat
    BY <1>0, <2>3, SMT
  <2> DEFINE p == v[k] * b
             r == (v[k] + 1) * (b + 1)
  <2> HIDE DEF p, r
  <2>8. r = p + b + v[k] + 1 /\ p \in Nat /\ v[k + 1] = p + d[k + 1] /\ r <= f[b * (k + 1)]
    BY <2>3, <2>4, <2>6, <2>7 DEF p, r
  <2>9. v[k + 1] + 1 <= r
    BY <1>0, <2>3, <2>8
  <2>10. b * (k + 1) \in 0 .. b * n
    BY <1>0, <2>4, <2>5
  <2>11. f[b * (k + 1)] \in Nat
    BY <2>10 DEF Doubles
  <2>12. v[k + 1] \in Nat /\ r \in Nat
    BY <1>0, <2>3, <2>8
  <2> DEFINE t == f[b * (k + 1)]
  <2> HIDE DEF t
  <2>13. t \in Nat /\ r <= t
    BY <2>8, <2>11 DEF t
  <2>14. v[k + 1] + 1 <= t
    BY <2>9, <2>12, <2>13
  <2>15. QED
    BY <2>14 DEF t
<1>4. n \in S
  <2> HIDE DEF S
  <2>1. QED
    BY <1>2, <1>3, AllNumbers
<1>5. QED
  BY <1>4

\* What is divided again and again by two or more is zero after enough divisions.
LEMMA ChainEnds ==
    ASSUME NEW to, Base(to), NEW most \in Nat, NEW V, \A k \in 0 .. most : V[k] \in Nat,
           NEW c, \A k \in 1 .. most : c[k] \in Nat /\ V[k - 1] = to * V[k] + c[k],
           NEW f, Doubles(f, most), V[0] + 1 <= f[most]
    PROVE  V[most] = 0
<1>0. to \in Nat /\ to >= 2
  BY DEF Base
<1> DEFINE S == {k \in Nat : k <= most => V[k] * f[k] <= V[0]}
<1>1. 0 \in S
  <2>1. f[0] = 1 /\ V[0] \in Nat
    BY DEF Doubles
  <2>2. V[0] * f[0] = V[0]
    BY <2>1, SMT
  <2>3. V[0] * f[0] <= V[0]
    BY <2>1, <2>2
  <2>4. QED
    BY <2>3
<1>2. ASSUME NEW k \in Nat, k \in S
      PROVE  k + 1 \in S
  <2>1. SUFFICES ASSUME k + 1 <= most
                 PROVE  V[k + 1] * f[k + 1] <= V[0]
    OBVIOUS
  <2>2. V[k] * f[k] <= V[0] /\ k \in 0 .. most /\ k + 1 \in 1 .. most /\ k + 1 \in 0 .. most /\ (k + 1) - 1 = k /\ 0 \in 0 .. most
    BY <1>2, <2>1
  <2>3. V[k] \in Nat /\ V[k + 1] \in Nat /\ V[0] \in Nat /\ c[k + 1] \in Nat /\ f[k] \in Nat
    BY <2>2 DEF Doubles
  <2>4. V[k] = to * V[k + 1] + c[k + 1] /\ f[k + 1] = 2 * f[k]
    <3>1. V[(k + 1) - 1] = to * V[k + 1] + c[k + 1] /\ f[k + 1] = 2 * f[(k + 1) - 1]
      BY <2>2, Zenon DEF Doubles
    <3>2. QED
      BY <2>2, <3>1, Zenon
  <2> DEFINE x == V[k + 1]
             y == f[k]
             z == V[k]
  <2>5. x \in Nat /\ y \in Nat /\ z \in Nat /\ z = to * x + c[k + 1] /\ z * y <= V[0]
    BY <2>2, <2>3, <2>4
  <2>6. V[k + 1] * f[k + 1] = x * (2 * y)
    BY <2>4
  <2> HIDE DEF x, y, z
  <2>7. 2 * x <= z
    <3>1. 2 * x <= to * x
      BY <1>0, <2>5, SMT
    <3>2. to * x \in Nat
      BY <1>0, <2>5, SMT
    <3>3. QED
      BY <2>3, <2>5, <3>1, <3>2
  <2>8. (2 * x) * y <= z * y
    BY <2>5, <2>7, SMT
  <2>9. x * (2 * y) = (2 * x) * y /\ (2 * x) * y \in Nat /\ z * y \in Nat
    BY <2>5, SMT
  <2>10. x * (2 * y) <= V[0]
    BY <2>3, <2>5, <2>8, <2>9
  <2>11. QED
    BY <2>6, <2>10
<1>3. most \in S
  <2> HIDE DEF S
  <2>1. QED
    BY <1>1, <1>2, AllNumbers
<1>4. V[most] * f[most] <= V[0] /\ V[most] \in Nat /\ f[most] \in Nat /\ V[0] \in Nat
  BY <1>3 DEF Doubles
<1>5. V[most] # 0 => V[most] * f[most] >= f[most]
  <2> DEFINE x == V[most]
             y == f[most]
  <2>1. x \in Nat /\ y \in Nat
    BY <1>4
  <2> HIDE DEF x, y
  <2>2. x # 0 => x * y >= y
    BY <2>1, SMT
  <2>3. QED
    BY <2>2 DEF x, y
<1> DEFINE p == V[most] * f[most]
<1>6. p \in Nat
  BY <1>4, SMT
<1> HIDE DEF p
<1>7. V[most] # 0 => p >= f[most] /\ p <= V[0]
  BY <1>4, <1>5 DEF p
<1>8. QED
  BY <1>4, <1>6, <1>7

\* A set of numbers has its first.
LEMMA FirstOf ==
    ASSUME NEW S \in SUBSET Nat, S # {}
    PROVE  \E i \in S : \A j \in S : i <= j
<1> DEFINE T == {k \in Nat : (\E j \in S : j <= k) => \E i \in S : \A j \in S : i <= j}
<1>1. 0 \in T
  <2>1. ASSUME NEW j \in S, j <= 0
        PROVE  \A l \in S : j <= l
    BY <2>1
  <2>2. QED
    BY <2>1
<1>2. ASSUME NEW k \in Nat, k \in T
      PROVE  k + 1 \in T
  <2>1. SUFFICES ASSUME NEW j \in S, j <= k + 1
                 PROVE  \E i \in S : \A l \in S : i <= l
    OBVIOUS
  <2>2. CASE \E l \in S : l <= k
    BY <1>2, <2>2
  <2>3. CASE \A l \in S : ~(l <= k)
    <3>1. \A l \in S : j <= l
      BY <2>1, <2>3
    <3>2. QED
      BY <3>1
  <2>4. QED
    BY <2>2, <2>3
<1>3. \A k \in Nat : k \in T
  <2> HIDE DEF T
  <2>1. QED
    BY <1>1, <1>2, AllNumbers
<1>4. PICK j : j \in S
  OBVIOUS
<1>5. j \in T /\ j <= j
  BY <1>3, <1>4
<1>6. QED
  BY <1>4, <1>5

\* What digits are worth.
LEMMA DigitsWorth ==
    ASSUME NEW b, Base(b), NEW n \in Nat, NEW d, IsDigits(d, b, n)
    PROVE  /\ Worth(Values(d, b), d, b, n) /\ ValueOf(d, b) = Values(d, b)[n] /\ ValueOf(d, b) \in Nat
           /\ ValueOf(d, b) = 0 <=> \A i \in 1 .. n : d[i] = 0
<1>1. IsMessage(d) /\ Len(d) = n /\ \A i \in 1 .. n : d[i] \in 0 .. b - 1
  BY DEF IsDigits
<1> DEFINE v == Values(d, b)
<1>2. Worth(v, d, b, Len(d))
  BY <1>1, ValuesRun
<1>3. ValueOf(d, b) = v[Len(d)]
  BY DEF ValueOf
<1> HIDE DEF v
<1>4. Worth(v, d, b, n) /\ ValueOf(d, b) = v[n]
  BY <1>1, <1>2, <1>3
<1>5. \A k \in 0 .. n : v[k] \in Nat /\ (v[k] = 0 <=> \A i \in 1 .. k : d[i] = 0)
  BY <1>1, <1>4, WorthNumbers
<1>6. n \in 0 .. n
  OBVIOUS
<1>7. v[n] \in Nat /\ (v[n] = 0 <=> \A i \in 1 .. n : d[i] = 0)
  BY <1>5, <1>6, Zenon
<1>8. QED
  BY <1>4, <1>7, Zenon DEF v

\* The passes divide what the digits are worth, until nothing is left.
LEMMA PassesKeep ==
    ASSUME NEW from, Base(from), NEW to, Base(to), NEW n \in Nat \ {0}, NEW d, IsDigits(d, from, n)
    PROVE  /\ DOMAIN Passes(d, from, to) = 0 .. from * n /\ from * n \in Nat
           /\ Passes(d, from, to)[0].digits = d /\ ~Passes(d, from, to)[0].done
           /\ \A k \in 0 .. from * n : ValueOf(Passes(d, from, to)[k].digits, from) \in Nat
           /\ \A k \in 1 .. from * n :
                 /\ Passes(d, from, to)[k].carry \in 0 .. to - 1
                 /\ ValueOf(Passes(d, from, to)[k - 1].digits, from) =
                       to * ValueOf(Passes(d, from, to)[k].digits, from) + Passes(d, from, to)[k].carry
                 /\ Passes(d, from, to)[k].done <=> ValueOf(Passes(d, from, to)[k].digits, from) = 0
<1> DEFINE passes == Passes(d, from, to)
           most == from * n
<1>0. most \in Nat
  <2>1. from \in Nat
    BY DEF Base
  <2>2. QED
    BY <2>1, SMT
<1>1. MostPasses(d, from) = most
  BY DEF MostPasses, IsDigits
<1>2. /\ DOMAIN passes = 0 .. most
      /\ passes[0] = [digits |-> d, carry |-> 0, done |-> FALSE, pos |-> 1]
      /\ \A i \in 1 .. most : passes[i] = Pass(passes[i - 1], from, to)
  <2>1. MostPasses(d, from) \in Nat
    BY <1>0, <1>1
  <2>2. /\ DOMAIN passes = 0 .. MostPasses(d, from)
        /\ passes[0] = [digits |-> d, carry |-> 0, done |-> FALSE, pos |-> 1]
        /\ \A i \in 1 .. MostPasses(d, from) : passes[i] = Pass(passes[i - 1], from, to)
    BY <2>1, PassesRun
  <2> HIDE DEF passes, most
  <2>3. QED
    BY <1>1, <2>2
<1>3. passes[0].digits = d /\ passes[0].pos = 1 /\ passes[0].done = FALSE
  BY <1>2
<1> HIDE DEF passes, most
<1> DEFINE S == {k \in Nat : k <= most => IsPass(passes[k], from, n)}
<1>4. 0 \in S
  <2>1. IsPass(passes[0], from, n)
    BY <1>3 DEF IsPass
  <2>2. QED
    BY <2>1
<1>5. ASSUME NEW k \in Nat, k \in S
      PROVE  k + 1 \in S
  <2>1. SUFFICES ASSUME k + 1 <= most
                 PROVE  IsPass(passes[k + 1], from, n)
    OBVIOUS
  <2>2. IsPass(passes[k], from, n) /\ k + 1 \in 1 .. most /\ (k + 1) - 1 = k
    BY <1>0, <1>5, <2>1
  <2>3. passes[k + 1] = Pass(passes[k], from, to)
    BY <1>2, <2>2
  <2>4. IsPass(Pass(passes[k], from, to), from, n)
    BY <2>2, PassKeeps
  <2>5. QED
    BY <2>3, <2>4, Zenon
<1>6. \A k \in Nat : k \in S
  <2> HIDE DEF S
  <2>1. QED
    BY <1>4, <1>5, AllNumbers
<1>7. \A k \in 0 .. most : IsPass(passes[k], from, n)
  BY <1>0, <1>6
<1>8. \A k \in 0 .. most : ValueOf(passes[k].digits, from) \in Nat
  <2>1. TAKE k \in 0 .. most
  <2>2. IsDigits(passes[k].digits, from, n)
    BY <1>7 DEF IsPass
  <2>3. QED
    BY <2>2, DigitsWorth
<1>9. ASSUME NEW k \in 1 .. most
      PROVE  /\ passes[k].carry \in 0 .. to - 1
             /\ ValueOf(passes[k - 1].digits, from) = to * ValueOf(passes[k].digits, from) + passes[k].carry
             /\ passes[k].done <=> ValueOf(passes[k].digits, from) = 0
  <2> DEFINE p == passes[k - 1]
             q == passes[k]
  <2>1. k - 1 \in 0 .. most
    BY <1>0
  <2>2. IsPass(p, from, n) /\ q = Pass(p, from, to)
    BY <1>2, <1>7, <2>1, Zenon
  <2> HIDE DEF p, q
  <2>3. /\ Pass(p, from, to).carry \in 0 .. to - 1
        /\ Pass(p, from, to).done <=> \A i \in 1 .. n : Pass(p, from, to).digits[i] = 0
        /\ IsPass(Pass(p, from, to), from, n)
    BY <2>2, PassKeeps
  <2>4. ValueOf(p.digits, from) = to * ValueOf(Pass(p, from, to).digits, from) + Pass(p, from, to).carry
    BY <2>2, PassWorth
  <2>5. IsDigits(q.digits, from, n)
    BY <2>2, <2>3, Zenon DEF IsPass
  <2>6. ValueOf(q.digits, from) = 0 <=> \A i \in 1 .. n : q.digits[i] = 0
    BY <2>5, DigitsWorth
  <2>7. /\ q.carry \in 0 .. to - 1
        /\ ValueOf(p.digits, from) = to * ValueOf(q.digits, from) + q.carry
        /\ q.done <=> ValueOf(q.digits, from) = 0
    BY <2>2, <2>3, <2>4, <2>6, Zenon
  <2>8. QED
    BY <2>7, Zenon DEF p, q
<1>10. QED
  BY <1>0, <1>2, <1>3, <1>8, <1>9, Zenon DEF passes, most

\* As many passes are needed as it takes to leave nothing.
LEMMA NeededIs ==
    ASSUME NEW from, Base(from), NEW to, Base(to), NEW n \in Nat \ {0}, NEW d, IsDigits(d, from, n)
    PROVE  /\ Needed(Passes(d, from, to)) \in 1 .. from * n
           /\ ValueOf(Passes(d, from, to)[Needed(Passes(d, from, to))].digits, from) = 0
           /\ \A m \in 1 .. Needed(Passes(d, from, to)) - 1 : ValueOf(Passes(d, from, to)[m].digits, from) # 0
<1> DEFINE passes == Passes(d, from, to)
           most == from * n
           V == [k \in 0 .. most |-> ValueOf(passes[k].digits, from)]
           c == [k \in 1 .. most |-> passes[k].carry]
           ends == {k \in 1 .. most : passes[k].done}
           least == Needed(passes)
<1>1. /\ DOMAIN passes = 0 .. most /\ most \in Nat
      /\ passes[0].digits = d /\ ~passes[0].done
      /\ \A k \in 0 .. most : ValueOf(passes[k].digits, from) \in Nat
      /\ \A k \in 1 .. most :
            /\ passes[k].carry \in 0 .. to - 1
            /\ ValueOf(passes[k - 1].digits, from) = to * ValueOf(passes[k].digits, from) + passes[k].carry
            /\ passes[k].done <=> ValueOf(passes[k].digits, from) = 0
  BY PassesKeep
<1>2. PICK f : Doubles(f, most)
  BY <1>1, DoublesExist
<1>3. ValueOf(d, from) + 1 <= f[most]
  <2>1. Worth(Values(d, from), d, from, n) /\ ValueOf(d, from) = Values(d, from)[n]
    BY DigitsWorth
  <2>2. n \in Nat /\ \A i \in 1 .. n : d[i] \in 0 .. from - 1
    BY DEF IsDigits
  <2>3. Values(d, from)[n] + 1 <= f[from * n]
    BY <1>2, <2>1, <2>2, WorthBelow
  <2>4. QED
    BY <2>1, <2>3
<1> HIDE DEF passes, most
<1>4. V[most] = 0
  <2>1. \A k \in 0 .. most : V[k] = ValueOf(passes[k].digits, from)
    OBVIOUS
  <2>2. \A k \in 1 .. most : c[k] = passes[k].carry
    OBVIOUS
  <2> HIDE DEF V, c
  <2>3. \A k \in 0 .. most : V[k] \in Nat
    BY <1>1, <2>1
  <2>4. \A k \in 1 .. most : c[k] \in Nat /\ V[k - 1] = to * V[k] + c[k]
    <3>1. TAKE k \in 1 .. most
    <3>2. k \in 0 .. most /\ k - 1 \in 0 .. most
      BY <1>1
    <3>3. c[k] = passes[k].carry /\ V[k] = ValueOf(passes[k].digits, from) /\ V[k - 1] = ValueOf(passes[k - 1].digits, from)
      BY <2>1, <2>2, <3>2, Zenon
    <3>4. passes[k].carry \in 0 .. to - 1 /\ ValueOf(passes[k - 1].digits, from) = to * ValueOf(passes[k].digits, from) + passes[k].carry
      BY <1>1, Zenon
    <3>5. \A e \in 0 .. to - 1 : e \in Nat
      OBVIOUS
    <3>6. QED
      BY <3>3, <3>4, <3>5, Zenon
  <2>5. V[0] + 1 <= f[most]
    BY <1>1, <1>3, <2>1
  <2>6. most \in Nat
    BY <1>1, Zenon
  <2>7. QED
    BY <1>2, <2>3, <2>4, <2>5, <2>6, ChainEnds
<1>5. most # 0
  <2>1. from \in Nat \ {0}
    BY DEF Base
  <2>2. QED
    BY <2>1, SMT DEF most
<1>6. most \in ends
  <2>1. most \in 1 .. most /\ most \in 0 .. most
    BY <1>1, <1>5
  <2>2. ValueOf(passes[most].digits, from) = 0
    BY <1>4, <2>1
  <2>3. QED
    BY <1>1, <2>1, <2>2
<1>7. PICK i \in ends : \A j \in ends : i <= j
  <2>1. ends \in SUBSET Nat /\ ends # {}
    BY <1>6
  <2> HIDE DEF ends
  <2>2. QED
    BY <2>1, FirstOf
<1>8. i \in DOMAIN passes /\ passes[i].done /\ \A m \in 0 .. i - 1 : ~passes[m].done
  <2>1. i \in 1 .. most /\ passes[i].done
    BY <1>7
  <2>2. ASSUME NEW m \in 0 .. i - 1
        PROVE  ~passes[m].done
    <3>1. CASE m = 0
      BY <1>1, <3>1
    <3>2. CASE m # 0
      <4>1. m \in 1 .. most /\ ~(i <= m)
        BY <1>1, <2>1, <3>2
      <4>2. QED
        BY <1>7, <4>1
    <3>3. QED
      BY <3>1, <3>2
  <2>3. QED
    BY <1>1, <2>1, <2>2
<1>9. least \in DOMAIN passes /\ passes[least].done /\ \A m \in 0 .. least - 1 : ~passes[m].done
  BY <1>8, Zenon DEF Needed
<1> HIDE DEF least
<1>10. least \in 1 .. most
  BY <1>1, <1>9
<1>11. ValueOf(passes[least].digits, from) = 0
  BY <1>1, <1>9, <1>10, Zenon
<1>12. \A m \in 1 .. least - 1 : ValueOf(passes[m].digits, from) # 0
  <2>1. TAKE m \in 1 .. least - 1
  <2>2. m \in 1 .. most /\ m \in 0 .. least - 1
    BY <1>1, <1>10
  <2>3. QED
    BY <1>1, <1>9, <2>2, Zenon
<1>13. QED
  BY <1>10, <1>11, <1>12, Zenon DEF least, passes, most

-----------------------------------------------------------------------------
(* The zeros in front *)

\* z zeros in front of n digits, without the last digit.
Fronted(d, n, z) == z \in 0 .. n - 1 /\ (\A i \in 1 .. z : d[i] = 0) /\ (z = n - 1 \/ d[z + 1] # 0)

\* There is one number of them.
LEMMA LeadingZerosIs ==
    ASSUME NEW n \in Nat \ {0}, NEW d, Len(d) = n
    PROVE  Fronted(d, n, LeadingZeros(d)) /\ \A z : Fronted(d, n, z) => z = LeadingZeros(d)
<1> DEFINE S == {m \in 0 .. n - 1 : \A i \in 1 .. m : d[i] = 0}
<1>1. PICK z \in S : \A j \in S : j <= z
  <2>1. 0 \in S
    OBVIOUS
  <2>2. S \in SUBSET (0 .. n - 1) /\ S # {}
    BY <2>1, Zenon
  <2>4. 0 \in Nat /\ n - 1 \in Nat
    OBVIOUS
  <2> HIDE DEF S
  <2>3. QED
    BY <2>2, <2>4, LastOf
<1>2. Fronted(d, n, z)
  <2>1. z \in 0 .. n - 1 /\ \A i \in 1 .. z : d[i] = 0
    BY <1>1
  <2>2. ASSUME z # n - 1, d[z + 1] = 0
        PROVE  FALSE
    <3>1. z + 1 \in S
      BY <2>1, <2>2
    <3>2. z + 1 <= z
      <4> HIDE DEF S
      <4>1. QED
        BY <1>1, <3>1, Zenon
    <3>3. QED
      BY <2>1, <3>2
  <2>3. QED
    BY <2>1, <2>2 DEF Fronted
<1>3. ASSUME NEW x, Fronted(d, n, x), NEW y, Fronted(d, n, y)
      PROVE  ~(x < y)
  <2>1. SUFFICES ASSUME x < y
                 PROVE  FALSE
    OBVIOUS
  <2>2. x \in 0 .. n - 1 /\ y \in 0 .. n - 1 /\ x # n - 1 /\ x + 1 \in 1 .. y
    BY <1>3, <2>1 DEF Fronted
  <2>3. QED
    BY <1>3, <2>2 DEF Fronted
<1>4. \A x, y : Fronted(d, n, x) /\ Fronted(d, n, y) => x = y
  <2>1. SUFFICES ASSUME NEW x, NEW y, Fronted(d, n, x), Fronted(d, n, y)
                 PROVE  x = y
    OBVIOUS
  <2>2. x \in Int /\ y \in Int
    BY <2>1 DEF Fronted
  <2>3. ~(x < y) /\ ~(y < x)
    BY <1>3, <2>1
  <2>4. QED
    BY <2>2, <2>3
<1>5. LeadingZeros(d) = CHOOSE m \in 0 .. n - 1 : (\A i \in 1 .. m : d[i] = 0) /\ (m = n - 1 \/ d[m + 1] # 0)
  BY DEF LeadingZeros
<1>6. Fronted(d, n, LeadingZeros(d))
  BY <1>2, <1>5, Zenon DEF Fronted
<1>7. QED
  BY <1>4, <1>6, Zenon

\* Digits from the last one on, and what is before them.
SameEnds(v, w, s, t, m, n, k) == v[m - k] = w[n - k] /\ \A i \in 0 .. k - 1 : s[m - i] = t[n - i]

\* Digits that are worth the same are the same from the last one on, as far as both go.
LEMMA EndsAgree ==
    ASSUME NEW b, Base(b), NEW m \in Nat, NEW n \in Nat, NEW s, NEW t, IsDigits(s, b, m), IsDigits(t, b, n),
           ValueOf(s, b) = ValueOf(t, b)
    PROVE  \A k \in Nat : k <= m /\ k <= n => SameEnds(Values(s, b), Values(t, b), s, t, m, n, k)
<1> DEFINE v == Values(s, b)
           w == Values(t, b)
<1>1. Worth(v, s, b, m) /\ Worth(w, t, b, n) /\ v[m] = w[n]
  BY DigitsWorth
<1>2. /\ \A i \in 1 .. m : s[i] \in 0 .. b - 1
      /\ \A i \in 1 .. n : t[i] \in 0 .. b - 1
  BY DEF IsDigits
<1> HIDE DEF v, w
<1>4. /\ \A k \in 0 .. m : v[k] \in Nat /\ (v[k] = 0 <=> \A i \in 1 .. k : s[i] = 0)
      /\ \A k \in 0 .. n : w[k] \in Nat /\ (w[k] = 0 <=> \A i \in 1 .. k : t[i] = 0)
  <2>1. \A k \in 0 .. m : v[k] \in Nat /\ (v[k] = 0 <=> \A i \in 1 .. k : s[i] = 0)
    <3>1. m \in Nat /\ (\A i \in 1 .. m : s[i] \in 0 .. b - 1) /\ Worth(v, s, b, m)
      BY <1>1, <1>2
    <3>2. QED
      BY <3>1, WorthNumbers
  <2>2. \A k \in 0 .. n : w[k] \in Nat /\ (w[k] = 0 <=> \A i \in 1 .. k : t[i] = 0)
    <3>1. n \in Nat /\ (\A i \in 1 .. n : t[i] \in 0 .. b - 1) /\ Worth(w, t, b, n)
      BY <1>1, <1>2
    <3>2. QED
      BY <3>1, WorthNumbers
  <2>3. QED
    BY <2>1, <2>2
<1>5. b \in Nat \ {0}
  BY DEF Base
<1> DEFINE Same(k) == v[m - k] = w[n - k] /\ \A i \in 0 .. k - 1 : s[m - i] = t[n - i]
           S == {k \in Nat : k <= m /\ k <= n => Same(k)}
<1>6. 0 \in S
  <2>1. m - 0 = m /\ n - 0 = n /\ 0 .. 0 - 1 = {}
    OBVIOUS
  <2>2. Same(0)
    BY <1>1, <2>1
  <2>3. QED
    BY <2>2
<1>7. ASSUME NEW k \in Nat, k \in S
      PROVE  k + 1 \in S
  <2>1. SUFFICES ASSUME k + 1 <= m, k + 1 <= n
                 PROVE  Same(k + 1)
    OBVIOUS
  <2>2. Same(k)
    BY <1>7, <2>1
  <2>3. m - k \in 1 .. m /\ n - k \in 1 .. n /\ (m - k) - 1 = m - (k + 1) /\ (n - k) - 1 = n - (k + 1)
    BY <2>1
  <2>4. v[m - k] = v[m - (k + 1)] * b + s[m - k] /\ w[n - k] = w[n - (k + 1)] * b + t[n - k]
    <3>1. v[m - k] = v[(m - k) - 1] * b + s[m - k] /\ w[n - k] = w[(n - k) - 1] * b + t[n - k]
      BY <1>1, <2>3, Zenon DEF Worth
    <3>2. QED
      BY <2>3, <3>1, Zenon
  <2> DEFINE p == v[m - (k + 1)]
             q == w[n - (k + 1)]
             x == s[m - k]
             y == t[n - k]
  <2>5. p \in Nat /\ q \in Nat /\ x \in 0 .. b - 1 /\ y \in 0 .. b - 1
    <3>1. m - (k + 1) \in 0 .. m /\ n - (k + 1) \in 0 .. n
      BY <2>1
    <3>2. QED
      BY <1>2, <1>4, <2>3, <3>1, Zenon
  <2>6. p * b + x = q * b + y
    BY <2>2, <2>4, Zenon
  <2> HIDE DEF p, q, x, y
  <2>7. p = q /\ x = y
    <3>1. (b * p + x) \div b = p /\ (b * p + x) % b = x
      BY <1>5, <2>5, Divided
    <3>2. (b * q + y) \div b = q /\ (b * q + y) % b = y
      BY <1>5, <2>5, Divided
    <3>3. p * b = b * p /\ q * b = b * q
      BY <1>5, <2>5, SMT
    <3>4. QED
      BY <2>6, <3>1, <3>2, <3>3, Zenon
  <2>8. ASSUME NEW i \in 0 .. (k + 1) - 1
        PROVE  s[m - i] = t[n - i]
    <3>1. CASE i = k
      BY <2>7, <3>1, Zenon DEF x, y
    <3>2. CASE i # k
      <4>1. i \in 0 .. k - 1
        BY <3>2
      <4>2. QED
        BY <2>2, <4>1, Zenon
    <3>3. QED
      BY <3>1, <3>2
  <2>9. QED
    BY <2>7, <2>8, Zenon DEF p, q
<1>8. \A k \in Nat : k <= m /\ k <= n => Same(k)
  <2>1. \A k \in Nat : k \in S
    <3> HIDE DEF S
    <3>1. QED
      BY <1>6, <1>7, AllNumbers
  <2> HIDE DEF Same
  <2>2. QED
    BY <2>1
<1>9. QED
  BY <1>8, Zenon DEF SameEnds, v, w

\* Digits that are worth the same behind as many zeros are the same.
LEMMA SameDigits ==
    ASSUME NEW b, Base(b), NEW m \in Nat \ {0}, NEW n \in Nat \ {0}, NEW s, NEW t, IsDigits(s, b, m), IsDigits(t, b, n),
           ValueOf(s, b) = ValueOf(t, b), LeadingZeros(s) = LeadingZeros(t)
    PROVE  s = t
<1> DEFINE v == Values(s, b)
           w == Values(t, b)
           z == LeadingZeros(s)
<1>1. Worth(v, s, b, m) /\ Worth(w, t, b, n) /\ v[m] = w[n]
  BY DigitsWorth
<1>2. /\ IsMessage(s) /\ Len(s) = m /\ \A i \in 1 .. m : s[i] \in 0 .. b - 1
      /\ IsMessage(t) /\ Len(t) = n /\ \A i \in 1 .. n : t[i] \in 0 .. b - 1
  BY DEF IsDigits
<1>3. Fronted(s, m, z) /\ Fronted(t, n, z)
  BY <1>2, LeadingZerosIs
<1> HIDE DEF v, w, z
<1>4. /\ \A k \in 0 .. m : v[k] \in Nat /\ (v[k] = 0 <=> \A i \in 1 .. k : s[i] = 0)
      /\ \A k \in 0 .. n : w[k] \in Nat /\ (w[k] = 0 <=> \A i \in 1 .. k : t[i] = 0)
  <2>1. \A k \in 0 .. m : v[k] \in Nat /\ (v[k] = 0 <=> \A i \in 1 .. k : s[i] = 0)
    <3>1. m \in Nat /\ (\A i \in 1 .. m : s[i] \in 0 .. b - 1) /\ Worth(v, s, b, m)
      BY <1>1, <1>2
    <3>2. QED
      BY <3>1, WorthNumbers
  <2>2. \A k \in 0 .. n : w[k] \in Nat /\ (w[k] = 0 <=> \A i \in 1 .. k : t[i] = 0)
    <3>1. n \in Nat /\ (\A i \in 1 .. n : t[i] \in 0 .. b - 1) /\ Worth(w, t, b, n)
      BY <1>1, <1>2
    <3>2. QED
      BY <3>1, WorthNumbers
  <2>3. QED
    BY <2>1, <2>2
<1>5. b \in Nat \ {0}
  BY DEF Base
<1> DEFINE Same(k) == v[m - k] = w[n - k] /\ \A i \in 0 .. k - 1 : s[m - i] = t[n - i]
<1>8. \A k \in Nat : k <= m /\ k <= n => Same(k)
  <2>1. \A k \in Nat : k <= m /\ k <= n => SameEnds(v, w, s, t, m, n, k)
    BY EndsAgree DEF v, w
  <2>2. QED
    BY <2>1, Zenon DEF SameEnds
<1>9. ~(m < n)
  <2>1. SUFFICES ASSUME m < n
                 PROVE  FALSE
    OBVIOUS
  <2>2. m - z \in Nat /\ m - z <= m /\ m - z <= n /\ m - (m - z) = z /\ z \in 0 .. m /\ z \in 0 .. n /\ z + 1 \in 1 .. n - (m - z)
        /\ n - (m - z) \in 0 .. n /\ z # n - 1
    BY <1>3, <2>1 DEF Fronted
  <2>3. v[m - (m - z)] = w[n - (m - z)]
    BY <1>8, <2>2, Zenon
  <2>4. v[z] = 0
    BY <1>3, <1>4, <2>2, Zenon DEF Fronted
  <2>5. w[n - (m - z)] = 0
    BY <2>2, <2>3, <2>4, Zenon
  <2>6. t[z + 1] = 0
    BY <1>4, <2>2, <2>5, Zenon
  <2>7. QED
    BY <1>3, <2>2, <2>6, Zenon DEF Fronted
<1>10. ~(n < m)
  <2>1. SUFFICES ASSUME n < m
                 PROVE  FALSE
    OBVIOUS
  <2>2. n - z \in Nat /\ n - z <= m /\ n - z <= n /\ n - (n - z) = z /\ z \in 0 .. m /\ z \in 0 .. n /\ z + 1 \in 1 .. m - (n - z)
        /\ m - (n - z) \in 0 .. m /\ z # m - 1
    BY <1>3, <2>1 DEF Fronted
  <2>3. v[m - (n - z)] = w[n - (n - z)]
    BY <1>8, <2>2, Zenon
  <2>4. w[z] = 0
    BY <1>3, <1>4, <2>2, Zenon DEF Fronted
  <2>5. v[m - (n - z)] = 0
    BY <2>2, <2>3, <2>4, Zenon
  <2>6. s[z + 1] = 0
    BY <1>4, <2>2, <2>5, Zenon
  <2>7. QED
    BY <1>3, <2>2, <2>6, Zenon DEF Fronted
<1>11. m = n
  BY <1>9, <1>10
<1>12. \A i \in 1 .. m : s[i] = t[i]
  <2>1. Same(m)
    BY <1>8, <1>11
  <2>2. TAKE i \in 1 .. m
  <2>3. m - i \in 0 .. m - 1 /\ m - (m - i) = i /\ n - (m - i) = i
    BY <1>11
  <2>4. s[m - (m - i)] = t[n - (m - i)]
    BY <2>1, <2>3, Zenon
  <2>5. QED
    BY <2>3, <2>4, Zenon
<1>13. QED
  BY <1>2, <1>11, <1>12, SameMessage

-----------------------------------------------------------------------------
(* The other radix and back *)

\* The digits in the new radix are worth the same, behind as many zeros.
LEMMA ConvertedIs ==
    ASSUME NEW from, Base(from), NEW to, Base(to), NEW n \in Nat \ {0}, NEW d, IsDigits(d, from, n)
    PROVE  /\ \E m \in Nat \ {0} : IsDigits(Converted(d, from, to), to, m)
           /\ ValueOf(Converted(d, from, to), to) = ValueOf(d, from)
           /\ LeadingZeros(Converted(d, from, to)) = LeadingZeros(d)
<1> DEFINE passes == Passes(d, from, to)
           V(k) == ValueOf(passes[k].digits, from)
           e == Needed(passes)
           z == LeadingZeros(d)
           m == z + e
           Last(i) == passes[m + 1 - i].carry
           r == [i \in 1 .. m |-> IF i <= z THEN 0 ELSE Last(i)]
           u == Values(r, to)
           most == from * n
<1>1. /\ most \in Nat /\ passes[0].digits = d
      /\ \A k \in 0 .. most : V(k) \in Nat
      /\ \A k \in 1 .. most : passes[k].carry \in 0 .. to - 1 /\ V(k - 1) = to * V(k) + passes[k].carry
  BY PassesKeep
<1>2. e \in 1 .. most /\ V(e) = 0 /\ \A k \in 1 .. e - 1 : V(k) # 0
  BY NeededIs
<1>3. Converted(d, from, to) = r
  BY Zenon DEF Converted
<1>4. V(0) = ValueOf(d, from)
  BY <1>1
<1>5. Fronted(d, n, z)
  BY LeadingZerosIs DEF IsDigits
<1> HIDE DEF passes, V, e, z, most
<1>6. to \in Nat \ {0} /\ to - 1 \in Nat /\ z \in Nat /\ e \in Nat \ {0} /\ m \in Nat \ {0}
  BY <1>1, <1>2, <1>5 DEF Base, Fronted
<1>7. \A i \in 1 .. m : r[i] = IF i <= z THEN 0 ELSE passes[m + 1 - i].carry
  OBVIOUS
<1>8. IsMessage(r) /\ Len(r) = m
  <2>1. r = [i \in 1 .. m |-> r[i]]
    <3> HIDE DEF Last
    <3>1. QED
      OBVIOUS
  <2> HIDE DEF r, m
  <2>2. m \in Nat
    BY <1>6
  <2>3. QED
    BY <2>1, <2>2, MessageBy
<1> HIDE DEF r
<1>9. \A j \in 0 .. e - 1 : z + (j + 1) \in 1 .. m /\ r[z + (j + 1)] = passes[e - j].carry /\ e - j \in 1 .. most
  <2>1. TAKE j \in 0 .. e - 1
  <2>2. z + (j + 1) \in 1 .. m /\ ~(z + (j + 1) <= z) /\ m + 1 - (z + (j + 1)) = e - j /\ e - j \in 1 .. most
    BY <1>1, <1>2, <1>6
  <2> HIDE DEF m
  <2>3. QED
    BY <1>7, <2>2, Zenon
<1>10. IsDigits(r, to, m)
  <2>1. ASSUME NEW i \in 1 .. m
        PROVE  r[i] \in 0 .. to - 1
    <3>1. CASE i <= z
      BY <1>6, <1>7, <3>1
    <3>2. CASE ~(i <= z)
      <4>1. i - z - 1 \in 0 .. e - 1 /\ z + ((i - z - 1) + 1) = i
        BY <1>6, <3>2
      <4>2. r[i] = passes[e - (i - z - 1)].carry /\ e - (i - z - 1) \in 1 .. most
        BY <1>9, <4>1, Zenon
      <4>3. QED
        BY <1>1, <4>2, Zenon
    <3>3. QED
      BY <3>1, <3>2
  <2>2. QED
    BY <1>8, <2>1 DEF IsDigits
<1>11. Worth(u, r, to, m) /\ ValueOf(r, to) = u[m]
  BY <1>6, <1>10, DigitsWorth
<1>12. \A k \in 0 .. m : u[k] \in Nat /\ (u[k] = 0 <=> \A i \in 1 .. k : r[i] = 0)
  <2>1. m \in Nat /\ \A i \in 1 .. m : r[i] \in 0 .. to - 1
    BY <1>6, <1>10 DEF IsDigits
  <2> HIDE DEF u, m
  <2>2. QED
    BY <1>11, <2>1, WorthNumbers
<1> HIDE DEF u
<1>13. \A i \in 1 .. z : r[i] = 0
  <2>1. TAKE i \in 1 .. z
  <2>2. i \in 1 .. m /\ i <= z
    BY <1>6
  <2>3. QED
    BY <1>7, <2>2, Zenon
<1> DEFINE S == {j \in Nat : j <= e => u[z + j] = V(e - j)}
<1>14. 0 \in S
  <2>1. z \in 0 .. m /\ z + 0 = z /\ e - 0 = e
    BY <1>6
  <2>2. u[z] = 0
    BY <1>12, <1>13, <2>1, Zenon
  <2>3. u[z + 0] = V(e - 0)
    BY <1>2, <2>1, <2>2, Zenon
  <2>4. QED
    BY <2>3
<1>15. ASSUME NEW j \in Nat, j \in S
       PROVE  j + 1 \in S
  <2>1. SUFFICES ASSUME j + 1 <= e
                 PROVE  u[z + (j + 1)] = V(e - (j + 1))
    OBVIOUS
  <2>2. j \in 0 .. e - 1 /\ (e - j) - 1 = e - (j + 1) /\ (z + (j + 1)) - 1 = z + j /\ j <= e
    BY <1>6, <2>1
  <2>3. u[z + j] = V(e - j)
    BY <1>15, <2>2
  <2>4. z + (j + 1) \in 1 .. m /\ r[z + (j + 1)] = passes[e - j].carry /\ e - j \in 1 .. most
    BY <1>9, <2>2, Zenon
  <2>5. u[z + (j + 1)] = u[z + j] * to + r[z + (j + 1)]
    <3>1. u[z + (j + 1)] = u[(z + (j + 1)) - 1] * to + r[z + (j + 1)]
      BY <1>11, <2>4, Zenon DEF Worth
    <3>2. QED
      BY <2>2, <3>1, Zenon
  <2>6. V(e - (j + 1)) = to * V(e - j) + passes[e - j].carry
    <3>1. V((e - j) - 1) = to * V(e - j) + passes[e - j].carry
      BY <1>1, <2>4, Zenon
    <3>2. QED
      BY <2>2, <3>1, Zenon
  <2> DEFINE x == V(e - j)
             y == passes[e - j].carry
  <2>7. x \in Nat /\ y \in Nat
    <3>1. e - j \in 0 .. most /\ \A a \in 0 .. to - 1 : a \in Nat
      BY <2>4
    <3>2. QED
      BY <1>1, <2>4, <3>1, Zenon
  <2>8. u[z + (j + 1)] = x * to + y /\ V(e - (j + 1)) = to * x + y
    BY <2>3, <2>4, <2>5, <2>6, Zenon
  <2> HIDE DEF x, y
  <2>9. x * to = to * x
    BY <1>6, <2>7, SMT
  <2>10. QED
    BY <2>8, <2>9, Zenon
<1>16. u[m] = V(0)
  <2>1. e \in S
    <3> HIDE DEF S
    <3>1. QED
      BY <1>6, <1>14, <1>15, AllNumbers
  <2>2. e <= e /\ e - e = 0
    BY <1>6
  <2>3. u[z + e] = V(e - e)
    BY <2>1, <2>2
  <2>4. QED
    BY <2>2, <2>3, Zenon
<1>17. Fronted(r, m, z)
  <2>1. z \in 0 .. m - 1
    BY <1>6
  <2>2. ASSUME z # m - 1
        PROVE  r[z + 1] # 0
    <3>1. 0 \in 0 .. e - 1 /\ 1 \in 0 .. e - 1 /\ e - 1 \in 1 .. e - 1 /\ e - 1 \in 0 .. most /\ e - 0 = e /\ 0 + 1 = 1
      BY <1>1, <1>2, <1>6, <2>2
    <3>2. r[z + 1] = passes[e].carry
      <4>1. r[z + (0 + 1)] = passes[e - 0].carry
        BY <1>9, <3>1, Zenon
      <4>2. QED
        BY <3>1, <4>1, Zenon
    <3>3. V(e - 1) = to * V(e) + passes[e].carry
      BY <1>1, <1>2, Zenon
    <3>4. V(e) = 0 /\ V(e - 1) # 0
      BY <1>2, <3>1, Zenon
    <3>5. passes[e].carry \in 0 .. to - 1
      BY <1>1, <1>2, Zenon
    <3>6. to * 0 = 0
      BY <1>6, SMT
    <3>7. V(e - 1) = 0 + passes[e].carry
      BY <3>3, <3>4, <3>6, Zenon
    <3>8. QED
      BY <1>6, <3>2, <3>4, <3>5, <3>7
  <2>3. QED
    BY <1>13, <2>1, <2>2 DEF Fronted
<1>18. LeadingZeros(r) = z
  <2> HIDE DEF m
  <2>1. QED
    BY <1>6, <1>8, <1>17, LeadingZerosIs
<1>19. ValueOf(r, to) = ValueOf(d, from)
  BY <1>4, <1>11, <1>16, Zenon
<1> HIDE DEF m
<1>20. QED
  BY <1>3, <1>6, <1>10, <1>18, <1>19, Zenon DEF z

\* The digits come back.
LEMMA ConvertedBack ==
    ASSUME NEW from, Base(from), NEW to, Base(to), NEW n \in Nat \ {0}, NEW d, IsDigits(d, from, n)
    PROVE  Converted(Converted(d, from, to), to, from) = d
<1> DEFINE r == Converted(d, from, to)
           b == Converted(r, to, from)
<1>1. /\ \E m \in Nat \ {0} : IsDigits(r, to, m)
      /\ ValueOf(r, to) = ValueOf(d, from) /\ LeadingZeros(r) = LeadingZeros(d)
  BY ConvertedIs
<1>2. PICK m \in Nat \ {0} : IsDigits(r, to, m)
  BY <1>1, Zenon
<1> HIDE DEF r
<1>3. /\ \E l \in Nat \ {0} : IsDigits(b, from, l)
      /\ ValueOf(b, from) = ValueOf(r, to) /\ LeadingZeros(b) = LeadingZeros(r)
  BY <1>2, ConvertedIs
<1>4. PICK l \in Nat \ {0} : IsDigits(b, from, l)
  BY <1>3, Zenon
<1> HIDE DEF b
<1>5. ValueOf(b, from) = ValueOf(d, from) /\ LeadingZeros(b) = LeadingZeros(d)
  BY <1>1, <1>3, Zenon
<1>6. b = d
  BY <1>4, <1>5, SameDigits
<1>7. QED
  BY <1>6 DEF b, r

\* Digits of no length are none.
LEMMA NoDigits ==
    ASSUME NEW b, Base(b), NEW n \in Nat, NEW d, IsDigits(d, b, n)
    PROVE  (d = <<>> <=> n = 0) /\ DOMAIN d = 1 .. n /\ d = [i \in 1 .. n |-> d[i]]
<1>1. IsMessage(d) /\ Len(d) = n
  BY DEF IsDigits
<1>2. IsMessage(<<>>) /\ Len(<<>>) = 0
  BY Empty
<1>3. ASSUME n = 0
      PROVE  d = <<>>
  <2>1. Len(d) = Len(<<>>) /\ \A i \in 1 .. Len(d) : d[i] = <<>>[i]
    BY <1>1, <1>2, <1>3
  <2>2. QED
    BY <1>1, <1>2, <2>1, SameMessage
<1>4. d = <<>> => n = 0
  BY <1>1, <1>2
<1>5. DOMAIN d = 1 .. Len(d) /\ d = [i \in 1 .. Len(d) |-> d[i]]
  BY <1>1, MessageIs
<1>6. QED
  BY <1>1, <1>3, <1>4, <1>5

\* convertRadix: what it returns for digits, and that it takes them back.
LEMMA RadixIs ==
    ASSUME NEW from, Base(from), NEW to, Base(to), NEW n \in Nat, NEW d, IsDigits(d, from, n)
    PROVE  \E r : \E m \in Nat :
               /\ convertRadix(d, from, to) = Ok(r) /\ IsDigits(r, to, m)
               /\ ValueOf(r, to) = ValueOf(d, from)
               /\ convertRadix(r, to, from) = Ok(d)
<1>1. CASE n = 0
  <2>1. d = <<>>
    BY <1>1, NoDigits
  <2>2. convertRadix(d, from, to) = Ok(d) /\ convertRadix(d, to, from) = Ok(d)
    BY <2>1, Zenon DEF convertRadix
  <2>3. IsDigits(d, to, 0) /\ IsDigits(d, from, 0)
    BY <2>1, Empty DEF IsDigits
  <2>4. \A i \in 1 .. 0 : d[i] = 0
    OBVIOUS
  <2>5. ValueOf(d, to) = 0
    BY <2>3, <2>4, DigitsWorth
  <2>6. ValueOf(d, from) = 0
    BY <2>3, <2>4, DigitsWorth
  <2>7. 0 \in Nat /\ ValueOf(d, to) = ValueOf(d, from)
    BY <2>5, <2>6
  <2>8. QED
    BY <2>2, <2>3, <2>7, Zenon
<1>2. CASE n # 0
  <2> DEFINE r == Converted(d, from, to)
  <2>1. n \in Nat \ {0}
    BY <1>2
  <2>2. \A b, x : \A k \in Nat \ {0} : Base(b) /\ IsDigits(x, b, k) =>
           x # <<>> /\ ~\E i \in DOMAIN x : x[i] \notin 0 .. b - 1
    <3>1. SUFFICES ASSUME NEW b, NEW x, NEW k \in Nat \ {0}, Base(b), IsDigits(x, b, k)
                   PROVE  x # <<>> /\ ~\E i \in DOMAIN x : x[i] \notin 0 .. b - 1
      BY Zenon
    <3>2. x # <<>> /\ DOMAIN x = 1 .. k
      BY <3>1, NoDigits
    <3>3. \A i \in 1 .. k : x[i] \in 0 .. b - 1
      BY <3>1 DEF IsDigits
    <3>4. QED
      BY <3>2, <3>3, Zenon
  <2>3. PICK m \in Nat \ {0} : IsDigits(r, to, m)
    BY <2>1, ConvertedIs
  <2>4. ValueOf(r, to) = ValueOf(d, from)
    BY <2>1, ConvertedIs
  <2>5. Converted(r, to, from) = d
    BY <2>1, ConvertedBack
  <2>6. convertRadix(d, from, to) = Ok(r)
    BY <2>1, <2>2, Zenon DEF convertRadix
  <2> HIDE DEF r
  <2>7. convertRadix(r, to, from) = Ok(d)
    BY <2>2, <2>3, <2>5, Zenon DEF convertRadix
  <2>8. m \in Nat
    OBVIOUS
  <2>9. QED
    BY <2>3, <2>4, <2>6, <2>7, <2>8, Zenon
<1>3. QED
  BY <1>1, <1>2

Letters(d) == [i \in DOMAIN d |-> Letter(d[i])]

\* Letters tell what they are the letters of.
LEMMA LetterIs ==
    \A x, y : Letter(x) = Letter(y) => x = y
<1>1. TAKE x, y
<1>2. Letter(x).letter = x /\ Letter(y).letter = y
  BY DEF Letter
<1>3. QED
  BY <1>2, Zenon

\* The letters of digits, and the digits of the letters.
LEMMA LettersAre ==
    ASSUME NEW b, NEW n, NEW d, Base(b), n \in Nat, IsDigits(d, b, n)
    PROVE  AlphabetEncode(d, b) = Ok(Letters(d)) /\ AlphabetDecode(Letters(d), b) = Ok(d)
<1> DEFINE s == Letters(d)
           D(i) == CHOOSE e \in 0 .. b - 1 : s[i] = Letter(e)
<1>1. DOMAIN d = 1 .. n /\ d = [i \in 1 .. n |-> d[i]] /\ \A i \in 1 .. n : d[i] \in 0 .. b - 1
  BY NoDigits DEF IsDigits
<1>2. AlphabetEncode(d, b) = Ok(s)
  BY <1>1, Zenon DEF AlphabetEncode, Letters
<1>3. DOMAIN s = 1 .. n /\ \A i \in 1 .. n : s[i] = Letter(d[i])
  BY <1>1 DEF Letters
<1> HIDE DEF s
<1>4. \A i \in 1 .. n : D(i) = d[i]
  <2>1. TAKE i \in 1 .. n
  <2>2. d[i] \in 0 .. b - 1 /\ s[i] = Letter(d[i])
    BY <1>1, <1>3, Zenon
  <2>3. D(i) \in 0 .. b - 1 /\ s[i] = Letter(D(i))
    BY <2>2, Zenon
  <2> HIDE DEF D
  <2>4. QED
    BY LetterIs, <2>2, <2>3, Zenon
<1>5. \A i \in DOMAIN s : \E e \in 0 .. b - 1 : s[i] = Letter(e)
  BY <1>1, <1>3, Zenon
<1>6. AlphabetDecode(s, b) = Ok([i \in DOMAIN s |-> D(i)])
  BY <1>5, Zenon DEF AlphabetDecode
<1> HIDE DEF D
<1>7. [i \in DOMAIN s |-> D(i)] = d
  BY <1>1, <1>3, <1>4
<1>8. QED
  BY <1>2, <1>6, <1>7, Zenon DEF s

\* What is decoded is the letters of digits.
LEMMA LettersFrom ==
    ASSUME NEW b, NEW words, Base(b), IsMessage(words), AlphabetDecode(words, b).ok
    PROVE  \E d : IsDigits(d, b, Len(words)) /\ words = Letters(d) /\ AlphabetDecode(words, b) = Ok(d)
<1> DEFINE n == Len(words)
           D(i) == CHOOSE e \in 0 .. b - 1 : words[i] = Letter(e)
           d == [i \in DOMAIN words |-> D(i)]
<1>1. n \in Nat /\ DOMAIN words = 1 .. n /\ words = [i \in 1 .. n |-> words[i]]
  BY MessageIs
<1>2. Error.ok = FALSE
  BY DEF Error
<1>3. \A i \in DOMAIN words : \E e \in 0 .. b - 1 : words[i] = Letter(e)
  BY <1>2, Zenon DEF AlphabetDecode
<1>4. AlphabetDecode(words, b) = Ok(d)
  BY <1>3, Zenon DEF AlphabetDecode
<1>5. \A i \in 1 .. n : D(i) \in 0 .. b - 1 /\ words[i] = Letter(D(i))
  BY <1>1, <1>3, Zenon
<1> HIDE DEF D, n
<1>6. DOMAIN d = 1 .. n /\ d = [i \in 1 .. n |-> d[i]] /\ \A i \in 1 .. n : d[i] = D(i)
  BY <1>1
<1> HIDE DEF d
<1>7. IsMessage(d) /\ Len(d) = n
  BY <1>1, <1>6, MessageBy
<1>8. \A i \in 1 .. n : d[i] \in 0 .. b - 1 /\ words[i] = Letter(d[i])
  BY <1>5, <1>6, Zenon
<1>9. IsDigits(d, b, n)
  BY <1>7, <1>8, Zenon DEF IsDigits
<1>10. words = Letters(d)
  BY <1>1, <1>6, <1>8 DEF Letters
<1>11. QED
  BY <1>4, <1>9, <1>10, Zenon DEF n

\* Base58 gives back what it was given.
LEMMA TextBack ==
    ASSUME NEW from, Base(from), NEW to, Base(to), NEW n \in Nat, NEW d, IsDigits(d, from, n)
    PROVE  Base58Encode(d, from, to).ok /\ Base58Decode(Base58Encode(d, from, to).value, from, to) = Ok(d)
<1>1. PICK r : \E m \in Nat :
          /\ convertRadix(d, from, to) = Ok(r) /\ IsDigits(r, to, m)
          /\ convertRadix(r, to, from) = Ok(d)
  <2>1. \E r : \E m \in Nat :
          /\ convertRadix(d, from, to) = Ok(r) /\ IsDigits(r, to, m)
          /\ ValueOf(r, to) = ValueOf(d, from)
          /\ convertRadix(r, to, from) = Ok(d)
    BY RadixIs
  <2>2. QED
    BY <2>1, Zenon
<1>2. PICK s : AlphabetEncode(r, to) = Ok(s) /\ AlphabetDecode(s, to) = Ok(r)
  BY <1>1, LettersAre
<1>3. \A v : Ok(v).ok /\ Ok(v).value = v
  BY DEF Ok
<1>4. Base58Encode(d, from, to) = Ok(s)
  BY <1>1, <1>2, <1>3, Zenon DEF Base58Encode, Then
<1>5. Base58Decode(s, from, to) = Ok(d)
  BY <1>1, <1>2, <1>3, Zenon DEF Base58Decode, Then
<1>6. QED
  BY <1>3, <1>4, <1>5, Zenon

\* A text of bytes is worth what the bytes are and gives them back, and with it its checksum.
THEOREM TextsMatch ==
    ASSUME NEW from, Base(from), from <= 256, NEW to, Base(to), NEW bytes \in Seq(0 .. from - 1),
           NEW len \in Nat \ {0}, Hash(bytes) \in Seq(0 .. 255), len <= Len(Hash(bytes))
    PROVE  TextMatches(bytes, from, to, len)
<1> DEFINE n == Len(bytes)
           sum == SumOf(len, bytes)
           all == bytes \o sum
           coded == Base58Encode(all, 256, 58)
<1>0. from \in Nat /\ Base(256) /\ Base(58)
  BY DEF Base
<1>1. n \in Nat /\ IsMessage(bytes) /\ \A i \in 1 .. n : bytes[i] \in 0 .. from - 1
  <2>1. n \in Nat /\ bytes \in [1 .. n -> 0 .. from - 1]
    BY LenProperties
  <2> HIDE DEF n
  <2>2. \A i \in 1 .. n : bytes[i] \in 0 .. from - 1
    BY <2>1, Zenon
  <2>3. IsMessage(bytes)
    BY Zenon DEF IsMessage
  <2>4. QED
    BY <2>1, <2>2, <2>3
<1>2. IsDigits(bytes, from, n)
  BY <1>1 DEF IsDigits
<1>3. ValueOf(convertRadix(bytes, from, to).value, to) = ValueOf(bytes, from)
  <2>1. PICK r : convertRadix(bytes, from, to) = Ok(r) /\ ValueOf(r, to) = ValueOf(bytes, from)
    <3>1. \E r : \E m \in Nat :
            /\ convertRadix(bytes, from, to) = Ok(r) /\ IsDigits(r, to, m)
            /\ ValueOf(r, to) = ValueOf(bytes, from)
            /\ convertRadix(r, to, from) = Ok(bytes)
      BY <1>1, <1>2, RadixIs
    <3>2. QED
      BY <3>1, Zenon
  <2>2. Ok(r).value = r
    BY DEF Ok
  <2>3. QED
    BY <2>1, <2>2, Zenon
<1>4. Base58Decode(Base58Encode(bytes, from, to).value, from, to) = Ok(bytes)
  BY <1>1, <1>2, TextBack
<1>5. IsMessage(sum) /\ Len(sum) = len /\ \A i \in 1 .. len : sum[i] \in 0 .. 255
  <2> DEFINE h == Hash(bytes)
  <2>1. IsMessage(h) /\ h \in [1 .. Len(h) -> 0 .. 255] /\ Len(h) \in Nat /\ len <= Len(h)
    BY LenProperties DEF IsMessage
  <2>2. sum = SubSeq(h, 1, len)
    BY DEF SumOf
  <2> HIDE DEF h, sum
  <2>3. 1 \in Nat \ {0} /\ len - 1 + 1 = len /\ (IF 1 <= len THEN len - 1 + 1 ELSE 0) = len
    OBVIOUS
  <2>4. /\ IsMessage(SubSeq(h, 1, len)) /\ Len(SubSeq(h, 1, len)) = IF 1 <= len THEN len - 1 + 1 ELSE 0
        /\ \A i \in 1 .. len - 1 + 1 : SubSeq(h, 1, len)[i] = h[1 + i - 1]
    BY <2>1, <2>3, PartOf
  <2>9. \A i \in 1 .. len : 1 + i - 1 = i /\ i \in 1 .. Len(h)
    BY <2>1
  <2>5. \A i \in 1 .. len : 1 + i - 1 = i /\ i \in 1 .. Len(h) /\ h[i] \in 0 .. 255
    BY <2>1, <2>9, Zenon
  <2>6. IsMessage(sum) /\ Len(sum) = len
    BY <2>2, <2>3, <2>4, Zenon
  <2>7. \A i \in 1 .. len : sum[i] = h[i]
    BY <2>2, <2>3, <2>4, <2>5, Zenon
  <2>8. QED
    BY <2>5, <2>6, <2>7
<1> HIDE DEF n, sum
<1>6. /\ IsMessage(all) /\ Len(all) = n + len
      /\ \A i \in 1 .. n + len : all[i] = IF i <= n THEN bytes[i] ELSE sum[i - n]
  <2>1. Len(bytes) = n
    BY DEF n
  <2>2. /\ IsMessage(all) /\ Len(all) = Len(bytes) + Len(sum)
        /\ \A i \in 1 .. Len(bytes) + Len(sum) : all[i] = IF i <= Len(bytes) THEN bytes[i] ELSE sum[i - Len(bytes)]
    BY <1>1, <1>5, Concatenated
  <2> HIDE DEF all
  <2>3. QED
    BY <1>5, <2>1, <2>2
<1>7. n + len \in Nat /\ IsDigits(all, 256, n + len)
  <2> HIDE DEF all
  <2>1. ASSUME NEW i \in 1 .. n + len
        PROVE  all[i] \in 0 .. 255
    <3>1. CASE i <= n
      <4>1. i \in 1 .. n /\ \A e \in 0 .. from - 1 : e \in 0 .. 255
        BY <1>0, <1>1, <3>1
      <4>2. QED
        BY <1>1, <1>6, <3>1, <4>1, Zenon
    <3>2. CASE ~(i <= n)
      <4>1. i - n \in 1 .. len
        BY <1>1, <3>2
      <4>2. QED
        BY <1>5, <1>6, <3>2, <4>1, Zenon
    <3>3. QED
      BY <3>1, <3>2
  <2>2. QED
    BY <1>1, <1>6, <2>1 DEF IsDigits
<1>8. Payload(all, len) = bytes
  <2>1. Payload(all, len) = SubSeq(all, 1, n)
    <3>1. Payload(all, len) = SubSeq(all, 1, Len(all) - len)
      BY DEF Payload
    <3> HIDE DEF all
    <3>2. Len(all) - len = n
      BY <1>1, <1>6
    <3>3. QED
      BY <3>1, <3>2
  <2> DEFINE s == SubSeq(all, 1, n)
  <2>2. /\ IsMessage(s) /\ Len(s) = IF 1 <= n THEN n - 1 + 1 ELSE 0
        /\ \A i \in 1 .. n - 1 + 1 : s[i] = all[1 + i - 1]
    <3>1. n <= Len(all) /\ 1 \in Nat \ {0}
      BY <1>1, <1>6
    <3> HIDE DEF all
    <3>2. QED
      BY <1>1, <1>6, <3>1, PartOf
  <2> HIDE DEF s, all
  <2>3. Len(s) = n
    BY <1>1, <2>2
  <2>4. \A i \in 1 .. n : s[i] = bytes[i]
    <3>1. TAKE i \in 1 .. n
    <3>2. i \in 1 .. n - 1 + 1 /\ 1 + i - 1 = i /\ i \in 1 .. n + len /\ i <= n
      BY <1>1
    <3>3. QED
      BY <1>6, <2>2, <3>2, Zenon
  <2>5. Len(bytes) = n
    BY DEF n
  <2>6. s = bytes
    BY <1>1, <2>2, <2>3, <2>4, <2>5, SameMessage
  <2>7. QED
    BY <2>1, <2>6 DEF s
<1>9. SubSeq(all, Len(all) - len + 1, Len(all)) = sum
  <2> DEFINE a == n + 1
             b == n + len
             s == SubSeq(all, a, b)
  <2>1. a \in Nat \ {0} /\ b \in Nat /\ b <= Len(all) /\ b - a + 1 = len /\ (IF a <= b THEN b - a + 1 ELSE 0) = len
    BY <1>1, <1>6
  <2>2. SubSeq(all, Len(all) - len + 1, Len(all)) = s
    <3>1. Len(all) - len + 1 = a /\ Len(all) = b
      BY <1>1, <1>6
    <3> HIDE DEF all, a, b
    <3>2. QED
      BY <3>1
  <2> HIDE DEF all
  <2>3. /\ IsMessage(s) /\ Len(s) = IF a <= b THEN b - a + 1 ELSE 0
        /\ \A i \in 1 .. b - a + 1 : s[i] = all[a + i - 1]
    <3> HIDE DEF a, b
    <3>1. QED
      BY <1>6, <2>1, PartOf
  <2>4. IsMessage(s) /\ Len(s) = len
    <3> HIDE DEF a, b, s
    <3>1. QED
      BY <2>1, <2>3
  <2>5. \A i \in 1 .. len : s[i] = sum[i]
    <3>1. TAKE i \in 1 .. len
    <3>2. i \in 1 .. b - a + 1 /\ a + i - 1 = n + i /\ n + i \in 1 .. n + len /\ ~(n + i <= n) /\ (n + i) - n = i
      BY <1>1
    <3> HIDE DEF a, b, s
    <3>3. s[i] = all[n + i]
      BY <2>3, <3>2, Zenon
    <3>4. all[n + i] = sum[i]
      BY <1>6, <3>2, Zenon
    <3>5. QED
      BY <3>3, <3>4
  <2> HIDE DEF s
  <2>6. s = sum
    BY <1>5, <2>4, <2>5, SameMessage
  <2>7. QED
    BY <2>2, <2>6
<1>10. coded.ok /\ Base58Decode(coded.value, 256, 58) = Ok(all)
  <2> HIDE DEF all
  <2>1. QED
    BY <1>0, <1>7, TextBack
<1>11. \A v : Ok(v).ok /\ Ok(v).value = v
  BY DEF Ok
<1>12. Base58CheckEncode(bytes, len, 256, 58) = coded
  BY <1>11, Zenon DEF Base58CheckEncode, Then, ChecksumEncode, sum
<1> HIDE DEF coded
<1>13. ChecksumDecode(all, len, SumOf(len, Payload(all, len))) = Ok(bytes)
  <2>1. Len(all) >= len
    BY <1>1, <1>6
  <2> HIDE DEF all
  <2>2. SumOf(len, Payload(all, len)) = sum
    BY <1>8 DEF sum
  <2>3. QED
    BY <1>8, <1>9, <2>1, <2>2, Zenon DEF ChecksumDecode
<1> HIDE DEF all
<1>14. Base58CheckDecode(coded.value, len, 256, 58) = Ok(bytes)
  BY <1>10, <1>11, <1>13, Zenon DEF Base58CheckDecode, Then
<1>15. QED
  BY <1>3, <1>4, <1>12, <1>14, Zenon DEF TextMatches

-----------------------------------------------------------------------------
(* Powers of two *)

\* They are doubled one after another.
LEMMA TwoRuns ==
    ASSUME NEW n \in Nat
    PROVE  \E f : Doubles(f, n) /\ Two(n) = f[n]
<1> DEFINE At(f, i) == IF i = 0 THEN 1 ELSE 2 * f[i - 1]
           Is(f, most) == f = [i \in 0 .. most |-> At(f, i)]
           S == {most \in Nat : \E f : Is(f, most)}
           top == n
           w == CHOOSE f : Is(f, top)
<1>00. Two(n) = w[n]
  BY Zenon DEF Two
<1>0. top \in Nat
  BY Zenon
<1>1. 0 \in S
  <2>1. Is([i \in 0 .. 0 |-> 1], 0)
    OBVIOUS
  <2> HIDE DEF Is
  <2>2. QED
    BY <2>1
<1>2. ASSUME NEW most \in Nat, most \in S
      PROVE  most + 1 \in S
  <2>1. PICK f : Is(f, most)
    BY <1>2, Zenon
  <2> DEFINE g == [i \in 0 .. most + 1 |-> IF i <= most THEN f[i] ELSE At(f, i)]
  <2>2. \A i \in 0 .. most : g[i] = f[i]
    OBVIOUS
  <2>3. \A i \in 0 .. most + 1 : i # 0 => i - 1 \in 0 .. most
    OBVIOUS
  <2>4. \A i \in 0 .. most : f[i] = At(f, i)
    <3>1. f = [i \in 0 .. most |-> At(f, i)]
      BY <2>1, Zenon
    <3> HIDE DEF At
    <3>2. QED
      BY <3>1, Zenon
  <2>5. g = [i \in 0 .. most + 1 |-> IF i <= most THEN f[i] ELSE At(f, i)]
    OBVIOUS
  <2> HIDE DEF g
  <2>6. \A i \in 0 .. most + 1 : At(g, i) = At(f, i)
    BY <2>2, <2>3
  <2> HIDE DEF At
  <2>7. \A i \in 0 .. most + 1 : (IF i <= most THEN f[i] ELSE At(f, i)) = At(g, i)
    BY <2>4, <2>6
  <2>8. g = [i \in 0 .. most + 1 |-> At(g, i)]
    BY <2>5, <2>7
  <2>9. Is(g, most + 1)
    BY <2>8
  <2> HIDE DEF Is
  <2>10. QED
    BY <2>9
<1>3. top \in S
  <2> HIDE DEF S, top
  <2>1. QED
    BY <1>0, <1>1, <1>2, AllNumbers
<1>4. Is(w, top)
  <2> HIDE DEF Is
  <2>1. QED
    BY <1>3, Zenon
<1> HIDE DEF w
<1>5. w = [i \in 0 .. n |-> At(w, i)]
  BY <1>4, Zenon
<1>6. \A i \in 0 .. n : w[i] = At(w, i)
  <2> HIDE DEF At
  <2>1. QED
    BY <1>5, Zenon
<1>7. w[0] = 1 /\ \A i \in 1 .. n : w[i] = 2 * w[i - 1]
  <2>1. w[0] = At(w, 0) /\ \A i \in 1 .. n : w[i] = At(w, i) /\ i # 0
    <3> HIDE DEF At
    <3>1. QED
      BY <1>6
  <2>2. QED
    BY <2>1, Zenon
<1> DEFINE T == {i \in Nat : i <= n => w[i] \in Nat \ {0}}
<1>8. \A i \in Nat : i \in T
  <2>1. 0 \in T
    BY <1>7
  <2>2. ASSUME NEW i \in Nat, i \in T
        PROVE  i + 1 \in T
    <3>1. SUFFICES ASSUME i + 1 <= n
                   PROVE  w[i + 1] \in Nat \ {0}
      OBVIOUS
    <3>2. i + 1 \in 1 .. n /\ (i + 1) - 1 = i /\ w[i] \in Nat \ {0}
      BY <2>2, <3>1
    <3>3. w[i + 1] = 2 * w[i]
      BY <1>7, <3>2
    <3>4. QED
      BY <3>2, <3>3
  <2> HIDE DEF T
  <2>3. QED
    BY <2>1, <2>2, AllNumbers
<1>9. Doubles(w, n)
  BY <1>7, <1>8 DEF Doubles
<1>10. QED
  BY <1>00, <1>9, Zenon

\* Two tables of powers of two agree.
LEMMA DoublesAgree ==
    ASSUME NEW m \in Nat, NEW n \in Nat, m <= n, NEW f, Doubles(f, m), NEW g, Doubles(g, n)
    PROVE  f[m] = g[m]
<1> DEFINE S == {i \in Nat : i <= m => f[i] = g[i]}
<1>1. 0 \in S
  BY DEF Doubles
<1>2. ASSUME NEW i \in Nat, i \in S
      PROVE  i + 1 \in S
  <2>1. SUFFICES ASSUME i + 1 <= m
                 PROVE  f[i + 1] = g[i + 1]
    OBVIOUS
  <2>2. i + 1 \in 1 .. m /\ i + 1 \in 1 .. n /\ (i + 1) - 1 = i /\ f[i] = g[i]
    BY <1>2, <2>1
  <2>3. f[i + 1] = 2 * f[(i + 1) - 1] /\ g[i + 1] = 2 * g[(i + 1) - 1]
    BY <2>2, Zenon DEF Doubles
  <2>4. QED
    BY <2>2, <2>3, Zenon
<1>3. m \in S
  <2> HIDE DEF S
  <2>1. QED
    BY <1>1, <1>2, AllNumbers
<1>4. QED
  BY <1>3

\* The next power is twice the one before.
LEMMA TwoIs ==
    /\ Two(0) = 1
    /\ \A n \in Nat : Two(n) \in Nat \ {0} /\ Two(n + 1) = 2 * Two(n)
<1>1. Two(0) = 1
  <2>1. PICK f : Doubles(f, 0) /\ Two(0) = f[0]
    BY TwoRuns
  <2>2. QED
    BY <2>1 DEF Doubles
<1>2. ASSUME NEW n \in Nat
      PROVE  Two(n) \in Nat \ {0} /\ Two(n + 1) = 2 * Two(n)
  <2>1. n + 1 \in Nat /\ n <= n + 1 /\ n + 1 \in 1 .. n + 1 /\ (n + 1) - 1 = n /\ n \in 0 .. n
    OBVIOUS
  <2>2. PICK f : Doubles(f, n) /\ Two(n) = f[n]
    BY TwoRuns
  <2>3. PICK g : Doubles(g, n + 1) /\ Two(n + 1) = g[n + 1]
    BY <2>1, TwoRuns
  <2>4. f[n] = g[n]
    BY <2>1, <2>2, <2>3, DoublesAgree
  <2>5. g[n + 1] = 2 * g[(n + 1) - 1]
    BY <2>1, <2>3, Zenon DEF Doubles
  <2>6. f[n] \in Nat \ {0}
    BY <2>1, <2>2, Zenon DEF Doubles
  <2>7. QED
    BY <2>1, <2>2, <2>3, <2>4, <2>5, <2>6, Zenon
<1>3. QED
  BY <1>1, <1>2

\* The power of a sum is the product of the powers.
LEMMA TwoSum ==
    ASSUME NEW a \in Nat, NEW b \in Nat
    PROVE  Two(a + b) = Two(a) * Two(b)
<1> DEFINE S == {k \in Nat : Two(a + k) = Two(a) * Two(k)}
<1>0. Two(a) \in Nat
  BY TwoIs
<1>1. 0 \in S
  <2>1. a + 0 = a /\ Two(0) = 1
    BY TwoIs
  <2>2. Two(a + 0) = Two(a)
    BY <2>1
  <2> DEFINE x == Two(a)
  <2> HIDE DEF x
  <2>3. x \in Nat
    BY <1>0 DEF x
  <2>4. x * 1 = x
    BY <2>3, SMT
  <2>5. Two(a + 0) = Two(a) * Two(0)
    BY <2>1, <2>2, <2>4 DEF x
  <2>6. QED
    BY <2>5
<1>2. ASSUME NEW k \in Nat, k \in S
      PROVE  k + 1 \in S
  <2>1. a + (k + 1) = (a + k) + 1 /\ a + k \in Nat
    OBVIOUS
  <2>2. Two((a + k) + 1) = 2 * Two(a + k) /\ Two(k + 1) = 2 * Two(k) /\ Two(k) \in Nat
    BY <2>1, TwoIs
  <2>3. Two(a + k) = Two(a) * Two(k)
    BY <1>2
  <2> DEFINE x == Two(a)
             y == Two(k)
  <2> HIDE DEF x, y
  <2>4. x \in Nat /\ y \in Nat
    BY <1>0, <2>2 DEF x, y
  <2>5. 2 * (x * y) = x * (2 * y)
    BY <2>4, SMT
  <2>6. Two(a + (k + 1)) = Two(a) * Two(k + 1)
    BY <2>1, <2>2, <2>3, <2>5 DEF x, y
  <2>7. QED
    BY <2>6
<1>3. b \in S
  <2> HIDE DEF S
  <2>1. QED
    BY <1>1, <1>2, AllNumbers
<1>4. QED
  BY <1>3

\* The powers used here.
LEMMA TwoTable ==
    /\ Two(0) = 1 /\ Two(1) = 2 /\ Two(2) = 4 /\ Two(3) = 8 /\ Two(4) = 16 /\ Two(5) = 32 /\ Two(6) = 64
    /\ Two(7) = 128 /\ Two(8) = 256 /\ Two(11) = 2048
<1>1. Two(0) = 1
  BY TwoIs
<1>2. Two(1) = 2
  <2>1. Two(0 + 1) = 2 * Two(0) /\ 0 + 1 = 1
    BY TwoIs
  <2>2. QED
    BY <1>1, <2>1
<1>3. Two(2) = 4
  <2>1. Two(1 + 1) = 2 * Two(1) /\ 1 + 1 = 2
    BY TwoIs
  <2>2. QED
    BY <1>2, <2>1
<1>4. Two(3) = 8
  <2>1. Two(2 + 1) = 2 * Two(2) /\ 2 + 1 = 3
    BY TwoIs
  <2>2. QED
    BY <1>3, <2>1
<1>5. Two(4) = 16
  <2>1. Two(3 + 1) = 2 * Two(3) /\ 3 + 1 = 4
    BY TwoIs
  <2>2. QED
    BY <1>4, <2>1
<1>6. Two(5) = 32
  <2>1. Two(4 + 1) = 2 * Two(4) /\ 4 + 1 = 5
    BY TwoIs
  <2>2. QED
    BY <1>5, <2>1
<1>7. Two(6) = 64
  <2>1. Two(5 + 1) = 2 * Two(5) /\ 5 + 1 = 6
    BY TwoIs
  <2>2. QED
    BY <1>6, <2>1
<1>8. Two(7) = 128
  <2>1. Two(6 + 1) = 2 * Two(6) /\ 6 + 1 = 7
    BY TwoIs
  <2>2. QED
    BY <1>7, <2>1
<1>9. Two(8) = 256
  <2>1. Two(7 + 1) = 2 * Two(7) /\ 7 + 1 = 8
    BY TwoIs
  <2>2. QED
    BY <1>8, <2>1
<1>10. Two(9) = 512
  <2>1. Two(8 + 1) = 2 * Two(8) /\ 8 + 1 = 9
    BY TwoIs
  <2>2. QED
    BY <1>9, <2>1
<1>11. Two(10) = 1024
  <2>1. Two(9 + 1) = 2 * Two(9) /\ 9 + 1 = 10
    BY TwoIs
  <2>2. QED
    BY <1>10, <2>1
<1>12. Two(11) = 2048
  <2>1. Two(10 + 1) = 2 * Two(10) /\ 10 + 1 = 11
    BY TwoIs
  <2>2. QED
    BY <1>11, <2>1
<1>13. QED
  BY <1>1, <1>2, <1>3, <1>4, <1>5, <1>6, <1>7, <1>8, <1>9, <1>12

\* A quotient of a quotient.
LEMMA QuotientTwice ==
    ASSUME NEW x \in Nat, NEW a \in Nat \ {0}, NEW b \in Nat \ {0}
    PROVE  (x \div a) \div b = x \div (a * b)
<1> DEFINE q == x \div a
           r == x % a
           s == q \div b
           t == q % b
<1>1. q \in Nat /\ r \in 0 .. a - 1 /\ x = a * q + r
  BY Divides
<1> HIDE DEF q, r
<1>2. s \in Nat /\ t \in 0 .. b - 1 /\ q = b * s + t
  BY <1>1, Divides
<1> HIDE DEF s, t
<1> DEFINE c == a * b
           u == a * t + r
<1>3. c \in Nat \ {0}
  BY SMT
<1>4. u \in 0 .. c - 1
  <2>1. t + 1 <= b /\ t \in Nat /\ r \in Nat /\ r <= a - 1
    BY <1>1, <1>2
  <2>2. a * (t + 1) <= a * b
    BY <2>1, SMT
  <2>3. a * (t + 1) = a * t + a /\ a * t \in Nat
    BY <2>1, SMT
  <2>4. QED
    BY <1>1, <2>1, <2>2, <2>3
<1>5. x = c * s + u
  <2>1. a * (b * s + t) = (a * b) * s + a * t
    <3>1. t \in Nat
      BY <1>2
    <3>2. QED
      BY <1>2, <3>1, SMT
  <2>2. (a * b) * s \in Nat /\ a * t \in Nat
    <3>1. t \in Nat
      BY <1>2
    <3>2. QED
      BY <1>2, <3>1, SMT
  <2>3. QED
    BY <1>1, <1>2, <2>1, <2>2
<1> HIDE DEF c, u
<1>6. x \div c = s
  BY <1>2, <1>3, <1>4, <1>5, Divided
<1>7. QED
  BY <1>6 DEF c, q, s

\* The bits of a number down to one place, and those down to a place below it.
LEMMA BitsDown ==
    ASSUME NEW x \in Nat, NEW a \in Nat, NEW b \in Nat
    PROVE  x \div Two(a) = (x \div Two(a + b)) * Two(b) + ((x \div Two(a)) % Two(b))
<1> DEFINE y == x \div Two(a)
           p == Two(a)
           q == Two(b)
<1>1. p \in Nat \ {0} /\ q \in Nat \ {0} /\ Two(a + b) = p * q
  BY TwoIs, TwoSum
<1>2. y \div q = x \div (p * q)
  <2>1. y = x \div p
    OBVIOUS
  <2> HIDE DEF y, p, q
  <2>2. QED
    BY <1>1, <2>1, QuotientTwice
<1>3. y \in Nat
  <2>1. y = x \div p
    OBVIOUS
  <2> HIDE DEF y, p
  <2>2. QED
    BY <1>1, <2>1, Divides
<1> HIDE DEF y, p, q
<1>4. y = q * (y \div q) + (y % q) /\ y \div q \in Nat
  BY <1>1, <1>3, Divides
<1>5. q * (y \div q) = (y \div q) * q
  BY <1>1, <1>4, SMT
<1>6. y = (x \div (p * q)) * q + (y % q)
  BY <1>2, <1>4, <1>5, Zenon
<1>7. x \div Two(a + b) = x \div (p * q)
  BY <1>1, Zenon
<1>8. y = (x \div Two(a + b)) * q + (y % q)
  BY <1>6, <1>7, Zenon
<1>9. QED
  BY <1>8, Zenon DEF y, q

-----------------------------------------------------------------------------
(* Groups of bits *)

\* A remainder is a digit and the remainder below it.
LEMMA RemainderSplit ==
    ASSUME NEW x \in Nat, NEW a \in Nat \ {0}, NEW b \in Nat \ {0}
    PROVE  x % (a * b) = ((x \div a) % b) * a + (x % a)
<1> DEFINE q == x \div a
           r == x % a
           s == q \div b
           d == q % b
           c == a * b
           u == d * a + r
<1>1. q \in Nat /\ r \in 0 .. a - 1 /\ x = a * q + r
  BY Divides
<1>0. u = ((x \div a) % b) * a + (x % a)
  OBVIOUS
<1> HIDE DEF q, r
<1>2. s \in Nat /\ d \in 0 .. b - 1 /\ q = b * s + d
  BY <1>1, Divides
<1> HIDE DEF s, d
<1>3. c \in Nat \ {0}
  BY SMT
<1>4. d \in Nat /\ d + 1 <= b /\ r \in Nat /\ r <= a - 1
  BY <1>1, <1>2
<1>5. d * a \in Nat /\ u \in 0 .. c - 1
  <2>1. (d + 1) * a <= b * a
    BY <1>4, SMT
  <2>2. (d + 1) * a = d * a + a /\ d * a \in Nat /\ b * a = c
    BY <1>4, SMT
  <2>3. QED
    BY <1>4, <2>1, <2>2
<1>6. x = c * s + u
  <2>1. a * (b * s + d) = (a * b) * s + d * a /\ (a * b) * s \in Nat
    BY <1>2, <1>4, SMT
  <2>2. QED
    BY <1>1, <1>2, <1>4, <1>5, <2>1
<1> HIDE DEF c, u
<1>7. x % c = u
  BY <1>2, <1>3, <1>5, <1>6, Divided
<1>8. x % (a * b) = u
  BY <1>7, Zenon DEF c
<1>9. QED
  BY <1>0, <1>8, Zenon

\* The same digits are worth the same.
LEMMA WorthSame ==
    ASSUME NEW b, NEW d, NEW e, NEW v, NEW w, NEW n \in Nat, \A i \in 1 .. n : d[i] = e[i],
           Worth(v, d, b, n), Worth(w, e, b, n)
    PROVE  \A k \in 0 .. n : v[k] = w[k]
<1> DEFINE S == {k \in Nat : k <= n => v[k] = w[k]}
<1>1. 0 \in S
  BY DEF Worth
<1>2. ASSUME NEW k \in Nat, k \in S
      PROVE  k + 1 \in S
  <2>1. SUFFICES ASSUME k + 1 <= n
                 PROVE  v[k + 1] = w[k + 1]
    OBVIOUS
  <2>2. k + 1 \in 1 .. n /\ (k + 1) - 1 = k /\ v[k] = w[k]
    BY <1>2, <2>1
  <2>3. v[k + 1] = v[(k + 1) - 1] * b + d[k + 1] /\ w[k + 1] = w[(k + 1) - 1] * b + e[k + 1] /\ d[k + 1] = e[k + 1]
    BY <2>2, Zenon DEF Worth
  <2>4. QED
    BY <2>2, <2>3, Zenon
<1>3. \A k \in Nat : k \in S
  <2> HIDE DEF S
  <2>1. QED
    BY <1>1, <1>2, AllNumbers
<1>4. QED
  BY <1>3

\* As many digits that are worth the same are the same.
LEMMA SameWorth ==
    ASSUME NEW b, Base(b), NEW n \in Nat, NEW s, NEW t, IsDigits(s, b, n), IsDigits(t, b, n), ValueOf(s, b) = ValueOf(t, b)
    PROVE  s = t
<1>1. SameEnds(Values(s, b), Values(t, b), s, t, n, n, n)
  <2>1. \A k \in Nat : k <= n /\ k <= n => SameEnds(Values(s, b), Values(t, b), s, t, n, n, k)
    BY EndsAgree
  <2>2. QED
    BY <2>1
<1>2. \A i \in 0 .. n - 1 : s[n - i] = t[n - i]
  BY <1>1, Zenon DEF SameEnds
<1>3. \A i \in 1 .. n : s[i] = t[i]
  <2>1. TAKE i \in 1 .. n
  <2>2. n - i \in 0 .. n - 1 /\ n - (n - i) = i
    OBVIOUS
  <2>3. s[n - (n - i)] = t[n - (n - i)]
    BY <1>2, <2>2, Zenon
  <2>4. QED
    BY <2>2, <2>3, Zenon
<1>4. IsMessage(s) /\ IsMessage(t) /\ Len(s) = n /\ Len(t) = n
  BY DEF IsDigits
<1>5. QED
  BY <1>3, <1>4, SameMessage

\* The groups are worth, with what is left over, what went in.
Kept(a, to, value, bits) ==
    /\ IsDigits(a.res, Two(to), Len(a.res)) /\ Len(a.res) \in Nat
    /\ a.pos \in 0 .. to - 1 /\ a.carry \in 0 .. Two(a.pos) - 1
    /\ Len(a.res) * to + a.pos = bits
    /\ value = ValueOf(a.res, Two(to)) * Two(a.pos) + a.carry

\* A power of two is a radix.
LEMMA TwoBase ==
    ASSUME NEW n \in Nat \ {0}
    PROVE  Base(Two(n))
<1>1. n - 1 \in Nat /\ (n - 1) + 1 = n
  OBVIOUS
<1>2. Two((n - 1) + 1) = 2 * Two(n - 1) /\ Two(n - 1) \in Nat \ {0}
  BY <1>1, TwoIs
<1>3. QED
  BY <1>1, <1>2 DEF Base

\* Groups taken from the top of so many bits are digits of the other radix, worth those bits.
LEMMA GroupsWorth ==
    ASSUME NEW to \in Nat \ {0}, NEW q \in Nat, NEW p \in Nat, q * to <= p, NEW x \in Nat, x < Two(p),
           NEW l \in Nat, NEW res, IsDigits(res, Two(to), l)
    PROVE  LET g == [j \in 1 .. q |-> (x \div Two(p - j * to)) % Two(to)]
           IN /\ IsDigits(res \o g, Two(to), l + q)
              /\ ValueOf(res \o g, Two(to)) * Two(p - q * to) + (x % Two(p - q * to))
                     = ValueOf(res, Two(to)) * Two(p) + x
<1> DEFINE At(j) == (x \div Two(p - j * to)) % Two(to)
           g == [j \in 1 .. q |-> At(j)]
           b == Two(to)
           all == res \o g
           v == Values(res, b)
           w == Values(all, b)
           T(j) == Two(p - j * to)
<1>1. b \in Nat \ {0} /\ Base(b)
  BY TwoIs, TwoBase
<1>2. \A j \in 0 .. q : p - j * to \in Nat /\ T(j) \in Nat \ {0} /\ j * to \in Nat
  <2>1. TAKE j \in 0 .. q
  <2>2. j * to <= q * to /\ j * to \in Nat /\ q * to \in Nat
    BY SMT
  <2>3. p - j * to \in Nat
    BY <2>2
  <2>4. QED
    BY <2>2, <2>3, TwoIs
<1>3. \A j \in 1 .. q : At(j) \in 0 .. b - 1
  <2>1. TAKE j \in 1 .. q
  <2>2. T(j) \in Nat \ {0}
    BY <1>2
  <2> HIDE DEF b, T
  <2>3. x \div T(j) \in Nat
    BY <2>2, Divides
  <2>4. (x \div T(j)) % b \in 0 .. b - 1
    BY <1>1, <2>3, Divides
  <2>5. QED
    BY <2>4, Zenon DEF b, T
<1>4. \A j \in 1 .. q : g[j] = At(j)
  <2> HIDE DEF At
  <2>1. QED
    OBVIOUS
<1>5. IsMessage(g) /\ Len(g) = q
  <2>1. g = [j \in 1 .. q |-> g[j]]
    <3> HIDE DEF At
    <3>1. QED
      OBVIOUS
  <2> HIDE DEF g
  <2>2. QED
    BY <2>1, MessageBy
<1> HIDE DEF g
<1>6. IsMessage(res) /\ Len(res) = l /\ \A i \in 1 .. l : res[i] \in 0 .. b - 1
  BY DEF IsDigits
<1>7. /\ IsMessage(all) /\ Len(all) = l + q
      /\ \A i \in 1 .. l + q : all[i] = IF i <= l THEN res[i] ELSE g[i - l]
  <2>1. /\ IsMessage(all) /\ Len(all) = Len(res) + Len(g)
        /\ \A i \in 1 .. Len(res) + Len(g) : all[i] = IF i <= Len(res) THEN res[i] ELSE g[i - Len(res)]
    BY <1>5, <1>6, Concatenated
  <2> HIDE DEF all
  <2>2. QED
    BY <1>5, <1>6, <2>1
<1> HIDE DEF all, b, T
<1>8. \A i \in 1 .. l : all[i] = res[i]
  <2>1. TAKE i \in 1 .. l
  <2>2. i \in 1 .. l + q /\ i <= l
    OBVIOUS
  <2>3. QED
    BY <1>7, <2>2, Zenon
<1>9. \A j \in 1 .. q : l + j \in 1 .. l + q /\ all[l + j] = At(j)
  <2>1. TAKE j \in 1 .. q
  <2>2. l + j \in 1 .. l + q /\ ~(l + j <= l) /\ (l + j) - l = j
    OBVIOUS
  <2> HIDE DEF At
  <2>3. QED
    BY <1>4, <1>7, <2>2, Zenon
<1>10. IsDigits(all, b, l + q)
  <2>1. ASSUME NEW i \in 1 .. l + q
        PROVE  all[i] \in 0 .. b - 1
    <3>1. CASE i <= l
      <4>1. i \in 1 .. l
        BY <3>1
      <4>2. QED
        BY <1>6, <1>8, <4>1, Zenon
    <3>2. CASE ~(i <= l)
      <4>1. i - l \in 1 .. q /\ l + (i - l) = i
        BY <3>2
      <4> HIDE DEF At
      <4>2. all[l + (i - l)] = At(i - l) /\ At(i - l) \in 0 .. b - 1
        BY <1>3, <1>9, <4>1, Zenon
      <4>3. QED
        BY <4>1, <4>2, Zenon
    <3>3. QED
      BY <3>1, <3>2
  <2>2. QED
    BY <1>7, <2>1 DEF IsDigits
<1>11. /\ Worth(v, res, b, l) /\ ValueOf(res, b) = v[l] /\ ValueOf(res, b) \in Nat
  <2>1. IsDigits(res, b, l)
    BY DEF b
  <2>2. QED
    BY <1>1, <2>1, DigitsWorth
<1>12. Worth(w, all, b, l + q) /\ ValueOf(all, b) = w[l + q]
  <2>1. l + q \in Nat
    OBVIOUS
  <2>2. QED
    BY <1>1, <1>10, <2>1, DigitsWorth
<1> HIDE DEF v, w
<1>13. \A k \in 0 .. l + q : w[k] \in Nat
  <2> DEFINE m == l + q
  <2>1. m \in Nat /\ Worth(w, all, b, m) /\ \A i \in 1 .. m : all[i] \in 0 .. b - 1
    BY <1>10, <1>12 DEF IsDigits
  <2> HIDE DEF m
  <2>2. \A k \in 0 .. m : w[k] \in Nat
    BY <1>1, <2>1, WorthNumbers
  <2>3. QED
    BY <2>2 DEF m
<1>14. w[l] = v[l]
  <2>1. Worth(w, all, b, l)
    <3>1. \A i \in 1 .. l : i \in 1 .. l + q
      OBVIOUS
    <3>2. QED
      BY <1>12, <3>1, Zenon DEF Worth
  <2>2. \A k \in 0 .. l : w[k] = v[k]
    BY <1>8, <1>11, <2>1, WorthSame
  <2>3. l \in 0 .. l
    OBVIOUS
  <2>4. QED
    BY <2>2, <2>3, Zenon
<1> DEFINE start == v[l] * Two(p) + x
           S == {j \in Nat : j <= q => w[l + j] * T(j) + (x % T(j)) = start}
<1>15. 0 \in S
  <2>1. p - 0 * to = p /\ l + 0 = l
    BY SMT
  <2>2. T(0) = Two(p) /\ Two(p) \in Nat \ {0}
    BY <2>1, TwoIs DEF T
  <2>3. x % Two(p) = x
    <3> DEFINE t == Two(p)
    <3>1. t \in Nat \ {0} /\ x < t
      BY <2>2
    <3> HIDE DEF t
    <3>2. x \in 0 .. t - 1 /\ 0 \in Nat
      BY <3>1
    <3>3. (t * 0 + x) % t = x
      BY <3>1, <3>2, Divided
    <3>4. t * 0 = 0
      BY <3>1, SMT
    <3>5. t * 0 + x = x
      BY <3>4
    <3>6. QED
      BY <3>3, <3>5, Zenon DEF t
  <2>4. w[l + 0] * T(0) + (x % T(0)) = start
    BY <1>14, <2>1, <2>2, <2>3, Zenon
  <2> HIDE DEF start
  <2>5. QED
    BY <2>4
<1>16. ASSUME NEW j \in Nat, j \in S
       PROVE  j + 1 \in S
  <2>1. SUFFICES ASSUME j + 1 <= q
                 PROVE  w[l + (j + 1)] * T(j + 1) + (x % T(j + 1)) = start
    <3> HIDE DEF start
    <3>1. QED
      OBVIOUS
  <2>2. j <= q /\ j \in 0 .. q /\ j + 1 \in 0 .. q /\ j + 1 \in 1 .. q /\ (l + (j + 1)) - 1 = l + j
        /\ l + (j + 1) \in 1 .. l + q /\ l + j \in 0 .. l + q
    BY <2>1
  <2>3. w[l + j] * T(j) + (x % T(j)) = start
    <3> HIDE DEF start
    <3>1. QED
      BY <1>16, <2>2
  <2>4. T(j) = T(j + 1) * b
    <3>1. p - j * to = (p - (j + 1) * to) + to
      BY SMT
    <3>2. p - (j + 1) * to \in Nat
      BY <1>2, <2>2
    <3>3. Two((p - (j + 1) * to) + to) = Two(p - (j + 1) * to) * Two(to)
      BY <3>2, TwoSum
    <3>4. QED
      BY <3>1, <3>3, Zenon DEF T, b
  <2> DEFINE t == T(j + 1)
             d == At(j + 1)
             y == w[l + j]
             e == x % t
  <2>5. t \in Nat \ {0} /\ y \in Nat
    BY <1>2, <1>13, <2>2, Zenon
  <2>6. d \in 0 .. b - 1
    BY <1>3, <2>2, Zenon
  <2>7. d = (x \div t) % b
    BY Zenon DEF T, b
  <2>8. w[l + (j + 1)] = y * b + d
    <3>1. w[l + (j + 1)] = w[(l + (j + 1)) - 1] * b + all[l + (j + 1)]
      BY <1>12, <2>2, Zenon DEF Worth
    <3>2. all[l + (j + 1)] = d
      BY <1>9, <2>2, Zenon
    <3>3. QED
      BY <2>2, <3>1, <3>2, Zenon
  <2>9. y * (t * b) + (x % (t * b)) = start
    BY <2>3, <2>4, Zenon
  <2>10. w[l + (j + 1)] * T(j + 1) + (x % T(j + 1)) = (y * b + d) * t + e
    BY <2>8, Zenon
  <2> HIDE DEF t, d, y, start
  <2>11. x % (t * b) = ((x \div t) % b) * t + e
    BY <1>1, <2>5, RemainderSplit
  <2>12. x % (t * b) = d * t + e
    BY <2>7, <2>11, Zenon
  <2>13. e \in 0 .. t - 1
    BY <2>5, Divides
  <2> HIDE DEF e
  <2>14. (y * b + d) * t + e = y * (t * b) + (d * t + e)
    BY <1>1, <2>5, <2>6, <2>13, SMT
  <2>15. QED
    BY <2>9, <2>10, <2>12, <2>14, Zenon
<1>17. w[l + q] * T(q) + (x % T(q)) = start
  <2> HIDE DEF start
  <2>1. q \in S
    <3> HIDE DEF S
    <3>1. QED
      BY <1>15, <1>16, AllNumbers
  <2>2. QED
    BY <2>1
<1>18. ValueOf(all, b) * T(q) + (x % T(q)) = ValueOf(res, b) * Two(p) + x
  BY <1>11, <1>12, <1>17, Zenon
<1>19. QED
  BY <1>10, <1>18, Zenon DEF all, b, T, g

\* The regroupings, one after another.
LEMMA RegroupedRuns ==
    ASSUME NEW d, IsMessage(d), NEW from, NEW to
    PROVE  /\ Regrouped(d, from, to)[0] = [ok |-> TRUE, carry |-> 0, pos |-> 0, res |-> <<>>]
           /\ \A i \in 1 .. Len(d) : Regrouped(d, from, to)[i] = Regroup(Regrouped(d, from, to)[i - 1], d[i], from, to)
<1> DEFINE Turn(x, i) == Regroup(x, d[i], from, to)
           start == [ok |-> TRUE, carry |-> 0, pos |-> 0, res |-> <<>>]
           At(f, i) == IF i = 0 THEN start ELSE Turn(f[i - 1], i)
           Is(f, most) == f = [i \in 0 .. most |-> At(f, i)]
           S == {most \in Nat : \E f : Is(f, most)}
           top == Len(d)
           w == CHOOSE f : Is(f, top)
<1>00. Regrouped(d, from, to) = w
  BY Zenon DEF Regrouped
<1>01. \A x, i : Turn(x, i) = Regroup(x, d[i], from, to)
  BY Zenon
<1>02. start = [ok |-> TRUE, carry |-> 0, pos |-> 0, res |-> <<>>]
  BY Zenon
<1> HIDE DEF Turn, start
<1>0. top \in Nat
  BY MessageIs
<1>1. 0 \in S
  <2>1. Is([i \in 0 .. 0 |-> start], 0)
    OBVIOUS
  <2> HIDE DEF Is
  <2>2. QED
    BY <2>1
<1>2. ASSUME NEW most \in Nat, most \in S
      PROVE  most + 1 \in S
  <2>1. PICK f : Is(f, most)
    BY <1>2, Zenon
  <2> DEFINE g == [i \in 0 .. most + 1 |-> IF i <= most THEN f[i] ELSE At(f, i)]
  <2>2. \A i \in 0 .. most : g[i] = f[i]
    OBVIOUS
  <2>3. \A i \in 0 .. most + 1 : i # 0 => i - 1 \in 0 .. most
    OBVIOUS
  <2>4. \A i \in 0 .. most : f[i] = At(f, i)
    <3>1. f = [i \in 0 .. most |-> At(f, i)]
      BY <2>1, Zenon
    <3> HIDE DEF At
    <3>2. QED
      BY <3>1, Zenon
  <2>5. g = [i \in 0 .. most + 1 |-> IF i <= most THEN f[i] ELSE At(f, i)]
    OBVIOUS
  <2> HIDE DEF g
  <2>6. \A i \in 0 .. most + 1 : At(g, i) = At(f, i)
    BY <2>2, <2>3
  <2> HIDE DEF At
  <2>7. \A i \in 0 .. most + 1 : (IF i <= most THEN f[i] ELSE At(f, i)) = At(g, i)
    BY <2>4, <2>6
  <2>8. g = [i \in 0 .. most + 1 |-> At(g, i)]
    BY <2>5, <2>7
  <2>9. Is(g, most + 1)
    BY <2>8
  <2> HIDE DEF Is
  <2>10. QED
    BY <2>9
<1>3. top \in S
  <2> HIDE DEF S, top
  <2>1. QED
    BY <1>0, <1>1, <1>2, AllNumbers
<1>4. Is(w, top)
  <2> HIDE DEF Is
  <2>1. QED
    BY <1>3, Zenon
<1> HIDE DEF w
<1>5. \A i \in 0 .. top : w[i] = At(w, i)
  <2>1. w = [i \in 0 .. top |-> At(w, i)]
    BY <1>4, Zenon
  <2> HIDE DEF At
  <2>2. QED
    BY <2>1, Zenon
<1>6. w[0] = start /\ \A i \in 1 .. top : w[i] = Turn(w[i - 1], i)
  <2>1. w[0] = At(w, 0) /\ \A i \in 1 .. top : w[i] = At(w, i) /\ i # 0
    <3> HIDE DEF At, top
    <3>1. QED
      BY <1>0, <1>5
  <2>2. QED
    BY <2>1, Zenon
<1>7. QED
  BY <1>00, <1>01, <1>02, <1>6, Zenon

\* A product of a sum, and a summand more.
LEMMA Distributed ==
    ASSUME NEW a \in Nat, NEW b \in Nat, NEW c \in Nat, NEW f \in Nat, NEW n \in Nat
    PROVE  a * (b * f) + (c * f + n) = (a * b + c) * f + n
<1>1. PICK x \in Nat : x = a * b
  BY SMT
<1>2. (x + c) * f = x * f + c * f /\ x * f \in Nat /\ c * f \in Nat
  BY SMT
<1>3. a * (b * f) = x * f
  BY <1>1, SMT
<1>4. PICK p \in Nat : p = x * f
  BY <1>2
<1>5. PICK q \in Nat : q = c * f
  BY <1>2
<1>6. p + (q + n) = (p + q) + n
  OBVIOUS
<1>7. QED
  BY <1>1, <1>2, <1>3, <1>4, <1>5, <1>6, Zenon

\* The bits of a digit behind the carry.
LEMMA RegroupKeeps ==
    ASSUME NEW from \in Nat \ {0}, NEW to \in Nat \ {0}, NEW value, NEW bits \in Nat, NEW a, Kept(a, to, value, bits),
           NEW n \in 0 .. Two(from) - 1
    PROVE  /\ Kept(Regroup(a, n, from, to), to, value * Two(from) + n, bits + from)
           /\ a.ok /\ from + to <= 33 => Regroup(a, n, from, to).ok
<1> DEFINE l == Len(a.res)
           c == a.carry
           f == Two(from)
           x == c * f + n
           p == a.pos + from
           q == p \div to
           r == p % to
           g == [j \in 1 .. q |-> (x \div Two(p - j * to)) % Two(to)]
           z == Regroup(a, n, from, to)
           R == ValueOf(a.res, Two(to))
           s == Two(a.pos)
<1>1. /\ IsDigits(a.res, Two(to), l) /\ l \in Nat /\ a.pos \in 0 .. to - 1 /\ a.pos \in Nat
      /\ c \in 0 .. s - 1 /\ c \in Nat /\ l * to + a.pos = bits /\ value = R * s + c
  <2>1. /\ IsDigits(a.res, Two(to), l) /\ l \in Nat /\ a.pos \in 0 .. to - 1
        /\ c \in 0 .. s - 1 /\ l * to + a.pos = bits /\ value = R * s + c
    BY Zenon DEF Kept
  <2>2. a.pos \in Nat
    BY <2>1
  <2>3. s \in Nat
    BY <2>2, TwoIs
  <2>4. c \in Nat
    BY <2>1, <2>3
  <2>5. QED
    BY <2>1, <2>2, <2>4, Zenon
<1>2. f \in Nat \ {0} /\ s \in Nat \ {0} /\ Two(p) = s * f /\ n \in Nat
  <2>1. f \in Nat \ {0} /\ s \in Nat \ {0} /\ Two(p) = s * f
    BY <1>1, TwoIs, TwoSum
  <2>2. QED
    BY <2>1
<1>3. z = [ok |-> a.ok /\ n \in 0 .. f - 1 /\ p <= 32, carry |-> x % Two(r), pos |-> r, res |-> a.res \o g]
  BY Zenon DEF Regroup
<1>4. z.carry = x % Two(r) /\ z.pos = r /\ z.res = a.res \o g
  <2> HIDE DEF x, r, g, z
  <2>1. QED
    BY <1>3
<1>5. R \in Nat
  BY <1>1, TwoBase, DigitsWorth
<1>6. p \in Nat /\ q \in Nat /\ r \in 0 .. to - 1 /\ p = to * q + r
  <2>1. p \in Nat
    BY <1>1
  <2> HIDE DEF p
  <2>2. QED
    BY <2>1, Divides
<1>7. a.ok /\ from + to <= 33 => z.ok
  <2>1. SUFFICES ASSUME a.ok, from + to <= 33
                 PROVE  z.ok
    OBVIOUS
  <2>2. p <= 32
    BY <1>1, <2>1
  <2>3. n \in 0 .. f - 1
    OBVIOUS
  <2>4. z.ok = (a.ok /\ n \in 0 .. f - 1 /\ p <= 32)
    <3> HIDE DEF p, f, x, r, g, z
    <3>1. QED
      BY <1>3, Zenon
  <2>5. QED
    BY <2>1, <2>2, <2>3, <2>4, Zenon
<1> HIDE DEF f, s, R, q, r, l, c
<1>8. x \in Nat /\ x < Two(p)
  <2>1. c + 1 <= s
    BY <1>1, <1>2
  <2>2. (c + 1) * f <= s * f
    BY <1>1, <1>2, <2>1, SMT
  <2>3. (c + 1) * f = c * f + f /\ c * f \in Nat /\ s * f \in Nat
    BY <1>1, <1>2, SMT
  <2>4. n <= f - 1
    BY <1>2 DEF f
  <2> DEFINE cf == c * f
             sf == s * f
  <2>5. x = cf + n /\ (c + 1) * f = cf + f /\ cf \in Nat /\ sf \in Nat /\ cf + f <= sf
    BY <2>2, <2>3
  <2> HIDE DEF cf, sf, x
  <2>6. x \in Nat /\ x < sf
    BY <1>2, <2>4, <2>5
  <2>7. QED
    BY <1>2, <2>6, Zenon DEF sf
<1> HIDE DEF x, p
<1>9. q * to <= p /\ p - q * to = r /\ r \in Nat
  <2>1. q * to = to * q /\ to * q \in Nat
    BY <1>6, SMT
  <2>2. QED
    BY <1>6, <2>1
<1>10. /\ IsDigits(a.res \o g, Two(to), l + q)
       /\ ValueOf(a.res \o g, Two(to)) * Two(p - q * to) + (x % Two(p - q * to)) = R * Two(p) + x
  <2>1. IsDigits(a.res, Two(to), l)
    BY <1>1
  <2>2. QED
    BY <1>1, <1>6, <1>8, <1>9, <2>1, GroupsWorth DEF R
<1> HIDE DEF g
<1>11. IsDigits(z.res, Two(to), l + q) /\ ValueOf(z.res, Two(to)) * Two(z.pos) + z.carry = R * Two(p) + x
  BY <1>4, <1>9, <1>10, Zenon
<1>12. z.carry \in 0 .. Two(z.pos) - 1
  <2> DEFINE t == Two(r)
  <2>1. t \in Nat \ {0}
    BY <1>9, TwoIs
  <2> HIDE DEF t
  <2>2. x % t \in 0 .. t - 1
    BY <1>8, <2>1, Divides
  <2>3. QED
    BY <1>4, <2>2, Zenon DEF t
<1>13. R * Two(p) + x = value * f + n
  <2>1. R * (s * f) + (c * f + n) = (R * s + c) * f + n
    <3>1. R \in Nat /\ s \in Nat /\ c \in Nat /\ f \in Nat /\ n \in Nat
      BY <1>1, <1>2, <1>5, Zenon
    <3>2. QED
      BY <3>1, Distributed, SMT
  <2>2. x = c * f + n
    BY DEF x
  <2>3. QED
    BY <1>1, <1>2, <2>1, <2>2, Zenon
<1>14. Len(z.res) = l + q /\ l + q \in Nat
  <2>1. Len(z.res) = l + q
    BY <1>11, Zenon DEF IsDigits
  <2>2. l + q \in Nat
    BY <1>1, <1>6
  <2>3. QED
    BY <2>1, <2>2
<1>15. Len(z.res) * to + z.pos = bits + from
  <2>1. (l + q) * to = l * to + to * q /\ l * to \in Nat /\ to * q \in Nat
    BY <1>1, <1>6, SMT
  <2>2. l * to + a.pos = bits /\ p = a.pos + from /\ p = to * q + r
    BY <1>1, <1>6 DEF p
  <2> DEFINE u == l * to
             v == to * q
             y == (l + q) * to
  <2> HIDE DEF u, v, y
  <2>3. y = u + v /\ u \in Nat /\ v \in Nat /\ u + a.pos = bits /\ a.pos + from = v + r
    BY <2>1, <2>2 DEF u, v, y
  <2>4. y + r = bits + from
    BY <1>1, <1>9, <2>3
  <2>5. QED
    BY <1>4, <1>14, <2>4, Zenon DEF y
<1>16. Kept(z, to, value * f + n, bits + from)
  <2>1. IsDigits(z.res, Two(to), Len(z.res)) /\ Len(z.res) \in Nat
    BY <1>11, <1>14, Zenon
  <2>2. z.pos \in 0 .. to - 1
    BY <1>4, <1>6, Zenon
  <2>3. value * f + n = ValueOf(z.res, Two(to)) * Two(z.pos) + z.carry
    BY <1>11, <1>13, Zenon
  <2> HIDE DEF z
  <2>4. QED
    BY <1>12, <1>15, <2>1, <2>2, <2>3, Zenon DEF Kept
<1>17. QED
  BY <1>7, <1>16, Zenon DEF f, z

\* All digits regrouped are worth what they were.
LEMMA RegroupedIs ==
    ASSUME NEW from \in Nat \ {0}, NEW to \in Nat \ {0}, from + to <= 33, NEW n \in Nat, NEW d, IsDigits(d, Two(from), n)
    PROVE  /\ Kept(Regrouped(d, from, to)[Len(d)], to, ValueOf(d, Two(from)), n * from)
           /\ Regrouped(d, from, to)[Len(d)].ok
<1> DEFINE a == Regrouped(d, from, to)
           b == Two(from)
           v == Values(d, b)
<1>1. IsMessage(d) /\ Len(d) = n /\ \A i \in 1 .. n : d[i] \in 0 .. b - 1
  BY DEF IsDigits
<1>2. /\ a[0] = [ok |-> TRUE, carry |-> 0, pos |-> 0, res |-> <<>>]
      /\ \A i \in 1 .. n : a[i] = Regroup(a[i - 1], d[i], from, to)
  <2>1. /\ a[0] = [ok |-> TRUE, carry |-> 0, pos |-> 0, res |-> <<>>]
        /\ \A i \in 1 .. Len(d) : a[i] = Regroup(a[i - 1], d[i], from, to)
    BY <1>1, RegroupedRuns
  <2> HIDE DEF a
  <2>2. QED
    BY <1>1, <2>1
<1>3. Worth(v, d, b, n) /\ ValueOf(d, b) = v[n]
  BY TwoBase, DigitsWorth
<1> HIDE DEF a, v, b
<1> DEFINE S == {i \in Nat : i <= n => Kept(a[i], to, v[i], i * from) /\ a[i].ok}
<1>4. 0 \in S
  <2>1. a[0].ok /\ a[0].carry = 0 /\ a[0].pos = 0 /\ a[0].res = <<>>
    BY <1>2
  <2>2. IsDigits(<<>>, Two(to), 0) /\ Len(<<>>) = 0
    BY Empty DEF IsDigits
  <2>3. ValueOf(<<>>, Two(to)) = 0
    <3>1. \A i \in 1 .. 0 : <<>>[i] = 0
      OBVIOUS
    <3>2. QED
      BY <2>2, <3>1, TwoBase, DigitsWorth
  <2>4. Two(0) = 1
    BY TwoIs
  <2>5. v[0] = 0
    BY <1>3 DEF Worth
  <2>6. 0 * from = 0 /\ 0 * to = 0
    BY SMT
  <2>7. 0 \in 0 .. to - 1 /\ 0 \in 0 .. 1 - 1 /\ 0 + 0 = 0 /\ 0 * 1 + 0 = 0 /\ 0 \in Nat
    OBVIOUS
  <2>8. Kept(a[0], to, v[0], 0 * from)
    BY <2>1, <2>2, <2>3, <2>4, <2>5, <2>6, <2>7, Zenon DEF Kept
  <2>9. QED
    BY <2>1, <2>8
<1>5. ASSUME NEW i \in Nat, i \in S
      PROVE  i + 1 \in S
  <2>1. SUFFICES ASSUME i + 1 <= n
                 PROVE  Kept(a[i + 1], to, v[i + 1], (i + 1) * from) /\ a[i + 1].ok
    OBVIOUS
  <2>2. Kept(a[i], to, v[i], i * from) /\ a[i].ok /\ i + 1 \in 1 .. n /\ (i + 1) - 1 = i
    BY <1>5, <2>1
  <2>3. a[i + 1] = Regroup(a[i], d[i + 1], from, to) /\ v[i + 1] = v[i] * b + d[i + 1] /\ d[i + 1] \in 0 .. b - 1
    <3>1. a[i + 1] = Regroup(a[(i + 1) - 1], d[i + 1], from, to) /\ v[i + 1] = v[(i + 1) - 1] * b + d[i + 1]
      BY <1>2, <1>3, <2>2, Zenon DEF Worth
    <3>2. QED
      BY <1>1, <2>2, <3>1, Zenon
  <2>4. i * from \in Nat /\ (i + 1) * from = i * from + from
    BY SMT
  <2> DEFINE e == d[i + 1]
             m == i * from
             x == v[i]
             y == a[i]
  <2>5. e \in 0 .. Two(from) - 1 /\ m \in Nat /\ Kept(y, to, x, m) /\ y.ok
    BY <2>2, <2>3, <2>4 DEF b
  <2>6. a[i + 1] = Regroup(y, e, from, to) /\ v[i + 1] = x * Two(from) + e /\ (i + 1) * from = m + from
    BY <2>3, <2>4, Zenon DEF b
  <2> HIDE DEF e, m, x, y
  <2>7. Kept(Regroup(y, e, from, to), to, x * Two(from) + e, m + from) /\ Regroup(y, e, from, to).ok
    BY <2>5, RegroupKeeps
  <2>8. QED
    BY <2>6, <2>7, Zenon
<1>6. Kept(a[n], to, v[n], n * from) /\ a[n].ok
  <2>1. n \in S
    <3> HIDE DEF S
    <3>1. QED
      BY <1>4, <1>5, AllNumbers
  <2>2. QED
    BY <2>1
<1>7. QED
  BY <1>1, <1>3, <1>6, Zenon DEF a, b

\* A digit more.
LEMMA OneMoreWorth ==
    ASSUME NEW b, NEW d, NEW e, NEW t, NEW n \in Nat, Base(b), IsDigits(d, b, n), e \in Nat, e < b,
           IsMessage(t), Len(t) = n + 1, \A i \in 1 .. n : t[i] = d[i], t[n + 1] = e
    PROVE  IsDigits(t, b, n + 1) /\ ValueOf(t, b) = ValueOf(d, b) * b + e
<1>1. IsMessage(d) /\ Len(d) = n /\ \A i \in 1 .. n : d[i] \in 0 .. b - 1
  BY DEF IsDigits
<1>2. IsMessage(t) /\ Len(t) = n + 1 /\ (\A i \in 1 .. n : t[i] = d[i]) /\ t[n + 1] = e
  OBVIOUS
<1>3. IsDigits(t, b, n + 1)
  <2>1. ASSUME NEW i \in 1 .. n + 1
        PROVE  t[i] \in 0 .. b - 1
    <3>1. i \in 1 .. n \/ i = n + 1
      OBVIOUS
    <3>2. e \in 0 .. b - 1
      BY DEF Base
    <3>3. QED
      BY <1>1, <1>2, <3>1, <3>2, Zenon
  <2>2. QED
    BY <1>2, <2>1 DEF IsDigits
<1>4. PICK v : Worth(v, d, b, n) /\ ValueOf(d, b) = v[n]
  BY DigitsWorth
<1>5. n + 1 \in Nat /\ n + 1 \in 1 .. n + 1 /\ (n + 1) - 1 = n /\ n \in 0 .. n /\ \A i \in 1 .. n : i \in 1 .. n + 1
  OBVIOUS
<1>6. PICK w : Worth(w, t, b, n + 1) /\ ValueOf(t, b) = w[n + 1]
  BY <1>3, <1>5, DigitsWorth
<1>7. Worth(w, t, b, n)
  BY <1>5, <1>6, Zenon DEF Worth
<1>8. w[n] = v[n]
  <2>1. \A i \in 1 .. n : d[i] = t[i]
    BY <1>2, Zenon
  <2>2. Worth(v, d, b, n)
    BY <1>4
  <2>3. \A k \in 0 .. n : v[k] = w[k]
    BY <1>7, <2>1, <2>2, WorthSame
  <2>4. QED
    BY <1>5, <2>3, Zenon
<1>9. w[n + 1] = w[n] * b + e
  <2>1. w[n + 1] = w[(n + 1) - 1] * b + t[n + 1]
    BY <1>5, <1>6, Zenon DEF Worth
  <2>2. QED
    BY <1>2, <1>5, <2>1, Zenon
<1>10. QED
  BY <1>3, <1>4, <1>6, <1>8, <1>9, Zenon

\* The same of the sequence with a digit appended.
LEMMA AppendWorth ==
    ASSUME NEW b, NEW d, NEW e, NEW n \in Nat, Base(b), IsDigits(d, b, n), e \in Nat, e < b
    PROVE  IsDigits(Append(d, e), b, n + 1) /\ ValueOf(Append(d, e), b) = ValueOf(d, b) * b + e
<1>1. IsMessage(d) /\ Len(d) = n
  BY DEF IsDigits
<1> DEFINE t == Append(d, e)
<1>2. /\ IsMessage(t) /\ Len(t) = Len(d) + 1
      /\ \A i \in 1 .. Len(d) : t[i] = d[i]
      /\ t[Len(d) + 1] = e
  BY <1>1, Appended
<1> HIDE DEF t
<1>3. IsMessage(t) /\ Len(t) = n + 1 /\ (\A i \in 1 .. n : t[i] = d[i]) /\ t[n + 1] = e
  BY <1>1, <1>2, Zenon
<1>4. IsDigits(t, b, n + 1) /\ ValueOf(t, b) = ValueOf(d, b) * b + e
  BY <1>3, OneMoreWorth
<1>5. QED
  BY <1>4 DEF t

\* Words of eleven bits are bytes of eight, and as many bits more as there are checksum bits.
LEMMA BitCounts ==
    ASSUME NEW c \in 4 .. 8, NEW l \in Nat, NEW p \in Nat
    PROVE  /\ p <= 7 /\ l * 8 + p = (3 * c) * 11 =>
                  IF c = 8 THEN l = 4 * c + 1 /\ p = 0 ELSE l = 4 * c /\ p = c
           /\ p <= 10 /\ l * 11 + p = (4 * c + 1) * 8 => l = 3 * c /\ p = 8 - c
<1>1. c = 4 \/ c = 5 \/ c = 6 \/ c = 7 \/ c = 8
  OBVIOUS
<1>2. CASE c = 4
  BY <1>2
<1>3. CASE c = 5
  BY <1>3
<1>4. CASE c = 6
  BY <1>4
<1>5. CASE c = 7
  BY <1>5
<1>6. CASE c = 8
  BY <1>6
<1>7. QED
  BY <1>1, <1>2, <1>3, <1>4, <1>5, <1>6

\* What is left over stays below a group when it is shifted to its top.
LEMMA ShiftedBelow ==
    ASSUME NEW s \in Nat, NEW t \in Nat \ {0}, NEW x \in 0 .. s - 1
    PROVE  x * t \in 0 .. s * t - 1
<1>1. x \in Nat /\ x + 1 \in Nat /\ s - (x + 1) \in Nat
  OBVIOUS
<1>2. x * t \in Nat /\ (s - (x + 1)) * t \in Nat /\ s * t \in Nat
  BY <1>1, SMT
<1>3. s * t = x * t + t + (s - (x + 1)) * t
  BY <1>1, SMT
<1> DEFINE y == x * t
           z == (s - (x + 1)) * t
           u == s * t
<1>4. y \in Nat /\ z \in Nat /\ u \in Nat /\ u = y + t + z
  BY <1>2, <1>3
<1> HIDE DEF y, z, u
<1>5. y \in 0 .. u - 1
  BY <1>4
<1>6. QED
  BY <1>5 DEF y, u

\* What is left over, padded to a byte.
Rest(x, p) == (x * Two(8 - p)) % 256
Padded(r, x, p) == IF p > 0 THEN Append(r, Rest(x, p)) ELSE r

\* The digits of the groups and of what is left over are worth what was regrouped.
LEMMA LeftOver ==
    ASSUME NEW r, NEW c \in Nat, NEW l \in Nat, NEW p \in Nat, NEW x \in Nat, 4 <= c, c <= 8,
           IsDigits(r, 256, l), p <= 7, x < Two(p), l * 8 + p = (3 * c) * 11
    PROVE  /\ IsDigits(Padded(r, x, p), 256, 4 * c + 1)
           /\ ValueOf(Padded(r, x, p), 256) = (ValueOf(r, 256) * Two(p) + x) * Two(8 - c)
<1>1. Two(8) = 256 /\ Two(0) = 1 /\ Base(256)
  BY TwoTable DEF Base
<1>2. IF c = 8 THEN l = 4 * c + 1 /\ p = 0 ELSE l = 4 * c /\ p = c
  <2>1. c \in 4 .. 8
    OBVIOUS
  <2>2. QED
    BY <2>1, BitCounts
<1>3. PICK R \in Nat : R = ValueOf(r, 256)
  BY <1>1, DigitsWorth
<1>4. CASE c = 8
  <2>1. p = 0 /\ 8 - c = 0 /\ IsDigits(r, 256, 4 * c + 1)
    BY <1>2, <1>4
  <2>2. Two(p) = 1 /\ Two(8 - c) = 1
    BY <1>1, <2>1
  <2>3. x = 0
    BY <2>2
  <2>4. (R * 1 + 0) * 1 = R
    OBVIOUS
  <2>5. ValueOf(r, 256) = (ValueOf(r, 256) * Two(p) + x) * Two(8 - c)
    BY <1>3, <2>2, <2>3, <2>4
  <2>6. Padded(r, x, p) = r
    BY <2>1 DEF Padded
  <2>7. QED
    BY <2>1, <2>5, <2>6
<1>5. CASE c # 8
  <2> DEFINE y == Rest(x, p)
  <2>1. l = 4 * c /\ p = c /\ p > 0 /\ c \in Nat /\ 8 - c \in Nat /\ c + (8 - c) = 8
    BY <1>2, <1>5
  <2>2. PICK s \in Nat \ {0} : s = Two(c)
    BY <2>1, TwoIs
  <2>3. PICK t \in Nat \ {0} : t = Two(8 - c)
    BY <2>1, TwoIs
  <2>4. s * t = 256
    <3>1. Two(c + (8 - c)) = Two(c) * Two(8 - c)
      BY <2>1, TwoSum
    <3>2. QED
      BY <1>1, <2>1, <2>2, <2>3, <3>1
  <2>5. x \in 0 .. s - 1 /\ y = (x * t) % 256
    BY <2>1, <2>2, <2>3 DEF Rest
  <2>20. Padded(r, x, p) = Append(r, y)
    BY <2>1 DEF Padded
  <2> HIDE DEF y
  <2>6. x * t \in Nat /\ x * t < 256
    <3>1. x * t \in 0 .. s * t - 1
      BY <2>5, ShiftedBelow
    <3>2. QED
      BY <2>4, <3>1
  <2>7. y = x * t /\ y < 256
    <3> DEFINE z == x * t
    <3>1. z \in Nat /\ z < 256 /\ y = z % 256
      BY <2>5, <2>6
    <3> HIDE DEF z
    <3>2. y = z
      BY <3>1
    <3>3. QED
      BY <3>1, <3>2 DEF z
  <2>21. y \in Nat
    BY <2>6, <2>7
  <2>8. IsDigits(Append(r, y), 256, l + 1) /\ ValueOf(Append(r, y), 256) = ValueOf(r, 256) * 256 + y
    BY <1>1, <2>7, <2>21, AppendWorth
  <2>9. (R * s + x) * t = R * (s * t) + x * t
    BY SMT
  <2>10. ValueOf(Append(r, y), 256) = (ValueOf(r, 256) * Two(p) + x) * Two(8 - c)
    BY <1>3, <2>1, <2>2, <2>3, <2>4, <2>7, <2>8, <2>9
  <2>11. QED
    BY <2>1, <2>8, <2>10, <2>20
<1>6. QED
  BY <1>4, <1>5

\* What the two codecs do with bits, from words to bytes and from bytes to words.
ToBytes(d) == convertRadix2(d, WordBits, 8, TRUE)
ToWords(b) == convertRadix2(b, 8, WordBits, FALSE)

\* Eleven bits to eight: a last byte that is padded with zeros.
LEMMA WordsToBytes ==
    ASSUME NEW d, NEW c \in 4 .. 8, IsDigits(d, 2048, 3 * c)
    PROVE  \E b : /\ ToBytes(d) = Ok(b) /\ IsDigits(b, 256, 4 * c + 1)
                  /\ ValueOf(b, 256) = ValueOf(d, 2048) * Two(8 - c)
<1>1. Two(8) = 256 /\ Two(11) = 2048
  BY TwoTable
<1>2. PICK a : a = Regrouped(d, 11, 8)[Len(d)]
  OBVIOUS
<1>3. Kept(a, 8, ValueOf(d, 2048), (3 * c) * 11) /\ a.ok
  <2>1. 11 \in Nat \ {0} /\ 8 \in Nat \ {0} /\ 11 + 8 <= 33 /\ 3 * c \in Nat /\ IsDigits(d, Two(11), 3 * c)
    BY <1>1
  <2>2. /\ Kept(Regrouped(d, 11, 8)[Len(d)], 8, ValueOf(d, Two(11)), (3 * c) * 11)
        /\ Regrouped(d, 11, 8)[Len(d)].ok
    BY <2>1, RegroupedIs
  <2>3. QED
    BY <1>1, <1>2, <2>2
<1> DEFINE r == a.res
           l == Len(a.res)
           p == a.pos
           x == a.carry
           V == ValueOf(d, 2048)
<1>4. ToBytes(d) = Ok(Padded(r, x, p))
  BY <1>1, <1>2, <1>3 DEF ToBytes, WordBits, convertRadix2, Padded, Rest
<1>5. /\ IsDigits(r, 256, l) /\ l \in Nat /\ p \in 0 .. 7 /\ x \in 0 .. Two(p) - 1
      /\ l * 8 + p = (3 * c) * 11 /\ V = ValueOf(r, 256) * Two(p) + x
  BY <1>1, <1>3 DEF Kept
<1> HIDE DEF r, l, p, x, V
<1>6. p \in Nat /\ p <= 7 /\ c \in Nat /\ 4 <= c /\ c <= 8
  BY <1>5
<1>7. Two(p) \in Nat
  BY <1>6, TwoIs
<1>8. x \in Nat /\ x < Two(p)
  BY <1>5, <1>7
<1>9. /\ IsDigits(Padded(r, x, p), 256, 4 * c + 1)
      /\ ValueOf(Padded(r, x, p), 256) = (ValueOf(r, 256) * Two(p) + x) * Two(8 - c)
  BY <1>5, <1>6, <1>8, LeftOver
<1>10. ValueOf(Padded(r, x, p), 256) = V * Two(8 - c)
  BY <1>5, <1>9
<1>11. /\ ToBytes(d) = Ok(Padded(r, x, p)) /\ IsDigits(Padded(r, x, p), 256, 4 * c + 1)
       /\ ValueOf(Padded(r, x, p), 256) = ValueOf(d, 2048) * Two(8 - c)
  BY <1>4, <1>9, <1>10 DEF V
<1>12. QED
  BY <1>11

\* Eight bits to eleven: nothing is left over when the bits after the last word are zeros.
LEMMA BytesToWords ==
    ASSUME NEW c \in 4 .. 8, NEW b, IsDigits(b, 256, 4 * c + 1), NEW Y \in Nat, ValueOf(b, 256) = Y * Two(8 - c)
    PROVE  \E d : ToWords(b) = Ok(d) /\ IsDigits(d, 2048, 3 * c) /\ ValueOf(d, 2048) = Y
<1>1. Two(8) = 256 /\ Two(11) = 2048 /\ Base(2048)
  BY TwoTable DEF Base
<1>2. PICK a : a = Regrouped(b, 8, 11)[Len(b)]
  OBVIOUS
<1>3. Kept(a, 11, ValueOf(b, 256), (4 * c + 1) * 8) /\ a.ok
  <2>1. 11 \in Nat \ {0} /\ 8 \in Nat \ {0} /\ 8 + 11 <= 33 /\ 4 * c + 1 \in Nat /\ IsDigits(b, Two(8), 4 * c + 1)
    BY <1>1
  <2>2. /\ Kept(Regrouped(b, 8, 11)[Len(b)], 11, ValueOf(b, Two(8)), (4 * c + 1) * 8)
        /\ Regrouped(b, 8, 11)[Len(b)].ok
    BY <2>1, RegroupedIs
  <2>3. QED
    BY <1>1, <1>2, <2>2
<1> DEFINE r == a.res
           l == Len(a.res)
           p == a.pos
           x == a.carry
           last == (a.carry * Two(11 - a.pos)) % 2048
<1>4. last = (x * Two(11 - p)) % 2048
  OBVIOUS
<1>6. ToWords(b) = IF p >= 8 \/ last > 0 THEN Error ELSE Ok(r)
  BY <1>1, <1>2, <1>3 DEF ToWords, WordBits, convertRadix2
<1>7. /\ IsDigits(r, 2048, l) /\ l \in Nat /\ p \in 0 .. 10 /\ x \in 0 .. Two(p) - 1
      /\ l * 11 + p = (4 * c + 1) * 8 /\ Y * Two(8 - c) = ValueOf(r, 2048) * Two(p) + x
  BY <1>1, <1>3 DEF Kept
<1> HIDE DEF r, l, p, x, last
<1>8. l = 3 * c /\ p = 8 - c
  <2>1. p \in Nat /\ p <= 10
    BY <1>7
  <2>2. QED
    BY <1>7, <2>1, BitCounts
<1>9. 8 - c \in Nat /\ 11 - p \in Nat /\ ~(p >= 8)
  BY <1>8
<1>10. PICK t \in Nat \ {0} : t = Two(8 - c)
  BY <1>9, TwoIs
<1>11. PICK u \in Nat : u = Two(11 - p)
  BY <1>9, TwoIs
<1>12. PICK R \in Nat : R = ValueOf(r, 2048)
  BY <1>1, <1>7, DigitsWorth
<1>13. x \in 0 .. t - 1 /\ Y * t = R * t + x
  BY <1>7, <1>8, <1>10, <1>12
<1>14. R = Y /\ x = 0
  <2>1. R * t = t * R /\ Y * t = t * Y /\ t * Y \in Nat /\ 0 \in 0 .. t - 1
    BY SMT
  <2>2. t * R + x = t * Y + 0
    BY <1>13, <2>1
  <2>3. (t * R + x) \div t = R /\ (t * R + x) % t = x
    BY <1>13, Divided
  <2>4. (t * Y + 0) \div t = Y /\ (t * Y + 0) % t = 0
    BY <2>1, Divided
  <2>5. QED
    BY <2>2, <2>3, <2>4, Zenon
<1>15. last = 0
  <2>1. last = (0 * u) % 2048
    BY <1>4, <1>11, <1>14
  <2>2. 0 * u = 0
    BY SMT
  <2>3. QED
    BY <2>1, <2>2
<1>16. ToWords(b) = Ok(r)
  BY <1>6, <1>9, <1>15
<1>17. IsDigits(r, 2048, 3 * c) /\ ValueOf(r, 2048) = Y
  BY <1>7, <1>8, <1>12, <1>14
<1>18. QED
  <2>1. \E d : ToWords(b) = Ok(d) /\ IsDigits(d, 2048, 3 * c) /\ ValueOf(d, 2048) = Y
    BY <1>16, <1>17
  <2>2. QED
    BY <2>1, Zenon

-----------------------------------------------------------------------------
(* The bits of a mnemonic *)

\* The bits of a byte, the first ones taken into a number; what the number is then.
TakenIn(w, a, x, m) == \A k \in 1 .. m : w[a + k] = w[a + (k - 1)] * 2 + ((x \div Two(8 - k)) % 2)
Shifted(w, a, x, m) == \A k \in 0 .. m : w[a + k] = w[a] * Two(k) + (x \div Two(8 - k))

\* The first bits of a byte are worth what is left of it when the others are shifted out.
LEMMA ByteRun ==
    ASSUME NEW w, NEW a, NEW x, NEW m, a \in Nat, x \in Nat, m \in Nat, m <= 8, w[a] \in Nat, x < Two(8),
           TakenIn(w, a, x, m)
    PROVE  Shifted(w, a, x, m)
<1> DEFINE S == {k \in Nat : k <= m => w[a + k] = w[a] * Two(k) + (x \div Two(8 - k))}
<1>1. 0 \in S
  <2>1. PICK y \in Nat \ {0} : y = Two(8)
    BY TwoIs
  <2>2. x \div y = 0
    BY <2>1
  <2>3. a + 0 = a /\ 8 - 0 = 8 /\ w[a] * 1 + 0 = w[a]
    OBVIOUS
  <2>4. w[a + 0] = w[a] * Two(0) + (x \div Two(8 - 0))
    BY <2>1, <2>2, <2>3, TwoIs
  <2>5. QED
    BY <2>4
<1>2. ASSUME NEW k \in Nat, k \in S
      PROVE  k + 1 \in S
  <2>1. SUFFICES ASSUME k + 1 <= m
                 PROVE  w[a + (k + 1)] = w[a] * Two(k + 1) + (x \div Two(8 - (k + 1)))
    OBVIOUS
  <2>2. k + 1 \in 1 .. m /\ (k + 1) - 1 = k /\ k <= m /\ 8 - k \in Nat /\ 8 - (k + 1) \in Nat /\ (8 - (k + 1)) + 1 = 8 - k
    BY <2>1
  <2> DEFINE y == x \div Two(8 - k)
             u == x \div Two(8 - (k + 1))
             z == u % 2
             t == Two(k)
  <2>3. w[a + k] = w[a] * t + y
    BY <1>2, <2>2
  <2>4. w[a + (k + 1)] = w[a + k] * 2 + z
    <3>1. w[a + (k + 1)] = w[a + ((k + 1) - 1)] * 2 + ((x \div Two(8 - (k + 1))) % 2)
      BY <2>2 DEF TakenIn
    <3>2. QED
      BY <2>2, <3>1
  <2>5. u = y * 2 + z
    <3>1. x \div Two(8 - (k + 1)) =
            (x \div Two((8 - (k + 1)) + 1)) * Two(1) + ((x \div Two(8 - (k + 1))) % Two(1))
      BY <2>2, BitsDown
    <3>2. Two(1) = 2
      BY TwoTable
    <3>3. QED
      BY <2>2, <3>1, <3>2
  <2>6. y \in Nat /\ z \in Nat /\ t \in Nat
    <3>1. Two(8 - k) \in Nat \ {0} /\ Two(8 - (k + 1)) \in Nat \ {0} /\ t \in Nat
      BY <2>2, TwoIs
    <3>2. y \in Nat /\ u \in Nat
      BY <3>1, Divides
    <3> HIDE DEF u
    <3>3. z \in Nat
      BY <3>2
    <3>4. QED
      BY <3>1, <3>2, <3>3
  <2>7. Two(k + 1) = 2 * t
    BY TwoIs
  <2> HIDE DEF y, z, t, u
  <2>8. (w[a] * t + y) * 2 + z = w[a] * (2 * t) + (y * 2 + z)
    BY <2>6, SMT
  <2>9. w[a + (k + 1)] = w[a] * Two(k + 1) + u
    BY <2>3, <2>4, <2>5, <2>7, <2>8
  <2>10. QED
    BY <2>9 DEF u
<1>3. \A k \in Nat : k \in S
  <2> HIDE DEF S
  <2>1. QED
    BY <1>1, <1>2, AllNumbers
<1>4. QED
  BY <1>3 DEF Shifted

\* So many digits of a sequence, behind others: a number, and what it makes of theirs.
Within(a, m, l) == a \in Nat /\ m \in Nat /\ l \in Nat /\ a + m <= l
PartIs(d, w, a, m) ==
    LET value == ValueOf(SubSeq(d, a + 1, a + m), 2)
    IN value \in Nat /\ value < Two(m) /\ w[a + m] = w[a] * Two(m) + value

\* The part of a sequence of bits is such a number.
LEMMA PartWorth ==
    ASSUME NEW d, NEW w, NEW a, NEW m, NEW l, Within(a, m, l), Worth(w, d, 2, l), IsDigits(d, 2, l), w[a] \in Nat
    PROVE  PartIs(d, w, a, m)
<1>0. a \in Nat /\ m \in Nat /\ l \in Nat /\ a + m <= l
  BY DEF Within
<1>1. IsMessage(d) /\ Len(d) = l /\ \A i \in 1 .. l : d[i] \in 0 .. 1
  BY DEF IsDigits
<1>2. PICK s : s = SubSeq(d, a + 1, a + m)
  OBVIOUS
<1>3. IsMessage(s) /\ Len(s) = m /\ \A i \in 1 .. m : s[i] = d[a + i]
  <2>1. a + 1 \in Nat \ {0} /\ a + m \in Nat /\ (a + m) - (a + 1) + 1 = m
    BY <1>0
  <2>2. /\ IsMessage(SubSeq(d, a + 1, a + m))
        /\ Len(SubSeq(d, a + 1, a + m)) = IF a + 1 <= a + m THEN (a + m) - (a + 1) + 1 ELSE 0
        /\ \A i \in 1 .. (a + m) - (a + 1) + 1 : SubSeq(d, a + 1, a + m)[i] = d[(a + 1) + i - 1]
    BY <1>0, <1>1, <2>1, PartOf
  <2>3. IsMessage(s) /\ Len(s) = IF a + 1 <= a + m THEN m ELSE 0
    BY <1>2, <2>1, <2>2
  <2>4. Len(s) = m
    BY <1>0, <2>3
  <2>5. \A i \in 1 .. m : (a + 1) + i - 1 = a + i
    BY <1>0
  <2>6. \A i \in 1 .. m : s[i] = d[a + i]
    BY <1>2, <2>1, <2>2, <2>5, Zenon
  <2>7. QED
    BY <2>3, <2>4, <2>6
<1>4. \A i \in 1 .. m : s[i] \in 0 .. 1 /\ a + i \in 1 .. l /\ (a + i) - 1 = a + (i - 1)
  <2>1. \A i \in 1 .. m : a + i \in 1 .. l /\ (a + i) - 1 = a + (i - 1)
    BY <1>0
  <2>2. QED
    BY <1>1, <1>3, <2>1, Zenon
<1>5. IsDigits(s, 2, m) /\ Base(2)
  BY <1>3, <1>4 DEF IsDigits, Base
<1>6. PICK v : Worth(v, s, 2, m) /\ ValueOf(s, 2) = v[m]
  BY <1>0, <1>5, DigitsWorth
<1> DEFINE S == {k \in Nat : k <= m => v[k] \in Nat /\ v[k] < Two(k) /\ w[a + k] = w[a] * Two(k) + v[k]}
<1>7. 0 \in S
  <2>1. v[0] = 0 /\ Two(0) = 1 /\ a + 0 = a /\ w[a] * 1 + 0 = w[a]
    BY <1>0, <1>6, TwoIs DEF Worth
  <2>2. QED
    BY <2>1
<1>8. ASSUME NEW k \in Nat, k \in S
      PROVE  k + 1 \in S
  <2>1. SUFFICES ASSUME k + 1 <= m
                 PROVE  /\ v[k + 1] \in Nat /\ v[k + 1] < Two(k + 1)
                        /\ w[a + (k + 1)] = w[a] * Two(k + 1) + v[k + 1]
    OBVIOUS
  <2>2. k + 1 \in 1 .. m /\ (k + 1) - 1 = k /\ k <= m
    BY <1>0, <2>1
  <2>3. PICK e \in 0 .. 1 : e = s[k + 1]
    BY <1>4, <2>2
  <2>4. v[k + 1] = v[k] * 2 + e
    <3>1. v[k + 1] = v[(k + 1) - 1] * 2 + s[k + 1]
      BY <1>6, <2>2 DEF Worth
    <3>2. QED
      BY <2>2, <2>3, <3>1
  <2>5. w[a + (k + 1)] = w[a + k] * 2 + e
    <3>1. w[a + (k + 1)] = w[(a + (k + 1)) - 1] * 2 + d[a + (k + 1)]
      BY <1>4, <2>2 DEF Worth
    <3>2. (a + (k + 1)) - 1 = a + k /\ d[a + (k + 1)] = e
      BY <1>0, <1>3, <2>2, <2>3
    <3>3. QED
      BY <3>1, <3>2
  <2>6. PICK t \in Nat : t = Two(k) /\ Two(k + 1) = 2 * t
    BY TwoIs
  <2>7. v[k] \in Nat /\ v[k] < t /\ w[a + k] = w[a] * t + v[k]
    BY <1>8, <2>2, <2>6
  <2>8. PICK y \in Nat, z \in Nat : y = v[k] /\ z = w[a]
    BY <2>7
  <2>9. (z * t + y) * 2 + e = z * (2 * t) + (y * 2 + e)
    BY SMT
  <2>10. y < t => y * 2 + e < 2 * t
    OBVIOUS
  <2>11. v[k + 1] = y * 2 + e /\ w[a + (k + 1)] = z * (2 * t) + (y * 2 + e) /\ y < t
    BY <2>4, <2>5, <2>7, <2>8, <2>9
  <2>12. QED
    BY <2>6, <2>8, <2>10, <2>11
<1>9. \A k \in Nat : k \in S
  <2> HIDE DEF S
  <2>1. QED
    BY <1>7, <1>8, AllNumbers
<1>10. v[m] \in Nat /\ v[m] < Two(m) /\ w[a + m] = w[a] * Two(m) + v[m]
  BY <1>0, <1>9
<1>11. QED
  BY <1>2, <1>6, <1>10 DEF PartIs

\* Digits are numbers below the radix.
LEMMA DigitsAre ==
    ASSUME NEW d, NEW b, NEW n, Base(b), IsDigits(d, b, n)
    PROVE  IsMessage(d) /\ Len(d) = n /\ \A i \in 1 .. n : d[i] \in Nat /\ d[i] < b
<1>1. IsMessage(d) /\ Len(d) = n /\ \A i \in 1 .. n : d[i] \in 0 .. b - 1
  BY DEF IsDigits
<1>2. \A x \in 0 .. b - 1 : x \in Nat /\ x < b
  BY DEF Base
<1>3. QED
  BY <1>1, <1>2, Zenon

\* A bit of a byte.
LEMMA BitIs ==
    ASSUME NEW e, NEW n \in Nat, IsDigits(e, 256, n)
    PROVE  /\ IsDigits(BitsOf(e), 2, 8 * n)
           /\ \A j \in 0 .. n - 1 : \A k \in 1 .. 8 : BitsOf(e)[8 * j + k] = (e[j + 1] \div Two(8 - k)) % 2
<1>1. IsMessage(e) /\ Len(e) = n /\ \A i \in 1 .. n : e[i] \in Nat /\ e[i] < 256
  <2>1. Base(256)
    BY DEF Base
  <2>2. QED
    BY <2>1, DigitsAre
<1> DEFINE At(i) == (e[((i - 1) \div 8) + 1] \div Two(7 - ((i - 1) % 8))) % 2
<1>2. PICK b : b = BitsOf(e)
  OBVIOUS
<1>3. b = [i \in 1 .. 8 * n |-> At(i)]
  BY <1>1, <1>2 DEF BitsOf
<1>4. ASSUME NEW j \in 0 .. n - 1, NEW k \in 1 .. 8
      PROVE  8 * j + k \in 1 .. 8 * n /\ At(8 * j + k) = (e[j + 1] \div Two(8 - k)) % 2
  <2>1. ((8 * j + k) - 1) \div 8 = j /\ ((8 * j + k) - 1) % 8 = k - 1 /\ 7 - (k - 1) = 8 - k /\ 8 * j + k \in 1 .. 8 * n
    OBVIOUS
  <2>2. QED
    BY <2>1
<1>5. ASSUME NEW i \in 1 .. 8 * n
      PROVE  At(i) \in 0 .. 1
  <2> DEFINE j == (i - 1) \div 8
             k == (i - 1) % 8
  <2>1. j + 1 \in 1 .. n /\ k \in 0 .. 7
    OBVIOUS
  <2>2. At(i) = (e[j + 1] \div Two(7 - k)) % 2
    OBVIOUS
  <2> HIDE DEF j, k, At
  <2>3. 7 - k \in Nat /\ e[j + 1] \in Nat
    BY <1>1, <2>1
  <2>4. PICK t \in Nat \ {0} : t = Two(7 - k)
    BY <2>3, TwoIs
  <2>5. e[j + 1] \div t \in Nat
    BY <2>3, Divides
  <2> DEFINE q == e[j + 1] \div t
  <2>6. q \in Nat /\ At(i) = q % 2
    BY <2>2, <2>4, <2>5
  <2> HIDE DEF q
  <2>7. QED
    BY <2>6
<1> HIDE DEF At
<1>6. 8 * n \in Nat /\ b = [i \in 1 .. 8 * n |-> b[i]] /\ \A i \in 1 .. 8 * n : b[i] \in 0 .. 1
  BY <1>3, <1>5
<1>7. IsMessage(b) /\ Len(b) = 8 * n
  BY <1>6, MessageBy
<1>8. IsDigits(b, 2, 8 * n)
  BY <1>6, <1>7 DEF IsDigits
<1>9. \A j \in 0 .. n - 1 : \A k \in 1 .. 8 : b[8 * j + k] = (e[j + 1] \div Two(8 - k)) % 2
  BY <1>3, <1>4
<1>10. QED
  BY <1>2, <1>8, <1>9

\* A byte is worth its eight bits.
LEMMA ByteStep ==
    ASSUME NEW w, NEW a, NEW x, a \in Nat, x \in Nat, w[a] \in Nat, x < Two(8),
           TakenIn(w, a, x, 8)
    PROVE  w[a + 8] = w[a] * Two(8) + x
<1>1. 8 \in Nat /\ 8 <= 8 /\ 8 \in 0 .. 8
  OBVIOUS
<1>2. Shifted(w, a, x, 8)
  BY <1>1, ByteRun, Zenon
<1>3. w[a + 8] = w[a] * Two(8) + (x \div Two(8 - 8))
  BY <1>1, <1>2, Zenon DEF Shifted
<1>4. Two(8 - 8) = 1 /\ x \div 1 = x
  BY TwoTable
<1>5. QED
  BY <1>3, <1>4

\* So many bytes taken in, bit by bit.
BytesIn(w, e, n) == \A j \in 0 .. n - 1 : TakenIn(w, 8 * j, e[j + 1], 8)

\* The bits of so many bytes are worth what the bytes are.
LEMMA BitsWorth ==
    ASSUME NEW e, NEW v, NEW w, NEW n \in Nat, IsDigits(e, 256, n), Worth(v, e, 256, n), w[0] = 0, BytesIn(w, e, n)
    PROVE  w[8 * n] = v[n] /\ v[n] \in Nat
<1>1. IsMessage(e) /\ Len(e) = n /\ (\A i \in 1 .. n : e[i] \in Nat /\ e[i] < 256) /\ Base(256)
  <2>1. Base(256)
    BY DEF Base
  <2>2. QED
    BY <2>1, DigitsAre
<1>2. \A j \in 0 .. n : v[j] \in Nat
  <2>1. \A i \in 1 .. n : e[i] \in 0 .. 256 - 1
    BY DEF IsDigits
  <2>2. QED
    BY <1>1, <2>1, WorthNumbers
<1> DEFINE S == {j \in Nat : j <= n => w[8 * j] = v[j]}
<1>3. 0 \in S
  BY DEF Worth
<1>4. ASSUME NEW j \in Nat, j \in S
      PROVE  j + 1 \in S
  <2>1. SUFFICES ASSUME j + 1 <= n
                 PROVE  w[8 * (j + 1)] = v[j + 1]
    OBVIOUS
  <2>2. j \in 0 .. n - 1 /\ j \in 0 .. n /\ j + 1 \in 1 .. n /\ (j + 1) - 1 = j /\ 8 * j \in Nat /\ 8 * (j + 1) = 8 * j + 8 /\ j <= n
    BY <2>1
  <2>3. w[8 * j] = v[j] /\ w[8 * j] \in Nat
    BY <1>2, <1>4, <2>2
  <2>4. PICK x \in Nat : x = e[j + 1] /\ x < 256
    BY <1>1, <2>2
  <2>5. PICK a \in Nat : a = 8 * j
    BY <2>2
  <2>6. TakenIn(w, a, x, 8)
    BY <2>2, <2>4, <2>5 DEF BytesIn
  <2>7. x < Two(8) /\ 8 \in Nat /\ 8 <= 8 /\ w[a] \in Nat
    BY <2>3, <2>4, <2>5, TwoTable
  <2>8. w[a + 8] = w[a] * Two(8) + x
    BY <2>6, <2>7, ByteStep
  <2>11. w[a + 8] = w[a] * 256 + x
    BY <2>8, TwoTable
  <2>12. v[j + 1] = v[(j + 1) - 1] * 256 + e[j + 1]
    BY <2>2 DEF Worth
  <2>13. QED
    BY <2>2, <2>3, <2>4, <2>5, <2>11, <2>12
<1>5. \A j \in Nat : j \in S
  <2> HIDE DEF S
  <2>1. QED
    BY <1>3, <1>4, AllNumbers
<1>6. n \in S /\ n \in 0 .. n
  BY <1>5
<1>7. QED
  BY <1>2, <1>6

\* The bits of entropy and checksum are a number of both.
LEMMA AllBitsWorth ==
    ASSUME NEW e, NEW c \in Nat, NEW m \in Nat, 4 <= c, c <= 8, 1 <= m, IsDigits(e, 256, 4 * c), IsDigits(Hash(e), 256, m)
    PROVE  /\ IsDigits(AllBits(e), 2, 33 * c)
           /\ ValueOf(AllBits(e), 2) = ValueOf(e, 256) * Two(c) + (Hash(e)[1] \div Two(8 - c))
<1> DEFINE n == 4 * c
           l == 32 * c
<1>1. n \in Nat /\ l \in Nat /\ l = 8 * n /\ l + c = 33 * c /\ 33 * c \in Nat
  OBVIOUS
<1>2. PICK h : h = Hash(e)
  OBVIOUS
<1>3. IsDigits(e, 256, n) /\ IsDigits(h, 256, m) /\ Len(e) = n
  <2>1. IsDigits(e, 256, n) /\ IsDigits(h, 256, m)
    BY <1>2
  <2>2. QED
    BY <2>1 DEF IsDigits
<1>4. PICK f : f = BitsOf(h)
  OBVIOUS
<1>5. PICK b : b = BitsOf(e)
  OBVIOUS
<1>6. AllBits(e) = b \o SubSeq(f, 1, c)
  <2>1. Len(e) \div 4 = c
    BY <1>3
  <2> HIDE DEF n
  <2>2. QED
    BY <1>2, <1>4, <1>5, <2>1 DEF AllBits
<1> HIDE DEF n, l
<1>7. IsDigits(b, 2, l) /\ \A j \in 0 .. n - 1 : \A k \in 1 .. 8 : b[8 * j + k] = (e[j + 1] \div Two(8 - k)) % 2
  BY <1>1, <1>3, <1>5, BitIs
<1>8. IsDigits(f, 2, 8 * m) /\ \A j \in 0 .. m - 1 : \A k \in 1 .. 8 : f[8 * j + k] = (h[j + 1] \div Two(8 - k)) % 2
  BY <1>3, <1>4, BitIs
<1>9. \A k \in 1 .. c : f[k] = (h[1] \div Two(8 - k)) % 2
  <2>1. TAKE k \in 1 .. c
  <2>2. 0 \in 0 .. m - 1 /\ k \in 1 .. 8 /\ 8 * 0 + k = k /\ 0 + 1 = 1
    OBVIOUS
  <2>3. f[8 * 0 + k] = (h[0 + 1] \div Two(8 - k)) % 2
    BY <1>8, <2>2
  <2>4. QED
    BY <2>2, <2>3
<1>10. Base(2) /\ Base(256)
  BY DEF Base
<1>11. IsMessage(b) /\ Len(b) = l /\ \A i \in 1 .. l : b[i] \in Nat /\ b[i] < 2
  BY <1>7, <1>10, DigitsAre
<1>12. IsMessage(f) /\ Len(f) = 8 * m /\ \A i \in 1 .. 8 * m : f[i] \in Nat /\ f[i] < 2
  BY <1>8, <1>10, DigitsAre
<1>13. PICK s : s = SubSeq(f, 1, c)
  OBVIOUS
<1>14. IsMessage(s) /\ Len(s) = c /\ \A i \in 1 .. c : s[i] = f[i]
  <2>1. 1 \in Nat \ {0} /\ c <= Len(f) /\ (IF 1 <= c THEN c - 1 + 1 ELSE 0) = c
    BY <1>12
  <2>2. /\ IsMessage(SubSeq(f, 1, c)) /\ Len(SubSeq(f, 1, c)) = IF 1 <= c THEN c - 1 + 1 ELSE 0
        /\ \A i \in 1 .. c - 1 + 1 : SubSeq(f, 1, c)[i] = f[1 + i - 1]
    BY <1>12, <2>1, PartOf
  <2>3. \A i \in 1 .. c : i \in 1 .. c - 1 + 1 /\ 1 + i - 1 = i
    OBVIOUS
  <2>4. \A i \in 1 .. c : s[i] = f[i]
    BY <1>13, <2>2, <2>3, Zenon
  <2>5. IsMessage(s) /\ Len(s) = c
    BY <1>13, <2>1, <2>2, Zenon
  <2>6. QED
    BY <2>4, <2>5
<1>15. PICK all : all = b \o s /\ all = AllBits(e)
  BY <1>6, <1>13
<1>16. /\ IsMessage(all) /\ Len(all) = l + c
       /\ \A i \in 1 .. l + c : all[i] = IF i <= l THEN b[i] ELSE s[i - l]
  <2>1. /\ IsMessage(b \o s) /\ Len(b \o s) = Len(b) + Len(s)
        /\ \A i \in 1 .. Len(b) + Len(s) : (b \o s)[i] = IF i <= Len(b) THEN b[i] ELSE s[i - Len(b)]
    BY <1>11, <1>14, Concatenated
  <2>2. QED
    BY <1>11, <1>14, <1>15, <2>1, Zenon
<1>17. (\A i \in 1 .. l : all[i] = b[i]) /\ \A k \in 1 .. c : all[l + k] = f[k]
  <2>1. (\A i \in 1 .. l : i \in 1 .. l + c /\ i <= l) /\ \A k \in 1 .. c : l + k \in 1 .. l + c /\ ~(l + k <= l) /\ (l + k) - l = k
    BY <1>1
  <2>2. QED
    BY <1>14, <1>16, <2>1, Zenon
<1>18. \A i \in 1 .. l + c : all[i] \in 0 .. 1
  <2>1. TAKE i \in 1 .. l + c
  <2>2. i \in 1 .. l \/ \E k \in 1 .. c : i = l + k
    <3>1. i <= l => i \in 1 .. l
      BY <1>1
    <3>2. ~(i <= l) => i - l \in 1 .. c /\ i = l + (i - l)
      BY <1>1
    <3>3. QED
      BY <3>1, <3>2, Zenon
  <2>3. CASE i \in 1 .. l
    <3>1. all[i] \in Nat /\ all[i] < 2
      BY <1>11, <1>17, <2>3
    <3>2. QED
      BY <3>1
  <2>4. CASE \E k \in 1 .. c : i = l + k
    <3>1. PICK k \in 1 .. c : i = l + k
      BY <2>4
    <3>2. k \in 1 .. 8 * m
      OBVIOUS
    <3>3. all[i] \in Nat /\ all[i] < 2
      BY <1>12, <1>17, <3>1, <3>2
    <3>4. QED
      BY <3>3
  <2>5. QED
    BY <2>2, <2>3, <2>4
<1>19. l + c \in Nat /\ IsDigits(all, 2, l + c)
  BY <1>1, <1>16, <1>18 DEF IsDigits
<1>20. PICK w : Worth(w, all, 2, l + c) /\ ValueOf(all, 2) = w[l + c]
  BY <1>10, <1>19, DigitsWorth
<1>21. w[0] = 0 /\ \A i \in 1 .. l + c : w[i] = w[i - 1] * 2 + all[i]
  BY <1>20 DEF Worth
<1>22. BytesIn(w, e, n)
  <2>1. ASSUME NEW j \in 0 .. n - 1, NEW k \in 1 .. 8
        PROVE  w[8 * j + k] = w[8 * j + (k - 1)] * 2 + ((e[j + 1] \div Two(8 - k)) % 2)
    <3>1. 8 * j + k \in 1 .. l /\ 8 * j + k \in 1 .. l + c /\ (8 * j + k) - 1 = 8 * j + (k - 1)
      BY <1>1
    <3>2. w[8 * j + k] = w[(8 * j + k) - 1] * 2 + all[8 * j + k]
      BY <1>21, <3>1, Zenon
    <3>3. all[8 * j + k] = b[8 * j + k]
      BY <1>17, <3>1, Zenon
    <3>4. b[8 * j + k] = (e[j + 1] \div Two(8 - k)) % 2
      BY <1>7
    <3>5. QED
      BY <3>1, <3>2, <3>3, <3>4
  <2>2. QED
    BY <2>1 DEF BytesIn, TakenIn
<1>23. PICK v : Worth(v, e, 256, n) /\ ValueOf(e, 256) = v[n]
  BY <1>1, <1>3, <1>10, DigitsWorth
<1>24. w[l] = v[n] /\ w[l] \in Nat
  <2>3. n \in Nat /\ IsDigits(e, 256, n) /\ Worth(v, e, 256, n) /\ w[0] = 0 /\ BytesIn(w, e, n)
    BY <1>1, <1>3, <1>21, <1>22, <1>23
  <2>1. w[8 * n] = v[n] /\ v[n] \in Nat
    BY <2>3, BitsWorth
  <2>2. QED
    BY <1>1, <2>1
<1>25. PICK x : x = h[1]
  OBVIOUS
<1>26. x \in Nat /\ x < Two(8)
  <2>1. \A i \in 1 .. m : h[i] \in Nat /\ h[i] < 256
    BY <1>3, <1>10, DigitsAre
  <2>2. 1 \in 1 .. m
    OBVIOUS
  <2>3. QED
    BY <1>25, <2>1, <2>2, TwoTable
<1>27. TakenIn(w, l, x, c)
  <2>1. ASSUME NEW k \in 1 .. c
        PROVE  w[l + k] = w[l + (k - 1)] * 2 + ((x \div Two(8 - k)) % 2)
    <3>1. l + k \in 1 .. l + c /\ (l + k) - 1 = l + (k - 1)
      BY <1>1
    <3>2. w[l + k] = w[(l + k) - 1] * 2 + all[l + k]
      BY <1>21, <3>1
    <3>3. all[l + k] = (x \div Two(8 - k)) % 2
      BY <1>9, <1>17, <1>25
    <3>4. QED
      BY <3>1, <3>2, <3>3
  <2>2. QED
    BY <2>1 DEF TakenIn
<1>28. Shifted(w, l, x, c)
  BY <1>1, <1>24, <1>26, <1>27, ByteRun
<1>29. w[l + c] = w[l] * Two(c) + (x \div Two(8 - c))
  <2>1. c \in 0 .. c
    OBVIOUS
  <2>2. QED
    BY <1>28, <2>1 DEF Shifted
<1>30. ValueOf(all, 2) = ValueOf(e, 256) * Two(c) + (Hash(e)[1] \div Two(8 - c))
  BY <1>2, <1>20, <1>23, <1>24, <1>25, <1>29
<1>31. QED
  BY <1>1, <1>15, <1>19, <1>30

\* Numbers below the radix are digits.
LEMMA DigitsBy ==
    ASSUME NEW d, NEW b, NEW n, Base(b), IsMessage(d), Len(d) = n, \A i \in 1 .. n : d[i] \in Nat /\ d[i] < b
    PROVE  IsDigits(d, b, n)
<1>1. \A x \in Nat : x < b => x \in 0 .. b - 1
  BY DEF Base
<1>2. QED
  BY <1>1, Zenon DEF IsDigits

\* A word's number, and the groups of eleven bits.
IsWord(x) == x \in Nat /\ x < 2048
WordsOf(d, n) == [i \in 1 .. n |-> WordOf(d, i)]

\* What digits are worth, one more at a time, is a number.
LEMMA WorthTyped ==
    ASSUME NEW b, Base(b), NEW n \in Nat, NEW d, IsDigits(d, b, n), NEW w, Worth(w, d, b, n)
    PROVE  \A k \in 0 .. n : w[k] \in Nat
<1>1. \A i \in 1 .. n : d[i] \in 0 .. b - 1
  BY DEF IsDigits
<1>2. QED
  BY <1>1, WorthNumbers

\* The groups of eleven bits are the digits of the same number.
LEMMA WordsWorth ==
    ASSUME NEW d, NEW n \in Nat, IsDigits(d, 2, 11 * n)
    PROVE  IsDigits(WordsOf(d, n), 2048, n) /\ ValueOf(WordsOf(d, n), 2048) = ValueOf(d, 2)
<1>1. Base(2) /\ Base(2048) /\ Two(11) = 2048 /\ 11 * n \in Nat
  BY TwoTable DEF Base
<1>14. PICK l \in Nat : l = 11 * n /\ IsDigits(d, 2, l)
  BY <1>1
<1>2. PICK w : Worth(w, d, 2, l) /\ ValueOf(d, 2) = w[l]
  BY <1>1, <1>14, DigitsWorth
<1>3. \A k \in 0 .. l : w[k] \in Nat
  BY <1>1, <1>2, <1>14, WorthTyped
<1>15. PICK g : g = WordsOf(d, n)
  OBVIOUS
<1>4. ASSUME NEW j \in 0 .. n - 1
      PROVE  IsWord(WordOf(d, j + 1)) /\ w[11 * (j + 1)] = w[11 * j] * 2048 + WordOf(d, j + 1)
  <2>1. PICK a \in Nat : a = 11 * j
    OBVIOUS
  <2>2. ((j + 1) - 1) * WordBits + 1 = a + 1 /\ (j + 1) * WordBits = a + 11 /\ 11 * (j + 1) = a + 11
    BY <2>1 DEF WordBits
  <2>3. WordOf(d, j + 1) = ValueOf(SubSeq(d, a + 1, a + 11), 2)
    BY <2>2 DEF WordOf
  <2>4. Within(a, 11, l) /\ a \in 0 .. l
    BY <1>14, <2>1 DEF Within
  <2>5. w[a] \in Nat
    BY <1>3, <2>4
  <2>7. PartIs(d, w, a, 11)
    BY <1>2, <1>14, <2>4, <2>5, PartWorth
  <2>8. QED
    BY <1>1, <2>1, <2>2, <2>3, <2>7 DEF PartIs, IsWord
<1>16. \A j \in 0 .. n - 1 : IsWord(WordOf(d, j + 1))
  BY <1>4
<1>5. \A i \in 1 .. n : g[i] = WordOf(d, i) /\ g[i] \in Nat /\ g[i] < 2048
  <2>1. TAKE i \in 1 .. n
  <2>2. i - 1 \in 0 .. n - 1 /\ (i - 1) + 1 = i
    OBVIOUS
  <2>3. IsWord(WordOf(d, (i - 1) + 1))
    BY <1>16, <2>2, Zenon
  <2>4. g[i] = WordOf(d, i)
    BY <1>15 DEF WordsOf
  <2>5. QED
    BY <2>2, <2>3, <2>4 DEF IsWord
<1>6. IsMessage(g) /\ Len(g) = n
  <2>1. g = [i \in 1 .. n |-> g[i]]
    BY <1>15 DEF WordsOf
  <2>2. QED
    BY <2>1, MessageBy
<1>7. IsDigits(g, 2048, n)
  BY <1>1, <1>5, <1>6, DigitsBy
<1>8. PICK v : Worth(v, g, 2048, n) /\ ValueOf(g, 2048) = v[n]
  BY <1>1, <1>7, DigitsWorth
<1> DEFINE S == {j \in Nat : j <= n => v[j] = w[11 * j]}
<1>9. 0 \in S
  <2>1. v[0] = 0 /\ w[0] = 0 /\ 11 * 0 = 0
    BY <1>2, <1>8 DEF Worth
  <2>2. QED
    BY <2>1
<1>10. ASSUME NEW j \in Nat, j \in S
       PROVE  j + 1 \in S
  <2>1. SUFFICES ASSUME j + 1 <= n
                 PROVE  v[j + 1] = w[11 * (j + 1)]
    OBVIOUS
  <2>2. j \in 0 .. n - 1 /\ j + 1 \in 1 .. n /\ (j + 1) - 1 = j /\ j <= n
    BY <2>1
  <2>3. v[j + 1] = v[(j + 1) - 1] * 2048 + g[j + 1]
    BY <1>8, <2>2 DEF Worth
  <2>4. v[j] = w[11 * j]
    BY <1>10, <2>2
  <2>5. QED
    BY <1>4, <1>5, <2>2, <2>3, <2>4
<1>11. \A j \in Nat : j \in S
  <2> HIDE DEF S
  <2>1. QED
    BY <1>9, <1>10, AllNumbers
<1>12. v[n] = w[11 * n]
  BY <1>11
<1>13. QED
  BY <1>2, <1>7, <1>8, <1>12, <1>14, <1>15

\* The entropy of a mnemonic: four bytes for each bit of its checksum.
IsEntropy(e, c) ==
    /\ c \in Nat /\ 4 <= c /\ c <= 8 /\ IsDigits(e, 256, 4 * c)
    /\ \E m \in Nat : 1 <= m /\ IsDigits(Hash(e), 256, m)

\* The checksum, and the number that entropy and checksum are.
Sum(e, c) == Hash(e)[1] \div Two(8 - c)
Number(e, c) == ValueOf(e, 256) * Two(c) + Sum(e, c)

\* The words of the reference say that number.
LEMMA ReferenceIs ==
    ASSUME NEW e, NEW c, IsEntropy(e, c)
    PROVE  \E g : IsDigits(g, 2048, 3 * c) /\ ValueOf(g, 2048) = Number(e, c) /\ MnemonicOf(e) = Letters(g)
<1>1. c \in Nat /\ 4 <= c /\ c <= 8 /\ IsDigits(e, 256, 4 * c)
  BY DEF IsEntropy
<1>2. PICK m \in Nat : 1 <= m /\ IsDigits(Hash(e), 256, m)
  BY DEF IsEntropy
<1>3. PICK d : d = AllBits(e)
  OBVIOUS
<1>4. IsDigits(d, 2, 33 * c) /\ ValueOf(d, 2) = Number(e, c)
  BY <1>1, <1>2, <1>3, AllBitsWorth DEF Number, Sum
<1>5. PICK n \in Nat : n = 3 * c /\ 11 * n = 33 * c /\ (33 * c) \div 11 = n
  BY <1>1
<1>6. Len(d) = 33 * c /\ IsDigits(d, 2, 11 * n)
  BY <1>4, <1>5 DEF IsDigits
<1>7. PICK g : g = WordsOf(d, n)
  OBVIOUS
<1>8. IsDigits(g, 2048, n) /\ ValueOf(g, 2048) = ValueOf(d, 2)
  BY <1>6, <1>7, WordsWorth
<1>9. MnemonicOf(e) = Letters(g)
  <2>1. Len(AllBits(e)) \div WordBits = n
    BY <1>3, <1>5, <1>6 DEF WordBits
  <2>2. MnemonicOf(e) = [i \in 1 .. n |-> Letter(WordOf(d, i))]
    BY <1>3, <2>1, Zenon DEF MnemonicOf
  <2>3. DOMAIN g = 1 .. n /\ \A i \in 1 .. n : g[i] = WordOf(d, i)
    BY <1>7 DEF WordsOf
  <2>4. QED
    BY <2>2, <2>3 DEF Letters
<1>10. QED
  BY <1>4, <1>5, <1>8, <1>9

\* A message and one thing more.
Ended(e, q) == e \o <<q>>
LastOne(b) == SubSeq(b, Len(b) - 1 + 1, Len(b))

\* A message that is another with one thing more, and what is cut from it.
LEMMA EndIs ==
    ASSUME NEW e, NEW q, NEW a, IsMessage(e), IsMessage(a), Len(a) = Len(e) + 1,
           \A i \in 1 .. Len(e) : a[i] = e[i], a[Len(e) + 1] = q
    PROVE  a = Ended(e, q) /\ Payload(a, 1) = e /\ LastOne(a) = <<q>>
<1> DEFINE n == Len(e)
<1>1. n \in Nat /\ Len(a) = n + 1
  BY MessageIs
<1> HIDE DEF n
<1>2. IsMessage(<<q>>) /\ Len(<<q>>) = 1 /\ <<q>>[1] = q
  <2>1. <<q>> \in Seq({q})
    OBVIOUS
  <2>2. QED
    BY <2>1 DEF IsMessage
<1>3. a = Ended(e, q)
  <2>1. PICK s : s = <<q>> /\ IsMessage(s) /\ Len(s) = 1 /\ s[1] = q
    BY <1>2
  <2>2. /\ IsMessage(e \o s) /\ Len(e \o s) = n + 1
        /\ \A i \in 1 .. n + 1 : (e \o s)[i] = IF i <= n THEN e[i] ELSE s[i - n]
    BY <2>1, Concatenated DEF n
  <2>3. PICK t : t = e \o s /\ IsMessage(t) /\ Len(t) = n + 1 /\ \A i \in 1 .. n + 1 : t[i] = IF i <= n THEN e[i] ELSE s[i - n]
    BY <2>2, Zenon
  <2>4. \A i \in 1 .. Len(a) : a[i] = t[i]
    <3>1. TAKE i \in 1 .. Len(a)
    <3>2. i \in 1 .. n \/ (i = n + 1 /\ ~(i <= n) /\ i - n = 1)
      BY <1>1
    <3>3. i \in 1 .. n + 1 /\ (i \in 1 .. n => i <= n)
      BY <1>1
    <3>4. QED
      BY <2>1, <2>3, <3>2, <3>3, Zenon DEF n
  <2>5. a = t
    BY <1>1, <2>3, <2>4, SameMessage
  <2>6. QED
    BY <2>1, <2>3, <2>5, Zenon DEF Ended
<1>4. Payload(a, 1) = e
  <2>1. 1 \in Nat \ {0} /\ n <= Len(a) /\ (IF 1 <= n THEN n - 1 + 1 ELSE 0) = n /\ Len(a) - 1 = n
    BY <1>1
  <2>2. PICK s : s = SubSeq(a, 1, n)
    OBVIOUS
  <2>3. /\ IsMessage(SubSeq(a, 1, n)) /\ Len(SubSeq(a, 1, n)) = IF 1 <= n THEN n - 1 + 1 ELSE 0
        /\ \A i \in 1 .. n - 1 + 1 : SubSeq(a, 1, n)[i] = a[1 + i - 1]
    BY <1>1, <2>1, PartOf
  <2>4. IsMessage(s) /\ Len(s) = n
    BY <2>1, <2>2, <2>3, Zenon
  <2>5. \A i \in 1 .. n : i \in 1 .. n - 1 + 1 /\ 1 + i - 1 = i
    BY <1>1
  <2>6. \A i \in 1 .. Len(s) : s[i] = e[i]
    BY <2>2, <2>3, <2>4, <2>5, Zenon DEF n
  <2>7. s = e
    BY <2>4, <2>6, SameMessage DEF n
  <2>8. QED
    BY <2>1, <2>2, <2>7, Zenon DEF Payload
<1>5. LastOne(a) = <<q>>
  <2>1. PICK k \in Nat : k = n + 1
    BY <1>1
  <2>2. k \in Nat \ {0} /\ k <= Len(a) /\ (IF k <= k THEN k - k + 1 ELSE 0) = 1
        /\ Len(a) - 1 + 1 = k /\ 1 \in 1 .. k - k + 1 /\ k + 1 - 1 = k
    BY <1>1, <2>1
  <2>3. PICK s : s = SubSeq(a, k, k)
    OBVIOUS
  <2>4. /\ IsMessage(SubSeq(a, k, k)) /\ Len(SubSeq(a, k, k)) = IF k <= k THEN k - k + 1 ELSE 0
        /\ \A i \in 1 .. k - k + 1 : SubSeq(a, k, k)[i] = a[k + i - 1]
    BY <2>2, PartOf
  <2>5. IsMessage(s) /\ Len(s) = 1
    BY <2>2, <2>3, <2>4, Zenon
  <2>6. a[k] = q
    BY <2>1 DEF n
  <2>7. s[1] = a[k + 1 - 1]
    BY <2>2, <2>3, <2>4, Zenon
  <2>8. PICK t : t = <<q>> /\ IsMessage(t) /\ Len(t) = 1 /\ t[1] = q
    BY <1>2
  <2>9. \A i \in 1 .. Len(s) : s[i] = t[i]
    BY <2>2, <2>5, <2>6, <2>7, <2>8
  <2>10. s = t
    BY <2>5, <2>8, <2>9, SameMessage
  <2>11. SubSeq(a, Len(a) - 1 + 1, Len(a)) = SubSeq(a, k, k)
    BY <1>1, <2>1, <2>2
  <2>12. QED
    BY <2>3, <2>8, <2>10, <2>11, Zenon DEF LastOne
<1>6. QED
  BY <1>3, <1>4, <1>5

IsEnd(b, e, q, n) ==
    /\ IsDigits(Ended(e, q), b, n + 1) /\ ValueOf(Ended(e, q), b) = ValueOf(e, b) * b + q
    /\ Payload(Ended(e, q), 1) = e /\ LastOne(Ended(e, q)) = <<q>>
\* Bytes and one more: the number they say, and what is cut from them.
LEMMA EndedIs ==
    ASSUME NEW b, NEW n, NEW e, NEW q, Base(b), n \in Nat, IsDigits(e, b, n), q \in Nat, q < b
    PROVE  IsEnd(b, e, q, n)
<1>1. IsMessage(e)
  BY DEF IsDigits
<1>2. PICK a : a = Append(e, q)
  OBVIOUS
<1>3. IsMessage(a) /\ Len(a) = Len(e) + 1 /\ (\A i \in 1 .. Len(e) : a[i] = e[i]) /\ a[Len(e) + 1] = q
  <2>1. /\ IsMessage(Append(e, q)) /\ Len(Append(e, q)) = Len(e) + 1
        /\ \A i \in 1 .. Len(e) : Append(e, q)[i] = e[i]
        /\ Append(e, q)[Len(e) + 1] = q
    BY <1>1, Appended
  <2>2. QED
    BY <1>2, <2>1, Zenon
<1>4. IsDigits(a, b, n + 1) /\ ValueOf(a, b) = ValueOf(e, b) * b + q
  <2>1. IsDigits(Append(e, q), b, n + 1) /\ ValueOf(Append(e, q), b) = ValueOf(e, b) * b + q
    BY AppendWorth
  <2>2. QED
    BY <1>2, <2>1, Zenon
<1> HIDE <1>2
<1>5. a = Ended(e, q) /\ Payload(a, 1) = e /\ LastOne(a) = <<q>>
  BY <1>1, <1>3, EndIs
<1>6. QED
  BY <1>4, <1>5, Zenon DEF IsEnd

\* Bytes are those before the last, and the last.
LEMMA EndOf ==
    ASSUME NEW b, NEW n, NEW a, Base(b), n \in Nat, IsDigits(a, b, n + 1)
    PROVE  /\ IsDigits(Payload(a, 1), b, n) /\ LastOne(a) = <<a[n + 1]>>
           /\ a = Ended(Payload(a, 1), a[n + 1])
<1>1. IsMessage(a) /\ Len(a) = n + 1 /\ \A i \in 1 .. n + 1 : a[i] \in 0 .. b - 1
  BY DEF IsDigits
<1>2. n + 1 - 1 = n /\ (\A i \in 1 .. n : i \in 1 .. n + 1 /\ i \in 1 .. n - 1 + 1 /\ 1 + i - 1 = i)
      /\ 1 \in Nat \ {0} /\ n <= n + 1 /\ (IF 1 <= n THEN n - 1 + 1 ELSE 0) = n
  OBVIOUS
<1>3. PICK e : e = Payload(a, 1)
  OBVIOUS
<1>4. IsMessage(e) /\ Len(e) = n /\ \A i \in 1 .. n : e[i] = a[i]
  <2>1. /\ IsMessage(SubSeq(a, 1, n)) /\ Len(SubSeq(a, 1, n)) = IF 1 <= n THEN n - 1 + 1 ELSE 0
        /\ \A i \in 1 .. n - 1 + 1 : SubSeq(a, 1, n)[i] = a[1 + i - 1]
    BY <1>1, <1>2, PartOf
  <2>2. e = SubSeq(a, 1, n)
    <3>1. Len(a) - 1 = n
      BY <1>1
    <3>2. QED
      BY <1>3, <3>1, Zenon DEF Payload
  <2>3. QED
    BY <1>2, <2>1, <2>2, Zenon
<1>5. a = Ended(e, a[n + 1]) /\ LastOne(a) = <<a[n + 1]>>
  BY <1>1, <1>4, EndIs
<1>6. IsDigits(e, b, n)
  BY <1>1, <1>2, <1>4, Zenon DEF IsDigits
<1>7. QED
  BY <1>3, <1>5, <1>6, Zenon

\* The byte of the checksum, and what entropy and that byte are.
Check(e, c) == Sum(e, c) * Two(8 - c)

\* The checksum is a byte; entropy and byte are the number of both, shifted.
LEMMA SummedIs ==
    ASSUME NEW e, NEW c, IsEntropy(e, c)
    PROVE  /\ calcChecksum(e) = <<Check(e, c)>> /\ Number(e, c) \in Nat
           /\ IsDigits(Ended(e, Check(e, c)), 256, 4 * c + 1)
           /\ ValueOf(Ended(e, Check(e, c)), 256) = Number(e, c) * Two(8 - c)
           /\ Payload(Ended(e, Check(e, c)), 1) = e /\ LastOne(Ended(e, Check(e, c))) = <<Check(e, c)>>
<1>1. c \in Nat /\ 4 <= c /\ c <= 8 /\ IsDigits(e, 256, 4 * c) /\ Base(256) /\ 8 - c \in Nat /\ 4 * c \in Nat
  BY DEF IsEntropy, Base
<1>2. PICK x : x = Hash(e)[1]
  OBVIOUS
<1>3. x \in Nat /\ x < 256
  <2>1. PICK m \in Nat : 1 <= m /\ IsDigits(Hash(e), 256, m)
    BY DEF IsEntropy
  <2>2. \A i \in 1 .. m : Hash(e)[i] \in Nat /\ Hash(e)[i] < 256
    BY <1>1, <2>1, DigitsAre
  <2>3. 1 \in 1 .. m
    BY <2>1
  <2>4. QED
    BY <1>2, <2>2, <2>3
<1>4. PICK s \in Nat \ {0} : s = Two(8 - c)
  BY <1>1, TwoIs
<1>5. PICK t \in Nat \ {0} : t = Two(c)
  BY <1>1, TwoIs
<1>6. t * s = 256
  <2>1. Two(c + (8 - c)) = Two(c) * Two(8 - c) /\ c + (8 - c) = 8
    BY <1>1, TwoSum
  <2>2. QED
    BY <1>4, <1>5, <2>1, TwoTable
<1>7. PICK q : q = x \div s
  OBVIOUS
<1>8. q \in Nat /\ q * s <= x /\ q * s \in Nat
  <2>1. q \in Nat /\ x % s \in 0 .. s - 1 /\ x = s * q + (x % s)
    BY <1>3, <1>7, Divides
  <2>2. s * q = q * s /\ q * s \in Nat
    BY <2>1, SMT
  <2>3. QED
    BY <2>1, <2>2
<1>9. Sum(e, c) = q /\ Check(e, c) = q * s
  BY <1>2, <1>4, <1>7 DEF Sum, Check
<1>10. calcChecksum(e) = <<Check(e, c)>>
  <2>1. Len(e) = 4 * c /\ (4 * c) \div 4 = c
    BY <1>1 DEF IsDigits
  <2>2. 8 - (Len(e) \div 4) = 8 - c
    BY <2>1
  <2>3. QED
    BY <2>2, Zenon DEF calcChecksum, Check, Sum
<1>11. PICK r \in Nat : r = q * s
  BY <1>8
<1>12. r < 256
  BY <1>3, <1>8, <1>11
<1>13. /\ IsDigits(Ended(e, r), 256, 4 * c + 1) /\ ValueOf(Ended(e, r), 256) = ValueOf(e, 256) * 256 + r
       /\ Payload(Ended(e, r), 1) = e /\ LastOne(Ended(e, r)) = <<r>>
  <2>1. PICK n \in Nat : n = 4 * c
    BY <1>1
  <2>2. IsDigits(e, 256, n)
    BY <1>1, <2>1
  <2>3. IsEnd(256, e, r, n)
    BY <1>1, <1>11, <1>12, <2>2, EndedIs, Zenon
  <2>4. QED
    BY <2>1, <2>3, Zenon DEF IsEnd
<1>14. PICK v \in Nat : v = ValueOf(e, 256)
  BY <1>1, DigitsWorth
<1>15. Number(e, c) = v * t + q /\ v * t + q \in Nat
  <2>1. v * t \in Nat
    BY SMT
  <2>2. QED
    BY <1>5, <1>8, <1>9, <1>14, <2>1 DEF Number
<1>16. (v * t + q) * s = v * 256 + q * s
  <2>1. (v * t + q) * s = v * (t * s) + q * s
    BY <1>8, SMT
  <2>2. QED
    BY <1>6, <2>1
<1>17. ValueOf(Ended(e, r), 256) = Number(e, c) * Two(8 - c)
  BY <1>4, <1>11, <1>13, <1>14, <1>15, <1>16
<1>18. Check(e, c) = r
  BY <1>9, <1>11
<1>19. Number(e, c) \in Nat
  BY <1>15
<1>20. QED
  BY <1>10, <1>13, <1>17, <1>18, <1>19, Zenon

\* What the coder gives back before its length is looked at.
Decoded(words) ==
    Then(Then(AlphabetDecode(words, Words), LAMBDA d : convertRadix2(d, WordBits, 8, TRUE)),
         LAMBDA b : ChecksumDecode(b, 1, calcChecksum(Payload(b, 1))))
\* The same for bytes.
Unsummed(b) == ChecksumDecode(b, 1, calcChecksum(Payload(b, 1)))

\* The results of codecs.
LEMMA Results ==
    (\A v : Ok(v).ok = TRUE /\ Ok(v).value = v) /\ Error.ok = FALSE
BY DEF Ok, Error

\* The lengths that are accepted.
LEMMA LengthsAre ==
    /\ \A c \in Nat : 4 <= c /\ c <= 8 => 4 * c \in EntropyLengths /\ 3 * c \in MnemonicLengths /\ 3 * c - 1 \notin MnemonicLengths
    /\ \A n \in EntropyLengths : \E c \in Nat : 4 <= c /\ c <= 8 /\ n = 4 * c
    /\ \A n \in MnemonicLengths : \E c \in Nat : 4 <= c /\ c <= 8 /\ n = 3 * c
<1>1. ASSUME NEW c \in Nat, 4 <= c, c <= 8
      PROVE  4 * c \in EntropyLengths /\ 3 * c \in MnemonicLengths /\ 3 * c - 1 \notin MnemonicLengths
  <2>1. c = 4 \/ c = 5 \/ c = 6 \/ c = 7 \/ c = 8
    BY <1>1
  <2>2. QED
    BY <2>1 DEF EntropyLengths, MnemonicLengths
<1>2. 16 = 4 * 4 /\ 20 = 4 * 5 /\ 24 = 4 * 6 /\ 28 = 4 * 7 /\ 32 = 4 * 8
  OBVIOUS
<1>3. 12 = 3 * 4 /\ 15 = 3 * 5 /\ 18 = 3 * 6 /\ 21 = 3 * 7 /\ 24 = 3 * 8
  OBVIOUS
<1>4. \A n \in EntropyLengths : \E c \in Nat : 4 <= c /\ c <= 8 /\ n = 4 * c
  BY <1>2 DEF EntropyLengths
<1>5. \A n \in MnemonicLengths : \E c \in Nat : 4 <= c /\ c <= 8 /\ n = 3 * c
  BY <1>3 DEF MnemonicLengths
<1>6. QED
  BY <1>1, <1>4, <1>5

\* The checksum of bytes and their checksum.
LEMMA UnsummedIs ==
    ASSUME NEW e, NEW c, IsEntropy(e, c)
    PROVE  Unsummed(Ended(e, Check(e, c))) = Ok(e)
<1>1. PICK b : b = Ended(e, Check(e, c))
  OBVIOUS
<1>2. calcChecksum(e) = <<Check(e, c)>> /\ IsDigits(b, 256, 4 * c + 1) /\ Payload(b, 1) = e /\ LastOne(b) = <<Check(e, c)>>
  BY <1>1, SummedIs, Zenon
<1>3. Len(b) >= 1
  BY <1>2 DEF IsDigits, IsEntropy
<1>4. calcChecksum(Payload(b, 1)) = SubSeq(b, Len(b) - 1 + 1, Len(b))
  BY <1>2, Zenon DEF LastOne
<1>5. Unsummed(b) = Ok(Payload(b, 1))
  BY <1>3, <1>4, Zenon DEF Unsummed, ChecksumDecode
<1>6. QED
  BY <1>1, <1>2, <1>5, Zenon

\* What comes out of bytes: those before the checksum, when it is theirs.
LEMMA UnsummedFrom ==
    ASSUME NEW b, Unsummed(b).ok
    PROVE  Unsummed(b) = Ok(Payload(b, 1)) /\ calcChecksum(Payload(b, 1)) = LastOne(b)
<1>1. Error.ok = FALSE
  BY Results
<1>2. Len(b) >= 1 /\ calcChecksum(Payload(b, 1)) = SubSeq(b, Len(b) - 1 + 1, Len(b))
  BY <1>1, Zenon DEF Unsummed, ChecksumDecode
<1>3. Unsummed(b) = Ok(Payload(b, 1))
  BY <1>2, Zenon DEF Unsummed, ChecksumDecode
<1>4. QED
  BY <1>2, <1>3, Zenon DEF LastOne

\* Decoding, one codec after another.
LEMMA DecodedBy ==
    ASSUME NEW words, NEW d, NEW b, AlphabetDecode(words, Words) = Ok(d), ToBytes(d) = Ok(b)
    PROVE  Decoded(words) = Unsummed(b)
<1>1. Ok(d).ok /\ Ok(d).value = d /\ Ok(b).ok /\ Ok(b).value = b
  BY Results
<1>2. Then(AlphabetDecode(words, Words), LAMBDA x : convertRadix2(x, WordBits, 8, TRUE)) = Ok(b)
  BY <1>1, Zenon DEF Then, ToBytes
<1>3. QED
  BY <1>1, <1>2, Zenon DEF Decoded, Then, Unsummed

\* What is decoded when nothing is raised.
LEMMA DecodedFrom ==
    ASSUME NEW words, NEW d, NEW b, Decoded(words).ok
    PROVE  AlphabetDecode(words, Words).ok /\ (AlphabetDecode(words, Words) = Ok(d) => ToBytes(d).ok)
<1>1. Error.ok = FALSE /\ Ok(d).ok /\ Ok(d).value = d
  BY Results
<1>2. Then(AlphabetDecode(words, Words), LAMBDA x : convertRadix2(x, WordBits, 8, TRUE)).ok
  BY <1>1, Zenon DEF Decoded, Then
<1>3. QED
  BY <1>1, <1>2, Zenon DEF Then, ToBytes

\* Encoding, one codec after another.
LEMMA EncodedBy ==
    ASSUME NEW e, NEW q, NEW d, Len(e) \in EntropyLengths, calcChecksum(e) = <<q>>,
           ToWords(Ended(e, q)) = Ok(d), AlphabetEncode(d, Words) = Ok(Letters(d))
    PROVE  entropyToMnemonic(e) = Ok(Letters(d))
<1>1. Ok(d).ok /\ Ok(d).value = d /\ Ok(Ended(e, q)).ok /\ Ok(Ended(e, q)).value = Ended(e, q)
  BY Results
<1>2. ChecksumEncode(e, calcChecksum(e)) = Ok(Ended(e, q))
  BY Zenon DEF ChecksumEncode, Ended
<1>3. Then(ChecksumEncode(e, calcChecksum(e)), LAMBDA b : convertRadix2(b, 8, WordBits, FALSE)) = Ok(d)
  BY <1>1, <1>2, Zenon DEF Then, ToWords
<1>4. QED
  BY <1>1, <1>3, Zenon DEF Then, entropyToMnemonic

\* The mnemonic coder gives back what the codecs do, for lengths that are accepted.
LEMMA EntropyBack ==
    ASSUME NEW words
    PROVE  mnemonicToEntropy(words) =
               IF Len(words) \notin MnemonicLengths THEN Error
               ELSE IF Decoded(words).ok /\ Len(Decoded(words).value) \in EntropyLengths THEN Decoded(words) ELSE Error
BY Zenon DEF mnemonicToEntropy, Decoded

\* The coder, for every entropy of a length that is accepted.
LEMMA CoderIs ==
    ASSUME NEW e, NEW c, IsEntropy(e, c)
    PROVE  \E d : /\ IsDigits(d, 2048, 3 * c) /\ ValueOf(d, 2048) = Number(e, c)
                  /\ entropyToMnemonic(e) = Ok(Letters(d)) /\ mnemonicToEntropy(Letters(d)) = Ok(e)
<1>1. c \in Nat /\ 4 <= c /\ c <= 8 /\ Len(e) = 4 * c /\ c \in 4 .. 8 /\ 3 * c \in Nat /\ 4 * c + 1 \in Nat
  BY DEF IsEntropy, IsDigits
<1>2. Len(e) \in EntropyLengths /\ 3 * c \in MnemonicLengths
  BY <1>1, LengthsAre
<1>3. PICK q : q = Check(e, c)
  OBVIOUS
<1>4. PICK b : b = Ended(e, q)
  OBVIOUS
<1>5. calcChecksum(e) = <<q>> /\ Number(e, c) \in Nat
  BY <1>3, SummedIs, Zenon
<1>6. IsDigits(b, 256, 4 * c + 1) /\ ValueOf(b, 256) = Number(e, c) * Two(8 - c)
  BY <1>3, <1>4, SummedIs
<1>7. PICK d : ToWords(b) = Ok(d) /\ IsDigits(d, 2048, 3 * c) /\ ValueOf(d, 2048) = Number(e, c)
  BY <1>1, <1>5, <1>6, BytesToWords
<1>8. AlphabetEncode(d, Words) = Ok(Letters(d)) /\ AlphabetDecode(Letters(d), Words) = Ok(d)
  <2>1. PICK n \in Nat : n = 3 * c
    BY <1>1
  <2>2. Base(Words) /\ IsDigits(d, Words, n)
    BY <1>7, <2>1 DEF Words, Base
  <2>3. QED
    BY <2>2, LettersAre, Zenon
<1>9. entropyToMnemonic(e) = Ok(Letters(d))
  BY <1>2, <1>4, <1>5, <1>7, <1>8, EncodedBy
<1>10. PICK a : ToBytes(d) = Ok(a) /\ IsDigits(a, 256, 4 * c + 1) /\ ValueOf(a, 256) = ValueOf(d, 2048) * Two(8 - c)
  BY <1>1, <1>7, WordsToBytes
<1>11. a = b
  <2>1. Base(256) /\ IsDigits(a, 256, 4 * c + 1) /\ IsDigits(b, 256, 4 * c + 1) /\ ValueOf(a, 256) = ValueOf(b, 256)
    BY <1>6, <1>7, <1>10 DEF Base
  <2>2. QED
    BY <1>1, <2>1, SameWorth
<1>12. Decoded(Letters(d)) = Ok(e)
  <2>1. Decoded(Letters(d)) = Unsummed(b)
    BY <1>8, <1>10, <1>11, DecodedBy
  <2>2. QED
    BY <1>3, <1>4, <2>1, UnsummedIs
<1>13. Len(Letters(d)) = 3 * c
  <2>1. PICK n \in Nat : n = 3 * c
    BY <1>1
  <2>2. DOMAIN d = 1 .. n
    BY <1>7, <2>1, NoDigits DEF Base
  <2>3. PICK s : s = Letters(d) /\ s = [i \in 1 .. n |-> s[i]]
    BY <2>2 DEF Letters
  <2>4. Len(s) = n
    BY <2>3, MessageBy
  <2>5. QED
    BY <2>1, <2>3, <2>4, Zenon
<1>14. mnemonicToEntropy(Letters(d)) = Ok(e)
  <2>1. Ok(e).ok /\ Ok(e).value = e
    BY Results
  <2>2. Len(Letters(d)) \in MnemonicLengths
    BY <1>2, <1>13, Zenon
  <2>3. QED
    BY <1>2, <1>12, <2>1, <2>2, EntropyBack, Zenon
<1>15. QED
  BY <1>7, <1>9, <1>14

\* A mnemonic of the reference, as long as it is to be, is the coder's.
LEMMA MnemonicIs ==
    ASSUME NEW e, NEW c, IsEntropy(e, c)
    PROVE  MnemonicMatches(e)
<1>1. c \in Nat /\ 4 <= c /\ c <= 8 /\ 3 * c \in Nat \ {0}
  BY DEF IsEntropy
<1>2. PICK d : /\ IsDigits(d, 2048, 3 * c) /\ ValueOf(d, 2048) = Number(e, c)
               /\ entropyToMnemonic(e) = Ok(Letters(d)) /\ mnemonicToEntropy(Letters(d)) = Ok(e)
  BY CoderIs
<1>3. PICK g : IsDigits(g, 2048, 3 * c) /\ ValueOf(g, 2048) = Number(e, c) /\ MnemonicOf(e) = Letters(g)
  BY ReferenceIs
<1>4. g = d
  <2>1. Base(2048) /\ ValueOf(g, 2048) = ValueOf(d, 2048)
    BY <1>2, <1>3 DEF Base
  <2>2. QED
    BY <1>1, <1>2, <1>3, <2>1, SameWorth
<1>5. PICK s : s = MnemonicOf(e)
  OBVIOUS
<1>6. entropyToMnemonic(e) = Ok(Letters(d)) /\ mnemonicToEntropy(Letters(d)) = Ok(e) /\ MnemonicOf(e) = Letters(g)
  BY <1>2, <1>3
<1>7. s = Letters(d)
  BY <1>4, <1>5, <1>6, Zenon
<1>8. ~validateMnemonic(Tail(s))
  <2>1. PICK n \in Nat \ {0} : n = 3 * c
    BY <1>1
  <2>2. DOMAIN d = 1 .. n
    BY <1>2, <2>1, NoDigits DEF Base
  <2>3. s = [i \in 1 .. n |-> s[i]]
    BY <1>7, <2>2 DEF Letters
  <2>4. IsMessage(s) /\ Len(s) = n
    BY <2>3, MessageBy
  <2>5. Len(Tail(s)) = n - 1
    <3>1. PICK S : s \in Seq(S)
      BY <2>4 DEF IsMessage
    <3>2. s # <<>>
      BY <2>4, Empty
    <3>3. QED
      BY <2>4, <3>1, <3>2, HeadTailProperties
  <2>6. Len(Tail(s)) \notin MnemonicLengths
    BY <1>1, <2>1, <2>5, LengthsAre
  <2>7. mnemonicToEntropy(Tail(s)) = Error
    BY <2>6, EntropyBack, Zenon
  <2>8. QED
    BY <2>7, Results, Zenon DEF validateMnemonic
<1>9. QED
  BY <1>4, <1>5, <1>6, <1>7, <1>8, Zenon DEF MnemonicMatches

\* Words that are accepted are the mnemonic of the entropy they give.
LEMMA PhraseIs ==
    ASSUME NEW words, NEW m, IsMessage(words), m \in Nat, 1 <= m,
           IsDigits(Hash(mnemonicToEntropy(words).value), 256, m)
    PROVE  PhraseMatches(words)
<1>1. SUFFICES ASSUME validateMnemonic(words)
               PROVE  words = MnemonicOf(mnemonicToEntropy(words).value)
  BY Zenon DEF PhraseMatches
<1>2. mnemonicToEntropy(words).ok /\ Error.ok = FALSE
  BY <1>1, Results, Zenon DEF validateMnemonic
<1>3. /\ Len(words) \in MnemonicLengths /\ Decoded(words).ok /\ mnemonicToEntropy(words) = Decoded(words)
  BY <1>2, EntropyBack, Zenon
<1>4. PICK c \in Nat : 4 <= c /\ c <= 8 /\ Len(words) = 3 * c
  BY <1>3, LengthsAre
<1>5. Base(Words) /\ Base(2048) /\ Base(256) /\ c \in 4 .. 8 /\ 3 * c \in Nat /\ 4 * c \in Nat /\ 4 * c + 1 \in Nat
  BY <1>4 DEF Words, Base
<1>6. AlphabetDecode(words, Words).ok
  BY <1>3, DecodedFrom, Zenon
<1>7. PICK d : IsDigits(d, Words, Len(words)) /\ words = Letters(d) /\ AlphabetDecode(words, Words) = Ok(d)
  BY <1>5, <1>6, LettersFrom
<1>8. IsDigits(d, 2048, 3 * c)
  BY <1>4, <1>7 DEF Words
<1>9. PICK b : ToBytes(d) = Ok(b) /\ IsDigits(b, 256, 4 * c + 1) /\ ValueOf(b, 256) = ValueOf(d, 2048) * Two(8 - c)
  BY <1>5, <1>8, WordsToBytes
<1>10. Decoded(words) = Unsummed(b)
  BY <1>7, <1>9, DecodedBy
<1>11. PICK e : e = Payload(b, 1)
  OBVIOUS
<1>12. Unsummed(b) = Ok(e) /\ calcChecksum(e) = LastOne(b)
  <2>1. Unsummed(b).ok
    BY <1>3, <1>10, Zenon
  <2>2. QED
    BY <1>11, <2>1, UnsummedFrom, Zenon
<1>13. mnemonicToEntropy(words).value = e
  BY <1>3, <1>10, <1>12, Results, Zenon
<1>14. PICK q : LastOne(b) = <<q>> /\ b = Ended(e, q) /\ IsDigits(e, 256, 4 * c)
  <2>1. PICK n \in Nat : n = 4 * c
    BY <1>5
  <2>2. PICK r : r = 256
    OBVIOUS
  <2>3. Base(r) /\ IsDigits(b, r, n + 1)
    BY <1>5, <1>9, <2>1, <2>2
  <2>4. IsDigits(Payload(b, 1), r, n) /\ LastOne(b) = <<b[n + 1]>> /\ b = Ended(Payload(b, 1), b[n + 1])
    BY <2>3, EndOf, Zenon
  <2>5. IsDigits(e, 256, 4 * c)
    BY <1>11, <2>1, <2>2, <2>4
  <2>6. LastOne(b) = <<b[n + 1]>> /\ b = Ended(e, b[n + 1])
    BY <1>11, <2>4, Zenon
  <2>7. QED
    BY <2>5, <2>6
<1>15. IsEntropy(e, c)
  BY <1>4, <1>13, <1>14 DEF IsEntropy
<1>16. /\ calcChecksum(e) = <<Check(e, c)>> /\ Number(e, c) \in Nat
       /\ ValueOf(Ended(e, Check(e, c)), 256) = Number(e, c) * Two(8 - c)
  BY <1>15, SummedIs
<1>17. q = Check(e, c)
  <2>1. <<q>> = <<Check(e, c)>>
    BY <1>12, <1>14, <1>16, Zenon
  <2>2. <<q>>[1] = <<Check(e, c)>>[1]
    BY <2>1, Zenon
  <2>3. QED
    BY <2>2
<1>18. PICK t \in Nat \ {0} : t = Two(8 - c)
  <2>1. 8 - c \in Nat
    BY <1>4
  <2>2. QED
    BY <2>1, TwoIs
<1>19. PICK v \in Nat : v = ValueOf(d, 2048)
  BY <1>5, <1>8, DigitsWorth
<1>20. PICK u \in Nat : u = Number(e, c)
  BY <1>16
<1>21. v * t = u * t
  <2>1. ValueOf(b, 256) = v * t
    BY <1>9, <1>18, <1>19
  <2>2. ValueOf(b, 256) = u * t
    BY <1>14, <1>16, <1>17, <1>18, <1>20
  <2>3. QED
    BY <2>1, <2>2, Zenon
<1>22. v = u
  <2>1. 0 \in 0 .. t - 1 /\ t * v + 0 = v * t /\ t * u + 0 = u * t
    BY SMT
  <2>2. (t * v + 0) \div t = v
    BY <2>1, Divided
  <2>3. (t * u + 0) \div t = u
    BY <2>1, Divided
  <2>4. QED
    BY <1>21, <2>1, <2>2, <2>3, Zenon
<1>23. PICK g : IsDigits(g, 2048, 3 * c) /\ ValueOf(g, 2048) = Number(e, c) /\ MnemonicOf(e) = Letters(g)
  BY <1>15, ReferenceIs
<1>24. g = d
  <2>1. ValueOf(g, 2048) = ValueOf(d, 2048)
    BY <1>19, <1>20, <1>22, <1>23
  <2>2. QED
    BY <1>5, <1>8, <1>23, <2>1, SameWorth
<1>25. MnemonicOf(e) = Letters(d)
  BY <1>23, <1>24
<1>26. QED
  BY <1>7, <1>13, <1>25, Zenon

\* Bytes are digits, and those of a hash are some.
LEMMA BytesAre ==
    ASSUME NEW s, s \in Seq(0 .. 255)
    PROVE  IsDigits(s, 256, Len(s)) /\ (s # <<>> => \E m \in Nat : 1 <= m /\ IsDigits(s, 256, m))
<1>1. PICK B : B = 0 .. 255 /\ B = 0 .. 256 - 1
  <2>1. 256 - 1 = 255
    OBVIOUS
  <2>2. QED
    BY <2>1
<1>2. s \in Seq(B)
  BY <1>1
<1>3. PICK n : n = Len(s)
  OBVIOUS
<1>4. n \in Nat /\ s \in [1 .. n -> B]
  BY <1>2, <1>3, LenProperties, Zenon
<1>5. IsMessage(s)
  BY <1>2, Zenon DEF IsMessage
<1>6. \A i \in 1 .. n : s[i] \in B
  BY <1>4, Zenon
<1>7. IsDigits(s, 256, n)
  BY <1>1, <1>3, <1>5, <1>6 DEF IsDigits
<1>8. s # <<>> => n # 0
  BY <1>2, <1>3, EmptySeq, Zenon
<1>9. s # <<>> => 1 <= n
  BY <1>4, <1>8
<1>10. QED
  BY <1>3, <1>4, <1>7, <1>9

\* The mnemonic of every entropy of a length that is accepted is that of BIP-39 and gives the
\* entropy back, whatever the hash is (web/wallet.js:1083-1135).
THEOREM MnemonicsMatch ==
    ASSUME NEW e, e \in Seq(0 .. 255), Len(e) \in EntropyLengths, Hash(e) \in Seq(0 .. 255) \ {<<>>}
    PROVE  MnemonicMatches(e)
<1>1. PICK c \in Nat : 4 <= c /\ c <= 8 /\ Len(e) = 4 * c
  BY LengthsAre
<1>2. IsDigits(e, 256, 4 * c)
  BY <1>1, BytesAre
<1>3. \E m \in Nat : 1 <= m /\ IsDigits(Hash(e), 256, m)
  BY BytesAre
<1>4. IsEntropy(e, c)
  BY <1>1, <1>2, <1>3 DEF IsEntropy
<1>5. QED
  BY <1>4, MnemonicIs

\* Words that are accepted, of whatever words, are the mnemonic of BIP-39 of the entropy they
\* give (web/wallet.js:1113-1131).
THEOREM PhrasesMatch ==
    ASSUME NEW words, IsMessage(words), Hash(mnemonicToEntropy(words).value) \in Seq(0 .. 255) \ {<<>>}
    PROVE  PhraseMatches(words)
<1>1. PICK m \in Nat : 1 <= m /\ IsDigits(Hash(mnemonicToEntropy(words).value), 256, m)
  BY BytesAre
<1>2. QED
  BY <1>1, PhraseIs
=============================================================================

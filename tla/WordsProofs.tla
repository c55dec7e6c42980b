----------------------------- MODULE WordsProofs -----------------------------
(* Theorems about words kept in halves, for every width of a half: the operations  *)
(* of SHA-512, its sums and its compression function; about the rounds of Keccak,  *)
(* at the width of the code; and about its sponge, for every size of state, block  *)
(* and output: a message given to it in any pieces is absorbed and squeezed as the *)
(* standard says it is as a whole.                                                 *)
EXTENDS Sha2, Keccak, Sponge, Messages

Width == W \in Nat \ {0}
Words == [h : SUBSET Half, l : SUBSET Half]

\* A remainder of a number less than a multiple of the divisor away.
LEMMA Remainder ==
    ASSUME NEW d \in Nat \ {0}, NEW x \in Int
    PROVE  /\ x \in 0 .. d - 1 => x % d = x
           /\ x \in d .. 2 * d - 1 => x % d = x - d
           /\ x \in -d .. -1 => x % d = x + d
<1> DEFINE q == x \div d
           r == x % d
<1>1. q \in Int /\ r \in 0 .. d - 1 /\ x = d * q + r
  BY SMT
<1> HIDE DEF q, r
<1>2. q >= 1 => d * q >= d
  BY <1>1, SMT
<1>3. q >= 2 => d * q >= 2 * d
  BY <1>1, SMT
<1>4. q <= -1 => d * q <= -d
  BY <1>1, SMT
<1>5. q <= -2 => d * q <= -2 * d
  BY <1>1, SMT
<1>6. q = 0 => d * q = 0
  BY <1>1, SMT
<1>7. QED
  BY <1>1, <1>2, <1>3, <1>4, <1>5, <1>6, SMT DEF r

-----------------------------------------------------------------------------
(* Shifts of a half *)

\* A shift by less than the width moves the bits by that much (web/wallet.js:438-447).
LEMMA ShortShifts ==
    ASSUME Width, NEW x \in SUBSET Half, NEW s \in 1 .. W - 1
    PROVE  /\ Shl(x, s) = {b + s : b \in x} \cap Half
           /\ Shr(x, s) = {b - s : b \in x} \cap Half
BY Remainder DEF Width, Shl, Shr

\* The bits of a half that is shifted by less than the width.
LEMMA ShiftBits ==
    ASSUME Width, NEW x \in SUBSET Half, NEW s \in 1 .. W - 1, NEW b \in Half
    PROVE  /\ b \in Shl(x, s) <=> b - s \in x
           /\ b \in Shr(x, s) <=> b + s \in x
<1>1. /\ b \in Shl(x, s) <=> \E c \in x : b = c + s
      /\ b \in Shr(x, s) <=> \E c \in x : b = c - s
  BY ShortShifts
<1>2. QED
  BY <1>1 DEF Half, Width

\* A half that takes the bits which another shifts out.
LEMMA Funnel ==
    ASSUME Width, NEW x \in SUBSET Half, NEW y \in SUBSET Half, NEW s \in 1 .. W - 1, NEW b \in Half
    PROVE  b \in Shr(x, s) \cup Shl(y, W - s) <=>
               \/ b + s < W /\ b + s \in x
               \/ b + s >= W /\ b + s - W \in y
<1>1. W - s \in 1 .. W - 1 /\ b - (W - s) = b + s - W
  BY DEF Width, Half
<1>2. /\ b \in Shr(x, s) <=> b + s \in x
      /\ b \in Shl(y, W - s) <=> b + s - W \in y
  BY <1>1, ShiftBits
<1>3. /\ b + s \in x => b + s < W
      /\ b + s - W \in y => b + s >= W
  BY DEF Half, Width
<1>4. b + s < W \/ b + s >= W
  BY DEF Half, Width
<1>5. QED
  BY <1>2, <1>3, <1>4

-----------------------------------------------------------------------------
(* Whole words *)

\* The bits of a whole word.
LEMMA WholeBits ==
    ASSUME Width, NEW w \in Words
    PROVE  /\ Whole(w) \in SUBSET Wide
           /\ \A b \in Half : (b \in Whole(w) <=> b \in w.l) /\ (b + W \in Whole(w) <=> b \in w.h)
<1>1. w.l \subseteq Half /\ w.h \subseteq Half
  BY DEF Words
<1>2. \A b : b \in Whole(w) <=> b \in w.l \/ \E c \in w.h : b = c + W
  BY DEF Whole, Add1
<1>3. QED
  BY <1>1, <1>2 DEF Wide, Half, Width

\* Words are the same when their halves are.
LEMMA SameWhole ==
    ASSUME Width, NEW w \in Words, NEW x \in SUBSET Wide,
           \A b \in Half : (b \in x <=> b \in w.l) /\ (b + W \in x <=> b \in w.h)
    PROVE  Whole(w) = x
<1>1. ASSUME NEW b \in Wide
      PROVE  b \in Half \/ \E c \in Half : b = c + W
  <2>1. b \in Half \/ (b - W \in Half /\ b = (b - W) + W)
    BY DEF Wide, Half, Width
  <2>2. QED
    BY <2>1
<1>2. ASSUME NEW b \in Wide
      PROVE  b \in Whole(w) <=> b \in x
  BY <1>1, WholeBits
<1>3. QED
  BY <1>2, WholeBits

\* A whole word stays one when it is rotated.
LEMMA RotatedTyped ==
    ASSUME Width, NEW x \in SUBSET Wide, NEW s \in Int
    PROVE  rotr(x, s) \in SUBSET Wide
<1>1. \A c \in Wide : (c - s) % (2 * W) \in 0 .. 2 * W - 1
  BY DEF Wide, Width
<1>2. QED
  BY <1>1 DEF rotr, Wide

\* The bits of a whole word that is rotated to the right.
LEMMA RotatedBits ==
    ASSUME Width, NEW x \in SUBSET Wide, NEW s \in 1 .. 2 * W - 1, NEW b \in Wide
    PROVE  b \in rotr(x, s) <=>
               \/ b + s < 2 * W /\ b + s \in x
               \/ b + s >= 2 * W /\ b + s - 2 * W \in x
<1>1. 2 * W \in Nat \ {0}
  BY DEF Width
<1>2. ASSUME NEW c \in Wide
      PROVE  (c - s) % (2 * W) = IF c >= s THEN c - s ELSE c - s + 2 * W
  <2>1. CASE c >= s
    <3>1. c - s \in 0 .. 2 * W - 1
      BY <2>1 DEF Wide, Width
    <3>2. QED
      BY <1>1, <2>1, <3>1, Remainder
  <2>2. CASE ~(c >= s)
    <3>1. c - s \in -(2 * W) .. -1
      BY <2>2 DEF Wide, Width
    <3>2. QED
      BY <1>1, <2>2, <3>1, Remainder
  <2>3. QED
    BY <2>1, <2>2
<1>3. b \in rotr(x, s) <=> \E c \in x : b = IF c >= s THEN c - s ELSE c - s + 2 * W
  BY <1>2 DEF rotr
<1>4. QED
  BY <1>3 DEF Wide, Width

\* The halves of a whole word that is rotated to the right by less than a half.
LEMMA RotatedHalves ==
    ASSUME Width, NEW w \in Words, NEW s \in 1 .. W - 1, NEW b \in Half
    PROVE  /\ b \in rotr(Whole(w), s) <=>
                  \/ b + s < W /\ b + s \in w.l
                  \/ b + s >= W /\ b + s - W \in w.h
           /\ b + W \in rotr(Whole(w), s) <=>
                  \/ b + s < W /\ b + s \in w.h
                  \/ b + s >= W /\ b + s - W \in w.l
<1>1. /\ s \in 1 .. 2 * W - 1 /\ b \in Wide /\ b + W \in Wide /\ Whole(w) \in SUBSET Wide
  BY WholeBits DEF Half, Wide, Width
<1>2. /\ b \in rotr(Whole(w), s) <=> b + s \in Whole(w)
      /\ b + W \in rotr(Whole(w), s) <=>
            \/ b + W + s < 2 * W /\ b + W + s \in Whole(w)
            \/ b + W + s >= 2 * W /\ b + W + s - 2 * W \in Whole(w)
  <2>1. b + s < 2 * W /\ ~(b + s >= 2 * W)
    BY DEF Half, Width
  <2>2. \A c \in Wide : c \in rotr(Whole(w), s) <=>
                            \/ c + s < 2 * W /\ c + s \in Whole(w)
                            \/ c + s >= 2 * W /\ c + s - 2 * W \in Whole(w)
    BY <1>1, RotatedBits
  <2>3. QED
    BY <1>1, <2>1, <2>2, Zenon
<1>3. CASE b + s < W
  <2>1. b + s \in Half /\ b + W + s = (b + s) + W /\ b + W + s < 2 * W
    BY <1>3 DEF Half, Width
  <2>2. QED
    BY <1>2, <1>3, <2>1, WholeBits DEF Half, Width
<1>4. CASE b + s >= W
  <2>1. b + s - W \in Half /\ b + s = (b + s - W) + W /\ b + W + s - 2 * W = b + s - W
    BY <1>4 DEF Half, Width
  <2>2. QED
    BY <1>2, <1>4, <2>1, WholeBits DEF Half, Width
<1>5. QED
  BY <1>3, <1>4 DEF Half, Width

-----------------------------------------------------------------------------
(* SHA-512's rotations and shifts *)

\* A word in halves that is rotated to the right, by less than a half.
LEMMA RotatedByLess ==
    ASSUME Width, NEW w \in Words, NEW s \in 1 .. W - 1
    PROVE  Whole([h |-> rotrSH(w.h, w.l, s), l |-> rotrSL(w.h, w.l, s)]) = rotr(Whole(w), s)
<1> DEFINE v == [h |-> Shr(w.h, s) \cup Shl(w.l, W - s), l |-> Shr(w.l, s) \cup Shl(w.h, W - s)]
<1>1. w.h \in SUBSET Half /\ w.l \in SUBSET Half
  BY DEF Words
<1>2. v \in Words
  BY <1>1 DEF Words, Shl, Shr
<1>3. rotr(Whole(w), s) \in SUBSET Wide
  BY WholeBits, RotatedTyped
<1>4. ASSUME NEW b \in Half
      PROVE  (b \in rotr(Whole(w), s) <=> b \in v.l) /\ (b + W \in rotr(Whole(w), s) <=> b \in v.h)
  BY <1>1, RotatedHalves, Funnel
<1>5. Whole(v) = rotr(Whole(w), s)
  BY <1>2, <1>3, <1>4, SameWhole
<1>6. [h |-> rotrSH(w.h, w.l, s), l |-> rotrSL(w.h, w.l, s)] = v
  BY DEF rotrSH, rotrSL
<1>7. QED
  BY <1>5, <1>6

\* A word in halves that is rotated to the right, by more than a half: the halves have
\* changed places.
LEMMA RotatedByMore ==
    ASSUME Width, NEW w \in Words, NEW s \in W + 1 .. 2 * W - 1
    PROVE  Whole([h |-> rotrBH(w.h, w.l, s), l |-> rotrBL(w.h, w.l, s)]) = rotr(Whole(w), s)
<1> DEFINE t == s - W
           v == [h |-> Shr(w.l, t) \cup Shl(w.h, W - t), l |-> Shr(w.h, t) \cup Shl(w.l, W - t)]
<1>1. w.h \in SUBSET Half /\ w.l \in SUBSET Half /\ t \in 1 .. W - 1 /\ 2 * W - s = W - t /\ s \in Int
  BY DEF Words, Width
<1>2. v \in Words
  BY <1>1 DEF Words, Shl, Shr
<1>3. rotr(Whole(w), s) \in SUBSET Wide
  BY <1>1, WholeBits, RotatedTyped
<1>4. ASSUME NEW b \in Half
      PROVE  (b \in rotr(Whole(w), s) <=> b \in v.l) /\ (b + W \in rotr(Whole(w), s) <=> b \in v.h)
  <2>1. /\ s \in 1 .. 2 * W - 1 /\ b \in Wide /\ b + W \in Wide /\ Whole(w) \in SUBSET Wide
    BY WholeBits DEF Half, Wide, Width
  <2>2. \A c \in Wide : c \in rotr(Whole(w), s) <=>
                            \/ c + s < 2 * W /\ c + s \in Whole(w)
                            \/ c + s >= 2 * W /\ c + s - 2 * W \in Whole(w)
    BY <2>1, RotatedBits
  <2>3. b \in rotr(Whole(w), s) <=> b \in v.l
    <3>1. b \in v.l <=> \/ b + t < W /\ b + t \in w.h
                        \/ b + t >= W /\ b + t - W \in w.l
      BY <1>1, Funnel
    <3>2. b \in rotr(Whole(w), s) <=> \/ b + s < 2 * W /\ b + s \in Whole(w)
                                      \/ b + s >= 2 * W /\ b + s - 2 * W \in Whole(w)
      BY <2>1, <2>2
    <3>3. b + t < W => b + t \in Half /\ b + s = (b + t) + W /\ b + s < 2 * W
      BY DEF Half, Width
    <3>4. b + t >= W => b + t - W \in Half /\ b + s - 2 * W = b + t - W /\ b + s >= 2 * W
      BY DEF Half, Width
    <3>5. QED
      BY <3>1, <3>2, <3>3, <3>4, WholeBits DEF Half, Width
  <2>4. b + W \in rotr(Whole(w), s) <=> b \in v.h
    <3>1. b \in v.h <=> \/ b + t < W /\ b + t \in w.l
                        \/ b + t >= W /\ b + t - W \in w.h
      BY <1>1, Funnel
    <3>2. b + W \in rotr(Whole(w), s) <=> \/ b + W + s < 2 * W /\ b + W + s \in Whole(w)
                                          \/ b + W + s >= 2 * W /\ b + W + s - 2 * W \in Whole(w)
      BY <2>1, <2>2
    <3>3. b + W + s >= 2 * W /\ b + W + s - 2 * W = b + t /\ ~(b + W + s < 2 * W)
      BY DEF Half, Width
    <3>4. b + t < W => b + t \in Half
      BY DEF Half, Width
    <3>5. b + t >= W => b + t - W \in Half /\ b + t = (b + t - W) + W
      BY DEF Half, Width
    <3>6. QED
      BY <3>1, <3>2, <3>3, <3>4, <3>5, WholeBits DEF Half, Width
  <2>5. QED
    BY <2>3, <2>4
<1>5. Whole(v) = rotr(Whole(w), s)
  BY <1>2, <1>3, <1>4, SameWhole
<1>6. [h |-> rotrBH(w.h, w.l, s), l |-> rotrBL(w.h, w.l, s)] = v
  BY <1>1 DEF rotrBH, rotrBL
<1>7. QED
  BY <1>5, <1>6

\* SHA-512's rotations, by any count but that of a half, which it does not use: on two
\* halves they are the rotation of the whole word (web/wallet.js:438-447, 732-750).
THEOREM RotationsAreWhole ==
    ASSUME Width, NEW w \in Words, NEW s \in (1 .. 2 * W - 1) \ {W}
    PROVE  Whole(rotrW(w, s)) = rotr(Whole(w), s)
<1>1. CASE s < W
  BY <1>1, RotatedByLess DEF rotrW, Width
<1>2. CASE ~(s < W)
  BY <1>2, RotatedByMore DEF rotrW, Width
<1>3. QED
  BY <1>1, <1>2

\* The shift, by less than a half (web/wallet.js:438-439, 732-739).
THEOREM ShiftIsWhole ==
    ASSUME Width, NEW w \in Words, NEW s \in 1 .. W - 1
    PROVE  Whole(shrW(w, s)) = shr(Whole(w), s)
<1> DEFINE v == [h |-> Shr(w.h, s), l |-> Shr(w.l, s) \cup Shl(w.h, W - s)]
<1>1. w.h \in SUBSET Half /\ w.l \in SUBSET Half
  BY DEF Words
<1>2. v \in Words
  BY <1>1 DEF Words, Shl, Shr
<1>3. shr(Whole(w), s) \in SUBSET Wide
  BY DEF shr
<1>4. ASSUME NEW b \in Half
      PROVE  (b \in shr(Whole(w), s) <=> b \in v.l) /\ (b + W \in shr(Whole(w), s) <=> b \in v.h)
  <2>1. \A c \in Wide : c \in shr(Whole(w), s) <=> c + s \in Whole(w)
    <3>1. \A c : c \in shr(Whole(w), s) <=> c \in Wide /\ \E d \in Whole(w) : c = d - s
      BY DEF shr
    <3>2. \A d \in Whole(w) : d \in Int
      BY WholeBits DEF Wide
    <3>3. QED
      BY <3>1, <3>2 DEF Wide, Width
  <2>2. b \in Wide /\ b + W \in Wide
    BY DEF Half, Wide, Width
  <2>3. b \in v.l <=> \/ b + s < W /\ b + s \in w.l
                      \/ b + s >= W /\ b + s - W \in w.h
    BY <1>1, Funnel
  <2>4. b \in v.h <=> b + s \in w.h
    BY <1>1, ShiftBits
  <2>5. (b \in shr(Whole(w), s) <=> b + s \in Whole(w)) /\ (b + W \in shr(Whole(w), s) <=> b + W + s \in Whole(w))
    BY <2>1, <2>2
  <2>6. CASE b + s < W
    <3>1. b + s \in Half /\ b + W + s = (b + s) + W
      BY <2>6 DEF Half, Width
    <3>2. QED
      BY <2>3, <2>4, <2>5, <2>6, <3>1, WholeBits DEF Half, Width
  <2>7. CASE b + s >= W
    <3>1. b + s - W \in Half /\ b + s = (b + s - W) + W /\ b + s \notin Half /\ b + W + s \notin Wide
      BY <2>7 DEF Half, Wide, Width
    <3>2. b + W + s \notin Whole(w) /\ b + s \notin w.h
      BY <1>1, <3>1, WholeBits
    <3>3. QED
      BY <2>3, <2>4, <2>5, <2>7, <3>1, <3>2, WholeBits DEF Half, Width
  <2>8. QED
    BY <2>6, <2>7 DEF Half, Width
<1>5. Whole(v) = shr(Whole(w), s)
  BY <1>2, <1>3, <1>4, SameWhole
<1>6. shrW(w, s) = v
  BY DEF shrW, shrSH, shrSL
<1>7. QED
  BY <1>5, <1>6

\* The Boolean functions of a round, half by half, are those of the whole words
\* (web/wallet.js:734-759).
THEOREM BooleansAreWhole ==
    ASSUME Width, NEW a \in Words, NEW b \in Words, NEW c \in Words
    PROVE  /\ Whole(Xor3W(a, b, c)) = Xor3(Whole(a), Whole(b), Whole(c))
           /\ Whole(ChiW(a, b, c)) = Chi(Whole(a), Whole(b), Whole(c))
           /\ Whole(MajW(a, b, c)) = Maj(Whole(a), Whole(b), Whole(c))
<1>1. Xor3W(a, b, c) \in Words /\ ChiW(a, b, c) \in Words /\ MajW(a, b, c) \in Words
  BY DEF Words, Xor3W, ChiW, MajW, Xor3, Xor, Not
<1>2. \A w \in Words : Whole(w) \in SUBSET Wide
  BY WholeBits
<1>3. /\ Xor3(Whole(a), Whole(b), Whole(c)) \in SUBSET Wide
      /\ Chi(Whole(a), Whole(b), Whole(c)) \in SUBSET Wide
      /\ Maj(Whole(a), Whole(b), Whole(c)) \in SUBSET Wide
  BY <1>2 DEF Xor3, Xor, Chi, Maj
<1>4. ASSUME NEW n \in Half
      PROVE  /\ n \in Whole(a) <=> n \in a.l
             /\ n \in Whole(b) <=> n \in b.l
             /\ n \in Whole(c) <=> n \in c.l
             /\ n + W \in Whole(a) <=> n \in a.h
             /\ n + W \in Whole(b) <=> n \in b.h
             /\ n + W \in Whole(c) <=> n \in c.h
             /\ n \in Wide /\ n + W \in Wide
  BY WholeBits DEF Half, Wide, Width
<1>5. Whole(Xor3W(a, b, c)) = Xor3(Whole(a), Whole(b), Whole(c))
  <2>1. ASSUME NEW n \in Half
        PROVE  /\ n \in Xor3(Whole(a), Whole(b), Whole(c)) <=> n \in Xor3W(a, b, c).l
               /\ n + W \in Xor3(Whole(a), Whole(b), Whole(c)) <=> n \in Xor3W(a, b, c).h
    BY <1>4 DEF Xor3W, Xor3, Xor
  <2>2. QED
    BY <1>1, <1>3, <2>1, SameWhole
<1>6. Whole(ChiW(a, b, c)) = Chi(Whole(a), Whole(b), Whole(c))
  <2>1. ASSUME NEW n \in Half
        PROVE  /\ n \in Chi(Whole(a), Whole(b), Whole(c)) <=> n \in ChiW(a, b, c).l
               /\ n + W \in Chi(Whole(a), Whole(b), Whole(c)) <=> n \in ChiW(a, b, c).h
    BY <1>4 DEF ChiW, Chi, Xor, Not
  <2>2. QED
    BY <1>1, <1>3, <2>1, SameWhole
<1>7. Whole(MajW(a, b, c)) = Maj(Whole(a), Whole(b), Whole(c))
  <2>1. ASSUME NEW n \in Half
        PROVE  /\ n \in Maj(Whole(a), Whole(b), Whole(c)) <=> n \in MajW(a, b, c).l
               /\ n + W \in Maj(Whole(a), Whole(b), Whole(c)) <=> n \in MajW(a, b, c).h
    BY <1>4 DEF MajW, Maj, Xor3, Xor
  <2>2. QED
    BY <1>1, <1>3, <2>1, SameWhole
<1>8. QED
  BY <1>5, <1>6, <1>7

-----------------------------------------------------------------------------
(* Keccak's rotations, and the steps that work on every lane alike *)

\* The lane whose low half is at place p, and the place of the lane at x and y.
Lane(s, p) == [l |-> s[p], h |-> s[p + 1]]
PlaceAt(x, y) == 2 * (5 * y + x)
States == [Places -> SUBSET Half]

\* A whole word that is rotated to the left, by a count and by what is left of it.
LEMMA LeftIsRight ==
    ASSUME Width, NEW x \in SUBSET Wide, NEW s \in 1 .. 2 * W - 1
    PROVE  Rotated(x, s) = rotr(x, 2 * W - s)
<1>1. 2 * W \in Nat \ {0}
  BY DEF Width
<1>2. ASSUME NEW b \in Wide
      PROVE  (b + s) % (2 * W) = (b - (2 * W - s)) % (2 * W)
  <2>1. CASE b + s < 2 * W
    <3>1. b + s \in 0 .. 2 * W - 1 /\ b - (2 * W - s) \in -(2 * W) .. -1 /\ b - (2 * W - s) + 2 * W = b + s
      BY <2>1 DEF Wide, Width
    <3>2. QED
      BY <1>1, <3>1, Remainder
  <2>2. CASE b + s >= 2 * W
    <3>1. b + s \in 2 * W .. 2 * (2 * W) - 1 /\ b - (2 * W - s) \in 0 .. 2 * W - 1 /\ b + s - 2 * W = b - (2 * W - s)
      BY <2>2 DEF Wide, Width
    <3>2. (b + s) % (2 * W) = b + s - 2 * W
      BY <1>1, <3>1, Remainder DEF Wide, Width
    <3>3. (b - (2 * W - s)) % (2 * W) = b - (2 * W - s)
      BY <1>1, <3>1, Remainder DEF Wide, Width
    <3>4. QED
      BY <3>1, <3>2, <3>3
  <2>3. QED
    BY <2>1, <2>2 DEF Wide, Width
<1>3. QED
  BY <1>2 DEF Rotated, rotr

\* A lane in halves that is rotated to the left (web/wallet.js:5257-5258).
LEMMA LanesRotate ==
    ASSUME Width, NEW a \in SUBSET Half, NEW b \in SUBSET Half, NEW s \in (1 .. 2 * W - 1) \ {W}
    PROVE  Whole([l |-> rotlH(a, b, s), h |-> rotlL(a, b, s)]) = Rotated(Whole([l |-> a, h |-> b]), s)
<1> DEFINE w == [l |-> a, h |-> b]
           t == 2 * W - s
<1>1. w \in Words /\ t \in (1 .. 2 * W - 1) \ {W} /\ w.l = a /\ w.h = b
  BY DEF Words, Width
<1>2. Rotated(Whole(w), s) = rotr(Whole(w), t)
  BY WholeBits, LeftIsRight, <1>1
<1>3. Whole(rotrW(w, t)) = rotr(Whole(w), t)
  BY <1>1, RotationsAreWhole
<1>4. rotrW(w, t).l = rotlH(a, b, s) /\ rotrW(w, t).h = rotlL(a, b, s)
  <2>1. CASE s < W
    <3>1. ~(t < W) /\ 2 * W - t = s /\ t - W = W - s /\ ~(s > W)
      BY <2>1 DEF Width
    <3>2. QED
      BY <3>1, <1>1 DEF rotrW, rotrBH, rotrBL, rotlH, rotlL, rotlSH, rotlSL
  <2>2. CASE s > W
    <3>1. t < W /\ W - t = s - W
      BY <2>2 DEF Width
    <3>2. QED
      BY <2>2, <3>1, <1>1 DEF rotrW, rotrSH, rotrSL, rotlH, rotlL, rotlBH, rotlBL
  <2>3. QED
    BY <2>1, <2>2 DEF Width
<1>5. QED
  BY <1>2, <1>3, <1>4 DEF Whole

\* Half by half, the sum without carries of two lanes, and a lane cleared where
\* another is set, are those of the whole lanes.
LEMMA LanesCombine ==
    ASSUME Width, NEW v \in Words, NEW w \in Words
    PROVE  /\ Whole([l |-> Xor(v.l, w.l), h |-> Xor(v.h, w.h)]) = Xor(Whole(v), Whole(w))
           /\ Whole([l |-> Not(v.l) \cap w.l, h |-> Not(v.h) \cap w.h]) = Whole(w) \ Whole(v)
<1> DEFINE x == [l |-> Xor(v.l, w.l), h |-> Xor(v.h, w.h)]
           y == [l |-> Not(v.l) \cap w.l, h |-> Not(v.h) \cap w.h]
<1>1. x \in Words /\ y \in Words
  BY DEF Words, Xor, Not
<1>2. Xor(Whole(v), Whole(w)) \in SUBSET Wide /\ Whole(w) \ Whole(v) \in SUBSET Wide
  BY WholeBits DEF Xor
<1>3. ASSUME NEW n \in Half
      PROVE  /\ n \in Xor(Whole(v), Whole(w)) <=> n \in x.l
             /\ n + W \in Xor(Whole(v), Whole(w)) <=> n \in x.h
             /\ n \in Whole(w) \ Whole(v) <=> n \in y.l
             /\ n + W \in Whole(w) \ Whole(v) <=> n \in y.h
  <2>1. /\ n \in Whole(v) <=> n \in v.l
        /\ n \in Whole(w) <=> n \in w.l
        /\ n + W \in Whole(v) <=> n \in v.h
        /\ n + W \in Whole(w) <=> n \in w.h
    BY WholeBits
  <2>2. QED
    BY <2>1 DEF Xor, Not
<1>4. Whole(x) = Xor(Whole(v), Whole(w))
  BY <1>1, <1>2, <1>3, SameWhole
<1>5. Whole(y) = Whole(w) \ Whole(v)
  BY <1>1, <1>2, <1>3, SameWhole
<1>6. QED
  BY <1>4, <1>5

\* The places of lanes, and their lanes.
LEMMA LanesTyped ==
    ASSUME Width, NEW s \in States, NEW a \in Lanes
    PROVE  /\ PlaceAt(a[1], a[2]) \in Places /\ PlaceAt(a[1], a[2]) + 1 \in Places
           /\ Lane(s, PlaceAt(a[1], a[2])) \in Words
           /\ State(s)[a] = Whole(Lane(s, PlaceAt(a[1], a[2])))
<1>1. PlaceAt(a[1], a[2]) \in Places /\ PlaceAt(a[1], a[2]) + 1 \in Places
  BY DEF Lanes, Places, PlaceAt
<1>2. Lane(s, PlaceAt(a[1], a[2])) \in Words
  BY <1>1 DEF Lane, Words, States
<1>3. State(s)[a] = Whole(Lane(s, PlaceAt(a[1], a[2])))
  BY DEF State, LaneAt, Lane, Whole, Add1, PlaceAt
<1>4. QED
  BY <1>1, <1>2, <1>3
-----------------------------------------------------------------------------
(* The steps of a round of FIPS 202, on lanes *)

ColumnsOf(A) == [x \in 0 .. 4 |-> Xor3(A[<<x, 0>>], A[<<x, 1>>], Xor3(A[<<x, 2>>], A[<<x, 3>>], A[<<x, 4>>]))]
ThetaOf(A) == [a \in Lanes |-> Xor3(A[a], ColumnsOf(A)[(a[1] + 4) % 5], Rotated(ColumnsOf(A)[(a[1] + 1) % 5], 1))]
RhoPiOf(A) == [a \in Lanes |-> LET b == <<(a[1] + 3 * a[2]) % 5, a[1]>> IN Rotated(A[b], ReferenceOffset(b))]
ChiOf(A) == [a \in Lanes |-> Xor(A[a], A[<<(a[1] + 2) % 5, a[2]>>] \ A[<<(a[1] + 1) % 5, a[2]>>])]
IotaOf(A, round) == [A EXCEPT ![<<0, 0>>] = Xor(@, ReferenceConstant(round))]

\* A round of the standard takes these steps one after the other.
LEMMA ReferenceSteps ==
    ASSUME NEW A, NEW round
    PROVE  ReferenceRound(A, round) = IotaOf(ChiOf(RhoPiOf(ThetaOf(A))), round)
<1> DEFINE rho == [a \in Lanes |-> Rotated(ThetaOf(A)[a], ReferenceOffset(a))]
           pi == [a \in Lanes |-> rho[<<(a[1] + 3 * a[2]) % 5, a[1]>>]]
<1>1. ASSUME NEW a \in Lanes
      PROVE  <<(a[1] + 3 * a[2]) % 5, a[1]>> \in Lanes
  BY DEF Lanes
<1>2. ASSUME NEW a \in Lanes
      PROVE  pi[a] = RhoPiOf(ThetaOf(A))[a]
  BY <1>1 DEF RhoPiOf
<1>3. pi = RhoPiOf(ThetaOf(A))
  BY <1>2 DEF RhoPiOf
<1>4. ReferenceRound(A, round) = IotaOf(ChiOf(pi), round)
  BY Zenon DEF ReferenceRound, IotaOf, ChiOf, ThetaOf, ColumnsOf
<1>5. QED
  BY <1>3, <1>4, Zenon

-----------------------------------------------------------------------------
(* Theta *)

\* The column of lanes in the halves of the code, and in the lanes of the standard.
Parity(s, p) == Xor3(s[p], s[p + 10], Xor3(s[p + 20], s[p + 30], s[p + 40]))
Column(s, x) == [l |-> Parity(s, 2 * x), h |-> Parity(s, 2 * x + 1)]

\* The parity of a column in halves is that of its lanes (web/wallet.js:5262-5263).
LEMMA ColumnsAreWhole ==
    ASSUME Width, NEW s \in States, NEW x \in 0 .. 4
    PROVE  Column(s, x) \in Words /\ Whole(Column(s, x)) = ColumnsOf(State(s))[x]
<1> DEFINE w(y) == Lane(s, 2 * x + 10 * y)
           Sum(v, u) == [l |-> Xor(v.l, u.l), h |-> Xor(v.h, u.h)]
<1>1. ASSUME NEW y \in 0 .. 4
      PROVE  w(y) \in Words /\ State(s)[<<x, y>>] = Whole(w(y))
  <2>1. <<x, y>> \in Lanes /\ PlaceAt(x, y) = 2 * x + 10 * y
    BY DEF Lanes, PlaceAt
  <2>2. QED
    BY <2>1, LanesTyped
<1>2. ASSUME NEW v \in Words, NEW u \in Words
      PROVE  Sum(v, u) \in Words /\ Whole(Sum(v, u)) = Xor(Whole(v), Whole(u))
  BY LanesCombine DEF Words, Xor
<1>3. Column(s, x) = Sum(w(0), Sum(w(1), Sum(w(2), Sum(w(3), w(4)))))
  BY DEF Column, Parity, Lane, Xor3
<1>4. ColumnsOf(State(s))[x] = Xor(Whole(w(0)), Xor(Whole(w(1)), Xor(Whole(w(2)), Xor(Whole(w(3)), Whole(w(4))))))
  BY <1>1 DEF ColumnsOf, Xor3
<1> HIDE DEF w, Sum
<1>5. w(0) \in Words /\ w(1) \in Words /\ w(2) \in Words /\ w(3) \in Words /\ w(4) \in Words
  BY <1>1
<1>6. QED
  BY <1>2, <1>3, <1>4, <1>5

\* What theta adds to every lane of a column, in halves.
Spread(s, x) ==
    LET next == 2 * ((x + 1) % 5)
        last == 2 * ((x + 4) % 5)
    IN [l |-> Xor(rotlH(Parity(s, next), Parity(s, next + 1), 1), Parity(s, last)),
        h |-> Xor(rotlL(Parity(s, next), Parity(s, next + 1), 1), Parity(s, last + 1))]

\* It is what the standard adds (web/wallet.js:5264-5270).
LEMMA SpreadIsWhole ==
    ASSUME Width, W > 1, NEW s \in States, NEW x \in 0 .. 4
    PROVE  /\ Spread(s, x) \in Words
           /\ Whole(Spread(s, x)) = Xor(ColumnsOf(State(s))[(x + 4) % 5], Rotated(ColumnsOf(State(s))[(x + 1) % 5], 1))
<1> DEFINE n == (x + 1) % 5
           m == (x + 4) % 5
           v == [l |-> rotlH(Column(s, n).l, Column(s, n).h, 1), h |-> rotlL(Column(s, n).l, Column(s, n).h, 1)]
<1>1. n \in 0 .. 4 /\ m \in 0 .. 4
  OBVIOUS
<1>2. /\ Column(s, n) \in Words /\ Whole(Column(s, n)) = ColumnsOf(State(s))[n]
      /\ Column(s, m) \in Words /\ Whole(Column(s, m)) = ColumnsOf(State(s))[m]
  BY <1>1, ColumnsAreWhole
<1>3. Whole(v) = Rotated(Whole(Column(s, n)), 1)
  <2>1. Column(s, n).l \in SUBSET Half /\ Column(s, n).h \in SUBSET Half /\ 1 \in (1 .. 2 * W - 1) \ {W}
    BY <1>2 DEF Words, Width
  <2>2. Whole(v) = Rotated(Whole([l |-> Column(s, n).l, h |-> Column(s, n).h]), 1)
    BY <2>1, LanesRotate
  <2>3. Whole([l |-> Column(s, n).l, h |-> Column(s, n).h]) = Whole(Column(s, n))
    BY DEF Whole
  <2>4. QED
    BY <2>2, <2>3
<1>4. v \in Words
  BY <1>2 DEF Words, rotlH, rotlL, rotlSH, rotlSL, rotlBH, rotlBL, Shl, Shr
<1>5. Spread(s, x) = [l |-> Xor(v.l, Column(s, m).l), h |-> Xor(v.h, Column(s, m).h)]
  BY DEF Spread, Column
<1> HIDE DEF v, n, m
<1>6. Spread(s, x) \in Words
  BY <1>2, <1>4, <1>5 DEF Words, Xor
<1>7. Whole(Spread(s, x)) = Xor(Whole(v), Whole(Column(s, m)))
  <2>1. v \in Words /\ Column(s, m) \in Words
    BY <1>2, <1>4
  <2>2. Whole([l |-> Xor(v.l, Column(s, m).l), h |-> Xor(v.h, Column(s, m).h)])
          = Xor(Whole(v), Whole(Column(s, m)))
    BY <2>1, LanesCombine, Zenon
  <2>3. QED
    BY <1>5, <2>2, Zenon
<1>8. Whole(Spread(s, x)) = Xor(ColumnsOf(State(s))[m], Rotated(ColumnsOf(State(s))[n], 1))
  BY <1>2, <1>3, <1>7 DEF Xor
<1>9. QED
  BY <1>6, <1>8 DEF n, m

\* Theta on halves is theta on lanes (web/wallet.js:5262-5275).
LEMMA ThetaIsReference ==
    ASSUME Width, W > 1, NEW s \in States
    PROVE  Theta(s) \in States /\ State(Theta(s)) = ThetaOf(State(s))
<1>1. ASSUME NEW x \in 0 .. 4, NEW y \in 0 .. 4
      PROVE  /\ Theta(s)[PlaceAt(x, y)] = Xor(s[PlaceAt(x, y)], Spread(s, x).l)
             /\ Theta(s)[PlaceAt(x, y) + 1] = Xor(s[PlaceAt(x, y) + 1], Spread(s, x).h)
  <2> DEFINE B == [z \in 0 .. 9 |-> Xor3(s[z], s[z + 10], Xor3(s[z + 20], s[z + 30], s[z + 40]))]
             Th(z) == Xor(rotlH(B[(z + 2) % 10], B[((z + 2) % 10) + 1], 1), B[(z + 8) % 10])
             Tl(z) == Xor(rotlL(B[(z + 2) % 10], B[((z + 2) % 10) + 1], 1), B[((z + 8) % 10) + 1])
             T == [z \in 0 .. 9 |-> IF z % 2 = 0 THEN Th(z) ELSE Tl(z - 1)]
             p == PlaceAt(x, y)
  <2>1. Theta(s) = [q \in Places |-> Xor(s[q], T[q % 10])]
    BY Zenon DEF Theta
  <2>2. \A z \in 0 .. 9 : B[z] = Parity(s, z)
    BY DEF Parity
  <2>3. /\ p \in Places /\ p + 1 \in Places /\ p % 10 = 2 * x /\ (p + 1) % 10 = 2 * x + 1
        /\ 2 * x \in 0 .. 9 /\ 2 * x + 1 \in 0 .. 9 /\ (2 * x) % 2 = 0 /\ (2 * x + 1) % 2 # 0
        /\ (2 * x + 2) % 10 = 2 * ((x + 1) % 5) /\ (2 * x + 8) % 10 = 2 * ((x + 4) % 5)
    BY DEF PlaceAt, Places
  <2>4. 2 * ((x + 1) % 5) \in 0 .. 8 /\ 2 * ((x + 4) % 5) \in 0 .. 8
    OBVIOUS
  <2> HIDE DEF B
  <2>5. Th(2 * x) = Spread(s, x).l /\ Tl(2 * x) = Spread(s, x).h
    BY <2>2, <2>3, <2>4 DEF Spread
  <2> HIDE DEF Th, Tl, p
  <2>6. T[p % 10] = Th(2 * x)
    BY <2>3
  <2>7. T[(p + 1) % 10] = Tl(2 * x)
    BY <2>3
  <2> HIDE DEF T
  <2>8. Theta(s)[p] = Xor(s[p], T[p % 10]) /\ Theta(s)[p + 1] = Xor(s[p + 1], T[(p + 1) % 10])
    BY <2>1, <2>3
  <2>9. QED
    BY <2>5, <2>6, <2>7, <2>8 DEF p
<1>2. Theta(s) \in States
  <2>1. ASSUME NEW p \in Places
        PROVE  Theta(s)[p] \in SUBSET Half
    <3>1. PICK x \in 0 .. 4, y \in 0 .. 4 : p = PlaceAt(x, y) \/ p = PlaceAt(x, y) + 1
      <4>1. (p \div 2) % 5 \in 0 .. 4 /\ p \div 10 \in 0 .. 4
        BY DEF Places
      <4>2. p = PlaceAt((p \div 2) % 5, p \div 10) \/ p = PlaceAt((p \div 2) % 5, p \div 10) + 1
        BY DEF Places, PlaceAt
      <4>3. QED
        BY <4>1, <4>2
    <3>2. Spread(s, x) \in Words
      BY SpreadIsWhole
    <3>3. s[p] \in SUBSET Half
      BY DEF States
    <3>4. QED
      BY <1>1, <3>1, <3>2, <3>3 DEF Words, Xor
  <2>2. Theta(s) = [p \in Places |-> Theta(s)[p]]
    BY DEF Theta
  <2>3. QED
    BY <2>1, <2>2 DEF States
<1>3. ASSUME NEW a \in Lanes
      PROVE  State(Theta(s))[a] = ThetaOf(State(s))[a]
  <2> DEFINE x == a[1]
             y == a[2]
             p == PlaceAt(x, y)
  <2>1. x \in 0 .. 4 /\ y \in 0 .. 4
    BY DEF Lanes
  <2>2. /\ Lane(s, p) \in Words /\ State(s)[a] = Whole(Lane(s, p))
        /\ State(Theta(s))[a] = Whole(Lane(Theta(s), p))
    BY <1>2, LanesTyped
  <2>3. Lane(Theta(s), p) = [l |-> Xor(Lane(s, p).l, Spread(s, x).l), h |-> Xor(Lane(s, p).h, Spread(s, x).h)]
    BY <1>1, <2>1 DEF Lane
  <2>4. Spread(s, x) \in Words
    BY <2>1, SpreadIsWhole
  <2> HIDE DEF p
  <2>5. State(Theta(s))[a] = Xor(Whole(Lane(s, p)), Whole(Spread(s, x)))
    <3> DEFINE v == Lane(s, p)
               w == Spread(s, x)
    <3>1. v \in Words /\ w \in Words
      BY <2>2, <2>4
    <3> HIDE DEF v, w
    <3>2. Whole([l |-> Xor(v.l, w.l), h |-> Xor(v.h, w.h)]) = Xor(Whole(v), Whole(w))
      BY <3>1, LanesCombine
    <3>3. QED
      BY <2>2, <2>3, <3>2 DEF v, w
  <2>6. Whole(Spread(s, x)) = Xor(ColumnsOf(State(s))[(x + 4) % 5], Rotated(ColumnsOf(State(s))[(x + 1) % 5], 1))
    BY <2>1, SpreadIsWhole
  <2>7. QED
    BY <2>2, <2>5, <2>6 DEF ThetaOf, Xor3
<1>4. State(Theta(s)) = [a \in Lanes |-> State(Theta(s))[a]] /\ ThetaOf(State(s)) = [a \in Lanes |-> ThetaOf(State(s))[a]]
  BY DEF State, ThetaOf
<1>5. QED
  BY <1>2, <1>3, <1>4
-----------------------------------------------------------------------------
(* Chi *)

\* Chi on halves is chi on lanes (web/wallet.js:5288-5293).
LEMMA ChiIsReference ==
    ASSUME Width, NEW s \in States
    PROVE  ChiStep(s) \in States /\ State(ChiStep(s)) = ChiOf(State(s))
<1> DEFINE row(p) == 10 * (p \div 10)
           next(p, n) == s[row(p) + (((p % 10) + n) % 10)]
<1>1. ChiStep(s) = [p \in Places |-> Xor(s[p], Not(next(p, 2)) \cap next(p, 4))]
  BY DEF ChiStep
<1>2. ASSUME NEW p \in Places
      PROVE  ChiStep(s)[p] \in SUBSET Half
  <2>1. row(p) + (((p % 10) + 4) % 10) \in Places
    BY DEF Places
  <2>2. next(p, 4) \in SUBSET Half /\ s[p] \in SUBSET Half
    BY <2>1 DEF States
  <2> HIDE DEF next
  <2>3. QED
    BY <1>1, <2>2 DEF Xor
<1>3. ChiStep(s) \in States
  BY <1>1, <1>2 DEF States
<1>4. ASSUME NEW a \in Lanes
      PROVE  State(ChiStep(s))[a] = ChiOf(State(s))[a]
  <2> DEFINE x == a[1]
             y == a[2]
             p == PlaceAt(x, y)
             p1 == PlaceAt((x + 1) % 5, y)
             p2 == PlaceAt((x + 2) % 5, y)
             u == Lane(s, p1)
             v == Lane(s, p2)
             w == Lane(s, p)
             c == [l |-> Not(u.l) \cap v.l, h |-> Not(u.h) \cap v.h]
  <2>1. x \in 0 .. 4 /\ y \in 0 .. 4 /\ <<(x + 1) % 5, y>> \in Lanes /\ <<(x + 2) % 5, y>> \in Lanes
    BY DEF Lanes
  <2>2. /\ p \in Places /\ p + 1 \in Places
        /\ row(p) + (((p % 10) + 2) % 10) = p1 /\ row(p) + (((p % 10) + 4) % 10) = p2
        /\ row(p + 1) + ((((p + 1) % 10) + 2) % 10) = p1 + 1 /\ row(p + 1) + ((((p + 1) % 10) + 4) % 10) = p2 + 1
    BY <2>1 DEF PlaceAt, Places
  <2>3. /\ w \in Words /\ State(s)[a] = Whole(w)
        /\ State(ChiStep(s))[a] = Whole(Lane(ChiStep(s), p))
    BY <1>3, LanesTyped
  <2>4. u \in Words /\ State(s)[<<(x + 1) % 5, y>>] = Whole(u)
    BY <2>1, LanesTyped
  <2>5. v \in Words /\ State(s)[<<(x + 2) % 5, y>>] = Whole(v)
    BY <2>1, LanesTyped
  <2>6. Lane(ChiStep(s), p) = [l |-> Xor(w.l, c.l), h |-> Xor(w.h, c.h)]
    <3>1. /\ ChiStep(s)[p] = Xor(s[p], Not(next(p, 2)) \cap next(p, 4))
          /\ ChiStep(s)[p + 1] = Xor(s[p + 1], Not(next(p + 1, 2)) \cap next(p + 1, 4))
      BY <1>1, <2>2
    <3>2. next(p, 2) = u.l /\ next(p, 4) = v.l /\ next(p + 1, 2) = u.h /\ next(p + 1, 4) = v.h
      BY <2>2 DEF Lane
    <3> HIDE DEF next, p, p1, p2
    <3>3. QED
      BY <3>1, <3>2 DEF Lane
  <2> HIDE DEF u, v, w
  <2>7. c \in Words /\ Whole(c) = Whole(v) \ Whole(u)
    <3>1. c \in Words
      BY <2>4, <2>5 DEF Words
    <3>2. QED
      BY <2>4, <2>5, <3>1, LanesCombine
  <2> HIDE DEF c
  <2>8. Whole([l |-> Xor(w.l, c.l), h |-> Xor(w.h, c.h)]) = Xor(Whole(w), Whole(c))
    BY <2>3, <2>7, LanesCombine
  <2>9. ChiOf(State(s))[a] = Xor(State(s)[a], State(s)[<<(x + 2) % 5, y>>] \ State(s)[<<(x + 1) % 5, y>>])
    BY DEF ChiOf
  <2> HIDE DEF x, y
  <2>10. QED
    BY <2>3, <2>4, <2>5, <2>6, <2>7, <2>8, <2>9
<1>5. State(ChiStep(s)) = [a \in Lanes |-> State(ChiStep(s))[a]] /\ ChiOf(State(s)) = [a \in Lanes |-> ChiOf(State(s))[a]]
  BY DEF State, ChiOf
<1>6. QED
  BY <1>3, <1>4, <1>5
-----------------------------------------------------------------------------
(* Rho and pi *)

\* The places that the loop over the table visits (web/wallet.js:5241-5243).
Visits == << <<1, 0>>, <<0, 2>>, <<2, 1>>, <<1, 2>>, <<2, 3>>, <<3, 3>>, <<3, 0>>, <<0, 1>>, <<1, 3>>,
             <<3, 1>>, <<1, 4>>, <<4, 4>>, <<4, 0>>, <<0, 3>>, <<3, 4>>, <<4, 3>>, <<3, 2>>, <<2, 2>>,
             <<2, 0>>, <<0, 4>>, <<4, 2>>, <<2, 4>>, <<4, 1>>, <<1, 1>>, <<1, 0>> >>

\* The table has these places, for they are what the loop computes.
LEMMA VisitIs ==
    /\ \A n \in 0 .. 24 : Visit[n] = Visits[n + 1]
    /\ \A n \in 1 .. 24 : Visit[n] = <<Visit[n - 1][2], (2 * Visit[n - 1][1] + 3 * Visit[n - 1][2]) % 5>>
<1> DEFINE Table(f) == f = [n \in 0 .. 24 |-> IF n = 0 THEN <<1, 0>>
                                              ELSE LET v == f[n - 1] IN <<v[2], (2 * v[1] + 3 * v[2]) % 5>>]
           f == [n \in 0 .. 24 |-> Visits[n + 1]]
<1>1. ASSUME NEW n \in 0 .. 24
      PROVE  f[n] = IF n = 0 THEN <<1, 0>> ELSE <<f[n - 1][2], (2 * f[n - 1][1] + 3 * f[n - 1][2]) % 5>>
  BY SMTT(30) DEF Visits
<1>2. Table(f)
  BY <1>1
<1> HIDE DEF f
<1>3. Table(CHOOSE g : Table(g))
  BY <1>2, Zenon
<1>4. Visit = CHOOSE g : Table(g)
  BY Zenon DEF Visit
<1>5. Table(Visit)
  BY <1>3, <1>4, Zenon
<1>6. \A n \in 1 .. 24 : Visit[n] = <<Visit[n - 1][2], (2 * Visit[n - 1][1] + 3 * Visit[n - 1][2]) % 5>>
  <2>1. ASSUME NEW n \in 1 .. 24
        PROVE  n \in 0 .. 24 /\ n # 0
    OBVIOUS
  <2>2. QED
    BY <1>5, <2>1, ZenonT(60)
<1>7. Visit[0] = <<1, 0>>
  BY <1>5
<1>8. \A n \in 0 .. 24 : Visit[n] = Visits[n + 1]
  <2> DEFINE S == {n \in Nat : n <= 24 => Visit[n] = Visits[n + 1]}
  <2>1. 0 \in S
    BY <1>7 DEF Visits
  <2>2. ASSUME NEW n \in Nat, n \in S
        PROVE  n + 1 \in S
    <3>1. SUFFICES ASSUME n + 1 <= 24
                   PROVE  Visit[n + 1] = Visits[n + 2]
      BY <2>2
    <3>2. Visit[n] = Visits[n + 1] /\ n + 1 \in 1 .. 24 /\ (n + 1) - 1 = n
      BY <2>2, <3>1
    <3>3. Visit[n + 1] = <<Visits[n + 1][2], (2 * Visits[n + 1][1] + 3 * Visits[n + 1][2]) % 5>>
      BY <1>6, <3>2
    <3>4. n + 1 \in 0 .. 24 /\ f[n + 1] = Visits[n + 2] /\ f[n] = Visits[n + 1]
      BY <3>2 DEF f
    <3>5. f[n + 1] = <<f[n][2], (2 * f[n][1] + 3 * f[n][2]) % 5>>
      BY <1>1, <3>2, <3>4
    <3>6. QED
      BY <3>3, <3>4, <3>5
  <2> HIDE DEF S
  <2>3. \A n \in Nat : n \in S
    BY <2>1, <2>2, AllNumbers
  <2>4. QED
    BY <2>3 DEF S
<1>9. QED
  BY <1>6, <1>8

\* The loop visits every lane but the first, and each once.
LEMMA VisitsAll ==
    /\ \A t \in 0 .. 24 : Visit[t] \in Lanes \ {<<0, 0>>}
    /\ \A t \in 0 .. 23, u \in 0 .. 23 : Visit[t] = Visit[u] => t = u
    /\ \A t \in 0 .. 23, u \in 0 .. 23 : Visit[t + 1] = Visit[u + 1] => t = u
    /\ \A a \in Lanes \ {<<0, 0>>} : \E t \in 0 .. 23 : Visit[t + 1] = a
<1>1. \A t \in 0 .. 24 : Visit[t] \in Lanes \ {<<0, 0>>}
  <2>1. \A n \in 1 .. 25 : Visits[n] \in Lanes \ {<<0, 0>>}
    BY DEF Visits, Lanes
  <2>2. QED
    BY <2>1, VisitIs, SMTT(30)
<1>2. \A t \in 0 .. 23, u \in 0 .. 23 : Visit[t] = Visit[u] => t = u
  BY VisitIs DEF Visits
<1>3. \A t \in 0 .. 23, u \in 0 .. 23 : Visit[t + 1] = Visit[u + 1] => t = u
  BY VisitIs DEF Visits
<1>4. ASSUME NEW a \in Lanes \ {<<0, 0>>}
      PROVE  \E t \in 0 .. 23 : Visit[t + 1] = a
  <2> DEFINE before == <<23, 17, 5, 11, 6, 22, 1, 8, 21, 0, 2, 16,
                         15, 19, 12, 7, 3, 4, 14, 18, 9, 20, 13, 10>>
             n == 5 * a[2] + a[1]
             t == before[n]
  <2>1. a[1] \in 0 .. 4 /\ a[2] \in 0 .. 4 /\ a = <<a[1], a[2]>> /\ n \in 1 .. 24
    BY DEF Lanes
  <2>2. t \in 0 .. 23 /\ Visits[t + 2] = <<n % 5, n \div 5>>
    BY <2>1 DEF Visits
  <2>3. n % 5 = a[1] /\ n \div 5 = a[2]
    BY <2>1
  <2>4. Visit[t + 1] = Visits[t + 2]
    <3> HIDE DEF t
    <3>1. t + 1 \in 0 .. 24 /\ (t + 1) + 1 = t + 2
      BY <2>2
    <3>2. QED
      BY <3>1, VisitIs
  <2> HIDE DEF t
  <2>5. QED
    BY <2>1, <2>2, <2>3, <2>4
<1>5. QED
  BY <1>1, <1>2, <1>3, <1>4

\* A rotation by a whole number of times the width, and more, is one by what is more.
LEMMA RotatedModulo ==
    ASSUME W = 32, NEW x \in SUBSET Wide, NEW n \in Nat
    PROVE  Rotated(x, n) = Rotated(x, n % (2 * W)) /\ Rotated(x, 0) = x
<1>1. ASSUME NEW b \in Wide
      PROVE  (b + n) % (2 * W) = (b + (n % (2 * W))) % (2 * W) /\ (b + 0) % (2 * W) = b
  BY DEF Wide
<1>2. QED
  BY <1>1 DEF Rotated

\* The counts of the rotations, none of which is that of a half (web/wallet.js:5245).
LEMMA Counts ==
    ASSUME W = 32, NEW t \in 0 .. 23
    PROVE  /\ ((t + 1) * (t + 2)) \div 2 \in Nat
           /\ SHA3_ROTL(t) \in (1 .. 2 * W - 1) \ {W}
<1> DEFINE count == <<1, 3, 6, 10, 15, 21, 28, 36, 45, 55, 66, 78,
                      91, 105, 120, 136, 153, 171, 190, 210, 231, 253, 276, 300>>
<1>1. ((t + 1) * (t + 2)) \div 2 = count[t + 1]
  OBVIOUS
<1>2. count[t + 1] \in Nat /\ count[t + 1] % 64 \in (1 .. 63) \ {32}
  OBVIOUS
<1>3. QED
  BY <1>1, <1>2 DEF SHA3_ROTL

\* The loop finds the lane of each place, and takes there the lane it visited before.
LEMMA MovesAre ==
    ASSUME NEW t \in 0 .. 23, NEW a \in Lanes, a = Visit[t + 1]
    PROVE  /\ SHA3_PI(t) = PlaceAt(a[1], a[2])
           /\ (CHOOSE u \in 0 .. 23 : SHA3_PI(u) = PlaceAt(a[1], a[2])) = t
           /\ Visit[t] = <<(a[1] + 3 * a[2]) % 5, a[1]>>
           /\ (IF t = 0 THEN 2 ELSE SHA3_PI(t - 1)) = PlaceAt(Visit[t][1], Visit[t][2])
           /\ ReferenceOffset(Visit[t]) = ((t + 1) * (t + 2)) \div 2
<1>1. SHA3_PI(t) = PlaceAt(a[1], a[2])
  BY DEF SHA3_PI, PlaceAt
<1>2. ASSUME NEW u \in 0 .. 23, SHA3_PI(u) = PlaceAt(a[1], a[2])
      PROVE  u = t
  <2> DEFINE b == Visit[u + 1]
  <2>1. b \in Lanes
    BY VisitsAll
  <2>2. PlaceAt(b[1], b[2]) = PlaceAt(a[1], a[2])
    BY <1>2 DEF SHA3_PI, PlaceAt
  <2>3. b[1] = a[1] /\ b[2] = a[2]
    BY <2>1, <2>2 DEF Lanes, PlaceAt
  <2>4. b = a
    BY <2>1, <2>3 DEF Lanes
  <2>5. QED
    BY <2>4, VisitsAll
<1>3. (CHOOSE u \in 0 .. 23 : SHA3_PI(u) = PlaceAt(a[1], a[2])) = t
  BY <1>1, <1>2
<1>4. Visit[t] \in Lanes /\ t + 1 \in 1 .. 24 /\ (t + 1) - 1 = t
  BY VisitsAll
<1>5. a = <<Visit[t][2], (2 * Visit[t][1] + 3 * Visit[t][2]) % 5>>
  BY <1>4, VisitIs
<1>6. Visit[t] = <<(a[1] + 3 * a[2]) % 5, a[1]>>
  <2> DEFINE x == Visit[t][1]
             y == Visit[t][2]
  <2>1. x \in 0 .. 4 /\ y \in 0 .. 4 /\ Visit[t] = <<x, y>>
    BY <1>4 DEF Lanes
  <2>2. a[1] = y /\ a[2] = (2 * x + 3 * y) % 5
    BY <1>5
  <2> HIDE DEF x, y
  <2>3. (y + 3 * ((2 * x + 3 * y) % 5)) % 5 = x
    BY <2>1
  <2>4. QED
    BY <2>1, <2>2, <2>3
<1>7. (IF t = 0 THEN 2 ELSE SHA3_PI(t - 1)) = PlaceAt(Visit[t][1], Visit[t][2])
  <2>1. CASE t = 0
    <3>1. Visit[0] = <<1, 0>>
      BY VisitIs DEF Visits
    <3>2. QED
      BY <2>1, <3>1 DEF PlaceAt
  <2>2. CASE t # 0
    BY <2>2 DEF PlaceAt, SHA3_PI
  <2>3. QED
    BY <2>1, <2>2
<1>8. (CHOOSE u \in 0 .. 23 : Visit[u] = Visit[t]) = t
  BY VisitsAll
<1>9. Visit[t] # <<0, 0>>
  BY <1>4, VisitsAll
<1>10. ReferenceOffset(Visit[t]) = ((t + 1) * (t + 2)) \div 2
  BY <1>8, <1>9, Zenon DEF ReferenceOffset
<1>11. QED
  BY <1>1, <1>3, <1>6, <1>7, <1>10

\* The lanes carried from place to place are turned and moved as by rho and pi
\* (web/wallet.js:5276-5287).
LEMMA RhoPiIsReference ==
    ASSUME W = 32, NEW s \in States
    PROVE  RhoPi(s) \in States /\ State(RhoPi(s)) = RhoPiOf(State(s))
<1> DEFINE from(t) == IF t = 0 THEN 2 ELSE SHA3_PI(t - 1)
           at(p) == CHOOSE t \in 0 .. 23 : SHA3_PI(t) = p
           moved(p) == LET t == at(p)
                       IN <<rotlH(s[from(t)], s[from(t) + 1], SHA3_ROTL(t)),
                            rotlL(s[from(t)], s[from(t) + 1], SHA3_ROTL(t))>>
<1>1. RhoPi(s) = [p \in Places |-> IF p < 2 THEN s[p] ELSE moved(p - (p % 2))[(p % 2) + 1]]
  BY Zenon DEF RhoPi
<1>2. Width
  BY DEF Width
<1>3. ASSUME NEW a \in Lanes
      PROVE  /\ Lane(RhoPi(s), PlaceAt(a[1], a[2])) \in Words
             /\ Whole(Lane(RhoPi(s), PlaceAt(a[1], a[2]))) = RhoPiOf(State(s))[a]
  <2> DEFINE p == PlaceAt(a[1], a[2])
             b == <<(a[1] + 3 * a[2]) % 5, a[1]>>
             q == PlaceAt(b[1], b[2])
             w == Lane(s, q)
             v == Lane(RhoPi(s), p)
  <2>1. b \in Lanes
    BY DEF Lanes
  <2>2. w \in Words /\ State(s)[b] = Whole(w) /\ Whole(w) \in SUBSET Wide
    BY <1>2, <2>1, LanesTyped, WholeBits
  <2>3. RhoPiOf(State(s))[a] = Rotated(Whole(w), ReferenceOffset(b))
    BY <2>2 DEF RhoPiOf
  <2>4. p \in Places /\ p + 1 \in Places /\ p % 2 = 0 /\ (p + 1) % 2 = 1
    BY DEF Lanes, Places, PlaceAt
  <2>5. CASE a = <<0, 0>>
    <3>1. b = <<0, 0>> /\ p = 0 /\ q = 0
      BY <2>5 DEF PlaceAt
    <3>2. v = w
      <4>1. 0 \in Places /\ 1 \in Places
        BY DEF Places
      <4> HIDE DEF moved
      <4>2. RhoPi(s)[0] = s[0] /\ RhoPi(s)[1] = s[1]
        BY <1>1, <4>1
      <4>3. v = Lane(RhoPi(s), 0) /\ w = Lane(s, 0)
        BY <3>1
      <4>4. QED
        BY <4>2, <4>3 DEF Lane
    <3>3. Rotated(Whole(w), 0) = Whole(w)
      BY <2>2, RotatedModulo
    <3>4. ReferenceOffset(b) = 0
      BY <3>1 DEF ReferenceOffset
    <3>5. QED
      BY <2>2, <2>3, <3>2, <3>3, <3>4
  <2>6. CASE a # <<0, 0>>
    <3>1. PICK t \in 0 .. 23 : Visit[t + 1] = a
      BY <2>6, VisitsAll
    <3>2. at(p) = t /\ Visit[t] = b /\ from(t) = q /\ ReferenceOffset(b) = ((t + 1) * (t + 2)) \div 2
      BY <3>1, MovesAre, Zenon
    <3>3. p >= 2
      BY <2>6 DEF Lanes, PlaceAt
    <3> DEFINE n == ((t + 1) * (t + 2)) \div 2
    <3>4. n \in Nat /\ SHA3_ROTL(t) \in (1 .. 2 * W - 1) \ {W} /\ SHA3_ROTL(t) = n % (2 * W)
      BY Counts DEF SHA3_ROTL
    <3>5. moved(p) = <<rotlH(w.l, w.h, SHA3_ROTL(t)), rotlL(w.l, w.h, SHA3_ROTL(t))>>
      <4>1. w.l = s[q] /\ w.h = s[q + 1]
        BY DEF Lane
      <4>2. moved(p) = <<rotlH(s[from(t)], s[from(t) + 1], SHA3_ROTL(t)),
                         rotlL(s[from(t)], s[from(t) + 1], SHA3_ROTL(t))>>
        <5> HIDE DEF at, from, p
        <5>1. QED
          BY <3>2, Zenon
      <4> HIDE DEF moved, from, q, w
      <4>3. QED
        BY <3>2, <4>1, <4>2
    <3> HIDE DEF moved, n, w
    <3>6. RhoPi(s)[p] = moved(p)[1] /\ RhoPi(s)[p + 1] = moved(p)[2]
      <4>1. RhoPi(s)[p] = moved(p - (p % 2))[(p % 2) + 1] /\ p - (p % 2) = p /\ (p % 2) + 1 = 1
        BY <1>1, <2>4, <3>3 DEF Places
      <4>2. RhoPi(s)[p + 1] = moved(p + 1 - ((p + 1) % 2))[((p + 1) % 2) + 1] /\ p + 1 - ((p + 1) % 2) = p /\ ((p + 1) % 2) + 1 = 2
        BY <1>1, <2>4, <3>3 DEF Places
      <4>3. QED
        BY <4>1, <4>2
    <3>7. v = [l |-> rotlH(w.l, w.h, SHA3_ROTL(t)), h |-> rotlL(w.l, w.h, SHA3_ROTL(t))]
      BY <3>5, <3>6 DEF Lane
    <3>8. w.l \in SUBSET Half /\ w.h \in SUBSET Half
      BY <2>2 DEF Words
    <3>9. Whole(v) = Rotated(Whole([l |-> w.l, h |-> w.h]), SHA3_ROTL(t))
      BY <1>2, <3>4, <3>7, <3>8, LanesRotate
    <3>10. Whole([l |-> w.l, h |-> w.h]) = Whole(w)
      BY DEF Whole
    <3>11. Rotated(Whole(w), n) = Rotated(Whole(w), n % (2 * W))
      BY <2>2, <3>4, RotatedModulo
    <3>12. v \in Words
      BY <3>7, <3>8 DEF Words, rotlH, rotlL, rotlSH, rotlSL, rotlBH, rotlBL, Shl, Shr
    <3>13. QED
      BY <2>3, <3>2, <3>4, <3>9, <3>10, <3>11, <3>12 DEF n
  <2>7. QED
    BY <2>5, <2>6
<1>4. RhoPi(s) \in States
  <2>1. ASSUME NEW p \in Places
        PROVE  RhoPi(s)[p] \in SUBSET Half
    <3> DEFINE a == <<(p \div 2) % 5, p \div 10>>
    <3>1. a \in Lanes /\ (p = PlaceAt(a[1], a[2]) \/ p = PlaceAt(a[1], a[2]) + 1)
      BY DEF Places, PlaceAt, Lanes
    <3>2. Lane(RhoPi(s), PlaceAt(a[1], a[2])) \in Words
      BY <1>3, <3>1
    <3>3. QED
      BY <3>1, <3>2 DEF Lane, Words
  <2>2. QED
    BY <1>1, <2>1 DEF States
<1>5. ASSUME NEW a \in Lanes
      PROVE  State(RhoPi(s))[a] = RhoPiOf(State(s))[a]
  BY <1>2, <1>3, <1>4, LanesTyped
<1>6. State(RhoPi(s)) = [a \in Lanes |-> State(RhoPi(s))[a]] /\ RhoPiOf(State(s)) = [a \in Lanes |-> RhoPiOf(State(s))[a]]
  BY DEF State, RhoPiOf
<1>7. QED
  BY <1>4, <1>5, <1>6
-----------------------------------------------------------------------------
(* Iota *)

\* That a loop of N steps from x0 has its values.
Runs(X, x0, Step, N) == \E f \in [0 .. N -> X] : f[0] = x0 /\ \A n \in 1 .. N : f[n] = Step[f[n - 1]]

\* What a loop computes step by step exists after any number of steps.
LEMMA LoopExists ==
    ASSUME NEW X, NEW x0 \in X, NEW Step \in [X -> X], NEW N \in Nat
    PROVE  Runs(X, x0, Step, N)
<1> DEFINE Loop(f, m) == f \in [0 .. m -> X] /\ f[0] = x0 /\ \A n \in 1 .. m : f[n] = Step[f[n - 1]]
           Has == {m \in Nat : \E f : Loop(f, m)}
<1>1. 0 \in Has
  <2>1. Loop([n \in 0 .. 0 |-> x0], 0)
    OBVIOUS
  <2>2. QED
    BY <2>1
<1>2. ASSUME NEW m \in Nat, m \in Has
      PROVE  m + 1 \in Has
  <2>1. PICK f : Loop(f, m)
    BY <1>2
  <2> DEFINE g == [n \in 0 .. m + 1 |-> IF n <= m THEN f[n] ELSE Step[f[m]]]
  <2>2. f[m] \in X /\ Step[f[m]] \in X
    BY <2>1
  <2>3. \A n \in 0 .. m : g[n] = f[n]
    OBVIOUS
  <2>4. g[m + 1] = Step[f[m]]
    OBVIOUS
  <2>5. g \in [0 .. m + 1 -> X]
    BY <2>1, <2>2
  <2> HIDE DEF g
  <2>6. ASSUME NEW n \in 1 .. m + 1
        PROVE  g[n] = Step[g[n - 1]]
    <3>1. CASE n \in 1 .. m
      <4>1. n \in 0 .. m /\ n - 1 \in 0 .. m
        BY <3>1
      <4>2. QED
        BY <2>1, <2>3, <3>1, <4>1
    <3>2. CASE n = m + 1
      BY <2>3, <2>4, <3>2
    <3>3. QED
      BY <3>1, <3>2
  <2>7. g[0] = x0
    BY <2>1, <2>3
  <2>8. Loop(g, m + 1) /\ m + 1 \in Nat
    BY <2>5, <2>6, <2>7
  <2> HIDE DEF Loop
  <2>9. QED
    BY <2>8
<1> HIDE DEF Has
<1>3. \A m \in Nat : m \in Has
  BY <1>1, <1>2, AllNumbers
<1>4. PICK f : Loop(f, N)
  BY <1>3 DEF Has
<1>5. QED
  BY <1>4 DEF Runs

\* One step of the shift register, on its bits moved up: of the code, and of the standard.
On(x) == LET Up == {b + 1 : b \in x} IN Xor(Up \ {8}, IF 8 \in Up THEN {0, 4, 5, 6} ELSE {})
Fed(v) == LET Up == <<0>> \o v IN [i \in 1 .. 8 |-> IF i \in {1, 5, 6, 7} THEN (Up[i] + Up[9]) % 2 ELSE Up[i]]
Registers8 == [1 .. 8 -> {0, 1}]
Lit(v) == {i - 1 : i \in {i \in 1 .. 8 : v[i] = 1}}

\* The bits of the standard's register after a step.
LEMMA FedIs ==
    ASSUME NEW v \in Registers8
    PROVE  /\ Fed(v) \in Registers8
           /\ \A i \in 1 .. 8 : Fed(v)[i] = IF i = 1 THEN v[8]
                                            ELSE IF i \in {5, 6, 7} THEN (v[i - 1] + v[8]) % 2 ELSE v[i - 1]
<1> DEFINE Up == <<0>> \o v
<1>1. v \in Seq({0, 1}) /\ Len(v) = 8
  <2>1. v \in Seq({0, 1})
    BY SeqDef DEF Registers8
  <2>2. DOMAIN v = 1 .. 8 /\ DOMAIN v = 1 .. Len(v) /\ Len(v) \in Nat
    BY <2>1, LenProperties DEF Registers8
  <2>3. QED
    BY <2>1, <2>2
<1>2. Up[1] = 0 /\ \A i \in 2 .. 9 : Up[i] = v[i - 1]
  <2>1. <<0>> \in Seq({0, 1}) /\ Len(<<0>>) = 1 /\ <<0>>[1] = 0
    OBVIOUS
  <2>2. \A i \in 1 .. Len(<<0>>) + Len(v) : Up[i] = IF i <= Len(<<0>>) THEN <<0>>[i] ELSE v[i - Len(<<0>>)]
    BY <1>1, <2>1, ConcatProperties
  <2> DEFINE u == <<0>>
  <2>3. u[1] = 0 /\ Len(u) = 1
    BY <2>1
  <2>4. \A i \in 1 .. Len(u) + Len(v) : Up[i] = IF i <= Len(u) THEN u[i] ELSE v[i - Len(u)]
    BY <2>2
  <2> HIDE DEF Up, u
  <2>5. QED
    BY <1>1, <2>3, <2>4
<1>3. Fed(v) = [i \in 1 .. 8 |-> IF i \in {1, 5, 6, 7} THEN (Up[i] + Up[9]) % 2 ELSE Up[i]]
  BY DEF Fed
<1> HIDE DEF Up
<1>4. v[8] \in {0, 1} /\ \A i \in 2 .. 8 : v[i - 1] \in {0, 1}
  BY DEF Registers8
<1>5. ASSUME NEW i \in 1 .. 8
      PROVE  Fed(v)[i] = IF i = 1 THEN v[8] ELSE IF i \in {5, 6, 7} THEN (v[i - 1] + v[8]) % 2 ELSE v[i - 1]
  <2>1. Up[9] = v[8]
    BY <1>2
  <2>2. CASE i = 1
    BY <1>2, <1>3, <1>4, <2>1, <2>2
  <2>3. CASE i # 1
    BY <1>2, <1>3, <2>1, <2>3
  <2>4. QED
    BY <2>2, <2>3
<1>6. \A i \in 1 .. 8 : Fed(v)[i] \in {0, 1}
  BY <1>4, <1>5
<1>7. QED
  BY <1>3, <1>5, <1>6 DEF Registers8

\* A step of the code's register is one of the standard's.
LEMMA OnIsFed ==
    ASSUME NEW v \in Registers8
    PROVE  On(Lit(v)) = Lit(Fed(v)) /\ (1 \in On(Lit(v)) <=> v[1] = 1)
<1> DEFINE w == Fed(v)
           Up == {b + 1 : b \in Lit(v)}
<1>1. ASSUME NEW u \in Registers8, NEW i \in 0 .. 7
      PROVE  i \in Lit(u) <=> u[i + 1] = 1
  BY DEF Lit
<1>2. \A b : b \in Up <=> b \in 1 .. 8 /\ v[b] = 1
  <2>1. \A b : b \in Up <=> \E c \in Lit(v) : b = c + 1
    OBVIOUS
  <2>2. \A c : c \in Lit(v) <=> \E i \in 1 .. 8 : v[i] = 1 /\ c = i - 1
    BY DEF Lit
  <2> HIDE DEF Up
  <2>3. QED
    BY <2>1, <2>2
<1>3. On(Lit(v)) = Xor(Up \ {8}, IF 8 \in Up THEN {0, 4, 5, 6} ELSE {})
  BY DEF On
<1> HIDE DEF Up
<1>4. \A b : b \in On(Lit(v)) <=> \/ b \in 1 .. 7 /\ v[b] = 1 /\ ~(v[8] = 1 /\ b \in {0, 4, 5, 6})
                                  \/ ~(b \in 1 .. 7 /\ v[b] = 1) /\ v[8] = 1 /\ b \in {0, 4, 5, 6}
  BY <1>2, <1>3 DEF Xor
<1>5. \A b : b \in On(Lit(v)) => b \in 0 .. 7
  BY <1>4
<1>6. w \in Registers8 /\ \A i \in 1 .. 8 : w[i] = IF i = 1 THEN v[8]
                                                   ELSE IF i \in {5, 6, 7} THEN (v[i - 1] + v[8]) % 2 ELSE v[i - 1]
  BY FedIs
<1>7. \A i \in 1 .. 8 : v[i] \in {0, 1}
  BY DEF Registers8
<1> HIDE DEF w
<1>8. ASSUME NEW b \in 0 .. 7
      PROVE  b \in On(Lit(v)) <=> b \in Lit(w)
  <2>1. b \in Lit(w) <=> w[b + 1] = 1
    BY <1>1, <1>6
  <2>2. w[b + 1] = IF b = 0 THEN v[8] ELSE IF b \in {4, 5, 6} THEN (v[b] + v[8]) % 2 ELSE v[b]
    BY <1>6
  <2>3. v[8] \in {0, 1} /\ (b # 0 => v[b] \in {0, 1})
    BY <1>7
  <2>4. QED
    BY <1>4, <2>1, <2>2, <2>3
<1>9. Lit(w) \subseteq 0 .. 7
  BY DEF Lit
<1>10. On(Lit(v)) = Lit(w)
  BY <1>5, <1>8, <1>9
<1>11. 1 \in On(Lit(v)) <=> v[1] = 1
  BY <1>4
<1>12. QED
  BY <1>10, <1>11 DEF w

\* The registers have the values that their loops compute (web/wallet.js:5241-5252).
LEMMA RegistersAre ==
    /\ Feedback[0] = <<1, 0, 0, 0, 0, 0, 0, 0>> /\ \A t \in 1 .. 168 : Feedback[t] = Fed(Feedback[t - 1])
    /\ Register[0] = {0} /\ \A t \in 1 .. 168 : Register[t] = On(Register[t - 1])
<1> DEFINE f0 == <<1, 0, 0, 0, 0, 0, 0, 0>>
           FedStep == [v \in Registers8 |-> Fed(v)]
           IsFeedback(f) == f = [t \in 0 .. 24 * 7 |-> IF t = 0 THEN f0 ELSE Fed(f[t - 1])]
           Y == SUBSET (0 .. 7)
           OnStep == [x \in Y |-> On(x)]
           IsRegister(f) == f = [t \in 0 .. 24 * 7 |-> IF t = 0 THEN {0} ELSE On(f[t - 1])]
<1>1. IsFeedback(Feedback)
  <2>1. f0 \in Registers8
    BY DEF Registers8
  <2>2. FedStep \in [Registers8 -> Registers8]
    BY FedIs
  <2>3. Runs(Registers8, f0, FedStep, 168)
    <3> HIDE DEF FedStep, f0
    <3>1. QED
      BY <2>1, <2>2, LoopExists
  <2>4. PICK f \in [0 .. 168 -> Registers8] : f[0] = f0 /\ \A t \in 1 .. 168 : f[t] = FedStep[f[t - 1]]
    BY <2>3, Zenon DEF Runs
  <2> HIDE DEF f0
  <2>5. ASSUME NEW t \in 0 .. 168
        PROVE  f[t] = IF t = 0 THEN f0 ELSE Fed(f[t - 1])
    BY <2>4
  <2>6. IsFeedback(f)
    BY <2>4, <2>5
  <2>7. IsFeedback(CHOOSE g : IsFeedback(g))
    BY <2>6, Zenon
  <2>8. Feedback = CHOOSE g : IsFeedback(g)
    BY Zenon DEF Feedback, Fed, f0
  <2>9. QED
    BY <2>7, <2>8, Zenon
<1>2. IsRegister(Register)
  <2>1. {0} \in Y
    OBVIOUS
  <2>2. OnStep \in [Y -> Y]
    BY DEF On, Xor
  <2>3. Runs(Y, {0}, OnStep, 168)
    <3> DEFINE x0 == {0}
    <3>1. x0 \in Y
      BY <2>1
    <3> HIDE DEF OnStep, Y, x0
    <3>2. Runs(Y, x0, OnStep, 168)
      BY <3>1, <2>2, LoopExists
    <3>3. QED
      BY <3>2, Zenon DEF x0
  <2>4. PICK f \in [0 .. 168 -> Y] : f[0] = {0} /\ \A t \in 1 .. 168 : f[t] = OnStep[f[t - 1]]
    BY <2>3, Zenon DEF Runs
  <2>5. ASSUME NEW t \in 0 .. 168
        PROVE  f[t] = IF t = 0 THEN {0} ELSE On(f[t - 1])
    <3> HIDE DEF Y
    <3>1. t # 0 => t \in 1 .. 168 /\ f[t - 1] \in Y
      BY <2>4
    <3>2. t # 0 => OnStep[f[t - 1]] = On(f[t - 1])
      BY <3>1
    <3> HIDE DEF OnStep
    <3>3. QED
      BY <2>4, <3>1, <3>2
  <2>6. IsRegister(f)
    BY <2>4, <2>5
  <2>7. IsRegister(CHOOSE g : IsRegister(g))
    BY <2>6, Zenon
  <2>8. Register = CHOOSE g : IsRegister(g)
    BY Zenon DEF Register, On
  <2>9. QED
    BY <2>7, <2>8, Zenon
<1>3. Feedback[0] = f0 /\ \A t \in 1 .. 168 : Feedback[t] = Fed(Feedback[t - 1])
  <2> HIDE DEF f0
  <2>1. QED
    BY <1>1
<1>4. Register[0] = {0} /\ \A t \in 1 .. 168 : Register[t] = On(Register[t - 1])
  BY <1>2
<1>5. QED
  BY <1>3, <1>4

\* The register of the code holds the bits of the standard's all along, and its second
\* bit after a step is the one that the standard takes before it.
LEMMA RegistersAgree ==
    ASSUME NEW t \in 0 .. 167
    PROVE  1 \in Register[t + 1] <=> Feedback[t][1] = 1
<1> DEFINE S == {n \in Nat : n <= 168 => Feedback[n] \in Registers8 /\ Register[n] = Lit(Feedback[n])}
<1>1. 0 \in S
  <2>1. Feedback[0] = <<1, 0, 0, 0, 0, 0, 0, 0>> /\ Register[0] = {0}
    BY RegistersAre
  <2>2. <<1, 0, 0, 0, 0, 0, 0, 0>> \in Registers8 /\ Lit(<<1, 0, 0, 0, 0, 0, 0, 0>>) = {0}
    BY DEF Registers8, Lit
  <2>3. QED
    BY <2>1, <2>2
<1>2. ASSUME NEW n \in Nat, n \in S
      PROVE  n + 1 \in S
  <2>1. SUFFICES ASSUME n + 1 <= 168
                 PROVE  Feedback[n + 1] \in Registers8 /\ Register[n + 1] = Lit(Feedback[n + 1])
    OBVIOUS
  <2>2. Feedback[n] \in Registers8 /\ Register[n] = Lit(Feedback[n])
    BY <1>2, <2>1
  <2>3. n + 1 \in 1 .. 168 /\ (n + 1) - 1 = n
    BY <2>1
  <2>4. Feedback[n + 1] = Fed(Feedback[n]) /\ Register[n + 1] = On(Register[n])
    BY <2>3, RegistersAre
  <2>5. QED
    BY <2>2, <2>4, FedIs, OnIsFed
<1> HIDE DEF S
<1>3. \A n \in Nat : n \in S
  BY <1>1, <1>2, AllNumbers
<1>4. Feedback[t] \in Registers8 /\ Register[t] = Lit(Feedback[t])
  BY <1>3 DEF S
<1>5. t + 1 \in 1 .. 168 /\ (t + 1) - 1 = t
  OBVIOUS
<1>6. Register[t + 1] = On(Register[t])
  BY <1>5, RegistersAre
<1>7. QED
  BY <1>4, <1>6, OnIsFed

\* The constant of a round, in halves, is that of the standard (web/wallet.js:5246-5256).
LEMMA ConstantsAgree ==
    ASSUME W = 32, NEW round \in 0 .. 23
    PROVE  LET c == [l |-> SHA3_IOTA_H(round), h |-> SHA3_IOTA_L(round)]
           IN c \in Words /\ Whole(c) = ReferenceConstant(round)
<1> DEFINE c == [l |-> SHA3_IOTA_H(round), h |-> SHA3_IOTA_L(round)]
           I == Iota(round)
<1>1. ASSUME NEW j \in 0 .. 6
      PROVE  1 \in Register[7 * round + j + 1] <=> Feedback[j + 7 * round][1] = 1
  <2>1. 7 * round + j \in 0 .. 167 /\ j + 7 * round = 7 * round + j
    OBVIOUS
  <2>2. QED
    BY <2>1, RegistersAgree
<1>2. I = ReferenceConstant(round)
  <2> DEFINE P == {j \in 0 .. 6 : 1 \in Register[7 * round + j + 1]}
             Q == {j \in 0 .. 6 : Feedback[j + 7 * round][1] = 1}
  <2>1. P = Q
    BY <1>1
  <2>2. I = {2 ^ j - 1 : j \in P} /\ ReferenceConstant(round) = {2 ^ j - 1 : j \in Q}
    BY Zenon DEF Iota, ReferenceConstant
  <2>3. QED
    BY <2>1, <2>2, Zenon
<1>3. I \in SUBSET Wide
  <2>1. ASSUME NEW j \in 0 .. 6
        PROVE  2 ^ j - 1 \in 0 .. 63
    <3>1. 2 ^ 0 = 1 /\ 2 ^ 1 = 2 /\ 2 ^ 2 = 4 /\ 2 ^ 3 = 8 /\ 2 ^ 4 = 16 /\ 2 ^ 5 = 32 /\ 2 ^ 6 = 64
      OBVIOUS
    <3>2. j = 0 \/ j = 1 \/ j = 2 \/ j = 3 \/ j = 4 \/ j = 5 \/ j = 6
      OBVIOUS
    <3>3. 2 ^ j \in {1, 2, 4, 8, 16, 32, 64}
      BY <3>1, <3>2, Zenon
    <3>4. QED
      BY <3>3
  <2>2. ASSUME NEW b \in I
        PROVE  \E j \in 0 .. 6 : b = 2 ^ j - 1
    BY Zenon DEF Iota
  <2>3. QED
    BY <2>1, <2>2 DEF Wide
<1>4. SHA3_IOTA_H(round) = I \cap Half /\ SHA3_IOTA_L(round) = {b - W : b \in I \ Half} \cap Half
  BY Zenon DEF SHA3_IOTA_H, SHA3_IOTA_L
<1> HIDE DEF I
<1>5. c \in Words
  BY <1>4 DEF Words
<1>6. ASSUME NEW b \in Half
      PROVE  (b \in I <=> b \in c.l) /\ (b + W \in I <=> b \in c.h)
  <2>1. b \in I <=> b \in c.l
    BY <1>4
  <2>2. b \in c.h <=> \E d \in I \ Half : b = d - W
    BY <1>4
  <2>3. b + W \notin Half /\ \A d \in I : b = d - W <=> d = b + W
    BY <1>3 DEF Half, Wide
  <2>4. QED
    BY <2>1, <2>2, <2>3
<1>7. Width
  BY DEF Width
<1> HIDE DEF c
<1>8. Whole(c) = I
  BY <1>3, <1>5, <1>6, <1>7, SameWhole
<1>9. QED
  BY <1>2, <1>5, <1>8 DEF c

\* The constant is added to the first lane (web/wallet.js:5294-5295).
LEMMA IotaIsReference ==
    ASSUME W = 32, NEW s \in States, NEW round \in 0 .. 23
    PROVE  IotaStep(s, round) \in States /\ State(IotaStep(s, round)) = IotaOf(State(s), round)
<1> DEFINE c == [l |-> SHA3_IOTA_H(round), h |-> SHA3_IOTA_L(round)]
           r == IotaStep(s, round)
           w == Lane(s, 0)
<1>1. Width
  BY DEF Width
<1>2. c \in Words /\ Whole(c) = ReferenceConstant(round)
  BY ConstantsAgree
<1>3. 0 \in Places /\ 1 \in Places /\ <<0, 0>> \in Lanes /\ PlaceAt(0, 0) = 0
  BY DEF Places, Lanes, PlaceAt
<1>4. /\ r = [p \in Places |-> r[p]]
      /\ r[0] = Xor(s[0], c.l) /\ r[1] = Xor(s[1], c.h)
      /\ \A p \in Places \ {0, 1} : r[p] = s[p]
  <2>1. s = [p \in Places |-> s[p]]
    BY DEF States
  <2>2. r = [s EXCEPT ![0] = Xor(s[0], c.l), ![1] = Xor(s[1], c.h)]
    BY DEF IotaStep
  <2> HIDE DEF c, r
  <2>3. r = [p \in Places |-> IF p = 1 THEN Xor(s[1], c.h) ELSE IF p = 0 THEN Xor(s[0], c.l) ELSE s[p]]
    BY <1>3, <2>1, <2>2
  <2>4. QED
    BY <1>3, <2>3
<1>5. c.l \in SUBSET Half /\ c.h \in SUBSET Half
  BY <1>2 DEF Words
<1> HIDE DEF c, r
<1>6. r \in States
  <2>1. \A p \in Places : s[p] \in SUBSET Half
    BY DEF States
  <2>2. ASSUME NEW p \in Places
        PROVE  r[p] \in SUBSET Half
    BY <1>4, <1>5, <2>1 DEF Xor
  <2>3. QED
    BY <1>4, <2>2 DEF States
<1>7. w \in Words /\ State(s)[<<0, 0>>] = Whole(w)
  BY <1>1, <1>3, LanesTyped
<1>8. State(r)[<<0, 0>>] = Xor(State(s)[<<0, 0>>], ReferenceConstant(round))
  <2>1. State(r)[<<0, 0>>] = Whole(Lane(r, 0))
    BY <1>1, <1>3, <1>6, LanesTyped
  <2>2. Lane(r, 0) = [l |-> Xor(w.l, c.l), h |-> Xor(w.h, c.h)]
    BY <1>4 DEF Lane
  <2> HIDE DEF w
  <2>3. Whole([l |-> Xor(w.l, c.l), h |-> Xor(w.h, c.h)]) = Xor(Whole(w), Whole(c))
    BY <1>1, <1>2, <1>7, LanesCombine
  <2>4. QED
    BY <1>2, <1>7, <2>1, <2>2, <2>3
<1>9. ASSUME NEW a \in Lanes, a # <<0, 0>>
      PROVE  State(r)[a] = State(s)[a]
  <2> DEFINE p == PlaceAt(a[1], a[2])
  <2>1. p \in Places \ {0, 1} /\ p + 1 \in Places \ {0, 1}
    BY <1>9 DEF Lanes, Places, PlaceAt
  <2>2. Lane(r, p) = Lane(s, p)
    BY <1>4, <2>1 DEF Lane
  <2>3. State(r)[a] = Whole(Lane(r, p)) /\ State(s)[a] = Whole(Lane(s, p))
    BY <1>1, <1>6, LanesTyped
  <2>4. QED
    BY <2>2, <2>3
<1>10. State(r) = [a \in Lanes |-> State(r)[a]] /\ State(s) = [a \in Lanes |-> State(s)[a]]
  BY DEF State
<1>11. IotaOf(State(s), round) = [a \in Lanes |-> IF a = <<0, 0>> THEN Xor(State(s)[a], ReferenceConstant(round)) ELSE State(s)[a]]
  BY <1>3, <1>10 DEF IotaOf
<1>12. ASSUME NEW a \in Lanes
       PROVE  State(r)[a] = IF a = <<0, 0>> THEN Xor(State(s)[a], ReferenceConstant(round)) ELSE State(s)[a]
  BY <1>8, <1>9
<1>13. State(r) = IotaOf(State(s), round)
  BY <1>10, <1>11, <1>12
<1>14. QED
  BY <1>6, <1>13 DEF r

-----------------------------------------------------------------------------

\* A round of Keccak on the halves of the code makes of every state what FIPS 202 says a
\* round makes of its lanes, at the width of the code (web/wallet.js:5236-5298).
THEOREM RoundIsReference ==
    ASSUME W = 32, NEW s \in States, NEW round \in 0 .. 23
    PROVE  /\ KeccakRound(s, round) \in States
           /\ State(KeccakRound(s, round)) = ReferenceRound(State(s), round)
<1>1. Width /\ W > 1
  BY DEF Width
<1>2. Theta(s) \in States /\ State(Theta(s)) = ThetaOf(State(s))
  BY <1>1, ThetaIsReference
<1>3. RhoPi(Theta(s)) \in States /\ State(RhoPi(Theta(s))) = RhoPiOf(ThetaOf(State(s)))
  BY <1>2, RhoPiIsReference
<1>4. ChiStep(RhoPi(Theta(s))) \in States /\ State(ChiStep(RhoPi(Theta(s)))) = ChiOf(RhoPiOf(ThetaOf(State(s))))
  BY <1>1, <1>3, ChiIsReference
<1>5. /\ IotaStep(ChiStep(RhoPi(Theta(s))), round) \in States
      /\ State(IotaStep(ChiStep(RhoPi(Theta(s))), round)) = IotaOf(ChiOf(RhoPiOf(ThetaOf(State(s)))), round)
  BY <1>4, IotaIsReference
<1>6. QED
  BY <1>5, ReferenceSteps, Zenon DEF KeccakRound

\* So the rounds of keccakP, whatever state they start from and as many of the 24 as have
\* been made, come to the lanes that those of the standard come to (web/wallet.js:5259-5298).
THEOREM PermutationIsReference ==
    ASSUME W = 32, NEW p, NEW A,
           p[0] \in States, A[0] = State(p[0]),
           \A i \in 0 .. 23 : p[i + 1] = KeccakRound(p[i], i) /\ A[i + 1] = ReferenceRound(A[i], i),
           NEW round \in 0 .. 24
    PROVE  p[round] \in States /\ KeccakIsReference(p[round], A[round])
<1> DEFINE S == {i \in Nat : i <= 24 => p[i] \in States /\ A[i] = State(p[i])}
<1>1. 0 \in S
  OBVIOUS
<1>2. ASSUME NEW i \in Nat, i \in S
      PROVE  i + 1 \in S
  <2>1. SUFFICES ASSUME i + 1 <= 24
                 PROVE  p[i + 1] \in States /\ A[i + 1] = State(p[i + 1])
    OBVIOUS
  <2>2. i \in 0 .. 23 /\ p[i] \in States /\ A[i] = State(p[i])
    BY <1>2, <2>1
  <2>3. QED
    BY <2>2, RoundIsReference
<1> HIDE DEF S
<1>3. \A i \in Nat : i \in S
  BY <1>1, <1>2, AllNumbers
<1>4. QED
  BY <1>3 DEF S, KeccakIsReference

-----------------------------------------------------------------------------
(* Sums: powers of two, and the numbers they divide *)

\* The powers of two, as far as the bits of a whole word go.
LEMMA PowersAre ==
    ASSUME Width
    PROVE  Power \in [0 .. 2 * W -> Nat \ {0}] /\ Power[0] = 1 /\ \A k \in 0 .. 2 * W - 1 : Power[k + 1] = 2 * Power[k]
<1> DEFINE X == Nat \ {0}
           Twice == [x \in X |-> 2 * x]
           Is(f) == f = [k \in 0 .. 2 * W |-> IF k = 0 THEN 1 ELSE 2 * f[k - 1]]
           top == 2 * W
<1>1. top \in Nat /\ Twice \in [X -> X] /\ 1 \in X
  BY DEF Width
<1>2. Runs(X, 1, Twice, top)
  <2> HIDE DEF X, Twice, top
  <2>1. QED
    BY <1>1, LoopExists
<1>3. PICK f \in [0 .. top -> X] : f[0] = 1 /\ \A n \in 1 .. top : f[n] = Twice[f[n - 1]]
  BY <1>2, Zenon DEF Runs
<1>4. ASSUME NEW k \in 1 .. top
      PROVE  f[k] = 2 * f[k - 1]
  <2>1. f[k - 1] \in X
    BY <1>1, <1>3
  <2>2. QED
    BY <1>3, <2>1
<1> HIDE DEF Twice
<1>5. Is(f)
  BY <1>1, <1>3, <1>4
<1>6. Power = CHOOSE g : Is(g)
  BY Zenon DEF Power
<1>7. Is(Power)
  <2> HIDE DEF Is
  <2>1. QED
    BY <1>5, <1>6, Zenon
<1>8. Power[0] = 1 /\ \A k \in 1 .. top : Power[k] = 2 * Power[k - 1]
  <2>1. Power = [k \in 0 .. top |-> IF k = 0 THEN 1 ELSE 2 * Power[k - 1]]
    BY <1>7, Zenon
  <2> HIDE DEF top, Is
  <2>2. 0 \in 0 .. top /\ \A k \in 1 .. top : k \in 0 .. top /\ k # 0
    BY <1>1
  <2>3. \A k \in 0 .. top : Power[k] = IF k = 0 THEN 1 ELSE 2 * Power[k - 1]
    BY <2>1, Zenon
  <2>4. QED
    BY <2>2, <2>3, Zenon
<1>9. ASSUME NEW k \in 0 .. top - 1
      PROVE  Power[k + 1] = 2 * Power[k]
  <2>1. k + 1 \in 1 .. top /\ (k + 1) - 1 = k
    BY <1>1
  <2>2. QED
    BY <1>8, <2>1
<1>10. \A n \in Nat : n \in {k \in Nat : k <= top => Power[k] \in X}
  <2> DEFINE S == {n \in Nat : n <= top => Power[n] \in X}
  <2>1. 0 \in S
    BY <1>8
  <2>2. ASSUME NEW n \in Nat, n \in S
        PROVE  n + 1 \in S
    <3>1. n + 1 <= top => Power[n] \in X /\ Power[n + 1] = 2 * Power[n]
      BY <1>1, <1>9, <2>2
    <3>2. QED
      BY <3>1
  <2> HIDE DEF S
  <2>3. \A n \in Nat : n \in S
    BY <2>1, <2>2, AllNumbers
  <2>4. QED
    BY <2>3 DEF S
<1>11. \A k \in 0 .. top : Power[k] \in X
  BY <1>1, <1>10
<1>12. Power = [k \in 0 .. top |-> Power[k]]
  BY <1>7
<1>13. Power \in [0 .. top -> X]
  <2> HIDE DEF top, X, Is
  <2>1. QED
    BY <1>11, <1>12
<1>14. QED
  BY <1>8, <1>9, <1>13

\* A power of two.
LEMMA PowerIs ==
    ASSUME Width, NEW k \in 0 .. 2 * W
    PROVE  Power[k] \in Nat \ {0}
BY PowersAre

\* And the next one.
LEMMA PowerNext ==
    ASSUME Width, NEW k \in 0 .. 2 * W - 1
    PROVE  Power[k + 1] = 2 * Power[k]
BY PowersAre

\* To divide by twice a number is to divide by it, and by two.
LEMMA Halving ==
    ASSUME NEW d \in Nat \ {0}, NEW x \in Nat
    PROVE  x \div (2 * d) = (x \div d) \div 2
<1> DEFINE q == x \div d
           r == x % d
           p == q \div 2
           s == q % 2
<1>1. q \in Nat /\ r \in 0 .. d - 1 /\ x = d * q + r
  BY Divides
<1>2. p \in Nat /\ s \in 0 .. 1 /\ q = 2 * p + s
  BY <1>1
<1> HIDE DEF q, r, p, s
<1>3. d * q = d * (2 * p) + d * s
  BY <1>1, <1>2
<1>4. d * (2 * p) = (2 * d) * p
  BY <1>1, <1>2
<1>5. d * s \in {0, d}
  BY <1>2
<1>6. x = (2 * d) * p + (d * s + r) /\ d * s + r \in 0 .. (2 * d) - 1 /\ 2 * d \in Nat \ {0}
  <2> DEFINE a == d * q
             b == d * (2 * p)
             c == d * s
             e == (2 * d) * p
  <2>1. a = b + c /\ b = e /\ c \in {0, d} /\ x = a + r /\ e \in Nat /\ b \in Nat /\ a \in Nat
    BY <1>1, <1>2, <1>3, <1>4, <1>5
  <2> HIDE DEF a, b, c, e
  <2>2. x = e + (c + r) /\ c + r \in 0 .. (2 * d) - 1 /\ 2 * d \in Nat \ {0}
    BY <1>1, <2>1
  <2>3. QED
    BY <2>2 DEF c, e
<1>7. x \div (2 * d) = p
  <2> DEFINE y == 2 * d
             t == d * s + r
  <2>1. x = y * p + t /\ t \in 0 .. y - 1 /\ y \in Nat \ {0}
    BY <1>6
  <2> HIDE DEF y, t
  <2>2. x \div y = p
    BY <1>2, <2>1, Divided
  <2>3. QED
    BY <2>2 DEF y
<1>8. QED
  BY <1>7 DEF p, q

\* What is left of a number when its lowest k bits are dropped.
Quotient(x, k) == x \div Power[k]

\* The quotients of a number: all of it, and each half the one before.
LEMMA QuotientIs ==
    ASSUME Width, NEW x \in Nat, NEW k \in 0 .. 2 * W
    PROVE  Quotient(x, k) \in Nat
BY PowerIs, Divides DEF Quotient

\* With no bit dropped.
LEMMA QuotientAll ==
    ASSUME Width, NEW x \in Nat
    PROVE  Quotient(x, 0) = x
<1>1. Power[0] = 1
  BY PowersAre
<1>2. x \div 1 = x
  OBVIOUS
<1>3. QED
  BY <1>1, <1>2 DEF Quotient

\* With one more bit dropped.
LEMMA QuotientNext ==
    ASSUME Width, NEW x \in Nat, NEW k \in 0 .. 2 * W - 1
    PROVE  Quotient(x, k + 1) = Quotient(x, k) \div 2
<1>1. Power[k] \in Nat \ {0} /\ Power[k + 1] = 2 * Power[k]
  <2>1. k \in 0 .. 2 * W
    BY DEF Width
  <2>2. QED
    BY <2>1, PowerIs, PowerNext
<1>2. QED
  BY <1>1, Halving DEF Quotient

\* A number that is raised by K bits and a multiple of all of them: its quotients by fewer
\* bits are those of the lower part and a multiple too.
LEMMA Raised ==
    ASSUME Width, NEW K0 \in 0 .. 2 * W, NEW L \in Nat, NEW H \in Nat, NEW b \in 0 .. K0
    PROVE  Quotient(L + Power[K0] * H, b) = Quotient(L, b) + Power[K0 - b] * H
<1> DEFINE x == L + Power[K0] * H
           S == {n \in Nat : n <= K0 => Quotient(x, n) = Quotient(L, n) + Power[K0 - n] * H}
<1>1. K0 \in Nat /\ W \in Nat /\ K0 <= 2 * W
  BY DEF Width
<1>2. x \in Nat
  <2>1. Power[K0] \in Nat
    BY PowerIs
  <2>2. QED
    BY <2>1
<1>3. 0 \in S
  <2>1. Quotient(x, 0) = x /\ Quotient(L, 0) = L
    BY <1>2, QuotientAll
  <2>2. K0 - 0 = K0
    BY <1>1
  <2>3. QED
    BY <2>1, <2>2
<1>4. ASSUME NEW n \in Nat, n \in S
      PROVE  n + 1 \in S
  <2>1. SUFFICES ASSUME n + 1 <= K0
                 PROVE  Quotient(x, n + 1) = Quotient(L, n + 1) + Power[K0 - (n + 1)] * H
    OBVIOUS
  <2> DEFINE m == K0 - (n + 1)
             y == Power[m] * H
             l == Quotient(L, n)
  <2>2. n <= K0 /\ n \in 0 .. 2 * W - 1 /\ m \in 0 .. 2 * W - 1 /\ K0 - n = m + 1 /\ n \in 0 .. 2 * W /\ m \in 0 .. 2 * W
    BY <1>1, <2>1
  <2>3. Quotient(x, n) = l + Power[m + 1] * H
    BY <1>4, <2>2
  <2>4. Power[m] \in Nat /\ Power[m + 1] = 2 * Power[m] /\ l \in Nat
    <3> HIDE DEF m
    <3>1. QED
      BY <2>2, PowerIs, PowerNext, QuotientIs
  <2>5. y \in Nat /\ Power[m + 1] * H = 2 * y
    <3> HIDE DEF m
    <3>1. QED
      BY <2>4
  <2>6. Quotient(x, n + 1) = Quotient(x, n) \div 2 /\ Quotient(L, n + 1) = l \div 2
    <3> HIDE DEF x
    <3>1. QED
      BY <1>2, <2>2, QuotientNext
  <2> HIDE DEF y, l, m, x
  <2>7. (l + 2 * y) \div 2 = (l \div 2) + y
    BY <2>4, <2>5
  <2>8. Quotient(x, n + 1) = (l \div 2) + y
    BY <2>3, <2>5, <2>6, <2>7
  <2>9. QED
    BY <2>6, <2>8 DEF y, m
<1>5. b \in S
  <2>1. b \in Nat
    BY <1>1
  <2> HIDE DEF S
  <2>2. QED
    BY <1>3, <1>4, <2>1, AllNumbers
<1>6. b <= K0
  BY <1>1
<1>7. QED
  BY <1>5, <1>6

\* So the bits below are those of the lower part.
LEMMA LowBits ==
    ASSUME Width, NEW K0 \in 0 .. 2 * W, NEW L \in Nat, NEW H \in Nat, NEW b \in 0 .. K0 - 1
    PROVE  Quotient(L + Power[K0] * H, b) % 2 = Quotient(L, b) % 2
<1> DEFINE m == K0 - b - 1
           y == Power[m] * H
           l == Quotient(L, b)
<1>1. m \in 0 .. 2 * W - 1 /\ m \in 0 .. 2 * W /\ K0 - b = m + 1 /\ b \in 0 .. 2 * W /\ b \in 0 .. K0
  BY DEF Width
<1>2. Quotient(L + Power[K0] * H, b) = l + Power[m + 1] * H
  BY <1>1, Raised
<1>3. Power[m] \in Nat /\ Power[m + 1] = 2 * Power[m] /\ l \in Nat
  <2> HIDE DEF m
  <2>1. QED
    BY <1>1, PowerIs, PowerNext, QuotientIs
<1>4. y \in Nat /\ Power[m + 1] * H = 2 * y
  <2> HIDE DEF m
  <2>1. QED
    BY <1>3
<1> HIDE DEF y, l, m
<1>5. (l + 2 * y) % 2 = l % 2
  BY <1>3, <1>4
<1>6. QED
  BY <1>2, <1>4, <1>5 DEF l

\* And the bits above are those of the upper part, with what the lower one carries.
LEMMA HighBits ==
    ASSUME Width, NEW L \in Nat, NEW H \in Nat, NEW b \in 0 .. W
    PROVE  Quotient(L + Power[W] * H, b + W) = Quotient(H + Quotient(L, W), b)
<1> DEFINE x == L + Power[W] * H
           c == H + Quotient(L, W)
           S == {n \in Nat : n <= W => Quotient(x, n + W) = Quotient(c, n)}
<1>1. W \in Nat /\ W \in 0 .. 2 * W /\ W \in 0 .. W
  BY DEF Width
<1>2. x \in Nat /\ c \in Nat
  <2>1. Power[W] \in Nat /\ Quotient(L, W) \in Nat
    BY <1>1, PowerIs, QuotientIs
  <2>2. QED
    BY <2>1
<1>3. 0 \in S
  <2>1. Quotient(x, W) = Quotient(L, W) + Power[W - W] * H
    BY <1>1, Raised
  <2>2. Power[W - W] = 1
    BY <1>1, PowersAre
  <2>3. Quotient(L, W) \in Nat
    BY <1>1, QuotientIs
  <2>4. Quotient(x, W) = c
    <3> DEFINE p == Power[W - W]
    <3>1. Quotient(x, W) = Quotient(L, W) + p * H /\ p = 1
      BY <2>1, <2>2
    <3> HIDE DEF p, x
    <3>2. QED
      BY <2>3, <3>1
  <2>5. Quotient(c, 0) = c
    <3> HIDE DEF c
    <3>1. QED
      BY <1>2, QuotientAll
  <2>6. 0 + W = W
    BY <1>1
  <2>7. QED
    BY <2>4, <2>5, <2>6
<1>4. ASSUME NEW n \in Nat, n \in S
      PROVE  n + 1 \in S
  <2>1. SUFFICES ASSUME n + 1 <= W
                 PROVE  Quotient(x, (n + 1) + W) = Quotient(c, n + 1)
    OBVIOUS
  <2>2. n <= W /\ n \in 0 .. 2 * W - 1 /\ n + W \in 0 .. 2 * W - 1 /\ (n + 1) + W = (n + W) + 1
    BY <1>1, <2>1
  <2>3. Quotient(x, n + W) = Quotient(c, n)
    BY <1>4, <2>2
  <2> DEFINE k == n + W
  <2>4. Quotient(x, k + 1) = Quotient(x, k) \div 2 /\ Quotient(c, n + 1) = Quotient(c, n) \div 2
    <3> HIDE DEF x, c, k
    <3>1. k \in 0 .. 2 * W - 1
      BY <2>2 DEF k
    <3>2. QED
      BY <1>2, <2>2, <3>1, QuotientNext
  <2>5. QED
    BY <2>2, <2>3, <2>4
<1>5. b \in S
  <2>1. b \in Nat
    BY <1>1
  <2> HIDE DEF S
  <2>2. QED
    BY <1>3, <1>4, <2>1, AllNumbers
<1>6. b <= W
  BY <1>1
<1>7. QED
  BY <1>5, <1>6

-----------------------------------------------------------------------------
(* Sums: the number with given bits *)

\* What is added for a bit, and up to one.
BitOf(x, n) == IF n \in x THEN Power[n] ELSE 0
SumsUp(u, x) == u[0] = 0 /\ \A n \in 1 .. 2 * W : u[n] = u[n - 1] + BitOf(x, n - 1)

\* The number with the bits x, bit by bit.
LEMMA NumberRuns ==
    ASSUME Width, NEW x
    PROVE  \E u : SumsUp(u, x) /\ Number(x) = u[2 * W]
<1> DEFINE Is(f, N) == f = [n \in 0 .. N |-> IF n = 0 THEN 0 ELSE f[n - 1] + BitOf(x, n - 1)]
           S == {N \in Nat : \E f : Is(f, N)}
           M == 2 * W
           loop == CHOOSE f : Is(f, M)
<1>0. M \in Nat
  BY DEF Width
<1>1. 0 \in S
  <2>1. Is([n \in 0 .. 0 |-> 0], 0)
    OBVIOUS
  <2> HIDE DEF Is
  <2>2. QED
    BY <2>1
<1>2. ASSUME NEW N \in Nat, N \in S
      PROVE  N + 1 \in S
  <2>1. PICK f : Is(f, N)
    BY <1>2, Zenon
  <2> DEFINE g == [n \in 0 .. N + 1 |-> IF n <= N THEN f[n] ELSE f[N] + BitOf(x, N)]
  <2>2. Is(g, N + 1)
    BY <2>1
  <2> HIDE DEF Is, g
  <2>3. QED
    BY <2>2
<1>3. M \in S
  <2> HIDE DEF S, M
  <2>1. QED
    BY <1>0, <1>1, <1>2, AllNumbers
<1>4. Is(loop, M)
  <2> HIDE DEF Is, M
  <2>1. QED
    BY <1>3, Zenon
<1>5. Number(x) = loop[2 * W]
  BY Zenon DEF Number, BitOf
<1> HIDE DEF loop
<1>6. loop[0] = 0 /\ \A n \in 1 .. M : loop[n] = loop[n - 1] + BitOf(x, n - 1)
  <2>1. loop = [n \in 0 .. M |-> IF n = 0 THEN 0 ELSE loop[n - 1] + BitOf(x, n - 1)]
    BY <1>4, Zenon
  <2> HIDE DEF M, Is
  <2>2. 0 \in 0 .. M /\ \A n \in 1 .. M : n \in 0 .. M /\ n # 0
    BY <1>0
  <2>3. \A n \in 0 .. M : loop[n] = IF n = 0 THEN 0 ELSE loop[n - 1] + BitOf(x, n - 1)
    BY <2>1, Zenon
  <2>4. QED
    BY <2>2, <2>3, Zenon
<1>7. SumsUp(loop, x)
  BY <1>6 DEF SumsUp
<1>8. QED
  BY <1>5, <1>7

\* One more bit.
LEMMA SumNext ==
    ASSUME Width, NEW x, NEW u, SumsUp(u, x), NEW n \in 0 .. 2 * W - 1
    PROVE  u[n + 1] = u[n] + BitOf(x, n)
<1>1. n + 1 \in 1 .. 2 * W /\ (n + 1) - 1 = n
  BY DEF Width
<1>2. QED
  BY <1>1 DEF SumsUp

\* A bit is a number.
LEMMA BitIs ==
    ASSUME Width, NEW x, NEW n \in 0 .. 2 * W - 1
    PROVE  BitOf(x, n) \in Nat
<1>1. n \in 0 .. 2 * W
  BY DEF Width
<1>2. QED
  BY <1>1, PowerIs DEF BitOf

\* And so is a sum of bits.
LEMMA SumIs ==
    ASSUME Width, NEW x, NEW u, SumsUp(u, x), NEW k \in 0 .. 2 * W
    PROVE  u[k] \in Nat
<1> DEFINE S == {n \in Nat : n <= 2 * W => u[n] \in Nat}
<1>1. 0 \in S
  BY DEF SumsUp
<1>2. ASSUME NEW n \in Nat, n \in S
      PROVE  n + 1 \in S
  <2>1. SUFFICES ASSUME n + 1 <= 2 * W
                 PROVE  u[n + 1] \in Nat
    OBVIOUS
  <2>2. n \in 0 .. 2 * W - 1 /\ n <= 2 * W
    BY <2>1 DEF Width
  <2>3. u[n + 1] = u[n] + BitOf(x, n) /\ BitOf(x, n) \in Nat /\ u[n] \in Nat
    BY <1>2, <2>2, SumNext, BitIs
  <2>4. QED
    BY <2>3
<1>3. k \in S
  <2> HIDE DEF S
  <2>1. QED
    BY <1>1, <1>2, AllNumbers
<1>4. k <= 2 * W
  OBVIOUS
<1>5. QED
  BY <1>3, <1>4

\* The number is one.
LEMMA NumberIs ==
    ASSUME Width, NEW x
    PROVE  Number(x) \in Nat
<1>1. PICK u : SumsUp(u, x) /\ Number(x) = u[2 * W]
  BY NumberRuns
<1>2. 2 * W \in 0 .. 2 * W
  BY DEF Width
<1>3. QED
  BY <1>1, <1>2, SumIs

\* The powers of two of the high half.
LEMMA PowerProduct ==
    ASSUME Width, NEW k \in 0 .. W
    PROVE  Power[k + W] = Power[W] * Power[k]
<1> DEFINE S == {n \in Nat : n <= W => Power[n + W] = Power[W] * Power[n]}
<1>0. W \in Nat /\ W \in 0 .. 2 * W
  BY DEF Width
<1>1. 0 \in S
  <2>1. Power[0] = 1 /\ Power[W] \in Nat /\ 0 + W = W
    BY <1>0, PowersAre, PowerIs
  <2>2. Power[0 + W] = Power[W] * Power[0]
    BY <2>1
  <2>3. QED
    BY <2>2
<1>2. ASSUME NEW n \in Nat, n \in S
      PROVE  n + 1 \in S
  <2>1. SUFFICES ASSUME n + 1 <= W
                 PROVE  Power[(n + 1) + W] = Power[W] * Power[n + 1]
    OBVIOUS
  <2> DEFINE m == n + W
             a == Power[W]
             b == Power[n]
             c == Power[m]
  <2>2. n <= W /\ n \in 0 .. 2 * W - 1 /\ n \in 0 .. 2 * W /\ m \in 0 .. 2 * W - 1 /\ (n + 1) + W = m + 1
    BY <1>0, <2>1
  <2>3. Power[n + 1] = 2 * b /\ Power[m + 1] = 2 * c /\ a \in Nat /\ b \in Nat /\ c = a * b
    <3>1. c = a * b
      BY <1>2, <2>2
    <3> HIDE DEF m
    <3>2. QED
      BY <1>0, <2>2, <3>1, PowerIs, PowerNext
  <2>4. Power[(n + 1) + W] = 2 * c
    BY <2>2, <2>3
  <2> HIDE DEF a, b, c, m
  <2>5. 2 * c = a * (2 * b)
    BY <2>3
  <2>6. QED
    BY <2>3, <2>4, <2>5 DEF a, b
<1>3. k \in S
  <2> HIDE DEF S
  <2>1. QED
    BY <1>0, <1>1, <1>2, AllNumbers
<1>4. k <= W
  BY <1>0
<1>5. QED
  BY <1>3, <1>4

\* The bits of a half end below the width of a half.
LEMMA HalfEnds ==
    ASSUME Width, NEW x \in SUBSET Half, NEW u, SumsUp(u, x), NEW k \in W .. 2 * W
    PROVE  u[k] = u[W]
<1> DEFINE S == {n \in Nat : W <= n /\ n <= 2 * W => u[n] = u[W]}
<1>0. W \in Nat \ {0}
  BY DEF Width
<1>1. 0 \in S
  BY <1>0
<1>2. ASSUME NEW n \in Nat, n \in S
      PROVE  n + 1 \in S
  <2>1. SUFFICES ASSUME W <= n + 1, n + 1 <= 2 * W
                 PROVE  u[n + 1] = u[W]
    OBVIOUS
  <2>2. CASE n + 1 = W
    BY <2>2
  <2>3. CASE n + 1 # W
    <3>1. W <= n /\ n <= 2 * W /\ n \in 0 .. 2 * W - 1 /\ n \in 0 .. 2 * W
      BY <1>0, <2>1, <2>3
    <3>2. n \notin x
      BY <3>1, <1>0 DEF Half
    <3>3. u[n + 1] = u[n] + BitOf(x, n) /\ BitOf(x, n) = 0 /\ u[n] \in Nat
      BY <3>1, <3>2, SumNext, SumIs DEF BitOf
    <3>4. u[n] = u[W]
      BY <1>2, <3>1
    <3>5. QED
      BY <3>3, <3>4
  <2>4. QED
    BY <2>2, <2>3
<1>3. k \in S
  <2>1. k \in Nat
    BY <1>0
  <2> HIDE DEF S
  <2>2. QED
    BY <1>1, <1>2, <2>1, AllNumbers
<1>4. W <= k /\ k <= 2 * W
  BY <1>0
<1>5. QED
  BY <1>3, <1>4

\* A whole word is its low half, and its high half times a power of two (web/wallet.js:423-437).
LEMMA NumberWhole ==
    ASSUME Width, NEW w \in Words
    PROVE  Number(Whole(w)) = Number(w.l) + Power[W] * Number(w.h)
<1>0. W \in Nat \ {0} /\ w.l \in SUBSET Half /\ w.h \in SUBSET Half
  BY DEF Width, Words
<1>1. PICK u : SumsUp(u, Whole(w)) /\ Number(Whole(w)) = u[2 * W]
  BY NumberRuns
<1>2. PICK l : SumsUp(l, w.l) /\ Number(w.l) = l[2 * W]
  BY NumberRuns
<1>3. PICK h : SumsUp(h, w.h) /\ Number(w.h) = h[2 * W]
  BY NumberRuns
<1> DEFINE S == {n \in Nat : n <= W => u[n] = l[n]}
           T == {n \in Nat : n <= W => u[n + W] = l[W] + Power[W] * h[n]}
<1>4. W \in S
  <2>1. 0 \in S
    BY <1>1, <1>2 DEF SumsUp
  <2>2. ASSUME NEW n \in Nat, n \in S
        PROVE  n + 1 \in S
    <3>1. SUFFICES ASSUME n + 1 <= W
                   PROVE  u[n + 1] = l[n + 1]
      OBVIOUS
    <3>2. n \in Half /\ n \in 0 .. 2 * W - 1 /\ n <= W
      BY <1>0, <3>1 DEF Half
    <3>3. n \in Whole(w) <=> n \in w.l
      BY <3>2, WholeBits
    <3>4. u[n + 1] = u[n] + BitOf(Whole(w), n) /\ l[n + 1] = l[n] + BitOf(w.l, n)
      BY <1>1, <1>2, <3>2, SumNext
    <3>5. BitOf(Whole(w), n) = BitOf(w.l, n)
      BY <3>3 DEF BitOf
    <3>6. u[n] = l[n]
      BY <2>2, <3>2
    <3>7. QED
      BY <3>4, <3>5, <3>6
  <2> HIDE DEF S
  <2>3. QED
    BY <1>0, <2>1, <2>2, AllNumbers
<1>5. u[W] = l[W]
  BY <1>0, <1>4
<1> HIDE DEF S
<1>6. W \in T
  <2>0. Power[W] \in Nat /\ l[W] \in Nat /\ W \in 0 .. 2 * W
    BY <1>0, <1>2, PowerIs, SumIs
  <2>1. 0 \in T
    <3>1. h[0] = 0 /\ 0 + W = W
      BY <1>0, <1>3 DEF SumsUp
    <3>2. u[0 + W] = l[W] + Power[W] * h[0]
      BY <1>5, <2>0, <3>1
    <3>3. QED
      BY <3>2
  <2>2. ASSUME NEW n \in Nat, n \in T
        PROVE  n + 1 \in T
    <3>1. SUFFICES ASSUME n + 1 <= W
                   PROVE  u[(n + 1) + W] = l[W] + Power[W] * h[n + 1]
      OBVIOUS
    <3> DEFINE k == n + W
               P == Power[W]
               d == BitOf(w.h, n)
               e == BitOf(Whole(w), k)
    <3>2. /\ n \in Half /\ n \in 0 .. 2 * W - 1 /\ n <= W /\ n \in 0 .. W /\ n \in 0 .. 2 * W
          /\ k \in 0 .. 2 * W - 1 /\ (n + 1) + W = k + 1
      BY <1>0, <3>1 DEF Half
    <3>3. k \in Whole(w) <=> n \in w.h
      BY <3>2, WholeBits
    <3>4. u[k + 1] = u[k] + e /\ h[n + 1] = h[n] + d /\ h[n] \in Nat /\ d \in Nat
      <4> HIDE DEF k
      <4>1. QED
        BY <1>1, <1>3, <3>2, SumNext, SumIs, BitIs
    <3>5. e = P * d
      <4>1. Power[k] = P * Power[n]
        BY <3>2, PowerProduct
      <4>2. CASE n \in w.h
        BY <3>3, <4>1, <4>2 DEF BitOf
      <4>3. CASE n \notin w.h
        <5>1. e = 0 /\ d = 0
          BY <3>3, <4>3 DEF BitOf
        <5>2. QED
          BY <2>0, <5>1
      <4>4. QED
        BY <4>2, <4>3
    <3>6. u[k] = l[W] + P * h[n]
      BY <2>2, <3>2
    <3>7. u[(n + 1) + W] = u[k + 1]
      BY <3>2
    <3>8. P \in Nat
      BY <2>0
    <3> DEFINE a == h[n]
               b == l[W]
    <3>9. a \in Nat /\ b \in Nat /\ d \in Nat /\ u[(n + 1) + W] = (b + P * a) + P * d /\ h[n + 1] = a + d
      BY <2>0, <3>4, <3>5, <3>6, <3>7
    <3> HIDE DEF a, b, d, P, e, k
    <3>10. (b + P * a) + P * d = b + P * (a + d)
      BY <3>8, <3>9
    <3>11. u[(n + 1) + W] = b + P * h[n + 1]
      BY <3>9, <3>10
    <3>12. QED
      BY <3>11 DEF b, P
  <2> HIDE DEF T
  <2>3. QED
    BY <1>0, <2>1, <2>2, AllNumbers
<1>7. u[W + W] = l[W] + Power[W] * h[W]
  BY <1>0, <1>6
<1>8. l[2 * W] = l[W] /\ h[2 * W] = h[W]
  <2>1. 2 * W \in W .. 2 * W
    BY <1>0
  <2>2. QED
    BY <1>0, <1>2, <1>3, <2>1, HalfEnds
<1>9. W + W = 2 * W
  BY <1>0
<1>10. QED
  BY <1>1, <1>2, <1>3, <1>7, <1>8, <1>9

-----------------------------------------------------------------------------
(* Sums of words *)

\* The bits of a number that fit a whole word.
ValueBits(n) == {b \in Wide : Quotient(n, b) % 2 = 1}

\* They make the number, but for what does not fit.
LEMMA ValueIs ==
    ASSUME Width, NEW n \in Nat
    PROVE  n = Number(ValueBits(n)) + Power[2 * W] * Quotient(n, 2 * W)
<1> DEFINE x == ValueBits(n)
           M == 2 * W
<1>0. M \in Nat /\ M \in 0 .. 2 * W
  BY DEF Width
<1>1. PICK u : SumsUp(u, x) /\ Number(x) = u[2 * W]
  BY NumberRuns
<1> DEFINE S == {k \in Nat : k <= M => n = u[k] + Power[k] * Quotient(n, k)}
<1>2. 0 \in S
  <2>1. u[0] = 0 /\ Power[0] = 1 /\ Quotient(n, 0) = n
    BY <1>1, PowersAre, QuotientAll DEF SumsUp
  <2>2. n = u[0] + Power[0] * Quotient(n, 0)
    BY <2>1
  <2>3. QED
    BY <2>2
<1>3. ASSUME NEW k \in Nat, k \in S
      PROVE  k + 1 \in S
  <2>1. SUFFICES ASSUME k + 1 <= M
                 PROVE  n = u[k + 1] + Power[k + 1] * Quotient(n, k + 1)
    OBVIOUS
  <2> DEFINE P == Power[k]
             q == Quotient(n, k)
             p == q \div 2
             s == q % 2
  <2>2. k <= M /\ k \in 0 .. 2 * W - 1 /\ k \in 0 .. 2 * W /\ k \in Wide
    BY <2>1 DEF Width, Wide
  <2>3. n = u[k] + P * q
    BY <1>3, <2>2
  <2>4. P \in Nat /\ Power[k + 1] = 2 * P /\ q \in Nat /\ Quotient(n, k + 1) = p /\ u[k] \in Nat
    BY <1>1, <2>2, PowerIs, PowerNext, QuotientIs, QuotientNext, SumIs
  <2>5. u[k + 1] = u[k] + BitOf(x, k)
    BY <1>1, <2>2, SumNext
  <2>6. p \in Nat /\ s \in {0, 1} /\ q = 2 * p + s
    BY <2>4
  <2>7. k \in x <=> s = 1
    BY <2>2 DEF ValueBits
  <2> DEFINE d == BitOf(x, k)
             a == u[k]
  <2>8. d = P * s
    <3>1. CASE s = 1
      BY <2>4, <2>7, <3>1 DEF BitOf
    <3>2. CASE s = 0
      <4>1. d = 0
        BY <2>7, <3>2 DEF BitOf
      <4>2. P * s = 0
        BY <2>4, <3>2
      <4>3. QED
        BY <4>1, <4>2
    <3>3. QED
      BY <2>6, <3>1, <3>2
  <2>9. n = a + P * q /\ a \in Nat /\ u[k + 1] = a + P * s
    BY <2>3, <2>4, <2>5, <2>8
  <2> HIDE DEF P, p, s, q, d, a, x
  <2>10. P * q = (2 * P) * p + P * s
    <3>1. P * (2 * p + s) = (2 * P) * p + P * s
      BY <2>4, <2>6
    <3>2. QED
      BY <2>6, <3>1
  <2>11. n = (a + P * s) + (2 * P) * p
    <3> DEFINE y == P * q
               z == P * s
               t == (2 * P) * p
    <3>1. y = t + z /\ z \in Int /\ t \in Int /\ n = a + y
      BY <2>4, <2>6, <2>9, <2>10
    <3> HIDE DEF y, z, t
    <3>2. n = (a + z) + t
      BY <2>9, <3>1
    <3>3. QED
      BY <3>2 DEF z, t
  <2>12. QED
    BY <2>4, <2>9, <2>11
<1>4. M \in S
  <2> HIDE DEF S, M
  <2>1. QED
    BY <1>0, <1>2, <1>3, AllNumbers
<1>5. QED
  BY <1>0, <1>1, <1>4

\* What does not fit has no part in the bits that do.
LEMMA ValueModulo ==
    ASSUME Width, NEW n \in Nat, NEW H \in Nat
    PROVE  ValueBits(n + Power[2 * W] * H) = ValueBits(n)
<1>1. 2 * W \in 0 .. 2 * W
  BY DEF Width
<1>2. ASSUME NEW b \in Wide
      PROVE  Quotient(n + Power[2 * W] * H, b) % 2 = Quotient(n, b) % 2
  <2> DEFINE M == 2 * W
  <2>1. M \in 0 .. 2 * W /\ b \in 0 .. M - 1
    BY <1>1 DEF Wide
  <2> HIDE DEF M
  <2>2. Quotient(n + Power[M] * H, b) % 2 = Quotient(n, b) % 2
    BY <2>1, LowBits
  <2>3. QED
    BY <2>2 DEF M
<1>3. QED
  BY <1>2 DEF ValueBits

\* So a number may be cut to a whole word before it is added.
LEMMA ValueAdded ==
    ASSUME Width, NEW n \in Nat, NEW c \in Nat
    PROVE  ValueBits(c + Number(ValueBits(n))) = ValueBits(c + n)
<1> DEFINE m == Number(ValueBits(n))
           P == Power[2 * W]
           H == Quotient(n, 2 * W)
           t == P * H
<1>1. 2 * W \in 0 .. 2 * W
  BY DEF Width
<1>2. m \in Nat /\ H \in Nat /\ P \in Nat /\ n = m + t
  BY <1>1, NumberIs, QuotientIs, PowerIs, ValueIs
<1>3. t \in Nat
  <2> HIDE DEF P, H
  <2>1. QED
    BY <1>2
<1> HIDE DEF m, t, H
<1>4. c + m \in Nat /\ c + n = (c + m) + t
  BY <1>2, <1>3
<1>5. ValueBits((c + m) + P * H) = ValueBits(c + m)
  <2> DEFINE k == c + m
  <2>1. k \in Nat
    BY <1>4
  <2> HIDE DEF k
  <2>2. ValueBits(k + Power[2 * W] * H) = ValueBits(k)
    BY <1>2, <2>1, ValueModulo
  <2>3. QED
    BY <2>2 DEF k
<1>6. QED
  BY <1>4, <1>5 DEF m, t

\* A sum, summand by summand.
Adds(s, xs, n) == s[0] = 0 /\ \A i \in 1 .. n : s[i] = s[i - 1] + Number(xs[i])

\* The sum of numbers is what its loop comes to.
LEMMA TotalRuns ==
    ASSUME NEW xs, Len(xs) \in Nat
    PROVE  \E s : Adds(s, xs, Len(xs)) /\ Total(xs) = s[Len(xs)]
<1> DEFINE Is(f, N) == f = [n \in 0 .. N |-> IF n = 0 THEN 0 ELSE f[n - 1] + Number(xs[n])]
           S == {N \in Nat : \E f : Is(f, N)}
           loop == CHOOSE f : Is(f, Len(xs))
<1>1. 0 \in S
  <2>1. Is([n \in 0 .. 0 |-> 0], 0)
    OBVIOUS
  <2> HIDE DEF Is
  <2>2. QED
    BY <2>1
<1>2. ASSUME NEW N \in Nat, N \in S
      PROVE  N + 1 \in S
  <2>1. PICK f : Is(f, N)
    BY <1>2, Zenon
  <2> DEFINE g == [n \in 0 .. N + 1 |-> IF n <= N THEN f[n] ELSE f[N] + Number(xs[N + 1])]
  <2>2. Is(g, N + 1)
    BY <2>1
  <2> HIDE DEF Is, g
  <2>3. QED
    BY <2>2
<1>3. Len(xs) \in S
  <2> HIDE DEF S
  <2>1. QED
    BY <1>1, <1>2, AllNumbers
<1>4. Is(loop, Len(xs))
  <2> HIDE DEF Is
  <2>1. QED
    BY <1>3, Zenon
<1>5. Total(xs) = loop[Len(xs)]
  BY Zenon DEF Total
<1> HIDE DEF loop
<1>6. loop[0] = 0 /\ \A n \in 1 .. Len(xs) : loop[n] = loop[n - 1] + Number(xs[n])
  BY <1>4
<1>7. QED
  BY <1>5, <1>6 DEF Adds

\* A sum of numbers is one.
LEMMA AddsIs ==
    ASSUME Width, NEW xs, NEW n \in Nat, NEW s, Adds(s, xs, n), NEW k \in 0 .. n
    PROVE  s[k] \in Nat
<1> DEFINE S == {i \in Nat : i <= n => s[i] \in Nat}
<1>1. 0 \in S
  BY DEF Adds
<1>2. ASSUME NEW i \in Nat, i \in S
      PROVE  i + 1 \in S
  <2>1. SUFFICES ASSUME i + 1 <= n
                 PROVE  s[i + 1] \in Nat
    OBVIOUS
  <2>2. i + 1 \in 1 .. n /\ (i + 1) - 1 = i /\ i <= n
    BY <2>1
  <2>3. s[i + 1] = s[i] + Number(xs[i + 1]) /\ s[i] \in Nat /\ Number(xs[i + 1]) \in Nat
    BY <1>2, <2>2, NumberIs DEF Adds
  <2>4. QED
    BY <2>3
<1>3. k \in S
  <2> HIDE DEF S
  <2>1. QED
    BY <1>1, <1>2, AllNumbers
<1>4. QED
  BY <1>3

\* The sum of whole words is that of their low halves, and that of their high ones times a
\* power of two.
LEMMA TotalWhole ==
    ASSUME Width, NEW n \in Nat, NEW xs, NEW hs, NEW ls, Len(xs) = n, Len(hs) = n, Len(ls) = n,
           \A i \in 1 .. n : Number(xs[i]) = Number(ls[i]) + Power[W] * Number(hs[i])
    PROVE  Total(xs) = Total(ls) + Power[W] * Total(hs) /\ Total(ls) \in Nat /\ Total(hs) \in Nat
<1>1. PICK x : Adds(x, xs, n) /\ Total(xs) = x[n]
  BY TotalRuns
<1>2. PICK h : Adds(h, hs, n) /\ Total(hs) = h[n]
  BY TotalRuns
<1>3. PICK l : Adds(l, ls, n) /\ Total(ls) = l[n]
  BY TotalRuns
<1> DEFINE P == Power[W]
           S == {i \in Nat : i <= n => x[i] = l[i] + P * h[i]}
<1>4. P \in Nat
  BY PowerIs DEF Width
<1>5. 0 \in S
  <2>1. x[0] = 0 /\ h[0] = 0 /\ l[0] = 0
    BY <1>1, <1>2, <1>3 DEF Adds
  <2> HIDE DEF P
  <2>2. x[0] = l[0] + P * h[0]
    BY <1>4, <2>1
  <2>3. QED
    BY <2>2
<1>6. ASSUME NEW i \in Nat, i \in S
      PROVE  i + 1 \in S
  <2>1. SUFFICES ASSUME i + 1 <= n
                 PROVE  x[i + 1] = l[i + 1] + P * h[i + 1]
    OBVIOUS
  <2>2. i + 1 \in 1 .. n /\ (i + 1) - 1 = i /\ i <= n /\ i \in 0 .. n
    BY <2>1
  <2> DEFINE a == l[i]
             b == h[i]
             c == Number(ls[i + 1])
             d == Number(hs[i + 1])
  <2>3. x[i] = a + P * b /\ a \in Nat /\ b \in Nat /\ c \in Nat /\ d \in Nat
    BY <1>2, <1>3, <1>6, <2>2, AddsIs, NumberIs
  <2>4. l[i + 1] = a + c /\ h[i + 1] = b + d /\ x[i + 1] = x[i] + Number(xs[i + 1])
    BY <1>1, <1>2, <1>3, <2>2 DEF Adds
  <2>5. x[i + 1] = (a + P * b) + (c + P * d)
    BY <2>2, <2>3, <2>4
  <2> HIDE DEF a, b, c, d, P
  <2>6. (a + P * b) + (c + P * d) = (a + c) + P * (b + d)
    BY <1>4, <2>3
  <2>7. QED
    BY <2>4, <2>5, <2>6
<1>7. n \in S
  <2> HIDE DEF S
  <2>1. QED
    BY <1>5, <1>6, AllNumbers
<1>8. l[n] \in Nat /\ h[n] \in Nat
  <2>1. n \in 0 .. n
    OBVIOUS
  <2>2. QED
    BY <1>2, <1>3, <2>1, AddsIs
<1>9. QED
  BY <1>1, <1>2, <1>3, <1>7, <1>8

\* The sum of words in halves, with what the low halves carry into the high ones, is the sum
\* of the whole words, for any number of summands (web/wallet.js:448-457, 741-742).
THEOREM SumsAreWhole ==
    ASSUME Width, NEW n \in Nat, NEW ws, ws = [i \in 1 .. n |-> ws[i]], \A i \in 1 .. n : ws[i] \in Words
    PROVE  AddW(ws) \in Words /\ Whole(AddW(ws)) = Plus([i \in 1 .. n |-> Whole(ws[i])])
<1> DEFINE xs == [i \in 1 .. n |-> Whole(ws[i])]
           hs == [i \in 1 .. n |-> ws[i].h]
           ls == [i \in 1 .. n |-> ws[i].l]
           P == Power[W]
           L == Total(ls)
           H == Total(hs)
           C == H + Quotient(L, W)
           sum == [h |-> {b \in Half : Quotient(C, b) % 2 = 1}, l |-> {b \in Half : Quotient(L, b) % 2 = 1}]
<1>1. Len(xs) = n /\ Len(hs) = n /\ Len(ls) = n
  BY MessageBy
<1>2. ASSUME NEW i \in 1 .. n
      PROVE  Number(xs[i]) = Number(ls[i]) + Power[W] * Number(hs[i])
  BY NumberWhole
<1>3. Total(xs) = L + P * H /\ L \in Nat /\ H \in Nat
  <2> HIDE DEF xs, hs, ls
  <2>1. QED
    BY <1>1, <1>2, TotalWhole
<1>4. DOMAIN ws = 1 .. n
  OBVIOUS
<1>5. AddW(ws) = Add(hs, ls)
  <2>1. [i \in DOMAIN ws |-> ws[i].h] = hs /\ [i \in DOMAIN ws |-> ws[i].l] = ls
    BY <1>4
  <2> HIDE DEF hs, ls
  <2>2. QED
    BY <2>1 DEF AddW
<1> HIDE DEF xs, hs, ls
<1>6. Add(hs, ls) = sum
  BY DEF Add, AddH, AddL, Bits, Carry, Quotient
<1>7. sum \in Words
  BY DEF Words
<1> HIDE DEF L, H, C
<1>8. ASSUME NEW b \in Half
      PROVE  (b \in Plus(xs) <=> b \in sum.l) /\ (b + W \in Plus(xs) <=> b \in sum.h)
  <2>1. W \in 0 .. 2 * W /\ b \in 0 .. W - 1 /\ b \in 0 .. W /\ b \in Wide /\ b + W \in Wide
    BY DEF Half, Wide, Width
  <2>2. Quotient(L + P * H, b) % 2 = Quotient(L, b) % 2
    BY <1>3, <2>1, LowBits
  <2>3. Quotient(L + P * H, b + W) = Quotient(C, b)
    BY <1>3, <2>1, HighBits DEF C
  <2>4. \A c : c \in Plus(xs) <=> c \in Wide /\ Quotient(L + P * H, c) % 2 = 1
    BY <1>3 DEF Plus, Quotient
  <2>5. QED
    BY <2>1, <2>2, <2>3, <2>4
<1>9. Plus(xs) \in SUBSET Wide
  BY DEF Plus
<1>10. Whole(sum) = Plus(xs)
  BY <1>7, <1>8, <1>9, SameWhole
<1>11. QED
  BY <1>5, <1>6, <1>7, <1>10 DEF xs

-----------------------------------------------------------------------------
(* The compression functions *)

\* The counts of the rotations and shifts, and the constants of the rounds.
ShaCounts == (1 .. 2 * W - 1) \ {W}
Constants ==
    /\ Rounds \in Nat /\ K \in [1 .. Rounds -> SUBSET Wide]
    /\ R \in [s0 : ShaCounts \X ShaCounts \X (1 .. W - 1), s1 : ShaCounts \X ShaCounts \X (1 .. W - 1),
              S0 : ShaCounts \X ShaCounts \X ShaCounts, S1 : ShaCounts \X ShaCounts \X ShaCounts]

\* The bits of a sum.
LEMMA PlusIs ==
    ASSUME NEW xs
    PROVE  Plus(xs) = ValueBits(Total(xs)) /\ Plus(xs) \in SUBSET Wide
BY DEF Plus, ValueBits, Quotient

\* A whole word in halves is that word.
LEMMA HalvesAreWhole ==
    ASSUME Width, NEW x \in SUBSET Wide
    PROVE  Halves(x) \in Words /\ Whole(Halves(x)) = x
<1>1. Halves(x) \in Words
  BY DEF Halves, Words
<1>2. \A b \in Half : (b \in x <=> b \in Halves(x).l) /\ (b + W \in x <=> b \in Halves(x).h)
  BY DEF Halves
<1>3. QED
  BY <1>1, <1>2, SameWhole

\* The total of two numbers.
LEMMA TotalOfTwo ==
    ASSUME Width, NEW a, NEW b
    PROVE  Total(<<a, b>>) = Number(a) + Number(b)
<1> DEFINE xs == <<a, b>>
<1>1. Len(xs) = 2 /\ Len(xs) \in Nat /\ xs[1] = a /\ xs[2] = b
  OBVIOUS
<1> HIDE DEF xs
<1>2. PICK s : Adds(s, xs, Len(xs)) /\ Total(xs) = s[Len(xs)]
  BY <1>1, TotalRuns, Zenon
<1>3. s[0] = 0 /\ s[1] = s[0] + Number(a) /\ s[2] = s[1] + Number(b)
  BY <1>1, <1>2 DEF Adds
<1>4. Number(a) \in Nat /\ Number(b) \in Nat
  BY NumberIs
<1>5. QED
  BY <1>1, <1>2, <1>3, <1>4 DEF xs

\* Of three.
LEMMA TotalOfThree ==
    ASSUME Width, NEW a, NEW b, NEW c
    PROVE  Total(<<a, b, c>>) = Number(a) + Number(b) + Number(c)
<1> DEFINE xs == <<a, b, c>>
<1>1. Len(xs) = 3 /\ Len(xs) \in Nat /\ xs[1] = a /\ xs[2] = b /\ xs[3] = c
  OBVIOUS
<1> HIDE DEF xs
<1>2. PICK s : Adds(s, xs, Len(xs)) /\ Total(xs) = s[Len(xs)]
  BY <1>1, TotalRuns, Zenon
<1>3. s[0] = 0 /\ s[1] = s[0] + Number(a) /\ s[2] = s[1] + Number(b) /\ s[3] = s[2] + Number(c)
  BY <1>1, <1>2 DEF Adds
<1>4. Number(a) \in Nat /\ Number(b) \in Nat /\ Number(c) \in Nat
  BY NumberIs
<1>5. QED
  BY <1>1, <1>2, <1>3, <1>4 DEF xs

\* Of four.
LEMMA TotalOfFour ==
    ASSUME Width, NEW a, NEW b, NEW c, NEW d
    PROVE  Total(<<a, b, c, d>>) = Number(a) + Number(b) + Number(c) + Number(d)
<1> DEFINE xs == <<a, b, c, d>>
<1>1. Len(xs) = 4 /\ Len(xs) \in Nat /\ xs[1] = a /\ xs[2] = b /\ xs[3] = c /\ xs[4] = d
  OBVIOUS
<1> HIDE DEF xs
<1>2. PICK s : Adds(s, xs, Len(xs)) /\ Total(xs) = s[Len(xs)]
  BY <1>1, TotalRuns, Zenon
<1>3. /\ s[0] = 0 /\ s[1] = s[0] + Number(a) /\ s[2] = s[1] + Number(b)
      /\ s[3] = s[2] + Number(c) /\ s[4] = s[3] + Number(d)
  BY <1>1, <1>2 DEF Adds
<1>4. Number(a) \in Nat /\ Number(b) \in Nat /\ Number(c) \in Nat /\ Number(d) \in Nat
  BY NumberIs
<1>5. QED
  BY <1>1, <1>2, <1>3, <1>4 DEF xs

\* The order of two and of four summands makes no difference, and a sum cut to a whole word
\* may be a summand.
LEMMA PlusTurned ==
    ASSUME Width, NEW a, NEW b
    PROVE  Plus(<<a, b>>) = Plus(<<b, a>>)
<1>1. Number(a) \in Nat /\ Number(b) \in Nat
  BY NumberIs
<1>2. Total(<<a, b>>) = Number(a) + Number(b) /\ Total(<<b, a>>) = Number(b) + Number(a)
  BY TotalOfTwo
<1>3. Total(<<a, b>>) = Total(<<b, a>>)
  BY <1>1, <1>2
<1>4. QED
  BY <1>3, PlusIs, Zenon

\* SHA-512 adds the words of its schedule in another order (web/wallet.js:562, 741-742).
LEMMA PlusMoved ==
    ASSUME Width, NEW a, NEW b, NEW c, NEW d
    PROVE  Plus(<<a, b, c, d>>) = Plus(<<b, c, a, d>>)
<1>1. Number(a) \in Nat /\ Number(b) \in Nat /\ Number(c) \in Nat /\ Number(d) \in Nat
  BY NumberIs
<1>2. /\ Total(<<a, b, c, d>>) = Number(a) + Number(b) + Number(c) + Number(d)
      /\ Total(<<b, c, a, d>>) = Number(b) + Number(c) + Number(a) + Number(d)
  BY TotalOfFour
<1>3. Total(<<a, b, c, d>>) = Total(<<b, c, a, d>>)
  BY <1>1, <1>2
<1>4. QED
  BY <1>3, PlusIs, Zenon

\* A sum that is cut to a word and added gives the bits of the sum of all.
LEMMA PlusNested ==
    ASSUME Width, NEW a, NEW b, NEW c
    PROVE  Plus(<<a, Plus(<<b, c>>)>>) = Plus(<<a, b, c>>)
<1> DEFINE n == Number(b) + Number(c)
           m == Number(ValueBits(n))
<1>1. Number(a) \in Nat /\ Number(b) \in Nat /\ Number(c) \in Nat /\ n \in Nat
  BY NumberIs
<1>2. Total(<<b, c>>) = n /\ Plus(<<b, c>>) = ValueBits(Total(<<b, c>>))
  BY TotalOfTwo, PlusIs
<1>3. Plus(<<b, c>>) = ValueBits(n)
  BY <1>2, Zenon
<1>4. Total(<<a, Plus(<<b, c>>)>>) = Number(a) + m
  <2>1. Total(<<a, Plus(<<b, c>>)>>) = Number(a) + Number(Plus(<<b, c>>))
    BY TotalOfTwo
  <2>2. QED
    BY <1>3, <2>1, Zenon
<1>5. Total(<<a, b, c>>) = Number(a) + n
  <2>1. Total(<<a, b, c>>) = Number(a) + Number(b) + Number(c)
    BY TotalOfThree
  <2>2. QED
    BY <1>1, <2>1
<1> HIDE DEF n
<1>6. ValueBits(Number(a) + m) = ValueBits(Number(a) + n)
  BY <1>1, ValueAdded
<1>7. Plus(<<a, Plus(<<b, c>>)>>) = ValueBits(Total(<<a, Plus(<<b, c>>)>>)) /\ Plus(<<a, b, c>>) = ValueBits(Total(<<a, b, c>>))
  BY PlusIs
<1>8. QED
  BY <1>4, <1>5, <1>6, <1>7, Zenon

\* Sums of two, three, four and five words in halves (web/wallet.js:448-457).
LEMMA AddTwo ==
    ASSUME Width, NEW a \in Words, NEW b \in Words
    PROVE  AddW(<<a, b>>) \in Words /\ Whole(AddW(<<a, b>>)) = Plus(<<Whole(a), Whole(b)>>)
<1> DEFINE ws == <<a, b>>
           n == 2
<1>1. n \in Nat /\ ws = [i \in 1 .. n |-> ws[i]] /\ \A i \in 1 .. n : ws[i] \in Words
  OBVIOUS
<1>2. [i \in 1 .. n |-> Whole(ws[i])] = <<Whole(a), Whole(b)>>
  OBVIOUS
<1> HIDE DEF ws, n
<1>3. AddW(ws) \in Words /\ Whole(AddW(ws)) = Plus([i \in 1 .. n |-> Whole(ws[i])])
  BY <1>1, SumsAreWhole
<1>4. QED
  BY <1>2, <1>3 DEF ws

\* Of three.
LEMMA AddThree ==
    ASSUME Width, NEW a \in Words, NEW b \in Words, NEW c \in Words
    PROVE  /\ AddW(<<a, b, c>>) \in Words
           /\ Whole(AddW(<<a, b, c>>)) = Plus(<<Whole(a), Whole(b), Whole(c)>>)
<1> DEFINE ws == <<a, b, c>>
           n == 3
<1>1. n \in Nat /\ ws = [i \in 1 .. n |-> ws[i]] /\ \A i \in 1 .. n : ws[i] \in Words
  OBVIOUS
<1>2. [i \in 1 .. n |-> Whole(ws[i])] = <<Whole(a), Whole(b), Whole(c)>>
  OBVIOUS
<1> HIDE DEF ws, n
<1>3. AddW(ws) \in Words /\ Whole(AddW(ws)) = Plus([i \in 1 .. n |-> Whole(ws[i])])
  BY <1>1, SumsAreWhole
<1>4. QED
  BY <1>2, <1>3 DEF ws

\* Of four.
LEMMA AddFour ==
    ASSUME Width, NEW a \in Words, NEW b \in Words, NEW c \in Words, NEW d \in Words
    PROVE  /\ AddW(<<a, b, c, d>>) \in Words
           /\ Whole(AddW(<<a, b, c, d>>)) = Plus(<<Whole(a), Whole(b), Whole(c), Whole(d)>>)
<1> DEFINE ws == <<a, b, c, d>>
           n == 4
<1>1. n \in Nat /\ ws = [i \in 1 .. n |-> ws[i]] /\ \A i \in 1 .. n : ws[i] \in Words
  OBVIOUS
<1>2. [i \in 1 .. n |-> Whole(ws[i])] = <<Whole(a), Whole(b), Whole(c), Whole(d)>>
  OBVIOUS
<1> HIDE DEF ws, n
<1>3. AddW(ws) \in Words /\ Whole(AddW(ws)) = Plus([i \in 1 .. n |-> Whole(ws[i])])
  BY <1>1, SumsAreWhole
<1>4. QED
  BY <1>2, <1>3 DEF ws

\* Of five.
LEMMA AddFive ==
    ASSUME Width, NEW a \in Words, NEW b \in Words, NEW c \in Words, NEW d \in Words, NEW e \in Words
    PROVE  /\ AddW(<<a, b, c, d, e>>) \in Words
           /\ Whole(AddW(<<a, b, c, d, e>>)) = Plus(<<Whole(a), Whole(b), Whole(c), Whole(d), Whole(e)>>)
<1> DEFINE ws == <<a, b, c, d, e>>
           n == 5
<1>1. n \in Nat /\ ws = [i \in 1 .. n |-> ws[i]] /\ \A i \in 1 .. n : ws[i] \in Words
  OBVIOUS
<1>2. [i \in 1 .. n |-> Whole(ws[i])] = <<Whole(a), Whole(b), Whole(c), Whole(d), Whole(e)>>
  OBVIOUS
<1> HIDE DEF ws, n
<1>3. AddW(ws) \in Words /\ Whole(AddW(ws)) = Plus([i \in 1 .. n |-> Whole(ws[i])])
  BY <1>1, SumsAreWhole
<1>4. QED
  BY <1>2, <1>3 DEF ws

\* What rotates, shifts or combines words is a word.
LEMMA RotatedIsWord ==
    ASSUME NEW w, NEW s
    PROVE  rotrW(w, s) \in Words
BY DEF rotrW, rotrSH, rotrSL, rotrBH, rotrBL, Shl, Shr, Words

\* A shift.
LEMMA ShiftedIsWord ==
    ASSUME NEW w, NEW s
    PROVE  shrW(w, s) \in Words
BY DEF shrW, shrSH, shrSL, Shl, Shr, Words

\* The Boolean functions.
LEMMA BooleansAreWords ==
    ASSUME NEW a \in Words, NEW b \in Words, NEW c \in Words
    PROVE  Xor3W(a, b, c) \in Words /\ ChiW(a, b, c) \in Words /\ MajW(a, b, c) \in Words
BY DEF Words, Xor3W, ChiW, MajW, Xor3, Xor, Not

\* Three rotations of a word, as sigma0 and sigma1 take them (web/wallet.js:748-749, 755-756).
LEMMA SigmaIsWhole ==
    ASSUME Width, NEW w \in Words, NEW a \in ShaCounts, NEW b \in ShaCounts, NEW c \in ShaCounts
    PROVE  /\ Xor3W(rotrW(w, a), rotrW(w, b), rotrW(w, c)) \in Words
           /\ Whole(Xor3W(rotrW(w, a), rotrW(w, b), rotrW(w, c)))
                = Xor3(rotr(Whole(w), a), rotr(Whole(w), b), rotr(Whole(w), c))
<1> DEFINE x == rotrW(w, a)
           y == rotrW(w, b)
           z == rotrW(w, c)
<1>1. x \in Words /\ y \in Words /\ z \in Words
  BY RotatedIsWord
<1>2. Whole(x) = rotr(Whole(w), a) /\ Whole(y) = rotr(Whole(w), b) /\ Whole(z) = rotr(Whole(w), c)
  BY RotationsAreWhole DEF ShaCounts
<1> HIDE DEF x, y, z
<1>3. Xor3W(x, y, z) \in Words /\ Whole(Xor3W(x, y, z)) = Xor3(Whole(x), Whole(y), Whole(z))
  BY <1>1, BooleansAreWords, BooleansAreWhole
<1>4. QED
  BY <1>2, <1>3, Zenon DEF x, y, z

\* Two rotations and a shift, as the schedule takes them (web/wallet.js:732-739).
LEMMA GammaIsWhole ==
    ASSUME Width, NEW w \in Words, NEW a \in ShaCounts, NEW b \in ShaCounts, NEW c \in 1 .. W - 1
    PROVE  /\ Xor3W(rotrW(w, a), rotrW(w, b), shrW(w, c)) \in Words
           /\ Whole(Xor3W(rotrW(w, a), rotrW(w, b), shrW(w, c)))
                = Xor3(rotr(Whole(w), a), rotr(Whole(w), b), shr(Whole(w), c))
<1> DEFINE x == rotrW(w, a)
           y == rotrW(w, b)
           z == shrW(w, c)
<1>1. x \in Words /\ y \in Words /\ z \in Words
  BY RotatedIsWord, ShiftedIsWord
<1>2. Whole(x) = rotr(Whole(w), a) /\ Whole(y) = rotr(Whole(w), b) /\ Whole(z) = shr(Whole(w), c)
  BY RotationsAreWhole, ShiftIsWhole DEF ShaCounts
<1> HIDE DEF x, y, z
<1>3. Xor3W(x, y, z) \in Words /\ Whole(Xor3W(x, y, z)) = Xor3(Whole(x), Whole(y), Whole(z))
  BY <1>1, BooleansAreWords, BooleansAreWhole
<1>4. QED
  BY <1>2, <1>3, Zenon DEF x, y, z

\* The counts, one by one.
LEMMA CountsAre ==
    ASSUME Constants
    PROVE  /\ R.s0[1] \in ShaCounts /\ R.s0[2] \in ShaCounts /\ R.s0[3] \in 1 .. W - 1
           /\ R.s1[1] \in ShaCounts /\ R.s1[2] \in ShaCounts /\ R.s1[3] \in 1 .. W - 1
           /\ R.S0[1] \in ShaCounts /\ R.S0[2] \in ShaCounts /\ R.S0[3] \in ShaCounts
           /\ R.S1[1] \in ShaCounts /\ R.S1[2] \in ShaCounts /\ R.S1[3] \in ShaCounts
<1> DEFINE triples == ShaCounts \X ShaCounts \X (1 .. W - 1)
           turns == ShaCounts \X ShaCounts \X ShaCounts
<1>1. R \in [s0 : triples, s1 : triples, S0 : turns, S1 : turns]
  BY DEF Constants
<1>2. \A t \in triples : t[1] \in ShaCounts /\ t[2] \in ShaCounts /\ t[3] \in 1 .. W - 1
  OBVIOUS
<1>3. \A t \in turns : t[1] \in ShaCounts /\ t[2] \in ShaCounts /\ t[3] \in ShaCounts
  OBVIOUS
<1> HIDE DEF triples, turns
<1>4. R.s0 \in triples /\ R.s1 \in triples /\ R.S0 \in turns /\ R.S1 \in turns
  BY <1>1
<1>5. QED
  BY <1>2, <1>3, <1>4, Zenon

\* A word of the schedule (web/wallet.js:558-562, 732-744).
LEMMA ScheduledIsWhole ==
    ASSUME Width, Constants, NEW w15 \in Words, NEW w2 \in Words, NEW w7 \in Words, NEW w16 \in Words
    PROVE  /\ Scheduled512(w15, w2, w7, w16) \in Words
           /\ Whole(Scheduled512(w15, w2, w7, w16)) = Scheduled(Whole(w15), Whole(w2), Whole(w7), Whole(w16))
<1> DEFINE s0 == Xor3W(rotrW(w15, R.s0[1]), rotrW(w15, R.s0[2]), shrW(w15, R.s0[3]))
           s1 == Xor3W(rotrW(w2, R.s1[1]), rotrW(w2, R.s1[2]), shrW(w2, R.s1[3]))
           t0 == Xor3(rotr(Whole(w15), R.s0[1]), rotr(Whole(w15), R.s0[2]), shr(Whole(w15), R.s0[3]))
           t1 == Xor3(rotr(Whole(w2), R.s1[1]), rotr(Whole(w2), R.s1[2]), shr(Whole(w2), R.s1[3]))
<1>1. s0 \in Words /\ Whole(s0) = t0
  <2> DEFINE a == R.s0[1]
             b == R.s0[2]
             c == R.s0[3]
  <2>1. a \in ShaCounts /\ b \in ShaCounts /\ c \in 1 .. W - 1
    BY CountsAre, Zenon
  <2> HIDE DEF a, b, c
  <2>2. /\ Xor3W(rotrW(w15, a), rotrW(w15, b), shrW(w15, c)) \in Words
        /\ Whole(Xor3W(rotrW(w15, a), rotrW(w15, b), shrW(w15, c)))
             = Xor3(rotr(Whole(w15), a), rotr(Whole(w15), b), shr(Whole(w15), c))
    BY <2>1, GammaIsWhole
  <2>3. QED
    BY <2>2, Zenon DEF a, b, c
<1>2. s1 \in Words /\ Whole(s1) = t1
  <2> DEFINE a == R.s1[1]
             b == R.s1[2]
             c == R.s1[3]
  <2>1. a \in ShaCounts /\ b \in ShaCounts /\ c \in 1 .. W - 1
    BY CountsAre, Zenon
  <2> HIDE DEF a, b, c
  <2>2. /\ Xor3W(rotrW(w2, a), rotrW(w2, b), shrW(w2, c)) \in Words
        /\ Whole(Xor3W(rotrW(w2, a), rotrW(w2, b), shrW(w2, c)))
             = Xor3(rotr(Whole(w2), a), rotr(Whole(w2), b), shr(Whole(w2), c))
    BY <2>1, GammaIsWhole
  <2>3. QED
    BY <2>2, Zenon DEF a, b, c
<1>3. Scheduled512(w15, w2, w7, w16) = AddW(<<s0, s1, w7, w16>>)
  BY Zenon DEF Scheduled512
<1>4. Scheduled(Whole(w15), Whole(w2), Whole(w7), Whole(w16)) = Plus(<<t1, Whole(w7), t0, Whole(w16)>>)
  BY Zenon DEF Scheduled
<1> HIDE DEF s0, s1, t0, t1
<1>5. /\ AddW(<<s0, s1, w7, w16>>) \in Words
      /\ Whole(AddW(<<s0, s1, w7, w16>>)) = Plus(<<Whole(s0), Whole(s1), Whole(w7), Whole(w16)>>)
  BY <1>1, <1>2, AddFour
<1>6. Plus(<<t0, t1, Whole(w7), Whole(w16)>>) = Plus(<<t1, Whole(w7), t0, Whole(w16)>>)
  BY PlusMoved
<1>7. QED
  BY <1>1, <1>2, <1>3, <1>4, <1>5, <1>6, Zenon

\* The words a schedule has, on whole words and on halves.
Scheduling(w, block, n) ==
    \A i \in 1 .. n : w[i] = IF i <= 16 THEN block[i] ELSE Scheduled(w[i - 15], w[i - 2], w[i - 7], w[i - 16])
Scheduling512(w, block, n) ==
    \A i \in 1 .. n : w[i] = IF i <= 16 THEN block[i] ELSE Scheduled512(w[i - 15], w[i - 2], w[i - 7], w[i - 16])

\* The schedule has its words (web/wallet.js:554-563).
LEMMA ScheduleRuns ==
    ASSUME Rounds \in Nat, NEW block
    PROVE  Schedule(block) = [i \in 1 .. Rounds |-> Schedule(block)[i]] /\ Scheduling(Schedule(block), block, Rounds)
<1> DEFINE At(f, i) == IF i <= 16 THEN block[i] ELSE Scheduled(f[i - 15], f[i - 2], f[i - 7], f[i - 16])
           Is(f, N) == f = [i \in 1 .. N |-> At(f, i)]
           S == {N \in Nat : \E f : Is(f, N)}
           w == CHOOSE f : Is(f, Rounds)
<1>1. 0 \in S
  <2>1. Is(<<>>, 0)
    OBVIOUS
  <2> HIDE DEF Is
  <2>2. QED
    BY <2>1
<1>2. ASSUME NEW N \in Nat, N \in S
      PROVE  N + 1 \in S
  <2>1. PICK f : Is(f, N)
    BY <1>2, Zenon
  <2> DEFINE g == [i \in 1 .. N + 1 |-> IF i <= N THEN f[i] ELSE At(f, i)]
  <2>2. \A i \in 1 .. N : g[i] = f[i]
    OBVIOUS
  <2>3. \A i \in 1 .. N + 1 : i > 16 => i - 15 \in 1 .. N /\ i - 2 \in 1 .. N /\ i - 7 \in 1 .. N /\ i - 16 \in 1 .. N
    OBVIOUS
  <2>4. \A i \in 1 .. N : f[i] = At(f, i)
    <3>1. f = [i \in 1 .. N |-> At(f, i)]
      BY <2>1, Zenon
    <3> HIDE DEF At
    <3>2. QED
      BY <3>1, Zenon
  <2>5. g = [i \in 1 .. N + 1 |-> IF i <= N THEN f[i] ELSE At(f, i)]
    OBVIOUS
  <2> HIDE DEF g
  <2>6. \A i \in 1 .. N + 1 : At(g, i) = At(f, i)
    BY <2>2, <2>3
  <2> HIDE DEF At
  <2>7. \A i \in 1 .. N + 1 : (IF i <= N THEN f[i] ELSE At(f, i)) = At(g, i)
    BY <2>4, <2>6
  <2>8. g = [i \in 1 .. N + 1 |-> At(g, i)]
    BY <2>5, <2>7
  <2>9. Is(g, N + 1)
    BY <2>8
  <2> HIDE DEF Is
  <2>10. QED
    BY <2>9
<1>3. Rounds \in S
  <2> HIDE DEF S
  <2>1. QED
    BY <1>1, <1>2, AllNumbers
<1>4. Is(w, Rounds)
  <2> HIDE DEF Is
  <2>1. QED
    BY <1>3, Zenon
<1>5. Schedule(block) = w
  BY Zenon DEF Schedule
<1>6. w = [i \in 1 .. Rounds |-> At(w, i)]
  BY <1>4, Zenon
<1> HIDE DEF w, At
<1>7. w = [i \in 1 .. Rounds |-> w[i]] /\ \A i \in 1 .. Rounds : w[i] = At(w, i)
  BY <1>6
<1>8. QED
  BY <1>5, <1>7, Zenon DEF Scheduling, At

\* And so has that on halves (web/wallet.js:727-745).
LEMMA Schedule512Runs ==
    ASSUME Rounds \in Nat, NEW block
    PROVE  Schedule512(block) = [i \in 1 .. Rounds |-> Schedule512(block)[i]] /\ Scheduling512(Schedule512(block), block, Rounds)
<1> DEFINE At(f, i) == IF i <= 16 THEN block[i] ELSE Scheduled512(f[i - 15], f[i - 2], f[i - 7], f[i - 16])
           Is(f, N) == f = [i \in 1 .. N |-> At(f, i)]
           S == {N \in Nat : \E f : Is(f, N)}
           w == CHOOSE f : Is(f, Rounds)
<1>1. 0 \in S
  <2>1. Is(<<>>, 0)
    OBVIOUS
  <2> HIDE DEF Is
  <2>2. QED
    BY <2>1
<1>2. ASSUME NEW N \in Nat, N \in S
      PROVE  N + 1 \in S
  <2>1. PICK f : Is(f, N)
    BY <1>2, Zenon
  <2> DEFINE g == [i \in 1 .. N + 1 |-> IF i <= N THEN f[i] ELSE At(f, i)]
  <2>2. \A i \in 1 .. N : g[i] = f[i]
    OBVIOUS
  <2>3. \A i \in 1 .. N + 1 : i > 16 => i - 15 \in 1 .. N /\ i - 2 \in 1 .. N /\ i - 7 \in 1 .. N /\ i - 16 \in 1 .. N
    OBVIOUS
  <2>4. \A i \in 1 .. N : f[i] = At(f, i)
    <3>1. f = [i \in 1 .. N |-> At(f, i)]
      BY <2>1, Zenon
    <3> HIDE DEF At
    <3>2. QED
      BY <3>1, Zenon
  <2>5. g = [i \in 1 .. N + 1 |-> IF i <= N THEN f[i] ELSE At(f, i)]
    OBVIOUS
  <2> HIDE DEF g
  <2>6. \A i \in 1 .. N + 1 : At(g, i) = At(f, i)
    BY <2>2, <2>3
  <2> HIDE DEF At
  <2>7. \A i \in 1 .. N + 1 : (IF i <= N THEN f[i] ELSE At(f, i)) = At(g, i)
    BY <2>4, <2>6
  <2>8. g = [i \in 1 .. N + 1 |-> At(g, i)]
    BY <2>5, <2>7
  <2>9. Is(g, N + 1)
    BY <2>8
  <2> HIDE DEF Is
  <2>10. QED
    BY <2>9
<1>3. Rounds \in S
  <2> HIDE DEF S
  <2>1. QED
    BY <1>1, <1>2, AllNumbers
<1>4. Is(w, Rounds)
  <2> HIDE DEF Is
  <2>1. QED
    BY <1>3, Zenon
<1>5. Schedule512(block) = w
  BY Zenon DEF Schedule512
<1>6. w = [i \in 1 .. Rounds |-> At(w, i)]
  BY <1>4, Zenon
<1> HIDE DEF w, At
<1>7. w = [i \in 1 .. Rounds |-> w[i]] /\ \A i \in 1 .. Rounds : w[i] = At(w, i)
  BY <1>6
<1>8. QED
  BY <1>5, <1>7, Zenon DEF Scheduling512, At

\* So the schedule on halves is that on whole words (web/wallet.js:554-563, 727-745).
LEMMA ScheduleIsWhole ==
    ASSUME Width, Constants, NEW block \in [1 .. 16 -> Words]
    PROVE  /\ Schedule512(block) \in [1 .. Rounds -> Words]
           /\ Wholes(Schedule512(block)) = Schedule(Wholes(block))
<1> DEFINE u == Schedule512(block)
           blocks == Wholes(block)
           w == Schedule(blocks)
           S == {n \in Nat : \A i \in 1 .. n : i <= Rounds => u[i] \in Words /\ Whole(u[i]) = w[i]}
<1>1. Rounds \in Nat
  BY DEF Constants
<1>2. u = [i \in 1 .. Rounds |-> u[i]] /\ Scheduling512(u, block, Rounds)
  BY <1>1, Schedule512Runs
<1>3. w = [i \in 1 .. Rounds |-> w[i]] /\ Scheduling(w, blocks, Rounds)
  BY <1>1, ScheduleRuns
<1>4. \A i \in 1 .. 16 : block[i] \in Words /\ blocks[i] = Whole(block[i])
  BY DEF Wholes
<1> HIDE DEF u, w, blocks
<1>5. 0 \in S
  OBVIOUS
<1>6. ASSUME NEW n \in Nat, n \in S
      PROVE  n + 1 \in S
  <2> DEFINE i == n + 1
  <2>1. SUFFICES ASSUME i <= Rounds
                 PROVE  u[i] \in Words /\ Whole(u[i]) = w[i]
    BY <1>6
  <2>2. i \in 1 .. Rounds /\ \A j \in 1 .. n : u[j] \in Words /\ Whole(u[j]) = w[j]
    BY <1>1, <1>6, <2>1
  <2>3. CASE i <= 16
    <3>1. u[i] = block[i] /\ w[i] = blocks[i]
      BY <1>2, <1>3, <2>2, <2>3 DEF Scheduling, Scheduling512
    <3>2. i \in 1 .. 16
      BY <2>3
    <3>3. QED
      BY <1>4, <3>1, <3>2
  <2>4. CASE ~(i <= 16)
    <3>1. /\ u[i] = Scheduled512(u[i - 15], u[i - 2], u[i - 7], u[i - 16])
          /\ w[i] = Scheduled(w[i - 15], w[i - 2], w[i - 7], w[i - 16])
      <4> HIDE DEF i
      <4>1. QED
        BY <1>2, <1>3, <2>2, <2>4 DEF Scheduling, Scheduling512
    <3>2. i - 15 \in 1 .. n /\ i - 2 \in 1 .. n /\ i - 7 \in 1 .. n /\ i - 16 \in 1 .. n
      BY <2>4
    <3> DEFINE a == u[i - 15]
               b == u[i - 2]
               c == u[i - 7]
               d == u[i - 16]
    <3> HIDE DEF i
    <3>3. /\ a \in Words /\ b \in Words /\ c \in Words /\ d \in Words
          /\ Whole(a) = w[i - 15] /\ Whole(b) = w[i - 2] /\ Whole(c) = w[i - 7] /\ Whole(d) = w[i - 16]
      BY <2>2, <3>2
    <3> HIDE DEF a, b, c, d
    <3>4. Scheduled512(a, b, c, d) \in Words /\ Whole(Scheduled512(a, b, c, d)) = Scheduled(Whole(a), Whole(b), Whole(c), Whole(d))
      BY <3>3, ScheduledIsWhole
    <3>5. QED
      BY <3>1, <3>3, <3>4, Zenon DEF a, b, c, d
  <2>5. QED
    BY <2>3, <2>4
<1>7. \A n \in Nat : n \in S
  <2> HIDE DEF S
  <2>1. QED
    BY <1>5, <1>6, AllNumbers
<1>8. \A i \in 1 .. Rounds : u[i] \in Words /\ Whole(u[i]) = w[i]
  BY <1>1, <1>7
<1>9. u \in [1 .. Rounds -> Words] /\ DOMAIN u = 1 .. Rounds
  BY <1>2, <1>8
<1>10. Wholes(u) = [i \in 1 .. Rounds |-> Whole(u[i])]
  BY <1>9 DEF Wholes
<1>11. Wholes(u) = w
  BY <1>3, <1>8, <1>10
<1>12. QED
  BY <1>9, <1>11 DEF u, w, blocks

\* The registers move on the same way (web/wallet.js:570-577, 759-774).
LEMMA ShiftedIsWhole ==
    ASSUME NEW v \in [Registers -> Words], NEW e \in Words, NEW a \in Words
    PROVE  /\ Shifted(v, e, a) \in [Registers -> Words]
           /\ Wholes(Shifted(v, e, a)) = Shifted(Wholes(v), Whole(e), Whole(a))
<1> DEFINE x == <<a, v[1], v[2], v[3], e, v[5], v[6], v[7]>>
           y == <<Whole(a), Whole(v[1]), Whole(v[2]), Whole(v[3]), Whole(e), Whole(v[5]), Whole(v[6]), Whole(v[7])>>
<1>1. \A j \in 1 .. 8 : v[j] \in Words /\ Wholes(v)[j] = Whole(v[j])
  BY DEF Registers, Wholes
<1>2. x \in [Registers -> Words] /\ DOMAIN x = 1 .. 8
  BY <1>1 DEF Registers
<1>3. [j \in 1 .. 8 |-> Whole(x[j])] = y
  OBVIOUS
<1>4. Wholes(x) = y
  BY <1>2, <1>3, Zenon DEF Wholes
<1>5. Shifted(Wholes(v), Whole(e), Whole(a)) = y
  BY <1>1 DEF Shifted
<1>6. QED
  BY <1>2, <1>4, <1>5 DEF Shifted

\* A round on halves is the round on whole words (web/wallet.js:565-578, 747-775).
LEMMA RoundIsWhole ==
    ASSUME Width, Constants, NEW v \in [Registers -> Words], NEW k \in Words, NEW w \in Words
    PROVE  /\ Round512(v, k, w) \in [Registers -> Words]
           /\ Wholes(Round512(v, k, w)) = Round(Wholes(v), Whole(k), Whole(w))
<1> DEFINE x == Wholes(v)
           sigma1 == Xor3W(rotrW(v[5], R.S1[1]), rotrW(v[5], R.S1[2]), rotrW(v[5], R.S1[3]))
           sigma0 == Xor3W(rotrW(v[1], R.S0[1]), rotrW(v[1], R.S0[2]), rotrW(v[1], R.S0[3]))
           chi == ChiW(v[5], v[6], v[7])
           maj == MajW(v[1], v[2], v[3])
           T1 == AddW(<<v[8], sigma1, chi, k, w>>)
           e == AddW(<<v[4], T1>>)
           a == AddW(<<T1, sigma0, maj>>)
           Sigma1 == Xor3(rotr(x[5], R.S1[1]), rotr(x[5], R.S1[2]), rotr(x[5], R.S1[3]))
           Sigma0 == Xor3(rotr(x[1], R.S0[1]), rotr(x[1], R.S0[2]), rotr(x[1], R.S0[3]))
           CHI == Chi(x[5], x[6], x[7])
           MAJ == Maj(x[1], x[2], x[3])
           S1 == Plus(<<x[8], Sigma1, CHI, Whole(k), Whole(w)>>)
           S2 == Plus(<<Sigma0, MAJ>>)
<1>1. \A j \in 1 .. 8 : v[j] \in Words /\ x[j] = Whole(v[j])
  BY DEF Registers, Wholes
<1>2. Round512(v, k, w) = Shifted(v, e, a)
  BY Zenon DEF Round512
<1>3. Round(x, Whole(k), Whole(w)) = Shifted(x, Plus(<<x[4], S1>>), Plus(<<S1, S2>>))
  BY Zenon DEF Round
<1> HIDE DEF x
<1>4. sigma1 \in Words /\ Whole(sigma1) = Sigma1
  <2> DEFINE b == R.S1[1]
             c == R.S1[2]
             d == R.S1[3]
             y == v[5]
  <2>1. b \in ShaCounts /\ c \in ShaCounts /\ d \in ShaCounts
    BY CountsAre, Zenon
  <2>2. y \in Words /\ x[5] = Whole(y)
    BY <1>1
  <2> HIDE DEF b, c, d, y
  <2>3. /\ Xor3W(rotrW(y, b), rotrW(y, c), rotrW(y, d)) \in Words
        /\ Whole(Xor3W(rotrW(y, b), rotrW(y, c), rotrW(y, d))) = Xor3(rotr(Whole(y), b), rotr(Whole(y), c), rotr(Whole(y), d))
    BY <2>1, <2>2, SigmaIsWhole
  <2>4. QED
    BY <2>2, <2>3, Zenon DEF b, c, d, y
<1>5. sigma0 \in Words /\ Whole(sigma0) = Sigma0
  <2> DEFINE b == R.S0[1]
             c == R.S0[2]
             d == R.S0[3]
             y == v[1]
  <2>1. b \in ShaCounts /\ c \in ShaCounts /\ d \in ShaCounts
    BY CountsAre, Zenon
  <2>2. y \in Words /\ x[1] = Whole(y)
    BY <1>1
  <2> HIDE DEF b, c, d, y
  <2>3. /\ Xor3W(rotrW(y, b), rotrW(y, c), rotrW(y, d)) \in Words
        /\ Whole(Xor3W(rotrW(y, b), rotrW(y, c), rotrW(y, d))) = Xor3(rotr(Whole(y), b), rotr(Whole(y), c), rotr(Whole(y), d))
    BY <2>1, <2>2, SigmaIsWhole
  <2>4. QED
    BY <2>2, <2>3, Zenon DEF b, c, d, y
<1>6. chi \in Words /\ maj \in Words /\ Whole(chi) = CHI /\ Whole(maj) = MAJ
  <2> DEFINE b == v[5]
             c == v[6]
             d == v[7]
             l == v[1]
             m == v[2]
             n == v[3]
  <2>1. /\ b \in Words /\ c \in Words /\ d \in Words /\ l \in Words /\ m \in Words /\ n \in Words
        /\ x[5] = Whole(b) /\ x[6] = Whole(c) /\ x[7] = Whole(d)
        /\ x[1] = Whole(l) /\ x[2] = Whole(m) /\ x[3] = Whole(n)
    BY <1>1
  <2> HIDE DEF b, c, d, l, m, n
  <2>2. ChiW(b, c, d) \in Words /\ MajW(l, m, n) \in Words
    BY <2>1, BooleansAreWords
  <2>3. Whole(ChiW(b, c, d)) = Chi(Whole(b), Whole(c), Whole(d))
    BY <2>1, BooleansAreWhole
  <2>4. Whole(MajW(l, m, n)) = Maj(Whole(l), Whole(m), Whole(n))
    BY <2>1, BooleansAreWhole
  <2>5. QED
    BY <2>1, <2>2, <2>3, <2>4, Zenon DEF b, c, d, l, m, n
<1> HIDE DEF sigma1, sigma0, chi, maj, Sigma1, Sigma0, CHI, MAJ
<1>7. T1 \in Words /\ Whole(T1) = S1
  <2>1. v[8] \in Words /\ x[8] = Whole(v[8])
    BY <1>1
  <2>2. T1 \in Words /\ Whole(T1) = Plus(<<Whole(v[8]), Whole(sigma1), Whole(chi), Whole(k), Whole(w)>>)
    BY <1>4, <1>6, <2>1, AddFive
  <2>3. QED
    BY <1>4, <1>6, <2>1, <2>2, Zenon
<1> HIDE DEF T1, S1
<1>8. e \in Words /\ Whole(e) = Plus(<<x[4], S1>>)
  <2>1. v[4] \in Words /\ x[4] = Whole(v[4])
    BY <1>1
  <2>2. e \in Words /\ Whole(e) = Plus(<<Whole(v[4]), Whole(T1)>>)
    BY <1>7, <2>1, AddTwo
  <2>3. QED
    BY <1>7, <2>1, <2>2, Zenon
<1>9. a \in Words /\ Whole(a) = Plus(<<S1, S2>>)
  <2>1. a \in Words /\ Whole(a) = Plus(<<Whole(T1), Whole(sigma0), Whole(maj)>>)
    BY <1>5, <1>6, <1>7, AddThree
  <2>2. Plus(<<S1, Plus(<<Sigma0, MAJ>>)>>) = Plus(<<S1, Sigma0, MAJ>>)
    BY PlusNested
  <2>3. QED
    BY <1>5, <1>6, <1>7, <2>1, <2>2, Zenon
<1> HIDE DEF e, a, S2
<1>10. Shifted(v, e, a) \in [Registers -> Words] /\ Wholes(Shifted(v, e, a)) = Shifted(Wholes(v), Whole(e), Whole(a))
  BY <1>8, <1>9, ShiftedIsWhole
<1>11. QED
  BY <1>2, <1>3, <1>8, <1>9, <1>10, Zenon DEF x

-----------------------------------------------------------------------------
(* The two loops *)

\* Halves of whole words, word by word.
LEMMA HalvedIsWhole ==
    ASSUME Width, NEW N, NEW xs \in [N -> SUBSET Wide]
    PROVE  Halved(xs) \in [N -> Words] /\ Wholes(Halved(xs)) = xs
<1>1. \A j \in N : Halves(xs[j]) \in Words /\ Whole(Halves(xs[j])) = xs[j]
  <2>1. \A j \in N : xs[j] \in SUBSET Wide
    OBVIOUS
  <2>2. QED
    BY <2>1, HalvesAreWhole
<1>2. DOMAIN xs = N
  OBVIOUS
<1>3. Halved(xs) = [j \in N |-> Halves(xs[j])]
  BY <1>2, Zenon DEF Halved
<1>4. DOMAIN Halved(xs) = N
  BY <1>3
<1>5. Wholes(Halved(xs)) = [j \in N |-> Whole(Halved(xs)[j])]
  BY <1>4, Zenon DEF Wholes
<1>6. xs = [j \in N |-> xs[j]]
  OBVIOUS
<1>7. QED
  BY <1>1, <1>3, <1>5, <1>6

\* A run on whole words and a run on halves that are as far, and whose words are the same.
SplitRuns == [iv : [Registers -> Words], v : [Registers -> Words], w : [1 .. Rounds -> Words], i : 0 .. Rounds]
WholeRun(q) == [iv |-> Wholes(q.iv), v |-> Wholes(q.v), w |-> Wholes(q.w), i |-> q.i]
Agree(p, q) == q \in SplitRuns /\ p = WholeRun(q)

\* Both start from the same hash and the same block (web/wallet.js:554-564, 727-746).
THEOREM RunsStart ==
    ASSUME Width, Constants, NEW v \in [Registers -> SUBSET Wide], NEW block \in [1 .. 16 -> SUBSET Wide]
    PROVE  Agree(Start256(v, block), Start512(Halved(v), Halved(block)))
<1> DEFINE u == Halved(v)
           b == Halved(block)
           w == Schedule512(b)
<1>1. u \in [Registers -> Words] /\ Wholes(u) = v /\ b \in [1 .. 16 -> Words] /\ Wholes(b) = block
  BY HalvedIsWhole
<1>2. Start512(u, b) = [iv |-> u, v |-> u, w |-> w, i |-> 0]
  BY Zenon DEF Start512
<1> HIDE DEF u, b
<1>3. w \in [1 .. Rounds -> Words] /\ Wholes(w) = Schedule(block)
  <2>1. w \in [1 .. Rounds -> Words] /\ Wholes(w) = Schedule(Wholes(b))
    BY <1>1, ScheduleIsWhole
  <2>2. QED
    BY <1>1, <2>1, Zenon
<1> HIDE DEF w
<1>4. 0 \in 0 .. Rounds
  BY DEF Constants
<1> DEFINE q == [iv |-> u, v |-> u, w |-> w, i |-> 0]
<1>5. q \in SplitRuns
  BY <1>1, <1>3, <1>4 DEF SplitRuns
<1>6. q.iv = u /\ q.v = u /\ q.w = w /\ q.i = 0
  OBVIOUS
<1> HIDE DEF q
<1>7. Start256(v, block) = [iv |-> Wholes(q.iv), v |-> Wholes(q.v), w |-> Wholes(q.w), i |-> q.i]
  BY <1>1, <1>3, <1>6, Zenon DEF Start256
<1>8. QED
  BY <1>2, <1>5, <1>7, Zenon DEF Agree, WholeRun, q, u, b

\* What a round does to a run.
IsRun(p) == p = [iv |-> p.iv, v |-> p.v, w |-> p.w, i |-> p.i]
Moves(p, a, b) == [p EXCEPT !.v = a, !.i = b] = [iv |-> p.iv, v |-> a, w |-> p.w, i |-> b]

\* A round changes the registers and the count, and nothing else.
LEMMA RunMoves ==
    ASSUME NEW p, NEW a, NEW b, IsRun(p)
    PROVE  Moves(p, a, b)
<1> DEFINE q == [p EXCEPT !.v = a]
           iv == p.iv
           v == p.v
           w == p.w
           i == p.i
<1>1. p = [iv |-> iv, v |-> v, w |-> w, i |-> i]
  BY DEF IsRun
<1>2. [p EXCEPT !.v = a, !.i = b] = [q EXCEPT !.i = b]
  BY Zenon
<1> HIDE DEF iv, v, w, i
<1>3. q = [iv |-> iv, v |-> a, w |-> w, i |-> i]
  BY <1>1
<1> HIDE DEF q
<1>4. [q EXCEPT !.i = b] = [iv |-> iv, v |-> a, w |-> w, i |-> b]
  BY <1>3
<1>5. QED
  BY <1>2, <1>4, Zenon DEF Moves, iv, w

\* A round keeps them alike (web/wallet.js:565-578, 747-775).
THEOREM RunsStep ==
    ASSUME Width, Constants, NEW p, NEW q, Agree(p, q), p.i < Rounds
    PROVE  Agree(Step256(p), Step512(q))
<1> DEFINE n == q.i + 1
           k == Halves(K[n])
           x == Round512(q.v, k, q.w[n])
           r == [iv |-> q.iv, v |-> x, w |-> q.w, i |-> n]
<1>1. /\ q.iv \in [Registers -> Words] /\ q.v \in [Registers -> Words] /\ q.w \in [1 .. Rounds -> Words] /\ q.i \in 0 .. Rounds
  BY Zenon DEF Agree, SplitRuns
<1>2. p.iv = Wholes(q.iv) /\ p.v = Wholes(q.v) /\ p.w = Wholes(q.w) /\ p.i = q.i
  BY DEF Agree, WholeRun
<1>3. n \in 1 .. Rounds /\ n \in 0 .. Rounds
  BY <1>1, <1>2 DEF Constants
<1>4. k \in Words /\ Whole(k) = K[n]
  <2>1. K[n] \in SUBSET Wide
    BY <1>3 DEF Constants
  <2>2. QED
    BY <2>1, HalvesAreWhole
<1>5. q.w[n] \in Words /\ p.w[n] = Whole(q.w[n])
  BY <1>1, <1>2, <1>3 DEF Wholes
<1>6. Step512(q) = r
  <2>1. IsRun(q)
    BY DEF Agree, SplitRuns, IsRun
  <2>2. Step512(q) = [q EXCEPT !.v = x, !.i = n]
    BY Zenon DEF Step512
  <2> HIDE DEF x, n
  <2>3. Moves(q, x, n)
    BY <2>1, RunMoves
  <2>4. QED
    BY <2>2, <2>3, Zenon DEF Moves
<1>7. Step256(p) = [iv |-> p.iv, v |-> Round(p.v, K[p.i + 1], p.w[p.i + 1]), w |-> p.w, i |-> p.i + 1]
  <2>1. IsRun(p)
    <3>1. p = [iv |-> Wholes(q.iv), v |-> Wholes(q.v), w |-> Wholes(q.w), i |-> q.i]
      BY Zenon DEF Agree, WholeRun
    <3>2. QED
      BY <1>2, <3>1, Zenon DEF IsRun
  <2> DEFINE y == Round(p.v, K[p.i + 1], p.w[p.i + 1])
             m == p.i + 1
  <2>2. Step256(p) = [p EXCEPT !.v = y, !.i = m]
    BY Zenon DEF Step256
  <2> HIDE DEF y, m
  <2>3. Moves(p, y, m)
    BY <2>1, RunMoves
  <2>4. QED
    BY <2>2, <2>3, Zenon DEF Moves, y, m
<1> HIDE DEF n, k
<1>8. x \in [Registers -> Words] /\ Wholes(x) = Round(Wholes(q.v), Whole(k), Whole(q.w[n]))
  BY <1>1, <1>4, <1>5, RoundIsWhole
<1> HIDE DEF x
<1>9. r \in SplitRuns
  BY <1>1, <1>3, <1>8 DEF SplitRuns
<1>10. r.iv = q.iv /\ r.v = x /\ r.w = q.w /\ r.i = n
  OBVIOUS
<1> HIDE DEF r
<1>11. Step256(p) = [iv |-> Wholes(r.iv), v |-> Wholes(r.v), w |-> Wholes(r.w), i |-> r.i]
  BY <1>2, <1>4, <1>5, <1>7, <1>8, <1>10, Zenon DEF n
<1>12. QED
  BY <1>6, <1>9, <1>11, Zenon DEF Agree, WholeRun

\* So the hash on halves is, word for word, the hash on whole words, the two adding the same
\* summands in opposite orders (web/wallet.js:579-587, 776-784).
THEOREM RunsEnd ==
    ASSUME Width, NEW p, NEW q, Agree(p, q)
    PROVE  SplitIsWhole(p, q)
<1>1. q.iv \in [Registers -> Words] /\ q.v \in [Registers -> Words] /\ p.iv = Wholes(q.iv) /\ p.v = Wholes(q.v)
  BY DEF Agree, WholeRun, SplitRuns
<1> DEFINE J == Registers
           z == Result512(q)
<1>2. z = [j \in J |-> AddW(<<q.iv[j], q.v[j]>>)]
  BY Zenon DEF Result512
<1>3. Result256(p) = [j \in J |-> Plus(<<p.v[j], p.iv[j]>>)]
  BY Zenon DEF Result256
<1> HIDE DEF J, z
<1>4. Wholes(z) = [j \in J |-> Whole(z[j])]
  <2>1. DOMAIN z = J
    BY <1>2
  <2>2. QED
    BY <2>1, Zenon DEF Wholes
<1>5. ASSUME NEW j \in J
      PROVE  Whole(z[j]) = Plus(<<p.v[j], p.iv[j]>>)
  <2> DEFINE a == q.iv[j]
             b == q.v[j]
  <2>1. a \in Words /\ b \in Words
    BY <1>1 DEF J
  <2>2. p.iv[j] = Whole(a) /\ p.v[j] = Whole(b)
    BY <1>1 DEF J, Wholes
  <2>3. z[j] = AddW(<<a, b>>)
    BY <1>2
  <2> HIDE DEF a, b
  <2>4. Whole(AddW(<<a, b>>)) = Plus(<<Whole(a), Whole(b)>>)
    BY <2>1, AddTwo
  <2>5. Plus(<<Whole(a), Whole(b)>>) = Plus(<<Whole(b), Whole(a)>>)
    BY PlusTurned
  <2>6. QED
    BY <2>2, <2>3, <2>4, <2>5, Zenon
<1>6. Result256(p) = Wholes(z)
  BY <1>3, <1>4, <1>5, Zenon
<1>7. QED
  BY <1>6, Zenon DEF SplitIsWhole, z

-----------------------------------------------------------------------------
(* The sponge *)

\* 200, 136 and 32 in the code: a block is a part of the state.
Sizes == StateLen \in Nat \ {0} /\ BlockLen \in 1 .. StateLen /\ OutputLen \in Nat \ {0}

\* Exclusive or, with zero, and of three.
LEMMA XorLaws ==
    ASSUME NEW a, NEW b, NEW c
    PROVE  Mix(a, Zero) = a /\ Mix(Zero, a) = a /\ Mix(Mix(a, b), c) = Mix(a, Mix(b, c))
<1>1. Mix(a, Zero) = a /\ Mix(Zero, a) = a
  BY DEF Mix, Zero
<1>2. ASSUME NEW x
      PROVE  x \in Mix(Mix(a, b), c) <=> x \in Mix(a, Mix(b, c))
  BY DEF Mix
<1>3. QED
  BY <1>1, <1>2

\* And of four.
LEMMA XorOfFour ==
    ASSUME NEW x, NEW a, NEW b, NEW c
    PROVE  Mix(Mix(Mix(x, a), b), c) = Mix(x, Mix(a, Mix(b, c)))
<1> DEFINE y == Mix(x, a)
           z == Mix(b, c)
<1>1. Mix(Mix(y, b), c) = Mix(y, z)
  <2> HIDE DEF y
  <2>1. QED
    BY XorLaws
<1>2. Mix(y, z) = Mix(x, Mix(a, z))
  <2> HIDE DEF z
  <2>1. QED
    BY XorLaws
<1>3. QED
  BY <1>1, <1>2

-----------------------------------------------------------------------------
(* Where a block starts *)

Start(n) == n * BlockLen

\* Blocks follow one another.
LEMMA Starts ==
    ASSUME Sizes
    PROVE  /\ Start(0) = 0
           /\ \A n \in Nat : Start(n) \in Nat /\ Start(n + 1) = Start(n) + BlockLen
<1>1. BlockLen \in Nat
  BY DEF Sizes
<1>2. \A n \in Nat : n * BlockLen \in Nat /\ (n + 1) * BlockLen = n * BlockLen + BlockLen
  BY <1>1
<1>3. 0 * BlockLen = 0
  BY <1>1
<1>4. QED
  BY <1>2, <1>3 DEF Start

\* The block before the end of some blocks is one of them.
LEMMA StartsBelow ==
    ASSUME Sizes, NEW q \in Nat, NEW n \in 1 .. q
    PROVE  Start(n - 1) \in Nat /\ Start(n - 1) + BlockLen <= Start(q)
<1>1. BlockLen \in Nat
  BY DEF Sizes
<1>2. PICK k \in Nat : q = n + k
  <2>1. q - n \in Nat /\ q = n + (q - n)
    OBVIOUS
  <2>2. QED
    BY <2>1
<1>3. PICK m \in Nat : n = m + 1 /\ n - 1 = m
  <2>1. n - 1 \in Nat /\ n = (n - 1) + 1
    OBVIOUS
  <2>2. QED
    BY <2>1
<1>4. ((m + 1) + k) * BlockLen = m * BlockLen + BlockLen + k * BlockLen /\ k * BlockLen \in Nat /\ m * BlockLen \in Nat
  BY <1>1
<1>5. QED
  BY <1>1, <1>2, <1>3, <1>4 DEF Start

-----------------------------------------------------------------------------
(* The state of a sponge that absorbs *)

Opens(state, pos) == [state : {state}, pos : {pos}, posOut : {0},
                      finished : {FALSE}, destroyed : {FALSE}, raised : {FALSE}]

\* A byte is mixed into the state at the place of the sponge, and the state is permuted when
\* that was the last place of a block (web/wallet.js:5333-5341).
LEMMA ByteMixed ==
    ASSUME NEW state, NEW pos, NEW byte, NEW h \in Opens(state, pos)
    PROVE  AbsorbByte(h, byte) \in
               IF pos + 1 = BlockLen THEN Opens(Permuted(Mixed(state, pos + 1, byte)), 0)
               ELSE Opens(Mixed(state, pos + 1, byte), pos + 1)
<1> DEFINE n == [h EXCEPT !.state = Mixed(@, h.pos + 1, byte), !.pos = @ + 1]
<1>1. n \in Opens(Mixed(state, pos + 1, byte), pos + 1)
  BY Zenon DEF Opens
<1> HIDE DEF n
<1>2. keccak(n) \in Opens(Permuted(Mixed(state, pos + 1, byte)), 0) /\ n.pos = pos + 1
  BY <1>1, Zenon DEF keccak, Opens
<1>3. AbsorbByte(h, byte) = IF n.pos = BlockLen THEN keccak(n) ELSE n
  BY Zenon DEF AbsorbByte, n
<1>4. QED
  BY <1>1, <1>2, <1>3, Zenon

\* The last two bytes are mixed in and the state is permuted (web/wallet.js:5344-5354).
LEMMA FinishMixes ==
    ASSUME NEW state, NEW pos, NEW h \in Opens(state, pos)
    PROVE  Finish(h) \in [state : {Permuted(Mixed(Mixed(state, pos + 1, Suffix), BlockLen, Final))}, pos : {0},
                          posOut : {0}, finished : {TRUE}, destroyed : {FALSE}, raised : {FALSE}]
<1> DEFINE n == [h EXCEPT !.finished = TRUE, !.state = Mixed(Mixed(@, h.pos + 1, Suffix), BlockLen, Final)]
<1>1. n \in [state : {Mixed(Mixed(state, pos + 1, Suffix), BlockLen, Final)}, pos : {pos},
             posOut : {0}, finished : {TRUE}, destroyed : {FALSE}, raised : {FALSE}]
  BY Zenon DEF Opens
<1> HIDE DEF n
<1>2. keccak(n) \in [state : {Permuted(Mixed(Mixed(state, pos + 1, Suffix), BlockLen, Final))}, pos : {0},
                     posOut : {0}, finished : {TRUE}, destroyed : {FALSE}, raised : {FALSE}]
  BY <1>1, Zenon DEF keccak
<1>3. ~h.finished
  BY Zenon DEF Opens
<1>4. Finish(h) = keccak(n)
  BY <1>3, Zenon DEF Finish, n
<1>5. QED
  BY <1>2, <1>4, Zenon

-----------------------------------------------------------------------------
(* What a sponge has absorbed *)

\* The first k bytes of a block mixed into a state; the states that the blocks of a message
\* lead to, one after the other; and a sponge between two bytes of the message.
Partial(before, msg, from, k) ==
    [i \in 1 .. StateLen |-> IF i <= k THEN Mix(before[i], msg[from + i]) ELSE before[i]]
Chain(S, msg, q) ==
    S[0] = Zeros(StateLen) /\ \A n \in 1 .. q : S[n] = Permuted(Partial(S[n - 1], msg, Start(n - 1), BlockLen))
Absorbed(S, q, msg, pos, state) ==
    /\ q \in Nat /\ pos \in 0 .. BlockLen - 1 /\ Len(msg) = Start(q) + pos
    /\ Chain(S, msg, q)
    /\ state = Partial(S[q], msg, Start(q), pos)
Holds(h, msg) == \E S, q, pos, state : Absorbed(S, q, msg, pos, state) /\ h \in Opens(state, pos)

\* Only the bytes that are mixed in matter.
LEMMA PartialSame ==
    ASSUME NEW before, NEW msg, NEW other, NEW from, NEW k \in Nat,
           \A i \in 1 .. k : msg[from + i] = other[from + i]
    PROVE  Partial(before, msg, from, k) = Partial(before, other, from, k)
<1>1. ASSUME NEW i \in 1 .. StateLen
      PROVE  (IF i <= k THEN Mix(before[i], msg[from + i]) ELSE before[i])
                 = IF i <= k THEN Mix(before[i], other[from + i]) ELSE before[i]
  <2>1. i <= k => i \in 1 .. k
    OBVIOUS
  <2>2. QED
    BY <2>1
<1>2. QED
  BY <1>1, Zenon DEF Partial

\* So the states of two messages that agree on some blocks agree.
LEMMA ChainSame ==
    ASSUME Sizes, NEW S, NEW msg, NEW other, NEW q \in Nat, Chain(S, msg, q),
           \A i \in 1 .. Start(q) : msg[i] = other[i]
    PROVE  Chain(S, other, q)
<1>1. ASSUME NEW n \in 1 .. q
      PROVE  Partial(S[n - 1], msg, Start(n - 1), BlockLen) = Partial(S[n - 1], other, Start(n - 1), BlockLen)
  <2>1. n - 1 \in Nat /\ BlockLen \in Nat
    BY DEF Sizes
  <2>2. Start(n - 1) \in Nat /\ Start(n - 1) + BlockLen <= Start(q)
    BY StartsBelow
  <2>3. \A i \in 1 .. BlockLen : Start(n - 1) + i \in 1 .. Start(q)
    <3>1. Start(q) \in Nat
      BY Starts
    <3>2. QED
      BY <2>1, <2>2, <3>1
  <2>4. \A i \in 1 .. BlockLen : msg[Start(n - 1) + i] = other[Start(n - 1) + i]
    BY <2>3
  <2>5. QED
    BY <2>1, <2>4, PartialSame
<1>2. QED
  BY <1>1 DEF Chain

\* The states of a message are determined.
LEMMA ChainUnique ==
    ASSUME NEW S, NEW T, NEW msg, NEW q \in Nat, Chain(S, msg, q), Chain(T, msg, q)
    PROVE  S[q] = T[q]
<1> DEFINE G == {n \in Nat : n <= q => S[n] = T[n]}
<1>1. 0 \in G
  BY DEF Chain
<1>2. ASSUME NEW n \in Nat, n \in G
      PROVE  n + 1 \in G
  <2>1. SUFFICES ASSUME n + 1 <= q
                 PROVE  S[n + 1] = T[n + 1]
    OBVIOUS
  <2>2. n + 1 \in 1 .. q /\ (n + 1) - 1 = n /\ n <= q
    BY <2>1
  <2>3. S[n] = T[n]
    BY <1>2, <2>2
  <2>4. /\ S[n + 1] = Permuted(Partial(S[(n + 1) - 1], msg, Start((n + 1) - 1), BlockLen))
        /\ T[n + 1] = Permuted(Partial(T[(n + 1) - 1], msg, Start((n + 1) - 1), BlockLen))
    BY <2>2, Zenon DEF Chain
  <2>5. QED
    BY <2>2, <2>3, <2>4
<1>3. q \in G
  <2> HIDE DEF G
  <2>1. QED
    BY <1>1, <1>2, AllNumbers
<1>4. QED
  BY <1>3

\* A state has a byte at each place.
IsState(s) == s = [i \in 1 .. StateLen |-> s[i]]

\* Every state a sponge comes to is one.
LEMMA StatesAre ==
    /\ \A s : IsState(Permuted(s)) /\ IsState(Zeros(StateLen))
    /\ \A before, msg, from, k : IsState(Partial(before, msg, from, k))
<1>1. \A s : IsState(Permuted(s))
  BY DEF IsState, Permuted
<1>2. IsState(Zeros(StateLen))
  BY DEF IsState, Zeros
<1>3. \A before, msg, from, k : IsState(Partial(before, msg, from, k))
  BY DEF IsState, Partial
<1>4. QED
  BY <1>1, <1>2, <1>3

\* Before a byte of a block is mixed in, its state is that of the blocks before.
LEMMA PartialNone ==
    ASSUME NEW s, IsState(s), NEW msg, NEW from
    PROVE  Partial(s, msg, from, 0) = s
<1>1. ASSUME NEW i \in 1 .. StateLen
      PROVE  (IF i <= 0 THEN Mix(s[i], msg[from + i]) ELSE s[i]) = s[i]
  <2>1. ~(i <= 0)
    OBVIOUS
  <2>2. QED
    BY <2>1
<1>2. Partial(s, msg, from, 0) = [i \in 1 .. StateLen |-> s[i]]
  BY <1>1, Zenon DEF Partial
<1>3. QED
  BY <1>2, Zenon DEF IsState

\* The states of some blocks are states.
LEMMA ChainIs ==
    ASSUME NEW S, NEW msg, NEW q \in Nat, Chain(S, msg, q)
    PROVE  IsState(S[q])
<1>1. CASE q = 0
  BY <1>1, StatesAre, Zenon DEF Chain
<1>2. CASE q # 0
  <2>1. q \in 1 .. q
    BY <1>2
  <2>2. S[q] = Permuted(Partial(S[q - 1], msg, Start(q - 1), BlockLen))
    BY <2>1, Zenon DEF Chain
  <2>3. QED
    BY <2>2, StatesAre, Zenon
<1>3. QED
  BY <1>1, <1>2

\* The next byte of a message is mixed in at the next place (web/wallet.js:5336-5337).
LEMMA MixedPartial ==
    ASSUME Sizes, NEW before, NEW msg, IsMessage(msg), NEW from \in Nat, NEW pos \in 0 .. BlockLen - 1,
           Len(msg) = from + pos, NEW byte
    PROVE  Mixed(Partial(before, msg, from, pos), pos + 1, byte) = Partial(before, Append(msg, byte), from, pos + 1)
<1> DEFINE s == Partial(before, msg, from, pos)
           longer == Append(msg, byte)
           t == Partial(before, longer, from, pos + 1)
<1>1. pos \in Nat /\ pos + 1 \in 1 .. StateLen
  BY DEF Sizes
<1>2. \A i \in 1 .. StateLen : s[i] = IF i <= pos THEN Mix(before[i], msg[from + i]) ELSE before[i]
  BY DEF Partial
<1>3. \A i \in 1 .. StateLen : t[i] = IF i <= pos + 1 THEN Mix(before[i], longer[from + i]) ELSE before[i]
  BY DEF Partial
<1>4. (\A i \in 1 .. Len(msg) : longer[i] = msg[i]) /\ longer[Len(msg) + 1] = byte
  BY Appended
<1>5. s = [i \in 1 .. StateLen |-> s[i]] /\ t = [i \in 1 .. StateLen |-> t[i]]
  BY DEF Partial
<1> HIDE DEF s, t, longer
<1>6. ASSUME NEW i \in 1 .. StateLen
      PROVE  t[i] = IF i = pos + 1 THEN Mix(s[i], byte) ELSE s[i]
  <2>1. CASE i <= pos
    <3>1. from + i \in 1 .. Len(msg) /\ i <= pos + 1 /\ i # pos + 1
      BY <1>1, <2>1
    <3>2. QED
      BY <1>2, <1>3, <1>4, <2>1, <3>1
  <2>2. CASE i = pos + 1
    <3>1. from + i = Len(msg) + 1 /\ i <= pos + 1 /\ ~(i <= pos)
      BY <1>1, <2>2
    <3>2. longer[from + i] = byte
      BY <1>4, <3>1
    <3>3. QED
      BY <1>2, <1>3, <2>2, <3>1, <3>2
  <2>3. CASE i > pos + 1
    <3>1. ~(i <= pos) /\ ~(i <= pos + 1) /\ i # pos + 1
      BY <1>1, <2>3
    <3>2. QED
      BY <1>2, <1>3, <3>1
  <2>4. QED
    BY <1>1, <2>1, <2>2, <2>3
<1>7. Mixed(s, pos + 1, byte) = [i \in 1 .. StateLen |-> IF i = pos + 1 THEN Mix(s[i], byte) ELSE s[i]]
  BY <1>1, <1>5 DEF Mixed
<1>8. Mixed(s, pos + 1, byte) = t
  BY <1>5, <1>6, <1>7
<1>9. QED
  BY <1>8 DEF s, t, longer

\* A sponge that holds a message holds it with one byte more after that is given to it
\* (web/wallet.js:5333-5341).
LEMMA ByteTakes ==
    ASSUME Sizes, NEW h, NEW msg, IsMessage(msg), Holds(h, msg), NEW byte
    PROVE  Holds(AbsorbByte(h, byte), Append(msg, byte))
<1>1. PICK S, q, pos, state : Absorbed(S, q, msg, pos, state) /\ h \in Opens(state, pos)
  BY DEF Holds
<1> DEFINE longer == Append(msg, byte)
           mixed == Mixed(state, pos + 1, byte)
           g == AbsorbByte(h, byte)
<1>2. /\ q \in Nat /\ pos \in 0 .. BlockLen - 1 /\ Len(msg) = Start(q) + pos /\ Chain(S, msg, q)
      /\ state = Partial(S[q], msg, Start(q), pos) /\ h \in Opens(state, pos)
  BY <1>1 DEF Absorbed
<1>3. Start(q) \in Nat /\ Start(q + 1) = Start(q) + BlockLen /\ q + 1 \in Nat /\ BlockLen \in Nat
  BY <1>2, Starts DEF Sizes
<1>4. mixed = Partial(S[q], longer, Start(q), pos + 1)
  BY <1>2, <1>3, MixedPartial
<1>5. g \in IF pos + 1 = BlockLen THEN Opens(Permuted(mixed), 0) ELSE Opens(mixed, pos + 1)
  BY <1>2, ByteMixed, Zenon
<1>6. Len(longer) = Len(msg) + 1 /\ \A i \in 1 .. Len(msg) : longer[i] = msg[i]
  BY Appended
<1> HIDE DEF longer, mixed, g
<1>7. \A i \in 1 .. Start(q) : msg[i] = longer[i]
  <2>1. \A i \in 1 .. Start(q) : i \in 1 .. Len(msg)
    BY <1>2, <1>3
  <2>2. QED
    BY <1>6, <2>1
<1>8. Chain(S, longer, q)
  BY <1>2, <1>7, ChainSame
<1>9. CASE pos + 1 # BlockLen
  <2>1. pos + 1 \in 0 .. BlockLen - 1 /\ Len(longer) = Start(q) + (pos + 1)
    BY <1>2, <1>3, <1>6, <1>9
  <2>2. Absorbed(S, q, longer, pos + 1, mixed)
    BY <1>2, <1>4, <1>8, <2>1, Zenon DEF Absorbed
  <2>3. QED
    BY <1>5, <1>9, <2>2, Zenon DEF Holds, g, longer
<1>10. CASE pos + 1 = BlockLen
  <2> DEFINE T == [n \in 0 .. q + 1 |-> IF n <= q THEN S[n] ELSE Permuted(mixed)]
  <2>1. T[q + 1] = Permuted(mixed) /\ T[q] = S[q] /\ T[0] = S[0]
    BY <1>2, <1>3
  <2>2. \A n \in 1 .. q : T[n] = S[n] /\ T[n - 1] = S[n - 1]
    BY <1>2
  <2> HIDE DEF T
  <2>3. T[q + 1] = Permuted(Partial(T[q], longer, Start(q), BlockLen))
    BY <1>4, <1>10, <2>1
  <2>4. Chain(T, longer, q + 1)
    <3>1. T[0] = Zeros(StateLen)
      BY <1>8, <2>1 DEF Chain
    <3>2. ASSUME NEW n \in 1 .. q + 1
          PROVE  T[n] = Permuted(Partial(T[n - 1], longer, Start(n - 1), BlockLen))
      <4>1. CASE n \in 1 .. q
        <5>1. S[n] = Permuted(Partial(S[n - 1], longer, Start(n - 1), BlockLen))
          BY <1>8, <4>1, Zenon DEF Chain
        <5>2. QED
          BY <2>2, <4>1, <5>1
      <4>2. CASE n = q + 1
        <5>1. n - 1 = q
          BY <1>2, <4>2
        <5>2. QED
          BY <2>3, <4>2, <5>1
      <4>3. QED
        BY <1>2, <4>1, <4>2
    <3>3. QED
      BY <3>1, <3>2 DEF Chain
  <2>5. T[q + 1] = Partial(T[q + 1], longer, Start(q + 1), 0)
    BY <1>3, <2>4, ChainIs, PartialNone
  <2>6. 0 \in 0 .. BlockLen - 1 /\ Len(longer) = Start(q + 1) + 0
    BY <1>2, <1>3, <1>6, <1>10 DEF Sizes
  <2>7. Absorbed(T, q + 1, longer, 0, Permuted(mixed))
    BY <1>3, <2>1, <2>4, <2>5, <2>6, Zenon DEF Absorbed
  <2>8. QED
    BY <1>5, <1>10, <2>7, Zenon DEF Holds, g, longer
<1>11. QED
  BY <1>9, <1>10

\* The next byte of some data, after those before it.
LEMMA NextByte ==
    ASSUME NEW msg, IsMessage(msg), NEW data, IsMessage(data), NEW k \in Nat, k + 1 <= Len(data)
    PROVE  /\ msg \o SubSeq(data, 1, k + 1) = Append(msg \o SubSeq(data, 1, k), data[k + 1])
           /\ IsMessage(msg \o SubSeq(data, 1, k))
<1> DEFINE part == SubSeq(data, 1, k)
           more == SubSeq(data, 1, k + 1)
           before == msg \o part
           longer == Append(before, data[k + 1])
           after == msg \o more
<1>1. Len(data) \in Nat /\ 1 \in Nat \ {0} /\ k <= Len(data) /\ k + 1 \in Nat
  BY MessageIs
<1>2. /\ IsMessage(part) /\ Len(part) = IF 1 <= k THEN k - 1 + 1 ELSE 0
      /\ \A i \in 1 .. k - 1 + 1 : part[i] = data[1 + i - 1]
  BY <1>1, PartOf, ZenonT(60)
<1>3. /\ IsMessage(more) /\ Len(more) = IF 1 <= k + 1 THEN (k + 1) - 1 + 1 ELSE 0
      /\ \A i \in 1 .. (k + 1) - 1 + 1 : more[i] = data[1 + i - 1]
  BY <1>1, PartOf, ZenonT(60)
<1> HIDE DEF part, more
<1>4. Len(part) = k /\ \A i \in 1 .. k : part[i] = data[i]
  BY <1>2
<1>5. Len(more) = k + 1 /\ \A i \in 1 .. k + 1 : more[i] = data[i]
  BY <1>3
<1>6. /\ IsMessage(before) /\ Len(before) = Len(msg) + Len(part) /\ Len(msg) \in Nat
      /\ \A i \in 1 .. Len(msg) + Len(part) : before[i] = IF i <= Len(msg) THEN msg[i] ELSE part[i - Len(msg)]
  BY <1>2, Concatenated
<1>7. /\ IsMessage(after) /\ Len(after) = Len(msg) + Len(more)
      /\ \A i \in 1 .. Len(msg) + Len(more) : after[i] = IF i <= Len(msg) THEN msg[i] ELSE more[i - Len(msg)]
  BY <1>3, Concatenated
<1> HIDE DEF before, after
<1>8. /\ IsMessage(longer) /\ Len(longer) = Len(before) + 1
      /\ \A i \in 1 .. Len(before) : longer[i] = before[i]
      /\ longer[Len(before) + 1] = data[k + 1]
  BY <1>6, Appended
<1> HIDE DEF longer
<1>9. ASSUME NEW i \in 1 .. Len(after)
      PROVE  after[i] = longer[i]
  <2>1. Len(before) = Len(msg) + k /\ Len(after) = Len(msg) + k + 1 /\ Len(longer) = Len(after)
    BY <1>1, <1>4, <1>5, <1>6, <1>7, <1>8
  <2>2. CASE i <= Len(msg)
    <3>1. i \in 1 .. Len(before) /\ i \in 1 .. Len(msg) + Len(part) /\ i \in 1 .. Len(msg) + Len(more)
      BY <1>1, <1>4, <1>5, <1>6, <2>1, <2>2
    <3>2. QED
      BY <1>6, <1>7, <1>8, <2>2, <3>1
  <2>3. CASE i \in Len(msg) + 1 .. Len(msg) + k
    <3>1. /\ i \in 1 .. Len(before) /\ i \in 1 .. Len(msg) + Len(part) /\ i \in 1 .. Len(msg) + Len(more)
          /\ ~(i <= Len(msg)) /\ i - Len(msg) \in 1 .. k /\ i - Len(msg) \in 1 .. k + 1
      BY <1>1, <1>4, <1>5, <1>6, <2>1, <2>3
    <3>2. after[i] = more[i - Len(msg)] /\ longer[i] = part[i - Len(msg)]
      BY <1>6, <1>7, <1>8, <3>1
    <3>3. QED
      BY <1>4, <1>5, <3>1, <3>2
  <2>4. CASE i = Len(msg) + k + 1
    <3>1. /\ i \in 1 .. Len(msg) + Len(more) /\ i = Len(before) + 1
          /\ ~(i <= Len(msg)) /\ i - Len(msg) = k + 1 /\ k + 1 \in 1 .. k + 1
      BY <1>1, <1>4, <1>5, <1>6, <2>1, <2>4
    <3>2. after[i] = more[k + 1] /\ longer[i] = data[k + 1]
      BY <1>7, <1>8, <3>1
    <3>3. QED
      BY <1>5, <3>1, <3>2
  <2>5. i <= Len(msg) \/ i \in Len(msg) + 1 .. Len(msg) + k \/ i = Len(msg) + k + 1
    <3>1. Len(msg) \in Nat /\ i \in 1 .. Len(msg) + k + 1
      BY <1>6, <2>1
    <3>2. QED
      BY <3>1
  <2>6. QED
    BY <2>2, <2>3, <2>4, <2>5, Zenon
<1>10. Len(after) = Len(longer)
  BY <1>1, <1>4, <1>5, <1>6, <1>7, <1>8
<1>11. after = longer
  BY <1>7, <1>8, <1>9, <1>10, SameMessage
<1>12. QED
  BY <1>6, <1>11 DEF after, longer, before, more, part

\* The sponges between the bytes of some data (web/wallet.js:5333-5341).
LEMMA AbsorbRuns ==
    ASSUME NEW h, NEW data, Len(data) \in Nat
    PROVE  \E f : /\ f[0] = h /\ \A n \in 1 .. Len(data) : f[n] = AbsorbByte(f[n - 1], data[n])
                 /\ Absorb(h, data) = f[Len(data)]
<1> DEFINE Is(f, N) == f = [n \in 0 .. N |-> IF n = 0 THEN h ELSE AbsorbByte(f[n - 1], data[n])]
           S == {N \in Nat : \E f : Is(f, N)}
           loop == CHOOSE f : Is(f, Len(data))
<1>1. 0 \in S
  <2>1. Is([n \in 0 .. 0 |-> h], 0)
    OBVIOUS
  <2>2. QED
    BY <2>1
<1>2. ASSUME NEW N \in Nat, N \in S
      PROVE  N + 1 \in S
  <2>1. PICK f : Is(f, N)
    BY <1>2
  <2> DEFINE g == [n \in 0 .. N + 1 |-> IF n <= N THEN f[n] ELSE AbsorbByte(f[N], data[N + 1])]
  <2>2. Is(g, N + 1)
    BY <2>1
  <2> HIDE DEF Is, g
  <2>3. QED
    BY <2>2
<1>3. Len(data) \in S
  <2> HIDE DEF S
  <2>1. QED
    BY <1>1, <1>2, AllNumbers
<1>4. Is(loop, Len(data))
  <2> HIDE DEF Is
  <2>1. QED
    BY <1>3, Zenon
<1>5. Absorb(h, data) = loop[Len(data)]
  BY Zenon DEF Absorb
<1> HIDE DEF loop
<1>6. loop[0] = h /\ \A n \in 1 .. Len(data) : loop[n] = AbsorbByte(loop[n - 1], data[n])
  BY <1>4
<1>7. QED
  BY <1>5, <1>6, Zenon

\* A sponge that takes data for a message holds the message with the data at its end
\* (web/wallet.js:5329-5343).
LEMMA UpdateTakes ==
    ASSUME Sizes, NEW msg, IsMessage(msg), NEW data, IsMessage(data), NEW h, Holds(h, msg)
    PROVE  Holds(Update(h, data), msg \o data)
<1>1. Len(data) \in Nat
  BY MessageIs
<1>2. PICK f : /\ f[0] = h /\ \A k \in 1 .. Len(data) : f[k] = AbsorbByte(f[k - 1], data[k])
               /\ Absorb(h, data) = f[Len(data)]
  BY <1>1, AbsorbRuns
<1> DEFINE Good(k) == Holds(f[k], msg \o SubSeq(data, 1, k))
           S == {k \in Nat : k <= Len(data) => Good(k)}
<1>3. 0 \in S
  <2>1. SubSeq(data, 1, 0) = <<>> /\ msg \o <<>> = msg
    BY <1>1, Parted, Empty
  <2>2. Good(0)
    BY <1>2, <2>1
  <2> HIDE DEF Good
  <2>3. QED
    BY <2>2
<1>4. ASSUME NEW k \in Nat, k \in S
      PROVE  k + 1 \in S
  <2>0. k + 1 \in Nat
    OBVIOUS
  <2>1. SUFFICES ASSUME k + 1 <= Len(data)
                 PROVE  Good(k + 1)
    BY <2>0, Zenon
  <2>2. k <= Len(data) /\ k + 1 \in 1 .. Len(data) /\ (k + 1) - 1 = k
    BY <1>1, <2>1
  <2>3. Good(k)
    BY <1>4, <2>2, Zenon
  <2> DEFINE before == msg \o SubSeq(data, 1, k)
             g == f[k]
  <2>4. f[k + 1] = AbsorbByte(g, data[k + 1])
    BY <1>2, <2>2
  <2>5. msg \o SubSeq(data, 1, k + 1) = Append(before, data[k + 1]) /\ IsMessage(before)
    BY <2>1, NextByte
  <2> HIDE DEF before, g
  <2>6. Holds(g, before)
    BY <2>3 DEF before, g
  <2>7. Holds(AbsorbByte(g, data[k + 1]), Append(before, data[k + 1]))
    BY <2>5, <2>6, ByteTakes
  <2>8. QED
    BY <2>4, <2>5, <2>7
<1>5. Good(Len(data))
  <2>1. Len(data) \in S
    <3> HIDE DEF S
    <3>1. QED
      BY <1>3, <1>4, AllNumbers
  <2>2. Len(data) <= Len(data)
    BY <1>1
  <2> HIDE DEF Good
  <2>3. QED
    BY <2>1, <2>2, Zenon
<1>6. SubSeq(data, 1, Len(data)) = data
  BY <1>1, Parted
<1>7. Holds(Absorb(h, data), msg \o data)
  BY <1>2, <1>5, <1>6
<1>8. ~h.finished /\ ~h.destroyed
  <2>1. PICK pos, state : h \in Opens(state, pos)
    BY DEF Holds
  <2>2. QED
    BY <2>1, Zenon DEF Opens
<1>9. QED
  BY <1>7, <1>8 DEF Update

\* A new sponge holds the empty message (web/wallet.js:5301-5318).
LEMMA NewHolds ==
    ASSUME Sizes
    PROVE  Holds(New, <<>>)
<1> DEFINE S == [n \in 0 .. 0 |-> Zeros(StateLen)]
           none == <<>>
<1>1. New \in Opens(Zeros(StateLen), 0)
  BY Zenon DEF New, Opens
<1>2. S[0] = Zeros(StateLen)
  OBVIOUS
<1>3. Len(none) = 0
  BY Empty
<1> HIDE DEF S, none
<1>4. Start(0) = 0 /\ 0 \in 0 .. BlockLen - 1 /\ 0 \in Nat /\ Len(none) = Start(0) + 0
  BY <1>3, Starts DEF Sizes
<1>5. Chain(S, none, 0)
  BY <1>2 DEF Chain
<1>6. Zeros(StateLen) = Partial(S[0], none, Start(0), 0)
  BY <1>2, StatesAre, PartialNone
<1>7. Absorbed(S, 0, none, 0, Zeros(StateLen))
  BY <1>4, <1>5, <1>6, Zenon DEF Absorbed
<1>8. Holds(New, none)
  BY <1>1, <1>7, Zenon DEF Holds
<1>9. QED
  BY <1>8 DEF none

\* The message that pieces make, and the sponge that has been given them, piece by piece.
LEMMA PiecesRun ==
    ASSUME NEW pieces, Len(pieces) \in Nat
    PROVE  /\ \E f : /\ f[0] = <<>> /\ \A n \in 1 .. Len(pieces) : f[n] = f[n - 1] \o pieces[n]
                     /\ Joined(pieces) = f[Len(pieces)]
           /\ \E f : /\ f[0] = New /\ \A n \in 1 .. Len(pieces) : f[n] = Update(f[n - 1], pieces[n])
                     /\ Updated(pieces) = f[Len(pieces)]
<1> DEFINE Longer(s, n) == s \o pieces[n]
           Msg(f, N) == f = [n \in 0 .. N |-> IF n = 0 THEN <<>> ELSE Longer(f[n - 1], n)]
           Fold(f, N) == f = [n \in 0 .. N |-> IF n = 0 THEN New ELSE Update(f[n - 1], pieces[n])]
           S == {N \in Nat : (\E f : Msg(f, N)) /\ \E f : Fold(f, N)}
           msg == CHOOSE f : Msg(f, Len(pieces))
           fed == CHOOSE f : Fold(f, Len(pieces))
<1>1. 0 \in S
  <2>1. Msg([n \in 0 .. 0 |-> <<>>], 0) /\ Fold([n \in 0 .. 0 |-> New], 0)
    OBVIOUS
  <2> HIDE DEF Msg, Fold
  <2>2. QED
    BY <2>1
<1>2. ASSUME NEW N \in Nat, N \in S
      PROVE  N + 1 \in S
  <2>1. PICK f : Msg(f, N)
    BY <1>2, Zenon
  <2>2. PICK g : Fold(g, N)
    BY <1>2, Zenon
  <2>3. Msg([n \in 0 .. N + 1 |-> IF n <= N THEN f[n] ELSE Longer(f[N], N + 1)], N + 1)
    BY <2>1
  <2>4. Fold([n \in 0 .. N + 1 |-> IF n <= N THEN g[n] ELSE Update(g[N], pieces[N + 1])], N + 1)
    BY <2>2
  <2> HIDE DEF Msg, Fold
  <2>5. QED
    BY <2>3, <2>4
<1>3. Len(pieces) \in S
  <2> HIDE DEF S
  <2>1. QED
    BY <1>1, <1>2, AllNumbers
<1>4. Msg(msg, Len(pieces)) /\ Fold(fed, Len(pieces))
  <2> HIDE DEF Msg, Fold
  <2>1. QED
    BY <1>3, Zenon
<1>5. Joined(pieces) = msg[Len(pieces)] /\ Updated(pieces) = fed[Len(pieces)]
  BY Zenon DEF Joined, Updated
<1> HIDE DEF msg, fed, Longer
<1>6. msg[0] = <<>> /\ \A n \in 1 .. Len(pieces) : msg[n] = Longer(msg[n - 1], n)
  BY <1>4
<1>7. fed[0] = New /\ \A n \in 1 .. Len(pieces) : fed[n] = Update(fed[n - 1], pieces[n])
  BY <1>4
<1>8. QED
  BY <1>5, <1>6, <1>7, Zenon DEF Longer

\* After any calls of update, a sponge holds the message that their data make.
LEMMA UpdatedHolds ==
    ASSUME Sizes, NEW pieces, Len(pieces) \in Nat, \A n \in 1 .. Len(pieces) : IsMessage(pieces[n])
    PROVE  IsMessage(Joined(pieces)) /\ Holds(Updated(pieces), Joined(pieces))
<1>1. PICK f : /\ f[0] = <<>> /\ \A n \in 1 .. Len(pieces) : f[n] = f[n - 1] \o pieces[n]
               /\ Joined(pieces) = f[Len(pieces)]
  BY PiecesRun
<1>2. PICK g : /\ g[0] = New /\ \A n \in 1 .. Len(pieces) : g[n] = Update(g[n - 1], pieces[n])
               /\ Updated(pieces) = g[Len(pieces)]
  BY PiecesRun
<1> DEFINE Good(n) == IsMessage(f[n]) /\ Holds(g[n], f[n])
           S == {n \in Nat : n <= Len(pieces) => Good(n)}
<1>3. 0 \in S
  <2>1. Good(0)
    BY <1>1, <1>2, NewHolds, Empty
  <2> HIDE DEF Good
  <2>2. QED
    BY <2>1
<1>4. ASSUME NEW n \in Nat, n \in S
      PROVE  n + 1 \in S
  <2>0. n + 1 \in Nat
    OBVIOUS
  <2>1. SUFFICES ASSUME n + 1 <= Len(pieces)
                 PROVE  Good(n + 1)
    BY <2>0, Zenon
  <2>2. n <= Len(pieces) /\ n + 1 \in 1 .. Len(pieces) /\ (n + 1) - 1 = n
    BY <2>1
  <2>3. Good(n)
    BY <1>4, <2>2, Zenon
  <2> DEFINE piece == pieces[n + 1]
             msg == f[n]
             h == g[n]
  <2>4. f[n + 1] = msg \o piece /\ g[n + 1] = Update(h, piece) /\ IsMessage(piece)
    BY <1>1, <1>2, <2>2
  <2>5. IsMessage(msg) /\ Holds(h, msg)
    BY <2>3
  <2> HIDE DEF msg, piece, h
  <2>6. IsMessage(msg \o piece) /\ Holds(Update(h, piece), msg \o piece)
    BY <2>4, <2>5, UpdateTakes, Concatenated
  <2>7. QED
    BY <2>4, <2>6
<1>5. Good(Len(pieces))
  <2>1. Len(pieces) \in S
    <3> HIDE DEF S
    <3>1. QED
      BY <1>3, <1>4, AllNumbers
  <2>2. Len(pieces) <= Len(pieces)
    OBVIOUS
  <2> HIDE DEF Good
  <2>3. QED
    BY <2>1, <2>2, Zenon
<1>6. QED
  BY <1>1, <1>2, <1>5

-----------------------------------------------------------------------------
(* What the standard absorbs, and the last block of it *)

\* The padded message fills its blocks: one more than the message fills.
LEMMA PaddedIs ==
    ASSUME Sizes, NEW msg, NEW q \in Nat, NEW pos \in 0 .. BlockLen - 1, Len(msg) = Start(q) + pos
    PROVE  LET padded == PaddedMessage(msg)
           IN /\ Len(padded) = Start(q + 1) /\ Len(padded) \div BlockLen = q + 1
              /\ \A i \in 1 .. Start(q + 1) :
                    padded[i] = Mix(IF i <= Len(msg) THEN msg[i] ELSE Zero,
                                    Mix(IF i = Len(msg) + 1 THEN Suffix ELSE Zero,
                                        IF i = Start(q + 1) THEN Final ELSE Zero))
<1> DEFINE padded == PaddedMessage(msg)
           total == (Len(msg) \div BlockLen + 1) * BlockLen
<1>1. BlockLen \in Nat \ {0} /\ q + 1 \in Nat /\ 0 \in 0 .. BlockLen - 1
  BY DEF Sizes
<1>2. Len(msg) = BlockLen * q + pos
  <2>1. q * BlockLen = BlockLen * q
    BY <1>1
  <2>2. QED
    BY <2>1 DEF Start
<1>3. Len(msg) \div BlockLen = q
  BY <1>1, <1>2, Divided, Zenon
<1>4. total = Start(q + 1)
  BY <1>3, Zenon DEF Start
<1>5. Start(q + 1) \in Nat
  BY <1>1, Starts
<1>6. (BlockLen * (q + 1) + 0) \div BlockLen = q + 1
  BY <1>1, Divided, Zenon
<1>7. BlockLen * (q + 1) + 0 = Start(q + 1)
  <2>1. \A m \in Nat : BlockLen * m + 0 = m * BlockLen
    BY <1>1
  <2>2. QED
    BY <1>1, <2>1, Zenon DEF Start
<1> DEFINE Place(i) == Mix(IF i <= Len(msg) THEN msg[i] ELSE Zero,
                           Mix(IF i = Len(msg) + 1 THEN Suffix ELSE Zero, IF i = Start(q + 1) THEN Final ELSE Zero))
<1>8. padded = [i \in 1 .. Start(q + 1) |-> Place(i)]
  BY <1>4, Zenon DEF PaddedMessage
<1> HIDE DEF padded, Place, total
<1>9. \A i \in 1 .. Start(q + 1) : padded[i] = Place(i)
  BY <1>8
<1>10. padded = [i \in 1 .. Start(q + 1) |-> padded[i]]
  BY <1>8
<1>11. Len(padded) = Start(q + 1)
  BY <1>5, <1>10, MessageBy
<1>12. QED
  BY <1>6, <1>7, <1>9, <1>11, Zenon DEF padded, Place

\* The last block, with its padding, is what the sponge has of it and the two bytes it mixes in
\* (web/wallet.js:5344-5354).
LEMMA LastBlock ==
    ASSUME Sizes, NEW before, NEW msg, NEW q \in Nat, NEW pos \in 0 .. BlockLen - 1, Len(msg) = Start(q) + pos
    PROVE  Mixed(Mixed(Partial(before, msg, Start(q), pos), pos + 1, Suffix), BlockLen, Final)
               = Partial(before, PaddedMessage(msg), Start(q), BlockLen)
<1> DEFINE padded == PaddedMessage(msg)
           s == Partial(before, msg, Start(q), pos)
           m == Mixed(s, pos + 1, Suffix)
           f == Mixed(m, BlockLen, Final)
           t == Partial(before, padded, Start(q), BlockLen)
           A(i) == IF i <= pos THEN msg[Start(q) + i] ELSE Zero
           B(i) == IF i = pos + 1 THEN Suffix ELSE Zero
           C(i) == IF i = BlockLen THEN Final ELSE Zero
<1>1. /\ BlockLen \in Nat /\ pos \in Nat /\ Start(q) \in Nat /\ Start(q + 1) = Start(q) + BlockLen
      /\ StateLen \in Nat /\ BlockLen \in 1 .. StateLen /\ pos + 1 \in 1 .. StateLen /\ pos < BlockLen
  BY Starts DEF Sizes
<1>2. \A i \in 1 .. StateLen : s[i] = IF i <= pos THEN Mix(before[i], msg[Start(q) + i]) ELSE before[i]
  BY DEF Partial
<1>3. \A i \in 1 .. StateLen : t[i] = IF i <= BlockLen THEN Mix(before[i], padded[Start(q) + i]) ELSE before[i]
  BY DEF Partial
<1>4. s = [i \in 1 .. StateLen |-> s[i]] /\ t = [i \in 1 .. StateLen |-> t[i]]
  BY DEF Partial
<1> HIDE DEF s, t
<1>5. m = [i \in 1 .. StateLen |-> IF i = pos + 1 THEN Mix(s[i], Suffix) ELSE s[i]]
  BY <1>1, <1>4 DEF Mixed
<1>6. \A i \in 1 .. StateLen : m[i] = IF i = pos + 1 THEN Mix(s[i], Suffix) ELSE s[i]
  BY <1>5
<1> HIDE DEF m
<1>7. f = [i \in 1 .. StateLen |-> IF i = BlockLen THEN Mix(m[i], Final) ELSE m[i]]
  BY <1>1, <1>5 DEF Mixed
<1>8. \A i \in 1 .. StateLen : f[i] = IF i = BlockLen THEN Mix(m[i], Final) ELSE m[i]
  BY <1>7
<1>9. ASSUME NEW i \in 1 .. StateLen
      PROVE  f[i] = t[i]
  <2>1. CASE i <= BlockLen
    <3>1. padded[Start(q) + i] = Mix(A(i), Mix(B(i), C(i)))
      <4> DEFINE j == Start(q) + i
      <4>1. /\ j \in 1 .. Start(q + 1) /\ (j <= Len(msg) <=> i <= pos)
            /\ (j = Len(msg) + 1 <=> i = pos + 1) /\ (j = Start(q + 1) <=> i = BlockLen)
        BY <1>1, <2>1
      <4> HIDE DEF j, padded
      <4>2. padded[j] = Mix(IF j <= Len(msg) THEN msg[j] ELSE Zero,
                            Mix(IF j = Len(msg) + 1 THEN Suffix ELSE Zero, IF j = Start(q + 1) THEN Final ELSE Zero))
        BY <4>1, PaddedIs, Zenon DEF padded
      <4>3. /\ (IF j <= Len(msg) THEN msg[j] ELSE Zero) = IF i <= pos THEN msg[j] ELSE Zero
            /\ (IF j = Len(msg) + 1 THEN Suffix ELSE Zero) = B(i)
            /\ (IF j = Start(q + 1) THEN Final ELSE Zero) = C(i)
        BY <4>1, Zenon
      <4>4. QED
        BY <4>2, <4>3, Zenon DEF j
    <3>2. s[i] = Mix(before[i], A(i))
      BY <1>2, XorLaws, Zenon
    <3>3. m[i] = Mix(s[i], B(i))
      BY <1>6, XorLaws, Zenon
    <3>4. f[i] = Mix(m[i], C(i))
      BY <1>8, XorLaws, Zenon
    <3>5. t[i] = Mix(before[i], padded[Start(q) + i])
      BY <1>3, <2>1, Zenon
    <3> HIDE DEF A, B, C, padded, f
    <3>6. f[i] = Mix(Mix(Mix(before[i], A(i)), B(i)), C(i))
      BY <3>2, <3>3, <3>4, Zenon
    <3>7. Mix(Mix(Mix(before[i], A(i)), B(i)), C(i)) = Mix(before[i], Mix(A(i), Mix(B(i), C(i))))
      BY XorOfFour
    <3>8. QED
      BY <3>1, <3>5, <3>6, <3>7, Zenon
  <2>2. CASE i > BlockLen
    <3>1. ~(i <= pos) /\ i # pos + 1 /\ i # BlockLen /\ ~(i <= BlockLen)
      BY <1>1, <2>2
    <3>2. QED
      BY <1>2, <1>3, <1>6, <1>8, <3>1, Zenon
  <2>3. QED
    BY <1>1, <2>1, <2>2
<1>10. f = [i \in 1 .. StateLen |-> f[i]]
  BY <1>7
<1> HIDE DEF f, padded
<1>11. f = t
  BY <1>4, <1>9, <1>10
<1>12. QED
  BY <1>11, Zenon DEF f, m, s, t, padded

\* The states that the standard goes through: absorbing, and then squeezing.
Turns == OutputLen \div BlockLen + 1
Squeezed(Q, first) == Q[1] = first /\ \A n \in 2 .. Turns : Q[n] = Permuted(Q[n - 1])
ByteOf(Q, i) == Q[(i - 1) \div BlockLen + 1][((i - 1) % BlockLen) + 1]

\* There are such states, and the standard's bytes are theirs.
LEMMA SpongedRuns ==
    ASSUME Sizes, NEW msg, Len(PaddedMessage(msg)) \div BlockLen \in Nat
    PROVE  LET last == Len(PaddedMessage(msg)) \div BlockLen
           IN \E S, Q : /\ Chain(S, PaddedMessage(msg), last) /\ Squeezed(Q, S[last])
                        /\ Sponged(msg) = [i \in 1 .. OutputLen |-> ByteOf(Q, i)]
<1> DEFINE padded == PaddedMessage(msg)
           last == Len(padded) \div BlockLen
           absorbed(before, from) ==
               [i \in 1 .. StateLen |-> IF i <= BlockLen THEN Mix(before[i], padded[from + i]) ELSE before[i]]
           Next(before, n) == Permuted(absorbed(before, (n - 1) * BlockLen))
           Is(f, N) == f = [n \in 0 .. N |-> IF n = 0 THEN Zeros(StateLen) ELSE Next(f[n - 1], n)]
           I == {N \in Nat : \E f : Is(f, N)}
           S == CHOOSE f : Is(f, last)
           first == S[last]
           Out(f, N) == f = [n \in 1 .. N + 1 |-> IF n = 1 THEN first ELSE Permuted(f[n - 1])]
           O == {N \in Nat : \E f : Out(f, N)}
           blocks == OutputLen \div BlockLen
           Q == CHOOSE f : Out(f, blocks)
<1>1. 0 \in I
  <2>1. Is([n \in 0 .. 0 |-> Zeros(StateLen)], 0)
    <3> HIDE DEF Next
    <3>1. QED
      OBVIOUS
  <2> HIDE DEF Is
  <2>2. QED
    BY <2>1
<1>2. ASSUME NEW N \in Nat, N \in I
      PROVE  N + 1 \in I
  <2>1. PICK f : Is(f, N)
    BY <1>2, Zenon
  <2> DEFINE g == [n \in 0 .. N + 1 |-> IF n <= N THEN f[n] ELSE Next(f[N], N + 1)]
  <2>2. Is(g, N + 1)
    <3> HIDE DEF Next
    <3>1. QED
      BY <2>1
  <2> HIDE DEF Is, g
  <2>3. QED
    BY <2>2
<1>3. last \in I
  <2> HIDE DEF I, last
  <2>0. last \in Nat
    BY DEF last
  <2>1. QED
    BY <1>1, <1>2, <2>0, AllNumbers
<1>4. Is(S, last)
  <2> HIDE DEF Is, last
  <2>1. QED
    BY <1>3, Zenon
<1>5. S[0] = Zeros(StateLen) /\ \A n \in 1 .. last : S[n] = Next(S[n - 1], n)
  <2> HIDE DEF S, Next, last
  <2>0. last \in Nat
    BY DEF last
  <2>1. QED
    BY <1>4, <2>0
<1>6. \A before, n : Next(before, n) = Permuted(Partial(before, padded, Start(n - 1), BlockLen))
  BY Zenon DEF Partial, Start
<1>7. Chain(S, padded, last)
  <2> HIDE DEF S, Next, padded, last
  <2>1. QED
    BY <1>5, <1>6, Zenon DEF Chain
<1>8. 0 \in O
  <2> HIDE DEF first
  <2>1. Out([n \in 1 .. 0 + 1 |-> first], 0)
    OBVIOUS
  <2> HIDE DEF Out
  <2>2. QED
    BY <2>1
<1>9. ASSUME NEW N \in Nat, N \in O
      PROVE  N + 1 \in O
  <2> HIDE DEF first
  <2>1. PICK f : Out(f, N)
    BY <1>9, Zenon
  <2> DEFINE g == [n \in 1 .. (N + 1) + 1 |-> IF n <= N + 1 THEN f[n] ELSE Permuted(f[N + 1])]
  <2>2. Out(g, N + 1)
    BY <2>1
  <2> HIDE DEF Out, g
  <2>3. QED
    BY <2>2
<1>10. blocks \in Nat
  <2>1. BlockLen \in Nat \ {0} /\ OutputLen \in Nat
    BY DEF Sizes
  <2>2. QED
    BY <2>1, Divides, Zenon
<1>11. blocks \in O
  <2> HIDE DEF O, blocks
  <2>1. QED
    BY <1>8, <1>9, <1>10, AllNumbers
<1>12. Out(Q, blocks)
  <2> HIDE DEF Out, blocks
  <2>1. QED
    BY <1>11, Zenon
<1>13. Squeezed(Q, first)
  <2> HIDE DEF Q, first
  <2>1. Q[1] = first /\ \A n \in 2 .. blocks + 1 : Q[n] = Permuted(Q[n - 1])
    <3> HIDE DEF blocks
    <3>1. QED
      BY <1>10, <1>12
  <2>2. QED
    BY <2>1, Zenon DEF Squeezed, Turns, blocks
<1>14. Sponged(msg) = [i \in 1 .. OutputLen |-> ByteOf(Q, i)]
  BY Zenon DEF Sponged, ByteOf
<1> HIDE DEF S, Q
<1>15. QED
  BY <1>7, <1>13, <1>14, Zenon

\* A sponge that squeezes.
Squeezes(state, posOut) == [state : {state}, pos : {0}, posOut : {posOut},
                            finished : {TRUE}, destroyed : {FALSE}, raised : {FALSE}]
\* The states that come after one another give the standard's bytes.
Follow(Q) == IsState(Q[1]) /\ \A n \in 2 .. Turns : Q[n] = Permuted(Q[n - 1])
Gives(Q, msg) == Follow(Q) /\ Sponged(msg) = [i \in 1 .. OutputLen |-> ByteOf(Q, i)]

\* A sponge that holds a message has, when it is finished, the state the standard squeezes
\* first (web/wallet.js:5344-5354).
LEMMA FinishIs ==
    ASSUME Sizes, NEW msg, IsMessage(msg), NEW h, Holds(h, msg)
    PROVE  \E Q : Finish(h) \in Squeezes(Q[1], 0) /\ Gives(Q, msg)
<1> DEFINE padded == PaddedMessage(msg)
<1>1. PICK S, q, pos, state : Absorbed(S, q, msg, pos, state) /\ h \in Opens(state, pos)
  BY DEF Holds
<1>2. /\ q \in Nat /\ pos \in 0 .. BlockLen - 1 /\ Len(msg) = Start(q) + pos /\ Chain(S, msg, q)
      /\ state = Partial(S[q], msg, Start(q), pos) /\ h \in Opens(state, pos)
  BY <1>1 DEF Absorbed
<1>3. /\ Len(padded) \div BlockLen = q + 1
      /\ \A i \in 1 .. Start(q + 1) :
            padded[i] = Mix(IF i <= Len(msg) THEN msg[i] ELSE Zero,
                            Mix(IF i = Len(msg) + 1 THEN Suffix ELSE Zero, IF i = Start(q + 1) THEN Final ELSE Zero))
  BY <1>2, PaddedIs, Zenon
<1>4. Start(q) \in Nat /\ Start(q + 1) = Start(q) + BlockLen /\ q + 1 \in Nat /\ BlockLen \in Nat \ {0}
  BY <1>2, Starts DEF Sizes
<1>5. PICK T, Q : /\ Chain(T, padded, q + 1) /\ Squeezed(Q, T[q + 1])
                  /\ Sponged(msg) = [i \in 1 .. OutputLen |-> ByteOf(Q, i)]
  <2>1. Len(padded) \div BlockLen \in Nat
    BY <1>3, <1>4
  <2>2. \E T, Q : /\ Chain(T, padded, Len(padded) \div BlockLen) /\ Squeezed(Q, T[Len(padded) \div BlockLen])
                  /\ Sponged(msg) = [i \in 1 .. OutputLen |-> ByteOf(Q, i)]
    BY <2>1, SpongedRuns, Zenon
  <2>3. QED
    BY <1>3, <2>2, Zenon
<1>6. \A i \in 1 .. Start(q) : msg[i] = padded[i]
  <2>1. ASSUME NEW i \in 1 .. Start(q)
        PROVE  msg[i] = padded[i]
    <3> HIDE DEF padded
    <3>1. i \in 1 .. Start(q + 1) /\ i <= Len(msg) /\ i # Len(msg) + 1 /\ i # Start(q + 1)
      BY <1>2, <1>4
    <3>2. padded[i] = Mix(msg[i], Mix(Zero, Zero))
      BY <1>3, <3>1, Zenon
    <3>3. QED
      BY <3>2, XorLaws
  <2>2. QED
    BY <2>1
<1> HIDE DEF padded
<1>7. Chain(S, padded, q)
  BY <1>2, <1>6, ChainSame
<1>8. Chain(T, padded, q) /\ T[q + 1] = Permuted(Partial(T[q], padded, Start(q), BlockLen))
  <2>1. /\ T[0] = Zeros(StateLen)
        /\ \A n \in 1 .. q + 1 : T[n] = Permuted(Partial(T[n - 1], padded, Start(n - 1), BlockLen))
    BY <1>5 DEF Chain
  <2>2. q + 1 \in 1 .. q + 1 /\ (q + 1) - 1 = q /\ \A n \in 1 .. q : n \in 1 .. q + 1
    BY <1>2
  <2>3. T[q + 1] = Permuted(Partial(T[(q + 1) - 1], padded, Start((q + 1) - 1), BlockLen))
    BY <2>1, <2>2, Zenon
  <2>4. Chain(T, padded, q)
    BY <2>1, <2>2, Zenon DEF Chain
  <2>5. QED
    BY <2>2, <2>3, <2>4
<1>9. S[q] = T[q]
  BY <1>2, <1>7, <1>8, ChainUnique
<1>10. Mixed(Mixed(state, pos + 1, Suffix), BlockLen, Final) = Partial(S[q], padded, Start(q), BlockLen)
  BY <1>2, LastBlock, Zenon DEF padded
<1>11. Finish(h) \in Squeezes(T[q + 1], 0)
  <2>1. Finish(h) \in [state : {Permuted(Mixed(Mixed(state, pos + 1, Suffix), BlockLen, Final))}, pos : {0},
                       posOut : {0}, finished : {TRUE}, destroyed : {FALSE}, raised : {FALSE}]
    BY <1>2, FinishMixes, Zenon
  <2>2. QED
    BY <1>8, <1>9, <1>10, <2>1, Zenon DEF Squeezes
<1>12. IsState(T[q + 1])
  BY <1>4, <1>5, ChainIs
<1>13. QED
  BY <1>5, <1>11, <1>12, Zenon DEF Squeezed, Gives, Follow

-----------------------------------------------------------------------------
(* Squeezing *)

\* Some bytes of a state taken.
Took(r, state, out, take) ==
    r.hash \in Squeezes(state, take) /\ r.out = out \o SubSeq(state, 1, take)

\* A turn of the loop of writeInto permutes the state when its bytes are used up, and takes as
\* many bytes of it as there are or as are asked for (web/wallet.js:5359-5368).
LEMMA BlockSqueezes ==
    ASSUME Sizes, NEW state, NEW posOut \in {0, BlockLen}, NEW h \in Squeezes(state, posOut),
           NEW out, Len(out) \in Nat, NEW len \in Nat
    PROVE  LET r == SqueezeBlock(h, out, len)
               take == Smaller(BlockLen, len - Len(out))
           IN /\ posOut = 0 => Took(r, state, out, take)
              /\ posOut # 0 => Took(r, Permuted(state), out, take)
<1> DEFINE next == IF posOut = 0 THEN state ELSE Permuted(state)
           g == IF h.posOut >= BlockLen THEN keccak(h) ELSE h
           take == Smaller(BlockLen - g.posOut, len - Len(out))
           r == [hash |-> [g EXCEPT !.posOut = @ + take], out |-> out \o SubSeq(g.state, g.posOut + 1, g.posOut + take)]
           t == Smaller(BlockLen, len - Len(out))
<1>1. BlockLen \in Nat \ {0} /\ BlockLen - 0 = BlockLen
  BY DEF Sizes
<1>2. h.posOut = posOut /\ keccak(h) \in Squeezes(Permuted(state), 0)
  BY Zenon DEF keccak, Squeezes
<1>3. g \in Squeezes(next, 0)
  <2>1. CASE posOut = 0
    <3>1. ~(h.posOut >= BlockLen)
      BY <1>1, <1>2, <2>1
    <3>2. g = h
      BY <3>1, Zenon
    <3>3. QED
      BY <2>1, <3>2, Zenon
  <2>2. CASE posOut = BlockLen
    <3>1. h.posOut >= BlockLen /\ posOut # 0
      BY <1>1, <1>2, <2>2
    <3>2. g = keccak(h)
      BY <3>1, Zenon
    <3>3. QED
      BY <1>2, <3>1, <3>2, Zenon
  <2>3. QED
    BY <2>1, <2>2
<1>4. SqueezeBlock(h, out, len) = r
  BY Zenon DEF SqueezeBlock
<1> HIDE DEF g, next
<1>5. g.state = next /\ g.posOut = 0
  BY <1>3, Zenon DEF Squeezes
<1>6. take = t
  BY <1>1, <1>5, Zenon
<1>7. t \in Int /\ 0 + t = t /\ 0 + 1 = 1
  BY <1>1 DEF Smaller
<1> HIDE DEF take, t
<1>8. [g EXCEPT !.posOut = @ + take] \in Squeezes(next, 0 + t)
  BY <1>3, <1>6, Zenon DEF Squeezes
<1>9. r.out = out \o SubSeq(next, 0 + 1, 0 + t) /\ r.hash = [g EXCEPT !.posOut = @ + take]
  BY <1>5, <1>6, Zenon
<1> HIDE DEF r
<1>10. r.hash \in Squeezes(next, t) /\ r.out = out \o SubSeq(next, 1, t)
  BY <1>7, <1>8, <1>9
<1>11. Took(SqueezeBlock(h, out, len), next, out, t)
  BY <1>4, <1>10, Zenon DEF Took
<1>12. QED
  BY <1>11, Zenon DEF next, t

\* The standard's bytes, block by block.
LEMMA ByteOfIs ==
    ASSUME Sizes, NEW Q, NEW n \in Nat, NEW j \in 1 .. BlockLen
    PROVE  ByteOf(Q, Start(n) + j) = Q[n + 1][j]
<1> DEFINE i == Start(n) + j
<1>0. BlockLen \in Nat \ {0}
  BY DEF Sizes
<1>1. j - 1 \in 0 .. BlockLen - 1 /\ (j - 1) + 1 = j /\ Start(n) \in Nat
  BY <1>0, Starts
<1>2. i - 1 = BlockLen * n + (j - 1)
  <2>1. Start(n) = BlockLen * n
    BY <1>0 DEF Start
  <2>2. \A b \in Nat : (b + j) - 1 = b + (j - 1)
    BY <1>1
  <2> HIDE DEF i
  <2>3. i = Start(n) + j
    BY DEF i
  <2>4. i - 1 = Start(n) + (j - 1)
    BY <1>1, <2>2, <2>3
  <2>5. QED
    BY <2>1, <2>4, Zenon
<1>3. (BlockLen * n + (j - 1)) \div BlockLen = n /\ (BlockLen * n + (j - 1)) % BlockLen = j - 1
  BY <1>0, <1>1, Divided, Zenon
<1>4. (i - 1) \div BlockLen = n /\ (i - 1) % BlockLen = j - 1
  BY <1>2, <1>3, Zenon
<1> HIDE DEF i
<1>5. ByteOf(Q, i) = Q[n + 1][(j - 1) + 1]
  BY <1>4, Zenon DEF ByteOf
<1>6. QED
  BY <1>1, <1>5 DEF i

\* While bytes are asked for there is a state that gives them.
LEMMA RoomFor ==
    ASSUME Sizes, NEW n \in Nat, Start(n) < OutputLen
    PROVE  n + 1 \in 1 .. Turns
<1> DEFINE d == OutputLen \div BlockLen
           r == OutputLen % BlockLen
<1>1. BlockLen \in Nat \ {0} /\ OutputLen \in Nat
  BY DEF Sizes
<1>2. d \in Nat /\ r \in 0 .. BlockLen - 1 /\ OutputLen = BlockLen * d + r
  BY <1>1, Divides, Zenon
<1>3. Turns = d + 1
  BY DEF Turns
<1> HIDE DEF d, r
<1>4. SUFFICES ASSUME n > d
               PROVE  FALSE
  BY <1>2, <1>3
<1>5. PICK k \in Nat : n = d + 1 + k
  <2>1. n - d - 1 \in Nat /\ n = d + 1 + (n - d - 1)
    BY <1>2, <1>4
  <2>2. QED
    BY <2>1
<1>6. Start(n) = BlockLen * d + BlockLen + k * BlockLen /\ k * BlockLen \in Nat /\ BlockLen * d \in Nat
  <2>1. (d + 1 + k) * BlockLen = BlockLen * d + BlockLen + k * BlockLen
    BY <1>1, <1>2
  <2>2. Start(n) = (d + 1 + k) * BlockLen
    BY <1>5, Zenon DEF Start
  <2>3. k * BlockLen \in Nat /\ BlockLen * d \in Nat
    BY <1>1, <1>2
  <2>4. QED
    BY <2>1, <2>2, <2>3
<1> DEFINE a == BlockLen * d
           b == k * BlockLen
<1>7. a \in Nat /\ b \in Nat /\ OutputLen = a + r /\ Start(n) = a + BlockLen + b
  BY <1>2, <1>6, Zenon
<1> HIDE DEF a, b
<1>8. QED
  BY <1>1, <1>2, <1>7

\* What has been squeezed after n turns: the standard's bytes, and as many blocks of them as
\* turns, unless these are all.
Went(Q, l, n) ==
    /\ IsMessage(l.out) /\ Len(l.out) <= OutputLen
    /\ \A i \in 1 .. Len(l.out) : l.out[i] = ByteOf(Q, i)
    /\ Len(l.out) < OutputLen =>
          /\ Len(l.out) = Start(n)
          /\ l.hash \in IF n = 0 THEN Squeezes(Q[1], 0) ELSE Squeezes(Q[n], BlockLen)

\* The states that follow one another are states.
LEMMA FollowIs ==
    ASSUME Sizes, NEW Q, Follow(Q), NEW n \in 1 .. Turns
    PROVE  IsMessage(Q[n]) /\ Len(Q[n]) = StateLen
<1>1. IsState(Q[n])
  <2>1. CASE n = 1
    BY <2>1 DEF Follow
  <2>2. CASE n # 1
    <3>1. n \in 2 .. Turns
      BY <2>2
    <3>2. Q[n] = Permuted(Q[n - 1])
      BY <3>1 DEF Follow
    <3>3. QED
      BY <3>2, StatesAre
  <2>3. QED
    BY <2>1, <2>2
<1>2. StateLen \in Nat
  BY DEF Sizes
<1>3. QED
  BY <1>1, <1>2, MessageBy DEF IsState

\* A turn takes the next block of the standard's bytes, or what is left to take.
LEMMA TurnSqueezes ==
    ASSUME Sizes, NEW Q, Follow(Q), NEW n \in Nat, NEW l, Went(Q, l, n), Len(l.out) < OutputLen
    PROVE  Went(Q, SqueezeBlock(l.hash, l.out, OutputLen), n + 1)
<1> DEFINE out == l.out
           take == Smaller(BlockLen, OutputLen - Len(out))
           block == SubSeq(Q[n + 1], 1, take)
           m == SqueezeBlock(l.hash, out, OutputLen)
<1>1. /\ IsMessage(out) /\ Len(out) < OutputLen /\ (\A i \in 1 .. Len(out) : out[i] = ByteOf(Q, i))
      /\ Len(out) = Start(n) /\ l.hash \in IF n = 0 THEN Squeezes(Q[1], 0) ELSE Squeezes(Q[n], BlockLen)
  BY DEF Went
<1>2. /\ BlockLen \in Nat \ {0} /\ OutputLen \in Nat /\ StateLen \in Nat /\ BlockLen <= StateLen
      /\ Start(n) \in Nat /\ Start(n + 1) = Start(n) + BlockLen /\ n + 1 \in Nat /\ n + 1 # 0
  <2>1. BlockLen \in Nat \ {0} /\ OutputLen \in Nat /\ StateLen \in Nat /\ BlockLen <= StateLen
    BY DEF Sizes
  <2>2. n + 1 \in Nat /\ n + 1 # 0
    OBVIOUS
  <2>3. Start(n) \in Nat /\ Start(n + 1) = Start(n) + BlockLen
    BY Starts
  <2>4. QED
    BY <2>1, <2>2, <2>3
<1>3. n + 1 \in 1 .. Turns
  BY <1>1, RoomFor, Zenon
<1>4. IsMessage(Q[n + 1]) /\ Len(Q[n + 1]) = StateLen
  BY <1>3, FollowIs
<1>5. m.hash \in Squeezes(Q[n + 1], take) /\ m.out = out \o block
  <2>0. Len(out) \in Nat /\ OutputLen \in Nat /\ 0 \in {0, BlockLen} /\ BlockLen \in {0, BlockLen} /\ BlockLen # 0
    BY <1>1, <1>2
  <2>1. CASE n = 0
    <3>1. l.hash \in Squeezes(Q[1], 0)
      BY <1>1, <2>1, Zenon
    <3>2. Took(m, Q[1], out, take)
      <4> DEFINE h == l.hash
      <4>1. h \in Squeezes(Q[1], 0)
        BY <3>1
      <4> HIDE DEF h, out
      <4>2. Took(SqueezeBlock(h, out, OutputLen), Q[1], out, Smaller(BlockLen, OutputLen - Len(out)))
        BY <2>0, <4>1, BlockSqueezes
      <4>3. QED
        BY <4>2, Zenon DEF h
    <3>3. Q[n + 1] = Q[1]
      BY <2>1
    <3>4. QED
      BY <3>2, <3>3, Zenon DEF Took
  <2>2. CASE n # 0
    <3>1. l.hash \in Squeezes(Q[n], BlockLen)
      BY <1>1, <2>2, Zenon
    <3>2. Took(m, Permuted(Q[n]), out, take)
      <4> DEFINE h == l.hash
      <4>1. h \in Squeezes(Q[n], BlockLen)
        BY <3>1
      <4> HIDE DEF h, out
      <4>2. Took(SqueezeBlock(h, out, OutputLen), Permuted(Q[n]), out, Smaller(BlockLen, OutputLen - Len(out)))
        BY <2>0, <4>1, BlockSqueezes
      <4>3. QED
        BY <4>2, Zenon DEF h
    <3>3. Q[n + 1] = Permuted(Q[n])
      <4>1. n + 1 \in 2 .. Turns /\ (n + 1) - 1 = n
        BY <1>3, <2>2
      <4>2. Q[n + 1] = Permuted(Q[(n + 1) - 1])
        BY <4>1, Zenon DEF Follow
      <4>3. QED
        BY <4>1, <4>2
    <3>4. QED
      BY <3>2, <3>3, Zenon DEF Took
  <2>3. QED
    BY <2>1, <2>2
<1>6. /\ take \in 1 .. BlockLen /\ Start(n) + take <= OutputLen
      /\ (take = BlockLen \/ Start(n) + take = OutputLen)
  BY <1>1, <1>2 DEF Smaller
<1> HIDE DEF take
<1>7. /\ IsMessage(block) /\ Len(block) = take /\ \A j \in 1 .. take : block[j] = Q[n + 1][j]
  <2>1. 1 \in Nat \ {0} /\ take \in Nat /\ take <= Len(Q[n + 1])
    BY <1>2, <1>4, <1>6
  <2>2. /\ IsMessage(block) /\ Len(block) = IF 1 <= take THEN take - 1 + 1 ELSE 0
        /\ \A j \in 1 .. take - 1 + 1 : block[j] = Q[n + 1][1 + j - 1]
    BY <1>4, <2>1, PartOf, ZenonT(60)
  <2> HIDE DEF block
  <2>3. QED
    BY <1>6, <2>2
<1> HIDE DEF m, block, out
<1>8. /\ IsMessage(m.out) /\ Len(m.out) = Start(n) + take
      /\ \A i \in 1 .. Start(n) + take : m.out[i] = IF i <= Start(n) THEN out[i] ELSE block[i - Start(n)]
  <2>1. /\ IsMessage(out \o block) /\ Len(out \o block) = Len(out) + Len(block)
        /\ \A i \in 1 .. Len(out) + Len(block) : (out \o block)[i] = IF i <= Len(out) THEN out[i] ELSE block[i - Len(out)]
    BY <1>1, <1>7, Concatenated
  <2>2. Len(out) = Start(n) /\ Len(block) = take /\ m.out = out \o block
    BY <1>1, <1>5, <1>7
  <2>3. QED
    BY <2>1, <2>2, Zenon
<1>9. ASSUME NEW i \in 1 .. Len(m.out)
      PROVE  m.out[i] = ByteOf(Q, i)
  <2>0. i \in 1 .. Start(n) + take
    BY <1>8
  <2>1. CASE i <= Start(n)
    <3>1. i \in 1 .. Len(out)
      BY <1>1, <2>1
    <3>2. QED
      BY <1>1, <1>8, <2>0, <2>1, <3>1, Zenon
  <2>2. CASE ~(i <= Start(n))
    <3> DEFINE j == i - Start(n)
    <3>1. j \in 1 .. take /\ j \in 1 .. BlockLen /\ Start(n) + j = i
      BY <1>2, <1>6, <2>0, <2>2
    <3>2. m.out[i] = block[j]
      BY <1>8, <2>0, <2>2, Zenon
    <3> HIDE DEF j
    <3>3. ByteOf(Q, Start(n) + j) = Q[n + 1][j]
      BY <3>1, ByteOfIs
    <3>4. QED
      BY <1>7, <3>1, <3>2, <3>3
  <2>3. QED
    BY <2>1, <2>2
<1>10. Len(m.out) <= OutputLen
  BY <1>6, <1>8
<1>11. ASSUME Len(m.out) < OutputLen
       PROVE  Len(m.out) = Start(n + 1) /\ m.hash \in Squeezes(Q[n + 1], BlockLen)
  <2>1. take = BlockLen
    BY <1>2, <1>6, <1>8, <1>11
  <2>2. QED
    BY <1>2, <1>5, <1>8, <2>1
<1>12. Went(Q, m, n + 1)
  BY <1>2, <1>8, <1>9, <1>10, <1>11, Zenon DEF Went
<1>13. QED
  BY <1>12 DEF m, out

First(h) == [hash |-> h, out |-> <<>>]
Go(l) == IF Len(l.out) < OutputLen THEN SqueezeBlock(l.hash, l.out, OutputLen) ELSE l

\* The turns of the loop of writeInto (web/wallet.js:5359-5368).
LEMMA SqueezeRuns ==
    ASSUME Sizes, NEW h
    PROVE  \E f : /\ f[0] = First(h) /\ \A n \in 1 .. OutputLen : f[n] = Go(f[n - 1])
                 /\ Squeeze(h, OutputLen) = f[OutputLen]
<1> DEFINE Is(f, N) == f = [n \in 0 .. N |-> IF n = 0 THEN First(h) ELSE Go(f[n - 1])]
           S == {N \in Nat : \E f : Is(f, N)}
           loop == CHOOSE f : Is(f, OutputLen)
<1>0. OutputLen \in Nat
  BY DEF Sizes
<1>1. 0 \in S
  <2>1. Is([n \in 0 .. 0 |-> First(h)], 0)
    OBVIOUS
  <2> HIDE DEF Is
  <2>2. QED
    BY <2>1
<1>2. ASSUME NEW N \in Nat, N \in S
      PROVE  N + 1 \in S
  <2>1. PICK f : Is(f, N)
    BY <1>2, Zenon
  <2> DEFINE g == [n \in 0 .. N + 1 |-> IF n <= N THEN f[n] ELSE Go(f[N])]
  <2>2. Is(g, N + 1)
    BY <2>1
  <2> HIDE DEF Is, g
  <2>3. QED
    BY <2>2
<1>3. OutputLen \in S
  <2> HIDE DEF S
  <2>1. QED
    BY <1>0, <1>1, <1>2, AllNumbers
<1>4. Is(loop, OutputLen)
  <2> HIDE DEF Is
  <2>1. QED
    BY <1>3, Zenon
<1>5. Squeeze(h, OutputLen) = loop[OutputLen]
  BY Zenon DEF Squeeze, First, Go
<1> HIDE DEF loop
<1>6. loop[0] = First(h) /\ \A n \in 1 .. OutputLen : loop[n] = Go(loop[n - 1])
  BY <1>0, <1>4
<1>7. QED
  BY <1>5, <1>6, Zenon

\* The digest of a sponge that holds a message is the standard's of the message
\* (web/wallet.js:5355-5394).
LEMMA DigestIs ==
    ASSUME Sizes, NEW msg, IsMessage(msg), NEW h, Holds(h, msg)
    PROVE  DigestInto(h).out = Sponged(msg)
<1> DEFINE done == Finish(h)
<1>1. PICK Q : done \in Squeezes(Q[1], 0) /\ Gives(Q, msg)
  BY FinishIs
<1>2. ~h.finished /\ ~h.destroyed
  <2>1. PICK pos, state : h \in Opens(state, pos)
    BY DEF Holds
  <2>2. QED
    BY <2>1, Zenon DEF Opens
<1>3. Follow(Q) /\ Sponged(msg) = [i \in 1 .. OutputLen |-> ByteOf(Q, i)]
  BY <1>1 DEF Gives
<1> HIDE DEF done
<1>4. PICK f : /\ f[0] = First(done) /\ \A n \in 1 .. OutputLen : f[n] = Go(f[n - 1])
               /\ Squeeze(done, OutputLen) = f[OutputLen]
  BY SqueezeRuns
<1>5. OutputLen \in Nat /\ OutputLen >= 1 /\ BlockLen \in Nat \ {0}
  BY DEF Sizes
<1> DEFINE S == {n \in Nat : n <= OutputLen => Went(Q, f[n], n)}
<1>6. 0 \in S
  <2>1. f[0].out = <<>> /\ f[0].hash = done
    BY <1>4 DEF First
  <2>2. IsMessage(f[0].out) /\ Len(f[0].out) = 0
    BY <2>1, Empty
  <2>3. Start(0) = 0
    BY Starts
  <2>4. Len(f[0].out) <= OutputLen /\ \A i \in 1 .. Len(f[0].out) : f[0].out[i] = ByteOf(Q, i)
    BY <1>5, <2>2
  <2>5. Went(Q, f[0], 0)
    BY <1>1, <2>1, <2>2, <2>3, <2>4, Zenon DEF Went
  <2>6. QED
    BY <2>5
<1>7. ASSUME NEW n \in Nat, n \in S
      PROVE  n + 1 \in S
  <2>1. SUFFICES ASSUME n + 1 <= OutputLen
                 PROVE  Went(Q, f[n + 1], n + 1)
    OBVIOUS
  <2>2. n <= OutputLen /\ n + 1 \in 1 .. OutputLen /\ (n + 1) - 1 = n
    BY <1>5, <2>1
  <2> DEFINE l == f[n]
  <2>3. Went(Q, l, n)
    BY <1>7, <2>2, Zenon
  <2>4. f[n + 1] = IF Len(l.out) < OutputLen THEN SqueezeBlock(l.hash, l.out, OutputLen) ELSE l
    BY <1>4, <2>2 DEF Go
  <2> HIDE DEF l
  <2>5. CASE Len(l.out) < OutputLen
    <3>1. Went(Q, SqueezeBlock(l.hash, l.out, OutputLen), n + 1)
      BY <1>3, <2>3, <2>5, TurnSqueezes
    <3>2. QED
      BY <2>4, <2>5, <3>1, Zenon
  <2>6. CASE ~(Len(l.out) < OutputLen)
    <3>1. Went(Q, l, n + 1)
      BY <2>3, <2>6, Zenon DEF Went
    <3>2. QED
      BY <2>4, <2>6, <3>1, Zenon
  <2>7. QED
    BY <2>5, <2>6
<1>8. Went(Q, f[OutputLen], OutputLen)
  <2>1. OutputLen \in S
    <3> HIDE DEF S
    <3>1. QED
      BY <1>5, <1>6, <1>7, AllNumbers
  <2>2. OutputLen <= OutputLen
    BY <1>5
  <2>3. QED
    BY <2>1, <2>2, Zenon
<1> DEFINE out == f[OutputLen].out
<1>9. Start(OutputLen) >= OutputLen
  <2>1. PICK k \in Nat : BlockLen = k + 1
    <3>1. BlockLen - 1 \in Nat /\ BlockLen = (BlockLen - 1) + 1
      BY <1>5
    <3>2. QED
      BY <3>1
  <2>2. OutputLen * (k + 1) = OutputLen * k + OutputLen /\ OutputLen * k \in Nat
    BY <1>5
  <2>3. QED
    BY <1>5, <2>1, <2>2 DEF Start
<1>10. IsMessage(out) /\ Len(out) = OutputLen /\ \A i \in 1 .. OutputLen : out[i] = ByteOf(Q, i)
  <2>1. /\ IsMessage(out) /\ Len(out) <= OutputLen /\ (\A i \in 1 .. Len(out) : out[i] = ByteOf(Q, i))
        /\ (Len(out) < OutputLen => Len(out) = Start(OutputLen))
    BY <1>8, Zenon DEF Went
  <2>2. Len(out) \in Nat
    BY <2>1, MessageIs
  <2> HIDE DEF out
  <2>3. Len(out) = OutputLen
    BY <1>5, <1>9, <2>1, <2>2
  <2>4. QED
    BY <2>1, <2>3, Zenon
<1> HIDE DEF out
<1>11. out = [i \in 1 .. OutputLen |-> ByteOf(Q, i)]
  <2>1. out = [i \in 1 .. OutputLen |-> out[i]]
    BY <1>10, MessageIs
  <2>2. QED
    BY <1>10, <2>1
<1>12. WriteInto(h, OutputLen).out = out
  BY <1>2, <1>4, Zenon DEF WriteInto, done, out
<1>13. DigestInto(h).out = WriteInto(h, OutputLen).out
  BY <1>2 DEF DigestInto
<1>14. QED
  BY <1>3, <1>11, <1>12, <1>13, Zenon

-----------------------------------------------------------------------------

\* A message given to update in any pieces is padded, absorbed and squeezed as the standard
\* says it is as a whole, for every size of block within a state, and for outputs of any
\* length, longer than a block too (web/wallet.js:5300-5405).
THEOREM SpongeIsReference ==
    ASSUME Sizes, NEW Byte, NEW pieces \in Seq(Seq(Byte))
    PROVE  HashIsReference(pieces)
<1>1. Len(pieces) \in Nat /\ \A n \in 1 .. Len(pieces) : IsMessage(pieces[n])
  <2>1. IsMessage(pieces)
    BY DEF IsMessage
  <2>2. \A n \in 1 .. Len(pieces) : pieces[n] \in Seq(Byte)
    BY ElementOfSeq
  <2>3. QED
    BY <2>1, <2>2, MessageIs DEF IsMessage
<1>2. IsMessage(Joined(pieces)) /\ Holds(Updated(pieces), Joined(pieces))
  BY <1>1, UpdatedHolds
<1>3. DigestInto(Updated(pieces)).out = Sponged(Joined(pieces))
  BY <1>2, DigestIs
<1>4. QED
  BY <1>3 DEF HashIsReference
=============================================================================

----------------------------- MODULE HashProofs -----------------------------
(* Theorems about HashStream: the streaming hashes, HMAC and PBKDF2 compute what *)
(* the standards say, for messages, keys and salts of every length, any number   *)
(* of calls of update, and every block and output length.                        *)
EXTENDS HashStream, Messages

Sizes == BlockLen \in Nat \ {0} /\ OutputLen \in Nat \ {0} /\ PadOffset \in 1 .. BlockLen

-----------------------------------------------------------------------------
(* The state of a hash *)

\* The blocks a message fills, and the bytes after them.
Full(msg) == Len(msg) \div BlockLen
Rest(msg) == Len(msg) % BlockLen

\* A buffer has a byte in every place.
IsBuffer(b) == b = [i \in 1 .. BlockLen |-> b[i]]

\* What update has taken so far, of a message: the whole blocks are processed, the
\* buffer begins with the rest, and the length counts the calls that have returned.
Buffered(b, msg) ==
    /\ IsBuffer(b)
    /\ \A i \in 1 .. Rest(msg) : b[i] = msg[BlockLen * Full(msg) + i]
Hashing(words, b, p, n) ==
    [words : {words}, buffer : {b}, pos : {p}, length : {n},
     finished : {FALSE}, destroyed : {FALSE}, raised : {FALSE}]
Taken(msg, b, n) == Hashing(Split(msg), b, Rest(msg), n)
Holds(h, msg, n) == \E b : Buffered(b, msg) /\ h \in Taken(msg, b, n)

\* The fields of a hash that is taking data, which aexists lets through (web/wallet.js:24-29).
LEMMA HashingIs ==
    ASSUME NEW words, NEW b, NEW p, NEW n, NEW h, h \in Hashing(words, b, p, n)
    PROVE  /\ h.words = words /\ h.buffer = b /\ h.pos = p /\ h.length = n /\ ~h.raised /\ Usable(h)
BY Zenon DEF Hashing, Usable

\* Processing a block adds it to the words, and changes nothing else (web/wallet.js:321-326, 331-334).
LEMMA Processes ==
    ASSUME NEW words, NEW b, NEW p, NEW n, NEW h, h \in Hashing(words, b, p, n), NEW block
    PROVE  Process(h, block) \in Hashing(Append(words, block), b, p, n)
BY Zenon DEF Hashing, Process

\* Filling the buffer changes it and the place in it (web/wallet.js:328-330).
LEMMA Fills ==
    ASSUME NEW words, NEW b, NEW p, NEW n, NEW h, h \in Hashing(words, b, p, n), NEW c, NEW q
    PROVE  [h EXCEPT !.buffer = c, !.pos = q] \in Hashing(words, c, q, n)
BY Zenon DEF Hashing

\* The place, the length and the buffer change on their own (web/wallet.js:330-337, 383-384).
LEMMA Moves ==
    ASSUME NEW words, NEW b, NEW p, NEW n, NEW h, h \in Hashing(words, b, p, n), NEW q
    PROVE  /\ [h EXCEPT !.pos = q] \in Hashing(words, b, q, n)
           /\ [h EXCEPT !.length = q] \in Hashing(words, b, p, q)
           /\ [h EXCEPT !.buffer = q] \in Hashing(words, q, p, n)
BY Zenon DEF Hashing

\* The blocks of a message (web/wallet.js:321-326).
LEMMA Blocked ==
    ASSUME Sizes, NEW msg, IsMessage(msg)
    PROVE  /\ IsMessage(Split(msg)) /\ Len(Split(msg)) = Full(msg)
           /\ Full(msg) \in Nat /\ Rest(msg) \in 0 .. BlockLen - 1
           /\ Len(msg) = BlockLen * Full(msg) + Rest(msg)
           /\ \A i \in 1 .. Full(msg) :
                 /\ Split(msg)[i] = SubSeq(msg, (i - 1) * BlockLen + 1, i * BlockLen)
                 /\ IsMessage(Split(msg)[i]) /\ Len(Split(msg)[i]) = BlockLen
                 /\ \A j \in 1 .. BlockLen : Split(msg)[i][j] = msg[(i - 1) * BlockLen + j]
<1> DEFINE q == Full(msg)
           r == Rest(msg)
<1>0. BlockLen \in Nat \ {0} /\ Len(msg) \in Nat
  BY MessageIs DEF Sizes
<1>1. q \in Nat /\ r \in 0 .. BlockLen - 1 /\ Len(msg) = BlockLen * q + r
  BY <1>0, Divides, Zenon DEF Full, Rest
<1>2. Split(msg) = [i \in 1 .. q |-> SubSeq(msg, (i - 1) * BlockLen + 1, i * BlockLen)]
  BY Zenon DEF Split, Full
<1> HIDE DEF q, r
<1>3. \A i \in 1 .. q : Split(msg)[i] = SubSeq(msg, (i - 1) * BlockLen + 1, i * BlockLen)
  BY <1>2
<1>4. Split(msg) = [i \in 1 .. q |-> Split(msg)[i]]
  BY <1>2
<1>5. IsMessage(Split(msg)) /\ Len(Split(msg)) = q
  BY <1>1, <1>4, MessageBy
<1>6. ASSUME NEW i \in 1 .. q
      PROVE  /\ IsMessage(Split(msg)[i]) /\ Len(Split(msg)[i]) = BlockLen
             /\ \A j \in 1 .. BlockLen : Split(msg)[i][j] = msg[(i - 1) * BlockLen + j]
  <2> DEFINE m == (i - 1) * BlockLen + 1
             n == i * BlockLen
  <2>1. (i - 1) * BlockLen \in Nat /\ n = (i - 1) * BlockLen + BlockLen /\ i * BlockLen <= q * BlockLen
    <3>1. i - 1 \in Nat /\ BlockLen \in Nat /\ i \in Nat /\ q \in Nat /\ i <= q
      BY <1>0, <1>1
    <3>2. (i - 1) * BlockLen \in Nat /\ i * BlockLen = (i - 1) * BlockLen + BlockLen /\ i * BlockLen <= q * BlockLen
      BY <3>1, SMT
    <3>3. QED
      BY <3>2
  <2>2. m \in Nat \ {0} /\ n \in Nat /\ n <= Len(msg) /\ n - m + 1 = BlockLen /\ m <= n
    BY <1>0, <1>1, <2>1
  <2>3. m + BlockLen - m = BlockLen /\ \A j \in 1 .. BlockLen : m + j - 1 = (i - 1) * BlockLen + j
    BY <1>0, <1>1, <2>1
  <2> HIDE DEF m, n
  <2>4. /\ IsMessage(SubSeq(msg, m, n)) /\ Len(SubSeq(msg, m, n)) = BlockLen
        /\ \A j \in 1 .. BlockLen : SubSeq(msg, m, n)[j] = msg[m + j - 1]
    BY <2>2, PartOf
  <2>5. Split(msg)[i] = SubSeq(msg, m, n)
    BY <1>3 DEF m, n
  <2>6. QED
    BY <2>3, <2>4, <2>5
<1>7. QED
  BY <1>1, <1>3, <1>5, <1>6, Zenon DEF q, r

\* A buffer with a piece written over it (web/wallet.js:329).
LEMMA Written ==
    ASSUME Sizes, NEW b, IsBuffer(b), NEW p \in Nat, NEW f, f = p + 1, NEW piece, IsMessage(piece),
           p + Len(piece) <= BlockLen
    PROVE  /\ IsBuffer(Over(b, f, piece))
           /\ \A j \in 1 .. p : Over(b, f, piece)[j] = b[j]
           /\ \A j \in 1 .. Len(piece) : Over(b, f, piece)[p + j] = piece[j]
           /\ \A j \in p + Len(piece) + 1 .. BlockLen : Over(b, f, piece)[j] = b[j]
<1>1. BlockLen \in Nat \ {0} /\ Len(piece) \in Nat
  BY MessageIs DEF Sizes
<1>2. DOMAIN b = 1 .. BlockLen
  BY Zenon DEF IsBuffer
<1> DEFINE o == [j \in 1 .. BlockLen |-> IF j \in f .. p + Len(piece) THEN piece[j - p] ELSE b[j]]
<1>3. Over(b, f, piece) = o
  <2>1. f + Len(piece) - 1 = p + Len(piece) /\ \A j \in 1 .. BlockLen : (j - f) + 1 = j - p
    BY <1>1
  <2>2. QED
    BY <1>2, <2>1 DEF Over
<1>4. \A j \in 1 .. Len(piece) : p + j \in 1 .. BlockLen /\ p + j \in f .. p + Len(piece) /\ (p + j) - p = j
  BY <1>1
<1>5. \A j \in 1 .. p : j \in 1 .. BlockLen /\ j \notin f .. p + Len(piece)
  BY <1>1
<1>6. \A j \in p + Len(piece) + 1 .. BlockLen : j \in 1 .. BlockLen /\ j \notin f .. p + Len(piece)
  BY <1>1
<1>7. QED
  BY <1>3, <1>4, <1>5, <1>6 DEF IsBuffer

\* The blocks of a message stay when it gets longer.
LEMMA BlockKept ==
    ASSUME Sizes, NEW msg, IsMessage(msg), NEW piece, IsMessage(piece),
           NEW i \in 1 .. Full(msg), i <= Full(msg \o piece)
    PROVE  Split(msg \o piece)[i] = Split(msg)[i]
<1> DEFINE longer == msg \o piece
           q == Full(msg)
           from == (i - 1) * BlockLen
<1>1. /\ IsMessage(longer) /\ Len(longer) = Len(msg) + Len(piece) /\ Len(msg) \in Nat /\ Len(piece) \in Nat
      /\ \A j \in 1 .. Len(msg) + Len(piece) : longer[j] = IF j <= Len(msg) THEN msg[j] ELSE piece[j - Len(msg)]
  BY Concatenated
<1>2. /\ IsMessage(Split(msg)[i]) /\ Len(Split(msg)[i]) = BlockLen
      /\ \A j \in 1 .. BlockLen : Split(msg)[i][j] = msg[from + j]
  BY Blocked
<1>3. i \in 1 .. Full(longer)
  <2>1. Full(longer) \in Nat
    BY <1>1, Blocked
  <2>2. i \in Nat /\ 1 <= i
    BY Blocked
  <2>3. QED
    BY <2>1, <2>2
<1>4. /\ IsMessage(Split(longer)[i]) /\ Len(Split(longer)[i]) = BlockLen
      /\ \A j \in 1 .. BlockLen : Split(longer)[i][j] = longer[from + j]
  <2> HIDE DEF longer, from
  <2>1. QED
    BY <1>1, <1>3, Blocked, ZenonT(60) DEF from
<1>5. q \in Nat /\ Rest(msg) \in Nat /\ Len(msg) = BlockLen * q + Rest(msg) /\ BlockLen \in Nat \ {0}
  BY Blocked DEF Sizes
<1>6. i - 1 \in Nat /\ i - 1 <= q - 1
  BY <1>5
<1> HIDE DEF longer, q
<1>7. from \in Nat /\ from + BlockLen <= Len(msg)
  <2>1. (i - 1) * BlockLen \in Nat /\ (i - 1) * BlockLen <= (q - 1) * BlockLen
    BY <1>5, <1>6, SMT
  <2>2. (q - 1) * BlockLen = BlockLen * q - BlockLen
    BY <1>5, SMT
  <2>3. BlockLen * q \in Nat
    BY <1>5, SMT
  <2> HIDE DEF from
  <2>4. QED
    BY <1>5, <2>1, <2>2, <2>3 DEF from
<1> HIDE DEF from
<1>8. \A j \in 1 .. BlockLen : longer[from + j] = msg[from + j]
  BY <1>1, <1>5, <1>7
<1>9. \A j \in 1 .. Len(Split(longer)[i]) : Split(longer)[i][j] = Split(msg)[i][j]
  BY <1>2, <1>4, <1>8
<1>10. Split(longer)[i] = Split(msg)[i]
  BY <1>2, <1>4, <1>9, SameMessage
<1>11. QED
  BY <1>10 DEF longer

\* A piece that the buffer has room for: it fills the buffer further, or up to a block.
LEMMA PieceTaken ==
    ASSUME Sizes, NEW msg, IsMessage(msg), NEW b, Buffered(b, msg), NEW piece, IsMessage(piece),
           Rest(msg) + Len(piece) <= BlockLen
    PROVE  LET p == Rest(msg)
               filled == Over(b, p + 1, piece)
               longer == msg \o piece
           IN /\ p + Len(piece) < BlockLen =>
                    /\ Buffered(filled, longer)
                    /\ Split(longer) = Split(msg) /\ Rest(longer) = p + Len(piece)
              /\ p + Len(piece) = BlockLen =>
                    Split(longer) = Append(Split(msg), filled) /\ Rest(longer) = 0
<1> DEFINE q == Full(msg)
           p == Rest(msg)
           filled == Over(b, p + 1, piece)
           longer == msg \o piece
           base == BlockLen * q
<1>1. /\ IsMessage(longer) /\ Len(longer) = Len(msg) + Len(piece) /\ Len(msg) \in Nat /\ Len(piece) \in Nat
      /\ \A j \in 1 .. Len(msg) + Len(piece) : longer[j] = IF j <= Len(msg) THEN msg[j] ELSE piece[j - Len(msg)]
  BY Concatenated
<1>2. /\ q \in Nat /\ p \in 0 .. BlockLen - 1 /\ Len(msg) = base + p /\ BlockLen \in Nat \ {0}
      /\ IsMessage(Split(msg)) /\ Len(Split(msg)) = q
  BY Blocked DEF Sizes
<1>3. /\ IsBuffer(b)
      /\ \A i \in 1 .. p : b[i] = msg[base + i]
  BY DEF Buffered
<1>4. p + Len(piece) <= BlockLen
  OBVIOUS
<1> HIDE DEF q, p, longer
<1>5. /\ IsBuffer(filled)
      /\ \A j \in 1 .. p : filled[j] = b[j]
      /\ \A j \in 1 .. Len(piece) : filled[p + j] = piece[j]
  <2> DEFINE f == p + 1
  <2>1. p \in Nat /\ f = p + 1 /\ IsBuffer(b)
    BY <1>2, <1>3
  <2> HIDE DEF f
  <2>2. /\ IsBuffer(Over(b, f, piece))
        /\ \A j \in 1 .. p : Over(b, f, piece)[j] = b[j]
        /\ \A j \in 1 .. Len(piece) : Over(b, f, piece)[p + j] = piece[j]
    BY <1>4, <2>1, Written
  <2>3. QED
    BY <2>2 DEF f
<1> HIDE DEF filled
<1>6. base \in Nat
  BY <1>2, SMT
<1> HIDE DEF base
<1>7. \A j \in 1 .. p + Len(piece) : filled[j] = longer[base + j]
  <2>1. ASSUME NEW j \in 1 .. p + Len(piece)
        PROVE  filled[j] = longer[base + j]
    <3>1. CASE j <= p
      <4>1. j \in 1 .. p /\ base + j \in 1 .. Len(msg) + Len(piece) /\ base + j <= Len(msg)
        BY <1>1, <1>2, <1>6, <3>1
      <4>2. QED
        BY <1>1, <1>3, <1>5, <4>1
    <3>2. CASE ~(j <= p)
      <4> DEFINE i == j - p
                 at == base + j
      <4>1. i \in 1 .. Len(piece) /\ j = p + i /\ at \in 1 .. Len(msg) + Len(piece)
            /\ ~(at <= Len(msg)) /\ at - Len(msg) = i
        BY <1>1, <1>2, <1>6, <3>2
      <4> HIDE DEF i, at
      <4>2. filled[j] = piece[i]
        BY <1>5, <4>1, Zenon
      <4>3. longer[at] = piece[i]
        BY <1>1, <4>1
      <4>4. QED
        BY <4>2, <4>3 DEF at
    <3>3. QED
      BY <3>1, <3>2
  <2>2. QED
    BY <2>1
<1>8. ASSUME p + Len(piece) < BlockLen
      PROVE  Buffered(filled, longer) /\ Split(longer) = Split(msg) /\ Rest(longer) = p + Len(piece)
  <2>1. p + Len(piece) \in 0 .. BlockLen - 1 /\ Len(longer) = base + (p + Len(piece))
    BY <1>1, <1>2, <1>6, <1>8
  <2>2. Full(longer) = q /\ Rest(longer) = p + Len(piece)
    <3> DEFINE r == p + Len(piece)
    <3>1. r \in 0 .. BlockLen - 1 /\ Len(longer) = BlockLen * q + r
      BY <2>1 DEF base
    <3> HIDE DEF r
    <3>2. (BlockLen * q + r) \div BlockLen = q /\ (BlockLen * q + r) % BlockLen = r
      BY <1>2, <3>1, Divided
    <3>3. QED
      BY <3>1, <3>2, Zenon DEF Full, Rest, r
  <2>3. Buffered(filled, longer)
    BY <1>5, <1>7, <2>2 DEF Buffered, base
  <2>4. IsMessage(Split(longer)) /\ Len(Split(longer)) = q
    BY <1>1, <2>2, Blocked
  <2>5. ASSUME NEW i \in 1 .. Len(Split(longer))
        PROVE  Split(longer)[i] = Split(msg)[i]
    <3>1. i \in 1 .. q /\ i <= q
      BY <1>2, <2>4
    <3>2. QED
      BY <2>2, <3>1, BlockKept DEF q, longer
  <2>6. Split(longer) = Split(msg)
    BY <1>2, <2>4, <2>5, SameMessage
  <2>7. QED
    BY <2>2, <2>3, <2>6
<1>9. ASSUME p + Len(piece) = BlockLen
      PROVE  Split(longer) = Append(Split(msg), filled) /\ Rest(longer) = 0
  <2>1. 0 \in 0 .. BlockLen - 1 /\ q + 1 \in Nat /\ Len(longer) = BlockLen * (q + 1) + 0
    <3>1. Len(longer) = base + BlockLen
      BY <1>1, <1>2, <1>6, <1>9
    <3>2. BlockLen * (q + 1) + 0 = base + BlockLen
      BY <1>2, SMT DEF base
    <3>3. QED
      BY <1>2, <3>1, <3>2
  <2>2. Full(longer) = q + 1 /\ Rest(longer) = 0
    <3>1. (BlockLen * (q + 1) + 0) \div BlockLen = q + 1 /\ (BlockLen * (q + 1) + 0) % BlockLen = 0
      BY <1>2, <2>1, Divided
    <3>2. QED
      BY <2>1, <3>1, Zenon DEF Full, Rest
  <2>3. IsMessage(Split(longer)) /\ Len(Split(longer)) = q + 1
    BY <1>1, <2>2, Blocked
  <2>4. /\ IsMessage(Append(Split(msg), filled)) /\ Len(Append(Split(msg), filled)) = q + 1
        /\ \A i \in 1 .. q : Append(Split(msg), filled)[i] = Split(msg)[i]
        /\ Append(Split(msg), filled)[q + 1] = filled
    BY <1>2, Appended
  <2>5. ASSUME NEW i \in 1 .. q
        PROVE  Split(longer)[i] = Split(msg)[i]
    <3>1. i <= q + 1
      BY <1>2
    <3>2. QED
      BY <2>2, <3>1, BlockKept DEF q, longer
  <2>6. Split(longer)[q + 1] = filled
    <3>1. q + 1 \in 1 .. Full(longer) /\ ((q + 1) - 1) * BlockLen = base
      <4>1. (q + 1) - 1 = q /\ q * BlockLen = base
        BY <1>2, SMT DEF base
      <4>2. QED
        BY <1>2, <2>2, <4>1
    <3>2. /\ IsMessage(Split(longer)[q + 1]) /\ Len(Split(longer)[q + 1]) = BlockLen
          /\ \A j \in 1 .. BlockLen : Split(longer)[q + 1][j] = longer[((q + 1) - 1) * BlockLen + j]
      <4> DEFINE i == q + 1
      <4>1. i \in 1 .. Full(longer)
        BY <3>1
      <4> HIDE DEF i
      <4>2. /\ IsMessage(Split(longer)[i]) /\ Len(Split(longer)[i]) = BlockLen
            /\ \A j \in 1 .. BlockLen : Split(longer)[i][j] = longer[(i - 1) * BlockLen + j]
        BY <1>1, <4>1, Blocked, ZenonT(60)
      <4>3. QED
        BY <4>2 DEF i
    <3>3. IsMessage(filled) /\ Len(filled) = BlockLen
      BY <1>2, <1>5, MessageBy DEF IsBuffer
    <3>4. \A j \in 1 .. BlockLen : Split(longer)[q + 1][j] = filled[j]
      BY <1>7, <1>9, <3>1, <3>2
    <3>5. QED
      BY <3>2, <3>3, <3>4, SameMessage
  <2>7. \A i \in 1 .. Len(Split(longer)) : Split(longer)[i] = Append(Split(msg), filled)[i]
    BY <1>2, <2>3, <2>4, <2>5, <2>6
  <2>8. Split(longer) = Append(Split(msg), filled)
    BY <2>3, <2>4, <2>7, SameMessage
  <2>9. QED
    BY <2>2, <2>8
<1>10. QED
  BY <1>8, <1>9 DEF p, filled, longer

\* With no bytes after its blocks, a message is buffered by any buffer.
LEMMA NoRest ==
    ASSUME NEW msg, Rest(msg) = 0, NEW b, IsBuffer(b)
    PROVE  Buffered(b, msg)
BY DEF Buffered

\* A whole block written over an empty buffer is what the buffer then is.
LEMMA WholeBlock ==
    ASSUME Sizes, NEW b, IsBuffer(b), NEW piece, IsMessage(piece), Len(piece) = BlockLen
    PROVE  Over(b, 1, piece) = piece
<1> DEFINE o == Over(b, 1, piece)
<1>1. 0 \in Nat /\ 1 = 0 + 1 /\ 0 + Len(piece) <= BlockLen /\ BlockLen \in Nat
  BY DEF Sizes
<1> HIDE DEF o
<1>2. IsBuffer(o) /\ \A j \in 1 .. Len(piece) : o[0 + j] = piece[j]
  <2>1. ASSUME NEW p \in Nat, NEW f, f = p + 1, p + Len(piece) <= BlockLen
        PROVE  /\ IsBuffer(Over(b, f, piece))
               /\ \A j \in 1 .. Len(piece) : Over(b, f, piece)[p + j] = piece[j]
    BY <2>1, Written
  <2> HIDE DEF Sizes
  <2>2. /\ IsBuffer(Over(b, 1, piece))
        /\ \A j \in 1 .. Len(piece) : Over(b, 1, piece)[0 + j] = piece[j]
    BY <1>1, <2>1, Zenon
  <2>3. QED
    BY <2>2 DEF o
<1>3. IsMessage(o) /\ Len(o) = BlockLen
  BY <1>1, <1>2, MessageBy DEF IsBuffer
<1>4. \A j \in 1 .. Len(o) : o[j] = piece[j]
  BY <1>1, <1>2, <1>3
<1>5. o = piece
  BY <1>3, <1>4, SameMessage
<1>6. QED
  BY <1>5 DEF o

\* A turn of update takes a byte at least, and what has been taken is a longer part of
\* the data (web/wallet.js:319-336).
LEMMA TurnTakes ==
    ASSUME Sizes, NEW msg, IsMessage(msg), NEW data, IsMessage(data), NEW at \in Nat, at < Len(data),
           NEW n, NEW h, Holds(h, msg \o SubSeq(data, 1, at), n)
    PROVE  LET t == Turn(h, data, at)
           IN /\ t.at \in at + 1 .. Len(data)
              /\ Holds(t.hash, msg \o SubSeq(data, 1, t.at), n)
<1> DEFINE first == SubSeq(data, 1, at)
           so == msg \o first
           p == Rest(so)
           take == Smaller(BlockLen - p, Len(data) - at)
           to == at + take
           piece == SubSeq(data, at + 1, to)
           longer == msg \o SubSeq(data, 1, to)
<1>1. Len(data) \in Nat /\ BlockLen \in Nat \ {0}
  BY MessageIs DEF Sizes
<1>2. IsMessage(first) /\ IsMessage(so)
  BY <1>1, PartOf, Concatenated
<1>3. p \in 0 .. BlockLen - 1
  BY <1>2, Blocked
<1>4. /\ take \in Nat \ {0} /\ to \in at + 1 .. Len(data) /\ to \in Nat /\ p + take <= BlockLen
      /\ take = BlockLen => p = 0
  BY <1>1, <1>3 DEF Smaller
<1> HIDE DEF take
<1>5. IsMessage(piece) /\ Len(piece) = take /\ IsMessage(SubSeq(data, 1, to)) /\ IsMessage(longer)
  <2>1. at + 1 \in Nat \ {0} /\ to <= Len(data) /\ 1 \in Nat \ {0} /\ at + 1 <= to
    BY <1>1, <1>4
  <2>2. IsMessage(piece) /\ Len(piece) = to - (at + 1) + 1
    BY <1>4, <2>1, PartOf
  <2>3. to - (at + 1) + 1 = take
    BY <1>4
  <2>4. IsMessage(SubSeq(data, 1, to))
    BY <1>4, <2>1, PartOf
  <2>5. QED
    BY <2>2, <2>3, <2>4, Concatenated
<1>6. so \o piece = longer
  <2>1. at <= to /\ to <= Len(data)
    BY <1>1, <1>4
  <2>2. SubSeq(data, 1, at) \o piece = SubSeq(data, 1, to)
    BY <1>4, <2>1, Parted
  <2>3. (msg \o SubSeq(data, 1, at)) \o piece = msg \o (SubSeq(data, 1, at) \o piece)
    <3>1. (msg \o first) \o piece = msg \o (first \o piece)
      <4> HIDE DEF piece, first
      <4>1. QED
        BY <1>2, <1>5, Associated, SMTT(60)
    <3>2. QED
      BY <3>1
  <2>4. QED
    BY <2>2, <2>3
<1>7. PICK b : Buffered(b, so) /\ h \in Taken(so, b, n)
  BY DEF Holds
<1> DEFINE over == Over(b, p + 1, piece)
<1>8. h \in Hashing(Split(so), b, p, n) /\ h.pos = p /\ h.buffer = b
  <2>1. h \in Hashing(Split(so), b, p, n)
    BY <1>7, Zenon DEF Taken
  <2>2. h.pos = p /\ h.buffer = b
    BY <2>1, Zenon DEF Hashing
  <2>3. QED
    BY <2>1, <2>2
<1>9. IsBuffer(b)
  BY <1>7 DEF Buffered
<1>10. IsBuffer(over)
  <2>1. p \in Nat /\ p + Len(piece) <= BlockLen
    BY <1>3, <1>4, <1>5
  <2>2. QED
    BY <1>5, <1>9, <2>1, Written
<1>11. /\ p + Len(piece) < BlockLen =>
              Buffered(over, so \o piece) /\ Split(so \o piece) = Split(so) /\ Rest(so \o piece) = p + Len(piece)
       /\ p + Len(piece) = BlockLen =>
              Split(so \o piece) = Append(Split(so), over) /\ Rest(so \o piece) = 0
  <2>1. p + Len(piece) <= BlockLen
    BY <1>4, <1>5
  <2> HIDE DEF so, piece
  <2>2. QED
    BY <1>2, <1>5, <1>7, <2>1, PieceTaken
<1>12. /\ p + take < BlockLen =>
              Buffered(over, longer) /\ Split(longer) = Split(so) /\ Rest(longer) = p + take
       /\ p + take = BlockLen =>
              Split(longer) = Append(Split(so), over) /\ Rest(longer) = 0
  BY <1>5, <1>6, <1>11, Zenon
<1> DEFINE filled == [h EXCEPT !.buffer = over, !.pos = p + take]
           next == CASE take = BlockLen -> Process(h, piece)
                     [] take # BlockLen /\ filled.pos = BlockLen -> [Process(filled, filled.buffer) EXCEPT !.pos = 0]
                     [] OTHER -> filled
<1>13. Turn(h, data, at) = [at |-> to, hash |-> next]
  BY <1>8, Zenon DEF Turn, take
<1> HIDE DEF so, p, to, piece, longer, over
<1>14. filled \in Hashing(Split(so), over, p + take, n) /\ filled.pos = p + take /\ filled.buffer = over
  <2>1. filled \in Hashing(Split(so), over, p + take, n)
    BY <1>8, Fills, Zenon
  <2>2. filled.pos = p + take /\ filled.buffer = over
    <3> HIDE DEF filled
    <3>1. QED
      BY <2>1, Zenon DEF Hashing
  <2>3. QED
    BY <2>1, <2>2
<1> HIDE DEF filled
<1>15. Holds(next, longer, n)
  <2>1. CASE take = BlockLen
    <3>1. p = 0 /\ p + take = BlockLen
      BY <1>1, <1>4, <2>1
    <3>2. over = piece
      <4>1. over = Over(b, 1, piece)
        BY <3>1 DEF over
      <4>2. QED
        BY <1>5, <1>9, <2>1, <4>1, WholeBlock
    <3>3. Split(longer) = Append(Split(so), piece) /\ Rest(longer) = 0
      BY <1>12, <3>1, <3>2
    <3>4. next = Process(h, piece)
      BY <2>1
    <3>5. Process(h, piece) \in Taken(longer, b, n)
      BY <1>8, <3>1, <3>3, Processes, Zenon DEF Taken
    <3>6. Buffered(b, longer)
      BY <1>9, <3>3, NoRest
    <3> HIDE DEF next
    <3>7. QED
      BY <3>4, <3>5, <3>6 DEF Holds
  <2>2. CASE take # BlockLen /\ p + take = BlockLen
    <3>1. Split(longer) = Append(Split(so), over) /\ Rest(longer) = 0
      BY <1>12, <2>2
    <3>2. next = [Process(filled, filled.buffer) EXCEPT !.pos = 0]
      BY <1>14, <2>2
    <3>3. [Process(filled, filled.buffer) EXCEPT !.pos = 0] \in Taken(longer, over, n)
      <4>1. Process(filled, filled.buffer) \in Hashing(Append(Split(so), over), over, p + take, n)
        BY <1>14, Processes, Zenon
      <4>2. QED
        BY <3>1, <4>1, Moves, Zenon DEF Taken
    <3>4. Buffered(over, longer)
      BY <1>10, <3>1, NoRest
    <3> HIDE DEF next
    <3>5. QED
      BY <3>2, <3>3, <3>4 DEF Holds
  <2>3. CASE take # BlockLen /\ p + take # BlockLen
    <3>1. p + take < BlockLen
      BY <1>1, <1>3, <1>4, <2>3
    <3>2. Buffered(over, longer) /\ Split(longer) = Split(so) /\ Rest(longer) = p + take
      BY <1>12, <3>1
    <3>3. next = filled
      BY <1>14, <2>3
    <3>4. filled \in Taken(longer, over, n)
      BY <1>14, <3>2, Zenon DEF Taken
    <3> HIDE DEF next
    <3>5. QED
      BY <3>2, <3>3, <3>4 DEF Holds
  <2>4. QED
    BY <2>1, <2>2, <2>3, Zenon
<1> HIDE DEF next
<1>16. Turn(h, data, at).at = to /\ Turn(h, data, at).hash = next
  BY <1>13
<1>17. QED
  BY <1>4, <1>15, <1>16, Zenon DEF to, longer

-----------------------------------------------------------------------------
(* The loop of update *)

First(h) == [at |-> 0, hash |-> h]
Go(data, l) == IF l.at < Len(data) THEN Turn(l.hash, data, l.at) ELSE l

\* The states of the loop of update, one for each turn (web/wallet.js:319-336).
LEMMA AbsorbRuns ==
    ASSUME NEW h, NEW data, Len(data) \in Nat
    PROVE  \E f : /\ f[0] = First(h) /\ \A n \in 1 .. Len(data) : f[n] = Go(data, f[n - 1])
                 /\ Absorb(h, data) = f[Len(data)].hash
<1> DEFINE Is(f, N) == f = [n \in 0 .. N |-> IF n = 0 THEN First(h) ELSE Go(data, f[n - 1])]
           S == {N \in Nat : \E f : Is(f, N)}
           loop == CHOOSE f : Is(f, Len(data))
<1>1. 0 \in S
  <2>1. Is([n \in 0 .. 0 |-> First(h)], 0)
    OBVIOUS
  <2>2. QED
    BY <2>1
<1>2. ASSUME NEW N \in Nat, N \in S
      PROVE  N + 1 \in S
  <2>1. PICK f : Is(f, N)
    BY <1>2
  <2> DEFINE g == [n \in 0 .. N + 1 |-> IF n <= N THEN f[n] ELSE Go(data, f[N])]
  <2>2. Is(g, N + 1)
    BY <2>1
  <2> HIDE DEF Is, g
  <2>3. QED
    BY <2>2
<1>3. Len(data) \in S
  <2> HIDE DEF S
  <2>1. QED
    BY <1>1, <1>2, AllNumbers
<1>4. Is(loop, Len(data))
  <2> HIDE DEF Is
  <2>1. QED
    BY <1>3, Zenon
<1>5. Absorb(h, data) = loop[Len(data)].hash
  BY Zenon DEF Absorb, First, Go
<1> HIDE DEF loop
<1>6. loop[0] = First(h) /\ \A n \in 1 .. Len(data) : loop[n] = Go(data, loop[n - 1])
  BY <1>4
<1>7. QED
  BY <1>5, <1>6, Zenon

\* What update has taken after its loop is the message with the data at its end.
LEMMA AbsorbTakes ==
    ASSUME Sizes, NEW msg, IsMessage(msg), NEW data, IsMessage(data), NEW n, NEW h, Holds(h, msg, n)
    PROVE  Holds(Absorb(h, data), msg \o data, n)
<1>1. Len(data) \in Nat
  BY MessageIs
<1>2. PICK f : /\ f[0] = First(h) /\ \A k \in 1 .. Len(data) : f[k] = Go(data, f[k - 1])
               /\ Absorb(h, data) = f[Len(data)].hash
  BY <1>1, AbsorbRuns
<1> DEFINE Good(k) == /\ f[k].at \in Nat /\ f[k].at <= Len(data) /\ (k <= Len(data) => k <= f[k].at)
                      /\ Holds(f[k].hash, msg \o SubSeq(data, 1, f[k].at), n)
           S == {k \in Nat : k <= Len(data) => Good(k)}
<1>3. 0 \in S
  <2>1. f[0].at = 0 /\ f[0].hash = h
    BY <1>2 DEF First
  <2>2. SubSeq(data, 1, 0) = <<>> /\ msg \o <<>> = msg
    BY <1>1, Parted, Empty
  <2>3. Good(0)
    <3>1. Holds(f[0].hash, msg \o SubSeq(data, 1, f[0].at), n)
      BY <2>1, <2>2
    <3>2. QED
      BY <1>1, <2>1, <3>1
  <2> HIDE DEF Good
  <2>4. QED
    BY <2>3
<1>4. ASSUME NEW k \in Nat, k \in S
      PROVE  k + 1 \in S
  <2>0. k + 1 \in Nat
    OBVIOUS
  <2>1. SUFFICES ASSUME k + 1 <= Len(data)
                 PROVE  Good(k + 1)
    BY <2>0, Zenon
  <2>2. k <= Len(data) /\ k + 1 \in 1 .. Len(data) /\ (k + 1) - 1 = k
    BY <1>1, <2>1
  <2>3. Good(k)
    BY <1>4, <2>2, Zenon
  <2>4. f[k + 1] = Go(data, f[k])
    BY <1>2, <2>2
  <2> DEFINE at == f[k].at
             hash == f[k].hash
             t == Turn(hash, data, at)
  <2>5. CASE at < Len(data)
    <3>1. at \in Nat /\ Holds(hash, msg \o SubSeq(data, 1, at), n)
      BY <2>3
    <3>2. f[k + 1] = t
      BY <2>4, <2>5 DEF Go
    <3>3. t.at \in at + 1 .. Len(data) /\ Holds(t.hash, msg \o SubSeq(data, 1, t.at), n)
      <4> HIDE DEF at, hash
      <4>1. QED
        BY <2>5, <3>1, TurnTakes
    <3>4. k <= at
      BY <2>2, <2>3
    <3> HIDE DEF t
    <3>5. t.at \in Nat /\ t.at <= Len(data) /\ k + 1 <= t.at
      <4> HIDE DEF at
      <4>1. QED
        BY <1>1, <3>1, <3>3, <3>4
    <3>6. QED
      BY <3>2, <3>3, <3>5, Zenon
  <2>6. CASE ~(at < Len(data))
    <3>1. f[k + 1] = f[k]
      BY <2>4, <2>6 DEF Go
    <3>2. k + 1 <= f[k].at
      BY <1>1, <2>1, <2>3, <2>6
    <3>3. QED
      BY <2>3, <3>1, <3>2, Zenon
  <2>7. QED
    BY <2>5, <2>6
<1>5. Good(Len(data))
  <2>1. Len(data) \in S
    <3> HIDE DEF S
    <3>1. QED
      BY <1>1, <1>3, <1>4, AllNumbers
  <2>2. Len(data) <= Len(data)
    BY <1>1
  <2> HIDE DEF Good
  <2>3. QED
    BY <2>1, <2>2, Zenon
<1>6. f[Len(data)].at = Len(data)
  BY <1>1, <1>5
<1>7. SubSeq(data, 1, Len(data)) = data
  BY <1>1, Parted
<1>8. QED
  BY <1>2, <1>5, <1>6, <1>7, Zenon

\* Every call of update takes its data, whole (web/wallet.js:315-340).
LEMMA UpdateTakes ==
    ASSUME Sizes, NEW msg, IsMessage(msg), NEW data, IsMessage(data), NEW h, Holds(h, msg, Len(msg))
    PROVE  Holds(Update(h, data), msg \o data, Len(msg \o data))
<1>1. PICK b : Buffered(b, msg) /\ h \in Taken(msg, b, Len(msg))
  BY Zenon DEF Holds
<1>2. Usable(h) /\ h.length = Len(msg)
  BY <1>1, Zenon DEF Taken, Hashing, Usable
<1> DEFINE longer == msg \o data
           after == Absorb(h, data)
<1>3. Holds(after, longer, Len(msg))
  BY AbsorbTakes
<1>4. Len(longer) = Len(msg) + Len(data)
  BY Concatenated
<1>5. Update(h, data) = [after EXCEPT !.length = @ + Len(data)]
  BY <1>2, Zenon DEF Update
<1> HIDE DEF longer, after
<1>6. PICK c : Buffered(c, longer) /\ after \in Taken(longer, c, Len(msg))
  BY <1>3, Zenon DEF Holds
<1>7. after.length = Len(msg)
  BY <1>6, Zenon DEF Taken, Hashing
<1>8. Update(h, data) = [after EXCEPT !.length = Len(longer)]
  BY <1>4, <1>5, <1>7
<1>9. Update(h, data) \in Taken(longer, c, Len(longer))
  <2>1. after \in Hashing(Split(longer), c, Rest(longer), Len(msg))
    BY <1>6, Zenon DEF Taken
  <2>2. [after EXCEPT !.length = Len(longer)] \in Hashing(Split(longer), c, Rest(longer), Len(longer))
    BY <2>1, Moves
  <2>3. QED
    BY <1>8, <2>2, Zenon DEF Taken
<1>10. QED
  BY <1>6, <1>9, Zenon DEF Holds, longer

\* A new hash holds the empty message (web/wallet.js:302-314).
LEMMA NewHolds ==
    ASSUME Sizes
    PROVE  Holds(New, <<>>, 0)
<1>1. IsMessage(<<>>) /\ Len(<<>>) = 0
  BY Empty
<1>2. Full(<<>>) = 0 /\ Rest(<<>>) = 0
  <2>1. BlockLen \in Nat \ {0} /\ 0 \in Nat /\ 0 \in 0 .. BlockLen - 1 /\ BlockLen * 0 + 0 = 0
    BY SMT DEF Sizes
  <2>2. (BlockLen * 0 + 0) \div BlockLen = 0 /\ (BlockLen * 0 + 0) % BlockLen = 0
    BY <2>1, Divided
  <2>3. QED
    BY <1>1, <2>1, <2>2, Zenon DEF Full, Rest
<1>3. Split(<<>>) = <<>>
  <2>1. IsMessage(Split(<<>>)) /\ Len(Split(<<>>)) = 0
    BY <1>1, <1>2, Blocked
  <2>2. \A i \in 1 .. Len(Split(<<>>)) : Split(<<>>)[i] = <<>>[i]
    BY <2>1
  <2>3. QED
    BY <1>1, <2>1, <2>2, SameMessage
<1>4. IsBuffer(Zeros(BlockLen))
  BY DEF IsBuffer, Zeros
<1>5. Buffered(Zeros(BlockLen), <<>>)
  BY <1>2, <1>4, NoRest
<1>6. New \in Taken(<<>>, Zeros(BlockLen), 0)
  BY <1>2, <1>3 DEF New, Taken, Hashing
<1>7. QED
  BY <1>5, <1>6, Zenon DEF Holds

-----------------------------------------------------------------------------
(* The end of a message *)

Ends(msg) == IF NoRoom(Rest(msg) + 1) THEN Full(msg) + 2 ELSE Full(msg) + 1

\* The padded length is the next multiple of a block that has room for the padding
\* (web/wallet.js:347-356).
LEMMA PaddedLengthIs ==
    ASSUME Sizes, NEW msg, IsMessage(msg)
    PROVE  /\ Ends(msg) \in Nat /\ PaddedLength(Len(msg)) = BlockLen * Ends(msg)
           /\ BlockLen * Ends(msg) = BlockLen * Full(msg) + BlockLen * (Ends(msg) - Full(msg))
           /\ BlockLen * Ends(msg) \in Nat /\ BlockLen * Full(msg) \in Nat
           /\ BlockLen * Ends(msg) >= Len(msg) + 2
<1> DEFINE n == Len(msg)
           q == Full(msg)
           p == Rest(msg)
           k == Ends(msg)
           least == n + 1 + PadOffset
           most == n + PadOffset + BlockLen
           base == BlockLen * q
           end == BlockLen * k
<1>1. BlockLen \in Nat \ {0} /\ PadOffset \in 1 .. BlockLen /\ n \in Nat
  BY MessageIs DEF Sizes
<1>2. q \in Nat /\ p \in 0 .. BlockLen - 1 /\ n = base + p
  BY Blocked
<1>3. k = IF PadOffset > BlockLen - (p + 1) THEN q + 2 ELSE q + 1
  BY Zenon DEF Ends, NoRoom
<1> HIDE DEF n, q, p, k
<1>4. base \in Nat /\ BlockLen * (q + 1) = base + BlockLen /\ BlockLen * (q + 2) = base + 2 * BlockLen
  BY <1>1, <1>2, SMT
<1>5. k \in Nat
  BY <1>1, <1>2, <1>3
<1>6. end = IF PadOffset > BlockLen - (p + 1) THEN base + 2 * BlockLen ELSE base + BlockLen
  BY <1>3, <1>4
<1>7. BlockLen * (k - q) = IF PadOffset > BlockLen - (p + 1) THEN 2 * BlockLen ELSE BlockLen
  <2>1. CASE PadOffset > BlockLen - (p + 1)
    <3>1. k - q = 2
      BY <1>2, <1>3, <2>1
    <3>2. QED
      BY <1>1, <2>1, <3>1
  <2>2. CASE ~(PadOffset > BlockLen - (p + 1))
    <3>1. k - q = 1
      BY <1>2, <1>3, <2>2
    <3>2. QED
      BY <1>1, <2>2, <3>1
  <2>3. QED
    BY <2>1, <2>2
<1> HIDE DEF base, end
<1>8. end \in least .. most
  BY <1>1, <1>2, <1>4, <1>6
<1>9. end % BlockLen = 0
  <2>1. (BlockLen * k + 0) % BlockLen = 0
    <3>1. 0 \in 0 .. BlockLen - 1
      BY <1>1
    <3>2. QED
      BY <1>1, <1>5, <3>1, Divided
  <2>2. BlockLen * k + 0 = end
    BY <1>1, <1>5, SMT DEF end
  <2>3. QED
    BY <2>1, <2>2, Zenon
<1> DEFINE m == PaddedLength(n)
<1>10. m \in least .. most /\ m % BlockLen = 0
  <2> HIDE DEF least, most
  <2>1. m = CHOOSE x \in least .. most : x % BlockLen = 0
    BY Zenon DEF PaddedLength, least, most
  <2> HIDE DEF m
  <2>2. QED
    BY <1>8, <1>9, <2>1, Zenon
<1> HIDE DEF m
<1>11. m \in Nat
  BY <1>1, <1>10
<1> DEFINE x == m \div BlockLen
<1>12. x \in Nat /\ m = BlockLen * x
  <2>1. x \in Nat /\ m = BlockLen * x + (m % BlockLen)
    BY <1>1, <1>11, Divides
  <2> HIDE DEF x
  <2>2. m = BlockLen * x + 0
    BY <1>10, <2>1, Zenon
  <2>3. BlockLen * x \in Nat
    BY <1>1, <2>1, SMT
  <2>4. QED
    BY <2>1, <2>2, <2>3
<1> HIDE DEF x
<1>13. /\ x >= k + 1 => BlockLen * x >= end + BlockLen
       /\ x <= k - 1 => BlockLen * x <= end - BlockLen
  <2>1. x >= k + 1 => BlockLen * x >= BlockLen * (k + 1)
    BY <1>1, <1>5, <1>12, SMT
  <2>2. BlockLen * (k + 1) = end + BlockLen
    BY <1>1, <1>5, SMT DEF end
  <2>3. x <= k - 1 => BlockLen * x <= BlockLen * (k - 1)
    BY <1>1, <1>5, <1>12, SMT
  <2>4. BlockLen * (k - 1) = end - BlockLen
    BY <1>1, <1>5, SMT DEF end
  <2>5. QED
    BY <2>1, <2>2, <2>3, <2>4
<1>14. x = k
  <2>1. m < end + BlockLen /\ m > end - BlockLen
    BY <1>1, <1>8, <1>10
  <2>2. m \in Nat /\ end \in Int
    BY <1>8, <1>1, <1>11
  <2>3. QED
    BY <1>1, <1>5, <1>12, <1>13, <2>1, <2>2
<1>15. m = end
  BY <1>12, <1>14 DEF end
<1>16. end >= n + 2 /\ end \in Nat
  BY <1>1, <1>8
<1>17. BlockLen * k = base + BlockLen * (k - q)
  BY <1>6, <1>7 DEF end
<1>18. QED
  BY <1>4, <1>5, <1>15, <1>16, <1>17, Zenon DEF m, n, q, k, base, end

\* The padded message: the message, a bit, zeros, its length.
LEMMA PaddedIs ==
    ASSUME Sizes, NEW msg, IsMessage(msg)
    PROVE  LET end == BlockLen * Ends(msg)
               n == Len(msg)
           IN /\ IsMessage(Padded(msg)) /\ Len(Padded(msg)) = end /\ Full(Padded(msg)) = Ends(msg)
              /\ \E rest : IsMessage(rest) /\ Padded(msg) = msg \o rest
              /\ \A i \in 1 .. end :
                    Padded(msg)[i] = IF i <= n THEN msg[i] ELSE IF i = n + 1 THEN One
                                     ELSE IF i = end THEN Length(n) ELSE Zero
<1> DEFINE end == BlockLen * Ends(msg)
           n == Len(msg)
           z == end - n - 2
           u == msg \o <<One>>
           v == u \o Zeros(z)
           rest == <<One>> \o (Zeros(z) \o <<Length(n)>>)
<1>1. Ends(msg) \in Nat /\ end \in Nat /\ end >= n + 2 /\ PaddedLength(n) = end
  BY PaddedLengthIs, Zenon
<1>2. n \in Nat
  BY MessageIs
<1>3. Padded(msg) = v \o <<Length(n)>>
  BY <1>1, Zenon DEF Padded
<1>4. BlockLen \in Nat \ {0}
  BY DEF Sizes
<1> HIDE DEF end, n
<1>5. z \in Nat
  BY <1>1, <1>2
<1> HIDE DEF z
<1>6. \A e : IsMessage(<<e>>) /\ Len(<<e>>) = 1 /\ <<e>>[1] = e
  <2>1. \A e : <<e>> \in Seq({e}) /\ Len(<<e>>) = 1 /\ <<e>>[1] = e
    OBVIOUS
  <2>2. QED
    BY <2>1 DEF IsMessage
<1>7. IsMessage(Zeros(z)) /\ Len(Zeros(z)) = z /\ \A i \in 1 .. z : Zeros(z)[i] = Zero
  <2>1. Zeros(z) = [i \in 1 .. z |-> Zeros(z)[i]] /\ \A i \in 1 .. z : Zeros(z)[i] = Zero
    BY DEF Zeros
  <2>2. QED
    BY <1>5, <2>1, MessageBy
<1>8. /\ IsMessage(u) /\ Len(u) = n + 1
      /\ \A i \in 1 .. n + 1 : u[i] = IF i <= n THEN msg[i] ELSE <<One>>[i - n]
  BY <1>6, Concatenated DEF n
<1> HIDE DEF u
<1>9. /\ IsMessage(v) /\ Len(v) = n + 1 + z
      /\ \A i \in 1 .. n + 1 + z : v[i] = IF i <= n + 1 THEN u[i] ELSE Zeros(z)[i - (n + 1)]
  BY <1>7, <1>8, Concatenated, SMTT(60)
<1> HIDE DEF v
<1>10. /\ IsMessage(Padded(msg)) /\ Len(Padded(msg)) = n + 1 + z + 1
       /\ \A i \in 1 .. n + 1 + z + 1 : Padded(msg)[i] = IF i <= n + 1 + z THEN v[i] ELSE <<Length(n)>>[i - (n + 1 + z)]
  BY <1>3, <1>6, <1>9, Concatenated
<1>11. Padded(msg) = msg \o rest /\ IsMessage(rest)
  <2>1. IsMessage(<<One>>) /\ IsMessage(<<Length(n)>>) /\ IsMessage(Zeros(z))
    BY <1>6, <1>7
  <2> DEFINE zeros == Zeros(z)
             one == <<One>>
             last == <<Length(n)>>
  <2>2. IsMessage(one) /\ IsMessage(zeros) /\ IsMessage(last)
    BY <2>1
  <2> HIDE DEF zeros, one, last
  <2>3. IsMessage(zeros \o last) /\ IsMessage(one \o (zeros \o last)) /\ IsMessage(msg \o one)
    BY <2>2, Concatenated
  <2>4. ((msg \o one) \o zeros) \o last = (msg \o one) \o (zeros \o last)
    BY <2>2, <2>3, Associated, SMTT(60)
  <2>5. (msg \o one) \o (zeros \o last) = msg \o (one \o (zeros \o last))
    <3> DEFINE back == zeros \o last
    <3>1. IsMessage(back)
      BY <2>3
    <3> HIDE DEF back
    <3>2. (msg \o one) \o back = msg \o (one \o back)
      BY <2>2, <3>1, Associated
    <3>3. QED
      BY <3>2 DEF back
  <2>6. Padded(msg) = ((msg \o one) \o zeros) \o last
    BY <1>3 DEF v, u, one, zeros, last
  <2>7. rest = one \o (zeros \o last)
    BY DEF one, zeros, last
  <2>8. QED
    BY <2>3, <2>4, <2>5, <2>6, <2>7
<1>12. n + 1 + z + 1 = end
  BY <1>1, <1>2 DEF z
<1>13. Full(Padded(msg)) = Ends(msg)
  <2>1. Len(Padded(msg)) = end
    BY <1>10, <1>12
  <2>2. end = BlockLen * Ends(msg) + 0 /\ 0 \in 0 .. BlockLen - 1
    BY <1>1, <1>4, SMT DEF end
  <2>3. (BlockLen * Ends(msg) + 0) \div BlockLen = Ends(msg)
    BY <1>1, <1>4, <2>2, Divided
  <2>4. QED
    BY <2>1, <2>2, <2>3, Zenon DEF Full
<1>14. ASSUME NEW i \in 1 .. end
       PROVE  Padded(msg)[i] = IF i <= n THEN msg[i] ELSE IF i = n + 1 THEN One
                               ELSE IF i = end THEN Length(n) ELSE Zero
  <2>1. i \in 1 .. n + 1 + z + 1
    BY <1>12
  <2>2. CASE i <= n
    <3>1. i <= n + 1 + z /\ i \in 1 .. n + 1 + z /\ i <= n + 1 /\ i \in 1 .. n + 1
      BY <1>2, <1>5, <2>2
    <3>2. QED
      BY <1>8, <1>9, <1>10, <2>1, <2>2, <3>1
  <2>3. CASE i = n + 1
    <3>1. i <= n + 1 + z /\ i \in 1 .. n + 1 + z /\ i <= n + 1 /\ i \in 1 .. n + 1 /\ ~(i <= n) /\ i - n = 1
      BY <1>2, <1>5, <2>3
    <3>2. Padded(msg)[i] = <<One>>[1]
      BY <1>8, <1>9, <1>10, <2>1, <3>1
    <3>3. QED
      BY <1>6, <2>3, <3>1, <3>2
  <2>4. CASE i = end /\ ~(i <= n) /\ i # n + 1
    <3>1. ~(i <= n + 1 + z) /\ i - (n + 1 + z) = 1
      BY <1>2, <1>5, <1>12, <2>4
    <3>2. Padded(msg)[i] = <<Length(n)>>[1]
      BY <1>10, <2>1, <3>1
    <3>3. QED
      BY <1>6, <2>4, <3>2
  <2>5. CASE i # end /\ ~(i <= n) /\ i # n + 1
    <3>1. i <= n + 1 + z /\ i \in 1 .. n + 1 + z /\ ~(i <= n + 1) /\ i - (n + 1) \in 1 .. z
      BY <1>2, <1>5, <1>12, <2>5
    <3>2. Padded(msg)[i] = Zeros(z)[i - (n + 1)]
      BY <1>9, <1>10, <2>1, <3>1
    <3>3. QED
      BY <1>7, <2>5, <3>1, <3>2
  <2>6. QED
    BY <2>2, <2>3, <2>4, <2>5
<1>15. QED
  BY <1>10, <1>11, <1>12, <1>13, <1>14 DEF end, n

\* The last buffer: a bit after the rest of the message, and zeros (web/wallet.js:347-354).
LEMMA BitWritten ==
    ASSUME Sizes, NEW b, IsBuffer(b), NEW p \in 0 .. BlockLen - 1
    PROVE  LET padded == Over(b, p + 1, <<One>> \o Zeros(BlockLen - p - 1))
           IN /\ IsBuffer(padded)
              /\ \A j \in 1 .. BlockLen : padded[j] = IF j <= p THEN b[j] ELSE IF j = p + 1 THEN One ELSE Zero
<1> DEFINE z == BlockLen - p - 1
           one == <<One>>
           piece == one \o Zeros(z)
           f == p + 1
           padded == Over(b, f, piece)
<1>1. BlockLen \in Nat \ {0} /\ z \in Nat /\ p \in Nat
  BY DEF Sizes
<1> HIDE DEF z
<1>2. IsMessage(one) /\ Len(one) = 1 /\ one[1] = One
  <2>1. one \in Seq({One}) /\ Len(one) = 1 /\ one[1] = One
    OBVIOUS
  <2>2. QED
    BY <2>1, Zenon DEF IsMessage
<1>3. IsMessage(Zeros(z)) /\ Len(Zeros(z)) = z /\ \A i \in 1 .. z : Zeros(z)[i] = Zero
  <2>1. Zeros(z) = [i \in 1 .. z |-> Zeros(z)[i]] /\ \A i \in 1 .. z : Zeros(z)[i] = Zero
    BY DEF Zeros
  <2>2. QED
    BY <1>1, <2>1, MessageBy
<1> HIDE DEF one
<1>4. /\ IsMessage(piece) /\ Len(piece) = 1 + z
      /\ \A i \in 1 .. 1 + z : piece[i] = IF i <= 1 THEN one[i] ELSE Zeros(z)[i - 1]
  <2> DEFINE zeros == Zeros(z)
  <2>1. IsMessage(zeros) /\ Len(zeros) = z
    BY <1>3
  <2> HIDE DEF zeros
  <2>2. /\ IsMessage(one \o zeros) /\ Len(one \o zeros) = Len(one) + Len(zeros)
        /\ \A i \in 1 .. Len(one) + Len(zeros) : (one \o zeros)[i] = IF i <= Len(one) THEN one[i] ELSE zeros[i - Len(one)]
    BY <1>2, <2>1, Concatenated
  <2>3. QED
    BY <1>2, <2>1, <2>2 DEF zeros
<1>5. p + Len(piece) = BlockLen
  BY <1>1, <1>4 DEF z
<1>6. /\ IsBuffer(padded)
      /\ \A j \in 1 .. p : padded[j] = b[j]
      /\ \A j \in 1 .. Len(piece) : padded[p + j] = piece[j]
  <2>1. p + Len(piece) <= BlockLen /\ f = p + 1
    BY <1>1, <1>5
  <2> HIDE DEF piece, f
  <2>2. IsBuffer(padded)
    BY <1>1, <1>4, <2>1, Written
  <2>3. \A j \in 1 .. p : padded[j] = b[j]
    BY <1>1, <1>4, <2>1, Written
  <2>4. \A j \in 1 .. Len(piece) : padded[p + j] = piece[j]
    BY <1>1, <1>4, <2>1, Written, SMTT(60)
  <2>5. QED
    BY <2>2, <2>3, <2>4
<1> HIDE DEF padded, piece
<1>7. ASSUME NEW j \in 1 .. BlockLen
      PROVE  padded[j] = IF j <= p THEN b[j] ELSE IF j = p + 1 THEN One ELSE Zero
  <2>1. CASE j <= p
    <3>1. j \in 1 .. p
      BY <1>1, <2>1
    <3>2. QED
      BY <1>6, <2>1, <3>1
  <2>2. CASE j = p + 1
    <3>1. 1 \in 1 .. Len(piece) /\ 1 \in 1 .. 1 + z /\ ~(j <= p)
      BY <1>1, <1>4, <2>2
    <3>2. padded[p + 1] = piece[1] /\ piece[1] = one[1]
      BY <1>4, <1>6, <3>1
    <3>3. QED
      BY <1>2, <2>2, <3>1, <3>2
  <2>3. CASE ~(j <= p) /\ j # p + 1
    <3> DEFINE i == j - p
    <3>1. i \in 1 .. Len(piece) /\ i \in 1 .. 1 + z /\ ~(i <= 1) /\ i - 1 \in 1 .. z /\ j = p + i
      BY <1>1, <1>4, <1>5, <2>3
    <3> HIDE DEF i
    <3>2. padded[j] = piece[i] /\ piece[i] = Zero
      BY <1>3, <1>4, <1>6, <3>1
    <3>3. QED
      BY <2>3, <3>2
  <2>4. QED
    BY <2>1, <2>2, <2>3
<1>8. QED
  BY <1>6, <1>7 DEF padded, piece, one, z, f

\* The length goes into the end of the last block (web/wallet.js:355-356).
LEMMA LengthWritten ==
    ASSUME Sizes, NEW b, IsBuffer(b), NEW e
    PROVE  LET last == Over(b, BlockLen, <<e>>)
           IN IsBuffer(last) /\ \A j \in 1 .. BlockLen : last[j] = IF j = BlockLen THEN e ELSE b[j]
<1> DEFINE p == BlockLen - 1
           f == BlockLen
           piece == <<e>>
           last == Over(b, f, piece)
<1>1. BlockLen \in Nat \ {0} /\ p \in Nat /\ f = p + 1 /\ BlockLen = p + 1
  BY DEF Sizes
<1>2. IsMessage(piece) /\ Len(piece) = 1 /\ piece[1] = e
  <2>1. piece \in Seq({e}) /\ Len(piece) = 1 /\ piece[1] = e
    OBVIOUS
  <2>2. QED
    BY <2>1, Zenon DEF IsMessage
<1> HIDE DEF p, piece, f
<1>3. /\ IsBuffer(last)
      /\ \A j \in 1 .. p : last[j] = b[j]
      /\ \A j \in 1 .. Len(piece) : last[p + j] = piece[j]
  <2>1. p \in Nat /\ f = p + 1 /\ IsMessage(piece) /\ p + Len(piece) <= BlockLen
    BY <1>1, <1>2
  <2>2. IsBuffer(last)
    BY <2>1, Written
  <2>3. \A j \in 1 .. p : last[j] = b[j]
    BY <2>1, Written
  <2>4. \A j \in 1 .. Len(piece) : last[p + j] = piece[j]
    BY <2>1, Written
  <2>5. QED
    BY <2>2, <2>3, <2>4
<1> HIDE DEF last
<1>4. last[BlockLen] = e
  <2>1. 1 \in 1 .. Len(piece)
    BY <1>2
  <2>2. QED
    BY <1>1, <1>2, <1>3, <2>1
<1>5. \A j \in 1 .. BlockLen : j # BlockLen => j \in 1 .. p
  BY <1>1
<1>6. QED
  BY <1>3, <1>4, <1>5 DEF last, piece, f

\* A buffer is the block of a message that has its bytes there.
LEMMA IsBlock ==
    ASSUME Sizes, NEW msg, IsMessage(msg), NEW i \in 1 .. Full(msg), NEW b, IsBuffer(b),
           NEW from, from = (i - 1) * BlockLen, \A j \in 1 .. BlockLen : b[j] = msg[from + j]
    PROVE  Split(msg)[i] = b
<1>1. /\ IsMessage(Split(msg)[i]) /\ Len(Split(msg)[i]) = BlockLen
      /\ \A j \in 1 .. BlockLen : Split(msg)[i][j] = msg[(i - 1) * BlockLen + j]
  BY Blocked
<1>2. BlockLen \in Nat
  BY DEF Sizes
<1>3. IsMessage(b) /\ Len(b) = BlockLen
  BY <1>2, MessageBy DEF IsBuffer
<1>4. \A j \in 1 .. BlockLen : Split(msg)[i][j] = b[j]
  BY <1>1, Zenon
<1>5. QED
  BY <1>1, <1>3, <1>4, SameMessage

\* A message whose padding fits into its last block ends in one block more.
LEMMA EndsInOne ==
    ASSUME Sizes, NEW msg, IsMessage(msg), NEW b, Buffered(b, msg), ~NoRoom(Rest(msg) + 1)
    PROVE  LET p == Rest(msg)
               padded == Over(b, p + 1, <<One>> \o Zeros(BlockLen - p - 1))
           IN Split(Padded(msg)) = Append(Split(msg), Over(padded, BlockLen, <<Length(Len(msg))>>))
<1> DEFINE n == Len(msg)
           q == Full(msg)
           p == Rest(msg)
           base == BlockLen * q
           end == BlockLen * Ends(msg)
           all == Padded(msg)
           padded == Over(b, p + 1, <<One>> \o Zeros(BlockLen - p - 1))
           last == Over(padded, BlockLen, <<Length(n)>>)
<1>1. BlockLen \in Nat \ {0} /\ n \in Nat
  BY MessageIs DEF Sizes
<1>2. q \in Nat /\ p \in 0 .. BlockLen - 1 /\ n = base + p /\ IsMessage(Split(msg)) /\ Len(Split(msg)) = q
  BY Blocked
<1>3. Ends(msg) = q + 1
  BY Zenon DEF Ends
<1>4. end = base + BlockLen /\ base \in Nat /\ end >= n + 2
  <2>1. base \in Nat /\ end >= n + 2
    BY PaddedLengthIs, Zenon
  <2>2. BlockLen * (q + 1) = base + BlockLen
    <3> HIDE DEF q
    <3>1. QED
      BY <1>1, <1>2, SMT
  <2>3. QED
    BY <1>3, <2>1, <2>2, Zenon
<1>5. /\ IsMessage(all) /\ Full(all) = q + 1
      /\ \E rest : IsMessage(rest) /\ all = msg \o rest
      /\ \A i \in 1 .. end : all[i] = IF i <= n THEN msg[i] ELSE IF i = n + 1 THEN One
                                      ELSE IF i = end THEN Length(n) ELSE Zero
  BY <1>3, PaddedIs, Zenon
<1>6. IsBuffer(b) /\ \A i \in 1 .. p : b[i] = msg[base + i]
  BY DEF Buffered
<1> HIDE DEF n, q, p, end, all
<1>7. /\ IsBuffer(padded)
      /\ \A j \in 1 .. BlockLen : padded[j] = IF j <= p THEN b[j] ELSE IF j = p + 1 THEN One ELSE Zero
  BY <1>2, <1>6, BitWritten, ZenonT(60)
<1> HIDE DEF padded
<1>8. IsBuffer(last) /\ \A j \in 1 .. BlockLen : last[j] = IF j = BlockLen THEN Length(n) ELSE padded[j]
  BY <1>7, LengthWritten, Zenon
<1> HIDE DEF last
<1>9. Split(all)[q + 1] = last
  <2> DEFINE i == q + 1
             from == (i - 1) * BlockLen
  <2>1. i \in 1 .. Full(all)
    BY <1>2, <1>5
  <2>2. from = base
    <3>1. i - 1 = q
      BY <1>2
    <3>2. q * BlockLen = base
      BY <1>1, <1>2, SMT
    <3>3. QED
      BY <3>1, <3>2, Zenon
  <2> HIDE DEF base, from
  <2>3. ASSUME NEW j \in 1 .. BlockLen
        PROVE  last[j] = all[from + j]
    <3>1. from + j \in 1 .. end /\ from = base
      BY <1>1, <1>4, <2>2
    <3>2. CASE j <= p
      <4>1. from + j <= n /\ j # BlockLen /\ j \in 1 .. p
        BY <1>1, <1>2, <1>4, <2>2, <3>2
      <4>2. QED
        BY <1>5, <1>6, <1>7, <1>8, <3>1, <3>2, <4>1
    <3>3. CASE j = p + 1
      <4>1. ~(from + j <= n) /\ from + j = n + 1 /\ j # BlockLen /\ ~(j <= p)
        BY <1>1, <1>2, <1>4, <2>2, <3>3
      <4>2. QED
        BY <1>5, <1>7, <1>8, <3>1, <3>3, <4>1
    <3>4. CASE ~(j <= p) /\ j # p + 1
      <4>1. ~(from + j <= n) /\ from + j # n + 1 /\ (from + j = end <=> j = BlockLen)
        BY <1>1, <1>2, <1>4, <2>2, <3>4
      <4>2. QED
        BY <1>5, <1>7, <1>8, <3>1, <3>4, <4>1
    <3>5. QED
      BY <3>2, <3>3, <3>4
  <2>4. IsMessage(all) /\ IsBuffer(last) /\ from = (i - 1) * BlockLen
    BY <1>5, <1>8 DEF from
  <2> HIDE DEF i
  <2>5. Split(all)[i] = last
    BY <2>1, <2>3, <2>4, IsBlock, SMT
  <2>6. QED
    BY <2>5 DEF i
<1>10. ASSUME NEW i \in 1 .. q
       PROVE  Split(all)[i] = Split(msg)[i]
  <2>1. PICK rest : IsMessage(rest) /\ all = msg \o rest
    BY <1>5
  <2>2. i <= Full(msg \o rest)
    BY <1>2, <1>5, <2>1
  <2>3. Split(msg \o rest)[i] = Split(msg)[i]
    BY <2>1, <2>2, BlockKept DEF q
  <2>4. QED
    BY <2>1, <2>3
<1>11. /\ IsMessage(Append(Split(msg), last)) /\ Len(Append(Split(msg), last)) = q + 1
       /\ \A i \in 1 .. q : Append(Split(msg), last)[i] = Split(msg)[i]
       /\ Append(Split(msg), last)[q + 1] = last
  BY <1>2, Appended
<1>12. IsMessage(Split(all)) /\ Len(Split(all)) = q + 1
  BY <1>5, Blocked
<1>13. \A i \in 1 .. Len(Split(all)) : Split(all)[i] = Append(Split(msg), last)[i]
  BY <1>2, <1>9, <1>10, <1>11, <1>12
<1>14. Split(all) = Append(Split(msg), last)
  BY <1>11, <1>12, <1>13, SameMessage
<1>15. QED
  BY <1>14 DEF all, last, padded, n, p

\* A message whose padding does not fit ends in two blocks more.
LEMMA EndsInTwo ==
    ASSUME Sizes, NEW msg, IsMessage(msg), NEW b, Buffered(b, msg), NoRoom(Rest(msg) + 1)
    PROVE  LET p == Rest(msg)
               padded == Over(b, p + 1, <<One>> \o Zeros(BlockLen - p - 1))
           IN Split(Padded(msg)) = Append(Append(Split(msg), padded), Over(Zeros(BlockLen), BlockLen, <<Length(Len(msg))>>))
<1> DEFINE n == Len(msg)
           q == Full(msg)
           p == Rest(msg)
           base == BlockLen * q
           end == BlockLen * Ends(msg)
           all == Padded(msg)
           padded == Over(b, p + 1, <<One>> \o Zeros(BlockLen - p - 1))
           last == Over(Zeros(BlockLen), BlockLen, <<Length(n)>>)
           words == Append(Append(Split(msg), padded), last)
<1>1. BlockLen \in Nat \ {0} /\ n \in Nat
  BY MessageIs DEF Sizes
<1>2. q \in Nat /\ p \in 0 .. BlockLen - 1 /\ n = base + p /\ IsMessage(Split(msg)) /\ Len(Split(msg)) = q
  BY Blocked
<1>3. Ends(msg) = q + 2
  BY Zenon DEF Ends
<1>4. end = base + 2 * BlockLen /\ base \in Nat /\ end >= n + 2
  <2>1. base \in Nat /\ end >= n + 2
    BY PaddedLengthIs, Zenon
  <2>2. BlockLen * (q + 2) = base + 2 * BlockLen
    <3> HIDE DEF q
    <3>1. QED
      BY <1>1, <1>2, SMT
  <2>3. QED
    BY <1>3, <2>1, <2>2, Zenon
<1>5. /\ IsMessage(all) /\ Full(all) = q + 2
      /\ \E rest : IsMessage(rest) /\ all = msg \o rest
      /\ \A i \in 1 .. end : all[i] = IF i <= n THEN msg[i] ELSE IF i = n + 1 THEN One
                                      ELSE IF i = end THEN Length(n) ELSE Zero
  BY <1>3, PaddedIs, Zenon
<1>6. IsBuffer(b) /\ \A i \in 1 .. p : b[i] = msg[base + i]
  BY DEF Buffered
<1> HIDE DEF n, q, p, end, all
<1>7. /\ IsBuffer(padded)
      /\ \A j \in 1 .. BlockLen : padded[j] = IF j <= p THEN b[j] ELSE IF j = p + 1 THEN One ELSE Zero
  BY <1>2, <1>6, BitWritten, ZenonT(60)
<1> HIDE DEF padded
<1>8. IsBuffer(last) /\ \A j \in 1 .. BlockLen : last[j] = IF j = BlockLen THEN Length(n) ELSE Zero
  <2> DEFINE zeros == Zeros(BlockLen)
  <2>1. IsBuffer(zeros) /\ \A j \in 1 .. BlockLen : zeros[j] = Zero
    BY DEF Zeros, IsBuffer
  <2> HIDE DEF zeros
  <2>2. LET over == Over(zeros, BlockLen, <<Length(n)>>)
        IN IsBuffer(over) /\ \A j \in 1 .. BlockLen : over[j] = IF j = BlockLen THEN Length(n) ELSE zeros[j]
    BY <2>1, LengthWritten, Zenon
  <2> HIDE DEF last
  <2>3. last = Over(zeros, BlockLen, <<Length(n)>>)
    BY DEF last, zeros
  <2>4. QED
    BY <2>1, <2>2, <2>3
<1> HIDE DEF last
<1>9. Split(all)[q + 1] = padded
  <2> DEFINE i == q + 1
             from == (i - 1) * BlockLen
  <2>1. i \in 1 .. Full(all)
    BY <1>2, <1>5
  <2>2. from = base
    <3>1. i - 1 = q
      BY <1>2
    <3>2. q * BlockLen = base
      BY <1>1, <1>2, SMT
    <3>3. QED
      BY <3>1, <3>2, Zenon
  <2> HIDE DEF base, from
  <2>3. ASSUME NEW j \in 1 .. BlockLen
        PROVE  padded[j] = all[from + j]
    <3>1. from + j \in 1 .. end /\ from = base /\ from + j # end
      BY <1>1, <1>4, <2>2
    <3>2. CASE j <= p
      <4>1. from + j <= n /\ j \in 1 .. p
        BY <1>1, <1>2, <1>4, <2>2, <3>2
      <4>2. QED
        BY <1>5, <1>6, <1>7, <3>1, <3>2, <4>1
    <3>3. CASE j = p + 1
      <4>1. ~(from + j <= n) /\ from + j = n + 1 /\ ~(j <= p)
        BY <1>1, <1>2, <1>4, <2>2, <3>3
      <4>2. QED
        BY <1>5, <1>7, <3>1, <3>3, <4>1
    <3>4. CASE ~(j <= p) /\ j # p + 1
      <4>1. ~(from + j <= n) /\ from + j # n + 1
        BY <1>1, <1>2, <1>4, <2>2, <3>4
      <4>2. QED
        BY <1>5, <1>7, <3>1, <3>4, <4>1
    <3>5. QED
      BY <3>2, <3>3, <3>4
  <2>4. IsMessage(all) /\ IsBuffer(padded) /\ from = (i - 1) * BlockLen
    BY <1>5, <1>7 DEF from
  <2> HIDE DEF i
  <2>5. Split(all)[i] = padded
    BY <2>1, <2>3, <2>4, IsBlock, SMT
  <2>6. QED
    BY <2>5 DEF i
<1>10. Split(all)[q + 2] = last
  <2> DEFINE i == q + 2
             from == (i - 1) * BlockLen
  <2>1. i \in 1 .. Full(all)
    BY <1>2, <1>5
  <2>2. from = base + BlockLen
    <3>1. i - 1 = q + 1
      BY <1>2
    <3>2. (q + 1) * BlockLen = base + BlockLen
      BY <1>1, <1>2, SMT
    <3>3. QED
      BY <3>1, <3>2, Zenon
  <2> HIDE DEF base, from
  <2>3. ASSUME NEW j \in 1 .. BlockLen
        PROVE  last[j] = all[from + j]
    <3>1. /\ from + j \in 1 .. end /\ ~(from + j <= n) /\ from + j # n + 1
          /\ (from + j = end <=> j = BlockLen)
      BY <1>1, <1>2, <1>4, <2>2
    <3>2. QED
      BY <1>5, <1>8, <3>1
  <2>4. IsMessage(all) /\ IsBuffer(last) /\ from = (i - 1) * BlockLen
    BY <1>5, <1>8 DEF from
  <2> HIDE DEF i
  <2>5. Split(all)[i] = last
    BY <2>1, <2>3, <2>4, IsBlock, SMT
  <2>6. QED
    BY <2>5 DEF i
<1>11. ASSUME NEW i \in 1 .. q
       PROVE  Split(all)[i] = Split(msg)[i]
  <2>1. PICK rest : IsMessage(rest) /\ all = msg \o rest
    BY <1>5
  <2>2. i <= Full(msg \o rest)
    BY <1>2, <1>5, <2>1
  <2>3. Split(msg \o rest)[i] = Split(msg)[i]
    BY <2>1, <2>2, BlockKept DEF q
  <2>4. QED
    BY <2>1, <2>3
<1>12. /\ IsMessage(Append(Split(msg), padded)) /\ Len(Append(Split(msg), padded)) = q + 1
       /\ \A i \in 1 .. q : Append(Split(msg), padded)[i] = Split(msg)[i]
       /\ Append(Split(msg), padded)[q + 1] = padded
  BY <1>2, Appended
<1>13. /\ IsMessage(words) /\ Len(words) = q + 2
       /\ \A i \in 1 .. q + 1 : words[i] = Append(Split(msg), padded)[i]
       /\ words[q + 2] = last
  <2> DEFINE first == Append(Split(msg), padded)
  <2>1. IsMessage(first) /\ Len(first) = q + 1 /\ (q + 1) + 1 = q + 2
    BY <1>2, <1>12
  <2> HIDE DEF first
  <2>2. /\ IsMessage(Append(first, last)) /\ Len(Append(first, last)) = Len(first) + 1
        /\ \A i \in 1 .. Len(first) : Append(first, last)[i] = first[i]
        /\ Append(first, last)[Len(first) + 1] = last
    BY <2>1, Appended
  <2>3. QED
    BY <2>1, <2>2, Zenon DEF first
<1> HIDE DEF words
<1>14. IsMessage(Split(all)) /\ Len(Split(all)) = q + 2
  BY <1>5, Blocked
<1>15. \A i \in 1 .. Len(Split(all)) : Split(all)[i] = words[i]
  BY <1>2, <1>9, <1>10, <1>11, <1>12, <1>13, <1>14
<1>16. Split(all) = words
  BY <1>13, <1>14, <1>15, SameMessage
<1>17. QED
  BY <1>16 DEF all, words, last, padded, n, p

-----------------------------------------------------------------------------
(* A digest is the standard's *)

\* The digest of a hash that holds a message is the one of that message, whatever the
\* rest of the buffer holds (web/wallet.js:341-367).
LEMMA DigestIs ==
    ASSUME Sizes, NEW msg, IsMessage(msg), NEW h, Holds(h, msg, Len(msg))
    PROVE  /\ DigestInto(h).out = Sha(msg) /\ ~DigestInto(h).hash.raised
           /\ Destroyed(DigestInto(h).hash).buffer = Zeros(BlockLen)
<1> DEFINE p == Rest(msg)
           n == Len(msg)
<1>1. PICK b : Buffered(b, msg) /\ h \in Taken(msg, b, n)
  BY Zenon DEF Holds
<1>2. h \in Hashing(Split(msg), b, p, n)
  BY <1>1, Zenon DEF Taken
<1>3. h.words = Split(msg) /\ h.buffer = b /\ h.pos = p /\ h.length = n /\ Usable(h)
  BY <1>2, Zenon DEF Hashing, Usable
<1> DEFINE padded == Over(b, p + 1, <<One>> \o Zeros(BlockLen - p - 1))
           spilt == IF NoRoom(p + 1) THEN Process(h, padded) ELSE h
           last == IF NoRoom(p + 1) THEN Zeros(BlockLen) ELSE padded
           ended == Over(last, BlockLen, <<Length(n)>>)
           done == Process(spilt, ended)
<1>4. DigestInto(h) = [hash |-> [done EXCEPT !.finished = TRUE], out |-> DigestOf(done.words)]
  BY <1>3, Zenon DEF DigestInto, Padding
<1>5. done \in Hashing(Split(Padded(msg)), b, p, n)
  <2>1. CASE NoRoom(p + 1)
    <3>1. Process(h, padded) \in Hashing(Append(Split(msg), padded), b, p, n)
      BY <1>2, Processes, Zenon
    <3>2. Process(Process(h, padded), ended) \in Hashing(Append(Append(Split(msg), padded), ended), b, p, n)
      BY <3>1, Processes, Zenon
    <3>3. done = Process(Process(h, padded), ended)
      BY <2>1
    <3>4. ended = Over(Zeros(BlockLen), BlockLen, <<Length(n)>>)
      BY <2>1
    <3>5. Split(Padded(msg)) = Append(Append(Split(msg), padded), Over(Zeros(BlockLen), BlockLen, <<Length(n)>>))
      BY <1>1, <2>1, EndsInTwo, Zenon
    <3> HIDE DEF done, ended, padded, p, n
    <3>6. QED
      BY <3>2, <3>3, <3>4, <3>5
  <2>2. CASE ~NoRoom(p + 1)
    <3>1. Process(h, ended) \in Hashing(Append(Split(msg), ended), b, p, n)
      BY <1>2, Processes, Zenon
    <3>2. done = Process(h, ended)
      BY <2>2
    <3>3. ended = Over(padded, BlockLen, <<Length(n)>>)
      BY <2>2
    <3>4. Split(Padded(msg)) = Append(Split(msg), Over(padded, BlockLen, <<Length(n)>>))
      BY <1>1, <2>2, EndsInOne, Zenon
    <3> HIDE DEF done, ended, padded, p, n
    <3>5. QED
      BY <3>1, <3>2, <3>3, <3>4
  <2>3. QED
    BY <2>1, <2>2
<1> HIDE DEF done
<1>6. done.words = Split(Padded(msg)) /\ ~[done EXCEPT !.finished = TRUE].raised
  BY <1>5, Zenon DEF Hashing
<1>7. DigestInto(h).out = DigestOf(done.words) /\ DigestInto(h).hash = [done EXCEPT !.finished = TRUE]
  BY <1>4
<1>8. Destroyed([done EXCEPT !.finished = TRUE]).buffer = Zeros(BlockLen)
  BY <1>5, Zenon DEF Hashing, Destroyed
<1>9. QED
  BY <1>6, <1>7, <1>8, Zenon DEF Sha

\* The message that pieces make, and the hash that has been given them, piece by piece.
LEMMA PiecesRun ==
    ASSUME NEW pieces, Len(pieces) \in Nat
    PROVE  /\ \E f : /\ f[0] = <<>> /\ \A n \in 1 .. Len(pieces) : f[n] = f[n - 1] \o pieces[n]
                     /\ Joined(pieces) = f[Len(pieces)]
           /\ \E f : /\ f[0] = New /\ \A n \in 1 .. Len(pieces) : f[n] = Update(f[n - 1], pieces[n])
                     /\ Updated(pieces) = f[Len(pieces)]
<1> DEFINE Longer(s, n) == s \o pieces[n]
           Msg(f, N) == f = [n \in 0 .. N |-> IF n = 0 THEN <<>> ELSE Longer(f[n - 1], n)]
           Fed(f, N) == f = [n \in 0 .. N |-> IF n = 0 THEN New ELSE Update(f[n - 1], pieces[n])]
           S == {N \in Nat : (\E f : Msg(f, N)) /\ \E f : Fed(f, N)}
           msg == CHOOSE f : Msg(f, Len(pieces))
           fed == CHOOSE f : Fed(f, Len(pieces))
<1>1. 0 \in S
  <2>1. Msg([n \in 0 .. 0 |-> <<>>], 0) /\ Fed([n \in 0 .. 0 |-> New], 0)
    OBVIOUS
  <2> HIDE DEF Msg, Fed
  <2>2. QED
    BY <2>1
<1>2. ASSUME NEW N \in Nat, N \in S
      PROVE  N + 1 \in S
  <2>1. PICK f : Msg(f, N)
    BY <1>2, Zenon
  <2>2. PICK g : Fed(g, N)
    BY <1>2, Zenon
  <2>3. Msg([n \in 0 .. N + 1 |-> IF n <= N THEN f[n] ELSE Longer(f[N], N + 1)], N + 1)
    BY <2>1
  <2>4. Fed([n \in 0 .. N + 1 |-> IF n <= N THEN g[n] ELSE Update(g[N], pieces[N + 1])], N + 1)
    BY <2>2
  <2> HIDE DEF Msg, Fed
  <2>5. QED
    BY <2>3, <2>4
<1>3. Len(pieces) \in S
  <2> HIDE DEF S
  <2>1. QED
    BY <1>1, <1>2, AllNumbers
<1>4. Msg(msg, Len(pieces)) /\ Fed(fed, Len(pieces))
  <2> HIDE DEF Msg, Fed
  <2>1. QED
    BY <1>3, Zenon
<1>5. Joined(pieces) = msg[Len(pieces)] /\ Updated(pieces) = fed[Len(pieces)]
  BY Zenon DEF Joined, Updated
<1> HIDE DEF msg, fed, Longer
<1>6. msg[0] = <<>> /\ \A n \in 1 .. Len(pieces) : msg[n] = Longer(msg[n - 1], n)
  BY <1>4
<1>7. fed[0] = New /\ \A n \in 1 .. Len(pieces) : fed[n] = Update(fed[n - 1], pieces[n])
  BY <1>4
<1>8. QED
  BY <1>5, <1>6, <1>7, Zenon DEF Longer

\* After any calls of update, a hash holds the message that their data make.
LEMMA UpdatedHolds ==
    ASSUME Sizes, NEW pieces, Len(pieces) \in Nat, \A n \in 1 .. Len(pieces) : IsMessage(pieces[n])
    PROVE  IsMessage(Joined(pieces)) /\ Holds(Updated(pieces), Joined(pieces), Len(Joined(pieces)))
<1>1. PICK f : /\ f[0] = <<>> /\ \A n \in 1 .. Len(pieces) : f[n] = f[n - 1] \o pieces[n]
               /\ Joined(pieces) = f[Len(pieces)]
  BY PiecesRun
<1>2. PICK g : /\ g[0] = New /\ \A n \in 1 .. Len(pieces) : g[n] = Update(g[n - 1], pieces[n])
               /\ Updated(pieces) = g[Len(pieces)]
  BY PiecesRun
<1> DEFINE Good(n) == IsMessage(f[n]) /\ Holds(g[n], f[n], Len(f[n]))
           S == {n \in Nat : n <= Len(pieces) => Good(n)}
<1>3. 0 \in S
  <2>1. Good(0)
    BY <1>1, <1>2, NewHolds, Empty
  <2> HIDE DEF Good
  <2>2. QED
    BY <2>1
<1>4. ASSUME NEW n \in Nat, n \in S
      PROVE  n + 1 \in S
  <2>0. n + 1 \in Nat
    OBVIOUS
  <2>1. SUFFICES ASSUME n + 1 <= Len(pieces)
                 PROVE  Good(n + 1)
    BY <2>0, Zenon
  <2>2. n <= Len(pieces) /\ n + 1 \in 1 .. Len(pieces) /\ (n + 1) - 1 = n
    BY <2>1
  <2>3. Good(n)
    BY <1>4, <2>2, Zenon
  <2> DEFINE piece == pieces[n + 1]
             msg == f[n]
             h == g[n]
  <2>4. f[n + 1] = msg \o piece /\ g[n + 1] = Update(h, piece) /\ IsMessage(piece)
    BY <1>1, <1>2, <2>2
  <2>5. IsMessage(msg) /\ Holds(h, msg, Len(msg))
    BY <2>3
  <2> HIDE DEF msg, piece, h
  <2>6. IsMessage(msg \o piece) /\ Holds(Update(h, piece), msg \o piece, Len(msg \o piece))
    BY <2>4, <2>5, UpdateTakes, Concatenated
  <2>7. QED
    BY <2>4, <2>6
<1>5. Good(Len(pieces))
  <2>1. Len(pieces) \in S
    <3> HIDE DEF S
    <3>1. QED
      BY <1>3, <1>4, AllNumbers
  <2>2. Len(pieces) <= Len(pieces)
    OBVIOUS
  <2> HIDE DEF Good
  <2>3. QED
    BY <2>1, <2>2, Zenon
<1>6. QED
  BY <1>1, <1>2, <1>5

\* A hash given a message in any pieces, of any lengths, is the standard's hash of the
\* whole message, for every block length, every length the padding leaves for the
\* message's, and every output length (web/wallet.js:302-386).
THEOREM HashesAreReference ==
    ASSUME Sizes, NEW Byte, NEW pieces \in Seq(Seq(Byte))
    PROVE  HashIsReference(pieces)
<1>1. Len(pieces) \in Nat /\ \A n \in 1 .. Len(pieces) : IsMessage(pieces[n])
  <2>1. IsMessage(pieces)
    BY DEF IsMessage
  <2>2. \A n \in 1 .. Len(pieces) : pieces[n] \in Seq(Byte)
    BY ElementOfSeq
  <2>3. QED
    BY <2>1, <2>2, MessageIs DEF IsMessage
<1>2. IsMessage(Joined(pieces)) /\ Holds(Updated(pieces), Joined(pieces), Len(Joined(pieces)))
  BY <1>1, UpdatedHolds
<1>3. DigestInto(Updated(pieces)).out = Sha(Joined(pieces))
  BY <1>2, DigestIs
<1>4. QED
  BY <1>3 DEF HashIsReference, Digest

-----------------------------------------------------------------------------
(* HMAC *)

\* A digest is a message of the output's length.
LEMMA ShaIs ==
    ASSUME Sizes, NEW msg
    PROVE  IsMessage(Sha(msg)) /\ Len(Sha(msg)) = OutputLen
<1> DEFINE words == Split(Padded(msg))
<1>1. Sha(msg) = DigestOf(words)
  BY DEF Sha
<1> HIDE DEF words
<1>2. DigestOf(words) = [i \in 1 .. OutputLen |-> DigestOf(words)[i]] /\ OutputLen \in Nat
  BY DEF DigestOf, Sizes
<1>3. IsMessage(DigestOf(words)) /\ Len(DigestOf(words)) = OutputLen
  BY <1>2, MessageBy
<1>4. QED
  BY <1>1, <1>3

\* A hash of one message given at once.
LEMMA OnceIs ==
    ASSUME Sizes, NEW msg, IsMessage(msg)
    PROVE  Holds(Update(New, msg), msg, Len(msg)) /\ Digest(Update(New, msg)) = Sha(msg)
<1>1. IsMessage(<<>>) /\ Len(<<>>) = 0 /\ <<>> \o msg = msg
  BY Empty
<1>2. Holds(New, <<>>, Len(<<>>))
  BY <1>1, NewHolds
<1> DEFINE none == <<>>
<1>3. IsMessage(none) /\ Holds(New, none, Len(none)) /\ none \o msg = msg
  BY <1>1, <1>2
<1> HIDE DEF none
<1>4. Holds(Update(New, msg), none \o msg, Len(none \o msg))
  BY <1>3, UpdateTakes
<1>5. Holds(Update(New, msg), msg, Len(msg))
  BY <1>3, <1>4
<1>6. DigestInto(Update(New, msg)).out = Sha(msg)
  BY <1>5, DigestIs
<1>7. QED
  BY <1>5, <1>6 DEF Digest

\* The key that the standard pads, and what is hashed first of it.
Padkey(key) == Over(Zeros(BlockLen), 1, IF Len(key) > BlockLen THEN Sha(key) ELSE key)
InnerKey(key) == XorSeq(Padkey(key), Constant(Inner))
OuterKey(key) == XorSeq(Padkey(key), Constant(Outer))

\* The key is padded as the standard says, and its two masks give the standard's
\* (web/wallet.js:183-193).
LEMMA KeysAre ==
    ASSUME Sizes, NEW key, IsMessage(key)
    PROVE  /\ Pad(key) = Padkey(key)
           /\ XorSeq(Pad(key), Constant(Inner)) = InnerKey(key)
           /\ XorSeq(InnerKey(key), Constant(Xor(Inner, Outer))) = OuterKey(key)
           /\ IsMessage(InnerKey(key)) /\ IsMessage(OuterKey(key))
<1> DEFINE k == Padkey(key)
<1>1. BlockLen \in Nat
  BY DEF Sizes
<1>2. Pad(key) = k
  BY OnceIs, Zenon DEF Pad, Padkey
<1>3. DOMAIN k = 1 .. BlockLen
  BY DEF Padkey, Over, Zeros
<1> HIDE DEF k
<1>4. \A b : Constant(b) = [i \in 1 .. BlockLen |-> b]
  BY DEF Constant
<1>5. \A b : XorSeq(k, Constant(b)) = [i \in 1 .. BlockLen |-> Xor(k[i], b)]
  BY <1>3 DEF XorSeq, Constant
<1> DEFINE i0 == XorSeq(k, Constant(Inner))
           o0 == XorSeq(k, Constant(Outer))
<1>6. i0 = [i \in 1 .. BlockLen |-> Xor(k[i], Inner)]
  BY <1>5
<1>7. o0 = [i \in 1 .. BlockLen |-> Xor(k[i], Outer)]
  BY <1>5
<1> HIDE DEF i0, o0
<1>8. IsMessage(i0) /\ IsMessage(o0)
  <2>1. i0 = [i \in 1 .. BlockLen |-> i0[i]]
    BY <1>6
  <2>2. o0 = [i \in 1 .. BlockLen |-> o0[i]]
    BY <1>7
  <2>3. QED
    BY <1>1, <2>1, <2>2, MessageBy
<1>9. \A a : Xor(Xor(a, Inner), Xor(Inner, Outer)) = Xor(a, Outer)
  <2>1. \A a, b, c : Xor(Xor(a, b), Xor(b, c)) = Xor(a, c)
    BY DEF Xor
  <2>2. QED
    BY <2>1
<1>10. XorSeq(i0, Constant(Xor(Inner, Outer))) = o0
  <2> DEFINE mask == Xor(Inner, Outer)
  <2>1. DOMAIN i0 = 1 .. BlockLen /\ \A i \in 1 .. BlockLen : i0[i] = Xor(k[i], Inner)
    BY <1>6
  <2>2. \A i \in 1 .. BlockLen : Constant(mask)[i] = mask
    BY DEF Constant
  <2>3. \A i \in 1 .. BlockLen : Xor(i0[i], Constant(mask)[i]) = Xor(k[i], Outer)
    BY <1>9, <2>1, <2>2, Zenon
  <2> HIDE DEF mask
  <2>4. XorSeq(i0, Constant(mask)) = [i \in 1 .. BlockLen |-> Xor(i0[i], Constant(mask)[i])]
    BY <2>1 DEF XorSeq
  <2>5. XorSeq(i0, Constant(mask)) = o0
    BY <1>7, <2>3, <2>4
  <2>6. QED
    BY <2>5 DEF mask
<1>11. QED
  BY <1>2, <1>8, <1>10, Zenon DEF InnerKey, OuterKey, i0, o0, k

\* An HMAC object that has taken a message: its inner hash the inner key and the message,
\* its outer hash the outer key.
Macs(i, o) == [iHash : {i}, oHash : {o}, finished : {FALSE}, destroyed : {FALSE}]
MacHolds(m, key, msg) ==
    \E i, o : /\ m \in Macs(i, o)
              /\ Holds(i, InnerKey(key) \o msg, Len(InnerKey(key) \o msg))
              /\ Holds(o, OuterKey(key), Len(OuterKey(key)))
\* An object to clone into: its buffers are there.
Spare(m) == IsBuffer(m.iHash.buffer) /\ IsBuffer(m.oHash.buffer)

\* A new HMAC object has the keys (web/wallet.js:171-193).
LEMMA HmacHolds ==
    ASSUME Sizes, NEW key, IsMessage(key)
    PROVE  MacHolds(Hmac(key), key, <<>>)
<1> DEFINE i == Update(New, InnerKey(key))
           o == Update(New, OuterKey(key))
<1>1. Hmac(key) = [iHash |-> i, oHash |-> o, finished |-> FALSE, destroyed |-> FALSE]
  BY KeysAre, Zenon DEF Hmac
<1>2. Holds(i, InnerKey(key), Len(InnerKey(key))) /\ Holds(o, OuterKey(key), Len(OuterKey(key)))
  BY KeysAre, OnceIs
<1>3. InnerKey(key) \o <<>> = InnerKey(key)
  BY KeysAre, Empty
<1> HIDE DEF i, o
<1>4. Hmac(key) \in Macs(i, o)
  BY <1>1 DEF Macs
<1>5. Holds(i, InnerKey(key) \o <<>>, Len(InnerKey(key) \o <<>>))
  BY <1>2, <1>3
<1>6. QED
  BY <1>2, <1>4, <1>5, Zenon DEF MacHolds

\* Its update adds to the message (web/wallet.js:194-198).
LEMMA HmacUpdateHolds ==
    ASSUME Sizes, NEW key, IsMessage(key), NEW msg, IsMessage(msg), NEW data, IsMessage(data),
           NEW m, MacHolds(m, key, msg)
    PROVE  MacHolds(HmacUpdate(m, data), key, msg \o data)
<1> DEFINE ik == InnerKey(key)
           ok == OuterKey(key)
<1>1. PICK i, o : /\ m \in Macs(i, o)
                  /\ Holds(i, ik \o msg, Len(ik \o msg)) /\ Holds(o, ok, Len(ok))
  BY Zenon DEF MacHolds
<1>2. IsMessage(ik)
  BY KeysAre
<1> HIDE DEF ik, ok
<1>3. m.iHash = i /\ Usable(m)
  BY <1>1, Zenon DEF Macs, Usable
<1>4. HmacUpdate(m, data) = [m EXCEPT !.iHash = Update(i, data)]
  BY <1>3, Zenon DEF HmacUpdate
<1>5. HmacUpdate(m, data) \in Macs(Update(i, data), o)
  BY <1>1, <1>4, Zenon DEF Macs
<1> DEFINE so == ik \o msg
<1>6. IsMessage(so) /\ Holds(i, so, Len(so))
  BY <1>1, <1>2, Concatenated
<1>7. so \o data = ik \o (msg \o data)
  BY <1>2, Associated
<1> HIDE DEF so
<1>8. Holds(Update(i, data), so \o data, Len(so \o data))
  BY <1>6, UpdateTakes
<1>9. Holds(Update(i, data), ik \o (msg \o data), Len(ik \o (msg \o data)))
  BY <1>7, <1>8
<1>10. QED
  BY <1>1, <1>5, <1>9, Zenon DEF MacHolds, ik, ok

\* Its digest is the standard's code of the message, and leaves buffers to clone into
\* (web/wallet.js:199-207, 592-595).
LEMMA HmacDigestIs ==
    ASSUME Sizes, NEW key, IsMessage(key), NEW msg, IsMessage(msg), NEW m, MacHolds(m, key, msg)
    PROVE  HmacDigestInto(m).out = Mac(key, msg) /\ Spare(HmacDigestInto(m).hmac)
<1> DEFINE ik == InnerKey(key)
           ok == OuterKey(key)
           so == ik \o msg
           inner == Sha(so)
<1>1. PICK i, o : m \in Macs(i, o) /\ Holds(i, so, Len(so)) /\ Holds(o, ok, Len(ok))
  BY Zenon DEF MacHolds
<1>2. m.iHash = i /\ m.oHash = o /\ Usable(m)
  BY <1>1, Zenon DEF Macs, Usable
<1>3. IsMessage(ik) /\ IsMessage(ok)
  BY KeysAre
<1>4. Mac(key, msg) = Sha(ok \o inner)
  BY Zenon DEF Mac, InnerKey, OuterKey, Padkey
<1> HIDE DEF ik, ok
<1>5. IsMessage(so)
  BY <1>3, Concatenated
<1> HIDE DEF so
<1>6. /\ DigestInto(i).out = inner /\ ~DigestInto(i).hash.raised
      /\ Destroyed(DigestInto(i).hash).buffer = Zeros(BlockLen)
  BY <1>1, <1>5, DigestIs
<1>7. IsMessage(inner)
  BY ShaIs
<1> HIDE DEF inner
<1>8. IsMessage(ok \o inner) /\ Holds(Update(o, inner), ok \o inner, Len(ok \o inner))
  BY <1>1, <1>3, <1>7, UpdateTakes, Concatenated
<1> DEFINE whole == ok \o inner
           after == Update(o, inner)
<1>9. IsMessage(whole) /\ Holds(after, whole, Len(whole))
  BY <1>8
<1> HIDE DEF whole, after
<1>10. DigestInto(after).out = Sha(whole) /\ Destroyed(DigestInto(after).hash).buffer = Zeros(BlockLen)
  BY <1>9, DigestIs
<1>11. HmacDigestInto(m) = [hmac |-> [iHash |-> Destroyed(DigestInto(i).hash), oHash |-> Destroyed(DigestInto(after).hash),
                                      finished |-> TRUE, destroyed |-> TRUE],
                            out |-> DigestInto(after).out]
  BY <1>2, <1>6, Zenon DEF HmacDigestInto, after
<1>12. IsBuffer(Zeros(BlockLen))
  BY DEF IsBuffer, Zeros
<1> DEFINE a == Destroyed(DigestInto(i).hash)
           b == Destroyed(DigestInto(after).hash)
           out == DigestInto(after).out
<1>13. /\ HmacDigestInto(m) = [hmac |-> [iHash |-> a, oHash |-> b, finished |-> TRUE, destroyed |-> TRUE], out |-> out]
       /\ a.buffer = Zeros(BlockLen) /\ b.buffer = Zeros(BlockLen) /\ out = Sha(whole)
  BY <1>6, <1>10, <1>11, Zenon
<1> HIDE DEF a, b, out
<1>14. HmacDigestInto(m).out = out /\ HmacDigestInto(m).hmac.iHash = a /\ HmacDigestInto(m).hmac.oHash = b
  BY <1>13
<1>15. Spare(HmacDigestInto(m).hmac)
  BY <1>12, <1>13, <1>14, Zenon DEF Spare
<1>16. QED
  BY <1>4, <1>13, <1>14, <1>15, Zenon DEF whole

\* A clone holds what the hash holds, into whatever buffer it is cloned: the buffer is not
\* copied when the message fills its blocks (web/wallet.js:375-386).
LEMMA CloneHolds ==
    ASSUME Sizes, NEW msg, IsMessage(msg), NEW h, Holds(h, msg, Len(msg)), NEW to, IsBuffer(to.buffer)
    PROVE  Holds(CloneInto(h, to), msg, Len(msg))
<1> DEFINE c == to.buffer
<1>1. PICK b : Buffered(b, msg) /\ h \in Taken(msg, b, Len(msg))
  BY Zenon DEF Holds
<1>2. h \in Hashing(Split(msg), b, Rest(msg), Len(msg))
  BY <1>1, Zenon DEF Taken
<1>3. h.length = Len(msg) /\ h.buffer = b
  BY <1>2, Zenon DEF Hashing
<1> HIDE DEF c
<1>4. CloneInto(h, to) = [h EXCEPT !.buffer = IF Rest(msg) # 0 THEN b ELSE c]
  BY <1>3, Zenon DEF CloneInto, Rest, c
<1>5. CASE Rest(msg) # 0
  <2>1. [h EXCEPT !.buffer = b] \in Hashing(Split(msg), b, Rest(msg), Len(msg))
    BY <1>2, Moves
  <2>2. CloneInto(h, to) = [h EXCEPT !.buffer = b]
    BY <1>4, <1>5
  <2>3. QED
    BY <1>1, <2>1, <2>2, Zenon DEF Holds, Taken
<1>6. CASE Rest(msg) = 0
  <2>1. [h EXCEPT !.buffer = c] \in Hashing(Split(msg), c, Rest(msg), Len(msg))
    BY <1>2, Moves
  <2>2. CloneInto(h, to) = [h EXCEPT !.buffer = c]
    BY <1>4, <1>6
  <2>3. Buffered(c, msg)
    <3>1. IsBuffer(c)
      BY DEF c
    <3>2. QED
      BY <1>6, <3>1, NoRest
  <2>4. QED
    BY <2>1, <2>2, <2>3, Zenon DEF Holds, Taken
<1>7. QED
  BY <1>5, <1>6

\* So does a clone of an HMAC object, into any object, used or new (web/wallet.js:213-224).
LEMMA HmacCloneHolds ==
    ASSUME Sizes, NEW key, IsMessage(key), NEW msg, IsMessage(msg), NEW m, MacHolds(m, key, msg), NEW to, Spare(to)
    PROVE  MacHolds(HmacCloneInto(m, to), key, msg)
<1> DEFINE ik == InnerKey(key)
           ok == OuterKey(key)
           so == ik \o msg
           ti == to.iHash
           tj == to.oHash
<1>1. PICK i, o : m \in Macs(i, o) /\ Holds(i, so, Len(so)) /\ Holds(o, ok, Len(ok))
  BY Zenon DEF MacHolds
<1>2. m.iHash = i /\ m.oHash = o
  BY <1>1, Zenon DEF Macs
<1>3. IsMessage(ik) /\ IsMessage(ok)
  BY KeysAre
<1>4. HmacCloneInto(m, to) = [m EXCEPT !.iHash = CloneInto(i, ti), !.oHash = CloneInto(o, tj)]
  BY <1>2, Zenon DEF HmacCloneInto
<1>5. HmacCloneInto(m, to) \in Macs(CloneInto(i, ti), CloneInto(o, tj))
  BY <1>1, <1>4, Zenon DEF Macs
<1>6. IsBuffer(ti.buffer) /\ IsBuffer(tj.buffer)
  BY Zenon DEF Spare
<1> HIDE DEF ik, ok, ti, tj
<1>7. IsMessage(so)
  BY <1>3, Concatenated
<1> HIDE DEF so
<1>8. Holds(CloneInto(i, ti), so, Len(so)) /\ Holds(CloneInto(o, tj), ok, Len(ok))
  BY <1>1, <1>3, <1>6, <1>7, CloneHolds
<1>9. QED
  BY <1>5, <1>8, Zenon DEF MacHolds, so, ik, ok

\* New objects have buffers to clone into (web/wallet.js:213-215).
LEMMA FreshIsSpare ==
    Spare(FreshHmac)
BY DEF Spare, FreshHmac, New, IsBuffer, Zeros

-----------------------------------------------------------------------------
(* PBKDF2 *)

\* A code is a message of the output's length.
LEMMA MacIs ==
    ASSUME Sizes, NEW key, NEW msg
    PROVE  IsMessage(Mac(key, msg)) /\ Len(Mac(key, msg)) = OutputLen
<1> DEFINE whole == XorSeq(Padkey(key), Constant(Outer)) \o Sha(XorSeq(Padkey(key), Constant(Inner)) \o msg)
<1>1. Mac(key, msg) = Sha(whole)
  BY Zenon DEF Mac, Padkey
<1> HIDE DEF whole
<1>2. QED
  BY <1>1, ShaIs

\* An HMAC object cloned once more, given data, and read out (web/wallet.js:271, 274).
LEMMA CloneDigestIs ==
    ASSUME Sizes, NEW key, IsMessage(key), NEW msg, IsMessage(msg), NEW m, MacHolds(m, key, msg),
           NEW to, Spare(to), NEW data, IsMessage(data)
    PROVE  LET d == HmacDigestInto(HmacUpdate(HmacCloneInto(m, to), data))
           IN d.out = Mac(key, msg \o data) /\ Spare(d.hmac)
<1> DEFINE c == HmacCloneInto(m, to)
           so == msg \o data
           u == HmacUpdate(c, data)
<1>1. MacHolds(c, key, msg)
  BY HmacCloneHolds
<1> HIDE DEF c
<1>2. MacHolds(u, key, so) /\ IsMessage(so)
  BY <1>1, HmacUpdateHolds, Concatenated
<1> HIDE DEF u, so
<1>3. HmacDigestInto(u).out = Mac(key, so) /\ Spare(HmacDigestInto(u).hmac)
  BY <1>2, HmacDigestIs
<1>4. QED
  BY <1>3 DEF u, c, so

\* The exclusive or with a part of a message is the part of that with the whole.
LEMMA XorPart ==
    ASSUME NEW t, IsMessage(t), NEW v, IsMessage(v), Len(v) = Len(t), NEW n \in Nat, n <= Len(t)
    PROVE  /\ XorSeq(SubSeq(t, 1, n), v) = SubSeq(XorSeq(t, v), 1, n)
           /\ IsMessage(XorSeq(t, v)) /\ Len(XorSeq(t, v)) = Len(t)
<1> DEFINE part == SubSeq(t, 1, n)
           x == XorSeq(t, v)
           y == XorSeq(part, v)
<1>1. Len(t) \in Nat /\ DOMAIN t = 1 .. Len(t)
  BY MessageIs
<1>2. x = [i \in 1 .. Len(t) |-> Xor(t[i], v[i])]
  BY <1>1 DEF XorSeq
<1>3. IsMessage(part) /\ Len(part) = n /\ \A i \in 1 .. n : part[i] = t[i]
  <2>1. /\ IsMessage(part) /\ Len(part) = IF 1 <= n THEN n - 1 + 1 ELSE 0
        /\ \A i \in 1 .. n - 1 + 1 : part[i] = t[1 + i - 1]
    BY <1>1, PartOf
  <2> HIDE DEF part
  <2>2. n - 1 + 1 = n /\ \A i \in 1 .. n : 1 + i - 1 = i
    BY <1>1
  <2>3. QED
    BY <2>1, <2>2
<1> HIDE DEF part
<1>4. DOMAIN part = 1 .. n
  BY <1>3, MessageIs
<1>5. y = [i \in 1 .. n |-> Xor(part[i], v[i])]
  BY <1>4 DEF XorSeq
<1> HIDE DEF x, y
<1>6. IsMessage(x) /\ Len(x) = Len(t)
  <2>1. x = [i \in 1 .. Len(t) |-> x[i]]
    BY <1>2
  <2>2. QED
    BY <1>1, <2>1, MessageBy
<1>7. IsMessage(y) /\ Len(y) = n
  <2>1. y = [i \in 1 .. n |-> y[i]]
    BY <1>5
  <2>2. QED
    BY <2>1, MessageBy
<1> DEFINE z == SubSeq(x, 1, n)
<1>8. IsMessage(z) /\ Len(z) = n /\ \A i \in 1 .. n : z[i] = x[i]
  <2>1. /\ IsMessage(z) /\ Len(z) = IF 1 <= n THEN n - 1 + 1 ELSE 0
        /\ \A i \in 1 .. n - 1 + 1 : z[i] = x[1 + i - 1]
    BY <1>6, PartOf
  <2> HIDE DEF z
  <2>2. n - 1 + 1 = n /\ \A i \in 1 .. n : 1 + i - 1 = i
    BY <1>1
  <2>3. QED
    BY <2>1, <2>2
<1> HIDE DEF z
<1>9. \A i \in 1 .. n : y[i] = z[i]
  <2>1. \A i \in 1 .. n : i \in 1 .. Len(t)
    BY <1>1
  <2>2. QED
    BY <1>2, <1>3, <1>5, <1>8, <2>1
<1>10. y = z
  BY <1>7, <1>8, <1>9, SameMessage
<1>11. QED
  BY <1>6, <1>10 DEF x, y, z, part

\* The values of the iterations of a block, and what they add up to, by the standard.
AreRounds(u, t, password, start, c) ==
    /\ u[1] = start /\ t[1] = u[1]
    /\ \A n \in 2 .. c : u[n] = Mac(password, u[n - 1]) /\ t[n] = XorSeq(t[n - 1], u[n])

\* A block of the standard is what its iterations add up to.
LEMMA FRuns ==
    ASSUME Sizes, NEW password, NEW salt, NEW c \in Nat \ {0}, NEW i,
           NEW start, start = Mac(password, salt \o Index(i))
    PROVE  \E u, t : AreRounds(u, t, password, start, c) /\ F(password, salt, c, i) = t[c]
<1> DEFINE first == Mac(password, salt \o Index(i))
           Us(f, N) == f = [n \in 1 .. N |-> IF n = 1 THEN first ELSE Mac(password, f[n - 1])]
           u == CHOOSE f : Us(f, c)
           Ts(f, N) == f = [n \in 1 .. N |-> IF n = 1 THEN u[1] ELSE XorSeq(f[n - 1], u[n])]
           t == CHOOSE f : Ts(f, c)
           S == {N \in Nat : (\E f : Us(f, N)) /\ \E f : Ts(f, N)}
<1>1. F(password, salt, c, i) = t[c]
  BY Zenon DEF F
<1> HIDE DEF u, first
<1>2. 0 \in S
  <2>1. Us([n \in 1 .. 0 |-> first], 0) /\ Ts([n \in 1 .. 0 |-> u[1]], 0)
    OBVIOUS
  <2> HIDE DEF Us, Ts
  <2>2. QED
    BY <2>1
<1>3. ASSUME NEW N \in Nat, N \in S
      PROVE  N + 1 \in S
  <2>1. PICK f : Us(f, N)
    BY <1>3, Zenon
  <2>2. PICK g : Ts(g, N)
    BY <1>3, Zenon
  <2>3. Us([n \in 1 .. N + 1 |-> IF n = 1 THEN first ELSE IF n <= N THEN f[n] ELSE Mac(password, f[N])], N + 1)
    BY <2>1
  <2>4. Ts([n \in 1 .. N + 1 |-> IF n = 1 THEN u[1] ELSE IF n <= N THEN g[n] ELSE XorSeq(g[N], u[N + 1])], N + 1)
    BY <2>2
  <2> HIDE DEF Us, Ts
  <2>5. QED
    BY <2>3, <2>4
<1>4. c \in S
  <2> HIDE DEF S
  <2>1. QED
    BY <1>2, <1>3, AllNumbers
<1>5. Us(u, c) /\ Ts(t, c)
  <2>1. (\E f : Us(f, c)) /\ \E f : Ts(f, c)
    BY <1>4, Zenon
  <2>2. Us(CHOOSE f : Us(f, c), c) /\ Ts(CHOOSE f : Ts(f, c), c)
    <3> HIDE DEF Us, Ts
    <3>1. QED
      BY <2>1, Zenon
  <2>3. u = CHOOSE f : Us(f, c)
    BY Zenon DEF u
  <2> HIDE DEF Us, Ts
  <2>4. QED
    BY <2>2, <2>3, Zenon
<1> HIDE DEF t
<1>6. u[1] = first /\ \A n \in 2 .. c : u[n] = Mac(password, u[n - 1])
  BY <1>5
<1>7. t[1] = u[1] /\ \A n \in 2 .. c : t[n] = XorSeq(t[n - 1], u[n])
  <2>1. Ts(t, c)
    BY <1>5
  <2>2. QED
    BY <2>1
<1>8. start = first
  BY Zenon DEF first
<1>9. QED
  BY <1>1, <1>6, <1>7, <1>8, Zenon DEF AreRounds

\* One more round of a block.
RoundOf(prf, s) ==
    LET d == HmacDigestInto(HmacUpdate(HmacCloneInto(prf, s.prfW), s.u))
    IN [prfW |-> d.hmac, u |-> d.out, t |-> XorSeq(s.t, d.out)]

\* The rounds of a block, one after another (web/wallet.js:273-277).
LEMMA RoundsRun ==
    ASSUME NEW prf, NEW start, NEW c \in Nat
    PROVE  \E f : /\ f[0] = start /\ \A n \in 1 .. c : f[n] = RoundOf(prf, f[n - 1])
                  /\ Rounds(prf, start, c) = f[c]
<1> DEFINE Is(f, N) == f = [n \in 0 .. N |-> IF n = 0 THEN start ELSE RoundOf(prf, f[n - 1])]
           S == {N \in Nat : \E f : Is(f, N)}
           round == CHOOSE f : Is(f, c)
<1>1. Rounds(prf, start, c) = round[c]
  BY Zenon DEF Rounds, RoundOf
<1>2. 0 \in S
  <2>1. Is([n \in 0 .. 0 |-> start], 0)
    OBVIOUS
  <2> HIDE DEF Is
  <2>2. QED
    BY <2>1
<1>3. ASSUME NEW N \in Nat, N \in S
      PROVE  N + 1 \in S
  <2>1. PICK f : Is(f, N)
    BY <1>3, Zenon
  <2>2. Is([n \in 0 .. N + 1 |-> IF n <= N THEN f[n] ELSE RoundOf(prf, f[N])], N + 1)
    BY <2>1
  <2> HIDE DEF Is
  <2>3. QED
    BY <2>2
<1>4. c \in S
  <2> HIDE DEF S
  <2>1. QED
    BY <1>2, <1>3, AllNumbers
<1>5. Is(round, c)
  <2> HIDE DEF Is
  <2>1. QED
    BY <1>4, Zenon
<1> HIDE DEF round
<1>6. round[0] = start /\ \A n \in 1 .. c : round[n] = RoundOf(prf, round[n - 1])
  BY <1>5
<1>7. QED
  BY <1>1, <1>6, Zenon

\* A round makes the next value of the iteration, and adds it to the part of the block
\* that is wanted (web/wallet.js:273-277).
LEMMA RoundIs ==
    ASSUME Sizes, NEW password, IsMessage(password), NEW prf, MacHolds(prf, password, <<>>), NEW s, Spare(s.prfW),
           NEW t, IsMessage(t), Len(t) = OutputLen, NEW n \in Nat, n <= OutputLen,
           IsMessage(s.u), s.t = SubSeq(t, 1, n)
    PROVE  LET r == RoundOf(prf, s)
               v == Mac(password, s.u)
           IN Spare(r.prfW) /\ r.u = v /\ r.t = SubSeq(XorSeq(t, v), 1, n)
<1> DEFINE to == s.prfW
           data == s.u
           d == HmacDigestInto(HmacUpdate(HmacCloneInto(prf, to), data))
           v == Mac(password, data)
           r == RoundOf(prf, s)
           none == <<>>
<1>1. r = [prfW |-> d.hmac, u |-> d.out, t |-> XorSeq(SubSeq(t, 1, n), d.out)]
  BY Zenon DEF RoundOf
<1>2. IsMessage(none) /\ none \o data = data /\ Spare(to) /\ IsMessage(data) /\ MacHolds(prf, password, none)
  BY Empty
<1> HIDE DEF to, data, none
<1>3. d.out = Mac(password, none \o data) /\ Spare(d.hmac)
  BY <1>2, CloneDigestIs
<1>4. d.out = v
  BY <1>2, <1>3
<1>5. IsMessage(v) /\ Len(v) = OutputLen
  BY MacIs
<1> HIDE DEF v
<1>6. XorSeq(SubSeq(t, 1, n), v) = SubSeq(XorSeq(t, v), 1, n)
  BY <1>5, XorPart
<1> DEFINE m == d.hmac
           x == SubSeq(XorSeq(t, v), 1, n)
<1>7. r = [prfW |-> m, u |-> v, t |-> x] /\ Spare(m)
  BY <1>1, <1>3, <1>4, <1>6, Zenon
<1> HIDE DEF m, x, r
<1>8. r.prfW = m /\ r.u = v /\ r.t = x
  BY <1>7
<1>9. QED
  BY <1>7, <1>8, Zenon DEF x, v, data, r

\* The rounds of a block make the standard's block, as far as it is wanted, and leave an
\* object to clone into (web/wallet.js:269-278).
LEMMA RoundsAre ==
    ASSUME Sizes, NEW password, IsMessage(password), NEW salt, NEW c \in Nat \ {0}, NEW i,
           NEW prf, MacHolds(prf, password, <<>>),
           NEW start, Spare(start.prfW), start.u = Mac(password, salt \o Index(i)),
           NEW n \in Nat, n <= OutputLen, start.t = SubSeq(start.u, 1, n)
    PROVE  LET r == Rounds(prf, start, c - 1)
               f == F(password, salt, c, i)
           IN Spare(r.prfW) /\ r.t = SubSeq(f, 1, n) /\ IsMessage(f) /\ Len(f) = OutputLen
<1> DEFINE last == c - 1
<1>0. last \in Nat
  OBVIOUS
<1>1. PICK u, t : /\ u[1] = start.u /\ t[1] = u[1]
                  /\ \A k \in 2 .. c : u[k] = Mac(password, u[k - 1]) /\ t[k] = XorSeq(t[k - 1], u[k])
                  /\ F(password, salt, c, i) = t[c]
  <2> DEFINE one == start.u
             block == F(password, salt, c, i)
  <2>1. one = Mac(password, salt \o Index(i)) /\ block = F(password, salt, c, i)
    OBVIOUS
  <2> HIDE DEF one, block
  <2>2. PICK u, t : AreRounds(u, t, password, one, c) /\ block = t[c]
    BY <2>1, FRuns
  <2>3. QED
    BY <2>2, Zenon DEF AreRounds, one, block
<1> HIDE DEF last
<1>2. PICK f : /\ f[0] = start /\ \A k \in 1 .. last : f[k] = RoundOf(prf, f[k - 1])
               /\ Rounds(prf, start, last) = f[last]
  BY <1>0, RoundsRun
<1> DEFINE Good(k) == /\ Spare(f[k].prfW) /\ f[k].u = u[k + 1] /\ f[k].t = SubSeq(t[k + 1], 1, n)
                      /\ IsMessage(u[k + 1]) /\ IsMessage(t[k + 1]) /\ Len(t[k + 1]) = OutputLen
           S == {k \in Nat : k <= last => Good(k)}
<1>3. 0 \in S
  <2>1. IsMessage(u[1]) /\ Len(u[1]) = OutputLen
    BY <1>1, MacIs
  <2>2. 0 + 1 = 1 /\ Good(0)
    BY <1>1, <1>2, <2>1
  <2> HIDE DEF Good
  <2>3. QED
    BY <2>2
<1>4. ASSUME NEW k \in Nat, k \in S
      PROVE  k + 1 \in S
  <2>0. k + 1 \in Nat
    OBVIOUS
  <2>1. SUFFICES ASSUME k + 1 <= last
                 PROVE  Good(k + 1)
    BY <2>0, Zenon
  <2>2. k <= last /\ k + 1 \in 1 .. last /\ (k + 1) - 1 = k /\ (k + 1) + 1 \in 2 .. c /\ ((k + 1) + 1) - 1 = k + 1
    BY <1>0, <2>1 DEF last
  <2>3. Good(k)
    BY <1>4, <2>2, Zenon
  <2> DEFINE s == f[k]
             w == t[k + 1]
             v == Mac(password, s.u)
             r == RoundOf(prf, s)
  <2>4. Spare(s.prfW) /\ IsMessage(s.u) /\ s.u = u[k + 1] /\ s.t = SubSeq(w, 1, n) /\ IsMessage(w) /\ Len(w) = OutputLen
    BY <2>3
  <2>5. f[k + 1] = r /\ u[(k + 1) + 1] = v /\ t[(k + 1) + 1] = XorSeq(w, v)
    <3>1. u[(k + 1) + 1] = Mac(password, u[k + 1]) /\ t[(k + 1) + 1] = XorSeq(w, u[(k + 1) + 1])
      BY <1>1, <2>2
    <3>2. f[k + 1] = r
      BY <1>2, <2>2
    <3> HIDE DEF s, w
    <3>3. QED
      BY <2>4, <3>1, <3>2
  <2> HIDE DEF s, w
  <2>6. Spare(r.prfW) /\ r.u = v /\ r.t = SubSeq(XorSeq(w, v), 1, n)
    BY <2>4, RoundIs
  <2>7. IsMessage(v) /\ Len(v) = OutputLen
    BY MacIs
  <2> HIDE DEF v, r
  <2>8. IsMessage(XorSeq(w, v)) /\ Len(XorSeq(w, v)) = OutputLen
    BY <2>4, <2>7, XorPart
  <2>9. QED
    BY <2>5, <2>6, <2>7, <2>8
<1>5. Good(last)
  <2>1. last \in S
    <3> HIDE DEF S
    <3>1. QED
      BY <1>0, <1>3, <1>4, AllNumbers
  <2>2. last <= last
    BY <1>0
  <2> HIDE DEF Good
  <2>3. QED
    BY <2>1, <2>2, Zenon
<1>6. last + 1 = c
  BY DEF last
<1>7. QED
  BY <1>1, <1>2, <1>5, <1>6 DEF last

\* The number of the blocks that a key takes.
Count(dkLen) == (dkLen + OutputLen - 1) \div OutputLen

\* It is the first number of blocks that has as many bytes as the key.
LEMMA CountIs ==
    ASSUME Sizes, NEW dkLen \in Nat
    PROVE  /\ Count(dkLen) \in Nat
           /\ \A n \in Nat : OutputLen * n \in Nat /\ (n >= Count(dkLen) <=> OutputLen * n >= dkLen)
<1> DEFINE x == dkLen + OutputLen - 1
           q == x \div OutputLen
           r == x % OutputLen
<1>1. OutputLen \in Nat \ {0}
  BY DEF Sizes
<1>2. x \in Nat
  BY <1>1
<1> HIDE DEF x
<1>3. q \in Nat /\ r \in 0 .. OutputLen - 1 /\ x = OutputLen * q + r
  BY <1>1, <1>2, Divides
<1>4. Count(dkLen) = q
  BY DEF Count, x
<1> HIDE DEF q, r
<1> DEFINE end == OutputLen * q
<1>5. end \in Nat
  BY <1>1, <1>3, SMT
<1>6. end >= dkLen /\ end - OutputLen < dkLen
  <2>1. x = end + r /\ x = dkLen + OutputLen - 1
    BY <1>3 DEF x
  <2> HIDE DEF end
  <2>2. QED
    BY <1>1, <1>3, <1>5, <2>1
<1>7. ASSUME NEW n \in Nat
      PROVE  OutputLen * n \in Nat /\ (n >= q <=> OutputLen * n >= dkLen)
  <2>1. OutputLen * n \in Nat
    BY <1>1, SMT
  <2>2. n >= q => OutputLen * n >= end
    BY <1>1, <1>3, SMT
  <2>3. n <= q - 1 => OutputLen * n <= OutputLen * (q - 1)
    BY <1>1, <1>3, SMT
  <2>4. OutputLen * (q - 1) = end - OutputLen
    BY <1>1, <1>3, SMT
  <2> DEFINE to == OutputLen * n
  <2>5. to \in Nat /\ (n >= q => to >= end) /\ (n <= q - 1 => to <= end - OutputLen)
    BY <2>1, <2>2, <2>3, <2>4
  <2> HIDE DEF end, to
  <2>6. n >= q <=> to >= dkLen
    BY <1>1, <1>3, <1>5, <1>6, <2>5
  <2>7. QED
    BY <2>5, <2>6 DEF to
<1>8. QED
  BY <1>3, <1>4, <1>7, Zenon

\* The beginning of a concatenation.
LEMMA ConcatPart ==
    ASSUME NEW s, IsMessage(s), NEW t, IsMessage(t), NEW n \in Nat, n <= Len(t)
    PROVE  /\ SubSeq(s \o t, 1, Len(s) + n) = s \o SubSeq(t, 1, n)
           /\ IsMessage(s \o SubSeq(t, 1, n)) /\ Len(s \o SubSeq(t, 1, n)) = Len(s) + n
<1> DEFINE st == s \o t
           m == Len(s) + n
           a == SubSeq(st, 1, m)
           tn == SubSeq(t, 1, n)
           b == s \o tn
<1>1. /\ IsMessage(st) /\ Len(st) = Len(s) + Len(t) /\ Len(s) \in Nat /\ Len(t) \in Nat
      /\ \A i \in 1 .. Len(s) + Len(t) : st[i] = IF i <= Len(s) THEN s[i] ELSE t[i - Len(s)]
  BY Concatenated
<1>2. m \in Nat /\ m <= Len(st) /\ m = Len(s) + n
  BY <1>1
<1> HIDE DEF st, m
<1>3. IsMessage(a) /\ Len(a) = m /\ \A i \in 1 .. m : a[i] = st[i]
  <2>1. /\ IsMessage(a) /\ Len(a) = IF 1 <= m THEN m - 1 + 1 ELSE 0
        /\ \A i \in 1 .. m - 1 + 1 : a[i] = st[1 + i - 1]
    BY <1>1, <1>2, PartOf
  <2> HIDE DEF a
  <2>2. m - 1 + 1 = m /\ \A i \in 1 .. m : 1 + i - 1 = i
    BY <1>2
  <2>3. QED
    BY <1>2, <2>1, <2>2
<1>4. IsMessage(tn) /\ Len(tn) = n /\ \A i \in 1 .. n : tn[i] = t[i]
  <2>1. /\ IsMessage(tn) /\ Len(tn) = IF 1 <= n THEN n - 1 + 1 ELSE 0
        /\ \A i \in 1 .. n - 1 + 1 : tn[i] = t[1 + i - 1]
    BY <1>1, PartOf
  <2> HIDE DEF tn
  <2>2. n - 1 + 1 = n /\ \A i \in 1 .. n : 1 + i - 1 = i
    OBVIOUS
  <2>3. QED
    BY <2>1, <2>2
<1> HIDE DEF a, tn
<1>5. /\ IsMessage(b) /\ Len(b) = Len(s) + Len(tn)
      /\ \A i \in 1 .. Len(s) + Len(tn) : b[i] = IF i <= Len(s) THEN s[i] ELSE tn[i - Len(s)]
  BY <1>4, Concatenated
<1> HIDE DEF b
<1>6. \A i \in 1 .. m : a[i] = b[i]
  <2>1. ASSUME NEW i \in 1 .. m
        PROVE  a[i] = b[i]
    <3>1. i \in 1 .. Len(s) + Len(t) /\ i \in 1 .. Len(s) + Len(tn) /\ (~(i <= Len(s)) => i - Len(s) \in 1 .. n)
      BY <1>1, <1>2, <1>4
    <3>2. CASE i <= Len(s)
      BY <1>1, <1>3, <1>5, <3>1, <3>2
    <3>3. CASE ~(i <= Len(s))
      <4> DEFINE j == i - Len(s)
      <4>1. st[i] = t[j] /\ b[i] = tn[j] /\ j \in 1 .. n
        BY <1>1, <1>5, <3>1, <3>3
      <4> HIDE DEF j
      <4>2. QED
        BY <1>3, <1>4, <4>1
    <3>4. QED
      BY <3>2, <3>3
  <2>2. QED
    BY <2>1
<1>7. Len(b) = m
  BY <1>2, <1>4, <1>5
<1>8. a = b
  BY <1>3, <1>5, <1>6, <1>7, SameMessage
<1>9. QED
  BY <1>2, <1>5, <1>7, <1>8 DEF a, b, st, tn, m

\* A turn of the loop over the blocks puts the standard's block, or as much of it as is
\* wanted, at the end of the key (web/wallet.js:268-278).
LEMMA BlockIs ==
    ASSUME Sizes, NEW password, IsMessage(password), NEW salt, IsMessage(salt), NEW c \in Nat \ {0},
           NEW prf, MacHolds(prf, password, <<>>), NEW prfSalt, MacHolds(prfSalt, password, salt),
           NEW s, Spare(s.prfW), NEW ti, NEW dkLen \in Nat, Len(s.key) \in Nat, Len(s.key) < dkLen
    PROVE  LET b == Block(prf, prfSalt, s, ti, dkLen, c)
               f == F(password, salt, c, ti)
           IN /\ Spare(b.prfW) /\ b.key = s.key \o SubSeq(f, 1, Smaller(OutputLen, dkLen - Len(s.key)))
              /\ IsMessage(f) /\ Len(f) = OutputLen
<1> DEFINE to == s.prfW
           index == Index(ti)
           d == HmacDigestInto(HmacUpdate(HmacCloneInto(prfSalt, to), index))
           n == Smaller(OutputLen, dkLen - Len(s.key))
           start == [prfW |-> d.hmac, u |-> d.out, t |-> SubSeq(d.out, 1, n)]
           last == c - 1
           r == Rounds(prf, start, last)
           b == Block(prf, prfSalt, s, ti, dkLen, c)
           f == F(password, salt, c, ti)
<1>1. b = [prfW |-> r.prfW, key |-> s.key \o r.t]
  BY Zenon DEF Block
<1>2. IsMessage(index) /\ Spare(to)
  <2>1. index \in Seq({{<<"index", ti>>}})
    BY DEF Index
  <2>2. QED
    BY <2>1, Zenon DEF IsMessage
<1>3. n \in Nat /\ n <= OutputLen
  BY DEF Smaller, Sizes
<1> HIDE DEF to, n
<1>4. d.out = Mac(password, salt \o index) /\ Spare(d.hmac)
  <2> HIDE DEF index
  <2>1. QED
    BY <1>2, CloneDigestIs
<1>5. d.out = Mac(password, salt \o Index(ti))
  BY <1>4
<1> DEFINE m == d.hmac
           o == d.out
<1>6. start = [prfW |-> m, u |-> o, t |-> SubSeq(o, 1, n)]
  OBVIOUS
<1>7. Spare(m) /\ o = Mac(password, salt \o Index(ti))
  BY <1>4, <1>5
<1> HIDE DEF d, m, o, start, index
<1>8. Spare(start.prfW) /\ start.u = o /\ start.t = SubSeq(start.u, 1, n)
  BY <1>6, <1>7
<1>9. Spare(r.prfW) /\ r.t = SubSeq(f, 1, n) /\ IsMessage(f) /\ Len(f) = OutputLen
  <2> HIDE DEF last
  <2>1. last = c - 1
    BY DEF last
  <2>2. start.u = Mac(password, salt \o Index(ti))
    BY <1>7, <1>8
  <2>3. Spare(Rounds(prf, start, c - 1).prfW) /\ Rounds(prf, start, c - 1).t = SubSeq(f, 1, n) /\ IsMessage(f) /\ Len(f) = OutputLen
    BY <1>3, <1>8, <2>2, RoundsAre
  <2>4. QED
    BY <2>1, <2>3
<1> DEFINE w == r.prfW
           key == s.key \o r.t
<1>10. b = [prfW |-> w, key |-> key]
  BY <1>1
<1> HIDE DEF w, key, b
<1>11. b.prfW = w /\ b.key = key
  BY <1>10
<1>12. key = s.key \o SubSeq(f, 1, n)
  <2> HIDE DEF r, f
  <2>1. QED
    BY <1>9 DEF key
<1>13. QED
  BY <1>9, <1>11, <1>12 DEF w, n, b

\* The state of the loop over the blocks after each turn (web/wallet.js:268-278).
LEMMA BlocksRun ==
    ASSUME NEW prf, NEW prfSalt, NEW dkLen \in Nat, NEW c, NEW keys, keys = Blocks(prf, prfSalt, dkLen, c)
    PROVE  \E f : /\ f[0] = [prfW |-> FreshHmac, key |-> <<>>]
                  /\ \A n \in 1 .. dkLen : f[n] = IF Len(f[n - 1].key) < dkLen
                                                  THEN Block(prf, prfSalt, f[n - 1], n, dkLen, c) ELSE f[n - 1]
                  /\ keys = f[dkLen].key
<1> DEFINE first == [prfW |-> FreshHmac, key |-> <<>>]
           Then(s, n) == IF Len(s.key) < dkLen THEN Block(prf, prfSalt, s, n, dkLen, c) ELSE s
           Is(f, N) == f = [n \in 0 .. N |-> IF n = 0 THEN first ELSE Then(f[n - 1], n)]
           S == {N \in Nat : \E f : Is(f, N)}
           loop == CHOOSE f : Is(f, dkLen)
<1>1. keys = loop[dkLen].key
  BY Zenon DEF Blocks
<1> HIDE DEF first, Then
<1>2. 0 \in S
  <2>1. Is([n \in 0 .. 0 |-> first], 0)
    OBVIOUS
  <2> HIDE DEF Is
  <2>2. QED
    BY <2>1
<1>3. ASSUME NEW N \in Nat, N \in S
      PROVE  N + 1 \in S
  <2>1. PICK f : Is(f, N)
    BY <1>3, Zenon
  <2>2. Is([n \in 0 .. N + 1 |-> IF n <= N THEN f[n] ELSE Then(f[N], N + 1)], N + 1)
    BY <2>1
  <2> HIDE DEF Is
  <2>3. QED
    BY <2>2
<1>4. dkLen \in S
  <2> HIDE DEF S
  <2>1. QED
    BY <1>2, <1>3, AllNumbers
<1>5. Is(loop, dkLen)
  <2> HIDE DEF Is
  <2>1. QED
    BY <1>4, Zenon
<1> HIDE DEF loop
<1>6. loop[0] = first /\ \A n \in 1 .. dkLen : loop[n] = Then(loop[n - 1], n)
  BY <1>5
<1>7. QED
  BY <1>1, <1>6, Zenon DEF first, Then

\* The standard's blocks put together, up to each (web/wallet.js:268-278).
AreKeys(k, password, salt, c, count) ==
    k[0] = <<>> /\ \A n \in 1 .. count : k[n] = k[n - 1] \o F(password, salt, c, n)

\* The derived key is the beginning of the blocks that it takes.
LEMMA DerivedRuns ==
    ASSUME Sizes, NEW password, NEW salt, NEW c, NEW dkLen \in Nat, NEW derived, derived = Derived(password, salt, c, dkLen)
    PROVE  \E k : AreKeys(k, password, salt, c, Count(dkLen)) /\ derived = SubSeq(k[Count(dkLen)], 1, dkLen)
<1> DEFINE Then(s, n) == s \o F(password, salt, c, n)
           first == <<>>
           Is(f, N) == f = [n \in 0 .. N |-> IF n = 0 THEN first ELSE Then(f[n - 1], n)]
           S == {N \in Nat : \E f : Is(f, N)}
           count == Count(dkLen)
           key == CHOOSE f : Is(f, count)
<1>1. derived = SubSeq(key[count], 1, dkLen)
  BY Zenon DEF Derived, Count
<1>2. count \in Nat
  BY CountIs
<1> HIDE DEF first, Then, count
<1>3. 0 \in S
  <2>1. Is([n \in 0 .. 0 |-> first], 0)
    OBVIOUS
  <2> HIDE DEF Is
  <2>2. QED
    BY <2>1
<1>4. ASSUME NEW N \in Nat, N \in S
      PROVE  N + 1 \in S
  <2>1. PICK f : Is(f, N)
    BY <1>4, Zenon
  <2>2. Is([n \in 0 .. N + 1 |-> IF n <= N THEN f[n] ELSE Then(f[N], N + 1)], N + 1)
    BY <2>1
  <2> HIDE DEF Is
  <2>3. QED
    BY <2>2
<1>5. count \in S
  <2> HIDE DEF S
  <2>1. QED
    BY <1>2, <1>3, <1>4, AllNumbers
<1>6. Is(key, count)
  <2> HIDE DEF Is
  <2>1. QED
    BY <1>5, Zenon
<1> HIDE DEF key
<1>7. key[0] = first /\ \A n \in 1 .. count : key[n] = Then(key[n - 1], n)
  BY <1>2, <1>6
<1>8. QED
  BY <1>1, <1>7, Zenon DEF AreKeys, first, Then, count

\* The key that PBKDF2 derives is the standard's, for every password, salt, number of
\* iterations and length of the key, with one HMAC object cloned for every iteration
\* (web/wallet.js:238-281).
THEOREM KeysAreReference ==
    ASSUME Sizes, NEW Byte, NEW password \in Seq(Byte), NEW salt \in Seq(Byte), NEW c \in Nat \ {0}, NEW dkLen \in Nat
    PROVE  Pbkdf2IsReference(password, salt, c, dkLen)
<1> DEFINE prf == Hmac(password)
           clone == HmacCloneInto(prf, FreshHmac)
           prfSalt == HmacUpdate(clone, salt)
           keys == Blocks(prf, prfSalt, dkLen, c)
           derived == Derived(password, salt, c, dkLen)
           count == Count(dkLen)
           OL == OutputLen
<1>1. Pbkdf2(password, salt, c, dkLen) = keys
  BY Zenon DEF Pbkdf2
<1>2. IsMessage(password) /\ IsMessage(salt) /\ IsMessage(<<>>) /\ <<>> \o salt = salt
  BY Empty DEF IsMessage
<1>3. MacHolds(prf, password, <<>>)
  BY <1>2, HmacHolds
<1> HIDE DEF prf
<1>4. MacHolds(prfSalt, password, salt)
  <2> DEFINE none == <<>>
  <2>1. IsMessage(none) /\ none \o salt = salt /\ MacHolds(prf, password, none)
    BY <1>2, <1>3
  <2> HIDE DEF none
  <2>2. MacHolds(clone, password, none)
    BY <1>2, <2>1, HmacCloneHolds, FreshIsSpare
  <2> HIDE DEF clone
  <2>3. MacHolds(prfSalt, password, none \o salt)
    BY <1>2, <2>1, <2>2, HmacUpdateHolds
  <2>4. QED
    BY <2>1, <2>3
<1> HIDE DEF prfSalt, keys, derived
<1>5. PICK f : /\ f[0] = [prfW |-> FreshHmac, key |-> <<>>]
               /\ \A n \in 1 .. dkLen : f[n] = IF Len(f[n - 1].key) < dkLen
                                               THEN Block(prf, prfSalt, f[n - 1], n, dkLen, c) ELSE f[n - 1]
               /\ keys = f[dkLen].key
  <2>1. keys = Blocks(prf, prfSalt, dkLen, c)
    BY DEF keys
  <2>2. QED
    BY <2>1, BlocksRun
<1>6. PICK k : /\ k[0] = <<>> /\ \A n \in 1 .. count : k[n] = k[n - 1] \o F(password, salt, c, n)
               /\ derived = SubSeq(k[count], 1, dkLen)
  <2>1. derived = Derived(password, salt, c, dkLen)
    BY DEF derived
  <2>2. PICK k : AreKeys(k, password, salt, c, count) /\ derived = SubSeq(k[count], 1, dkLen)
    BY <2>1, DerivedRuns
  <2>3. QED
    BY <2>2, Zenon DEF AreKeys
<1>7. count \in Nat /\ \A n \in Nat : OL * n \in Nat /\ (n >= count <=> OL * n >= dkLen)
  BY CountIs
<1>8. OL \in Nat \ {0}
  BY DEF Sizes
<1>9. \A n \in Nat : OL * (n + 1) = OL * n + OL
  BY <1>8, SMT
<1> DEFINE Upto(n) == OL * n
<1>10. \A n \in Nat : Upto(n) \in Nat /\ (n >= count <=> Upto(n) >= dkLen) /\ Upto(n + 1) = Upto(n) + OL
  BY <1>7, <1>9
<1>11. Upto(0) = 0 /\ Upto(dkLen) >= dkLen
  BY <1>8, SMT
<1> HIDE DEF OL, Upto, count
<1> DEFINE Good(n) ==
             /\ Spare(f[n].prfW)
             /\ n < count => f[n].key = k[n] /\ IsMessage(k[n]) /\ Len(k[n]) = Upto(n)
             /\ n >= count => f[n].key = derived /\ Len(derived) = dkLen
           S == {n \in Nat : n <= dkLen => Good(n)}
<1>12. 0 \in S
  <2>1. f[0].prfW = FreshHmac /\ f[0].key = <<>>
    BY <1>5
  <2>2. Spare(f[0].prfW)
    BY <2>1, FreshIsSpare
  <2>3. ASSUME 0 >= count
        PROVE  derived = <<>> /\ Len(derived) = dkLen
    <3>1. count = 0
      <4>1. count \in Nat
        BY <1>7
      <4>2. QED
        BY <2>3, <4>1
    <3>2. dkLen = 0
      <4>1. Upto(0) >= dkLen
        BY <1>10, <2>3
      <4>2. QED
        BY <1>11, <4>1
    <3>3. derived = SubSeq(<<>>, 1, 0)
      BY <1>6, <3>1, <3>2
    <3>4. SubSeq(<<>>, 1, 0) = <<>>
      BY <1>2, Empty, Parted
    <3>5. QED
      BY <3>2, <3>3, <3>4, Empty
  <2>4. k[0] = <<>> /\ IsMessage(<<>>) /\ Len(<<>>) = 0
    BY <1>6, Empty
  <2>5. Good(0)
    BY <1>11, <2>1, <2>2, <2>3, <2>4
  <2> HIDE DEF Good
  <2>6. QED
    BY <2>5
<1>13. ASSUME NEW n \in Nat, n \in S
       PROVE  n + 1 \in S
  <2>0. n + 1 \in Nat
    OBVIOUS
  <2>1. SUFFICES ASSUME n + 1 <= dkLen
                 PROVE  Good(n + 1)
    BY <2>0, Zenon
  <2>2. n <= dkLen /\ n + 1 \in 1 .. dkLen /\ (n + 1) - 1 = n
    BY <2>1
  <2>3. Good(n)
    BY <1>13, <2>2, Zenon
  <2> DEFINE ti == n + 1
             s == f[n]
             t == f[ti]
             b == Block(prf, prfSalt, s, ti, dkLen, c)
  <2>4. t = IF Len(s.key) < dkLen THEN b ELSE s
    BY <1>5, <2>2
  <2>5. CASE n >= count
    <3>1. s.key = derived /\ Len(derived) = dkLen /\ Spare(s.prfW)
      BY <2>3, <2>5
    <3>2. t = s
      <4> HIDE DEF s, t, b
      <4>1. QED
        BY <2>4, <3>1
    <3>3. ~(n + 1 < count)
      BY <1>7, <2>5
    <3>4. QED
      BY <3>1, <3>2, <3>3
  <2>6. CASE n < count
    <3> DEFINE kn == k[n]
               kt == k[ti]
               fn == F(password, salt, c, ti)
               m == Upto(n)
               l == Smaller(OL, dkLen - m)
    <3>1. s.key = kn /\ IsMessage(kn) /\ Len(kn) = m /\ Spare(s.prfW)
      BY <2>3, <2>6
    <3>2. m \in Nat /\ m < dkLen /\ Upto(ti) = m + OL /\ ti \in 1 .. count /\ ti \in Nat /\ ti - 1 = n
      <4>1. count \in Nat /\ ti = n + 1
        BY <1>7
      <4>2. m \in Nat /\ ~(m >= dkLen) /\ Upto(ti) = m + OL
        <5>1. Upto(n) \in Nat /\ (n >= count <=> Upto(n) >= dkLen) /\ Upto(n + 1) = Upto(n) + OL
          BY <1>10
        <5>2. ~(n >= count)
          BY <2>6, <4>1
        <5>3. QED
          BY <4>1, <5>1, <5>2
      <4> HIDE DEF ti, m
      <4>3. QED
        BY <2>6, <4>1, <4>2
    <3>3. kt = kn \o fn
      BY <1>6, <3>2
    <3>4. l = IF OL < dkLen - m THEN OL ELSE dkLen - m
      BY DEF Smaller
    <3> HIDE DEF s, t, kn, kt, m, l, ti
    <3>5. t = b
      BY <2>4, <3>1, <3>2
    <3>6. Len(s.key) \in Nat /\ Len(s.key) < dkLen /\ Len(s.key) = m
      BY <3>1, <3>2
    <3>7. /\ Spare(b.prfW) /\ b.key = s.key \o SubSeq(fn, 1, Smaller(OutputLen, dkLen - Len(s.key)))
          /\ IsMessage(fn) /\ Len(fn) = OutputLen
      <4>1. IsMessage(password) /\ IsMessage(salt)
        BY <1>2
      <4>2. Spare(s.prfW)
        BY <3>1
      <4>3. QED
        BY <1>3, <1>4, <3>6, <4>1, <4>2, BlockIs
    <3> HIDE DEF b, fn
    <3>8. /\ Spare(t.prfW) /\ t.key = kn \o SubSeq(fn, 1, l)
          /\ IsMessage(fn) /\ Len(fn) = OL
      BY <3>1, <3>5, <3>6, <3>7 DEF l, OL
    <3>9. l \in Nat /\ l <= OL
      BY <1>8, <3>2, <3>4
    <3>10. /\ SubSeq(kn \o fn, 1, Len(kn) + l) = kn \o SubSeq(fn, 1, l)
           /\ IsMessage(kn \o SubSeq(fn, 1, l)) /\ Len(kn \o SubSeq(fn, 1, l)) = Len(kn) + l
      <4>1. l <= Len(fn)
        BY <3>8, <3>9
      <4>2. QED
        BY <3>1, <3>8, <3>9, <4>1, ConcatPart
    <3>11. CASE ti < count
      <4>1. l = OL
        <5>1. Upto(ti) < dkLen
          <6>1. ~(ti >= count) /\ ti \in Nat
            BY <1>7, <3>2, <3>11
          <6>2. ~(Upto(ti) >= dkLen) /\ Upto(ti) \in Nat
            BY <1>10, <6>1
          <6>3. QED
            BY <6>2
        <5>2. QED
          BY <1>8, <3>2, <3>4, <5>1
      <4>2. SubSeq(fn, 1, l) = fn
        <5>1. SubSeq(fn, 1, Len(fn)) = fn
          <6>1. PICK Elements : fn \in Seq(Elements)
            BY <3>8 DEF IsMessage
          <6>2. QED
            BY <6>1, SubSeqFull
        <5>2. QED
          BY <3>8, <4>1, <5>1
      <4>3. t.key = kt /\ IsMessage(kt) /\ Len(kt) = Upto(ti)
        BY <3>1, <3>2, <3>3, <3>8, <3>10, <4>1, <4>2
      <4>4. ~(ti >= count)
        BY <1>7, <3>2, <3>11
      <4>5. QED
        BY <3>8, <3>11, <4>3, <4>4 DEF t, kt, ti
    <3>12. CASE ~(ti < count)
      <4>1. ti = count
        BY <1>7, <3>2, <3>12
      <4>2. l = dkLen - m
        <5>1. ti >= count /\ ti \in Nat
          BY <1>7, <3>2, <3>12
        <5>2. Upto(ti) >= dkLen
          BY <1>10, <5>1
        <5>3. QED
          BY <1>8, <3>2, <3>4, <5>2
      <4>3. derived = SubSeq(kn \o fn, 1, dkLen)
        <5>1. k[count] = kt
          BY <4>1 DEF kt
        <5>2. QED
          BY <1>6, <3>3, <5>1
      <4>4. Len(kn) + l = dkLen
        BY <3>1, <3>2, <4>2
      <4>5. t.key = derived /\ Len(derived) = dkLen
        BY <3>8, <3>10, <4>3, <4>4
      <4>6. QED
        BY <3>8, <3>12, <4>5 DEF t, ti
    <3>13. QED
      BY <3>11, <3>12 DEF ti
  <2>7. QED
    BY <1>7, <2>5, <2>6
<1>14. Good(dkLen)
  <2>1. dkLen \in S
    <3> HIDE DEF S
    <3>1. QED
      BY <1>12, <1>13, AllNumbers
  <2>2. dkLen <= dkLen
    OBVIOUS
  <2> HIDE DEF Good
  <2>3. QED
    BY <2>1, <2>2, Zenon
<1>15. dkLen >= count
  BY <1>10, <1>11
<1>16. keys = derived
  BY <1>5, <1>14, <1>15
<1>17. QED
  BY <1>1, <1>16, Zenon DEF Pbkdf2IsReference, derived
=============================================================================

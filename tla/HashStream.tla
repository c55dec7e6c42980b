----------------------------- MODULE HashStream -----------------------------
(***************************************************************************)
(* The streaming hashes of the wallet bundle (web/wallet.js): the class    *)
(* HashMD under SHA-256, SHA-512 and RIPEMD-160, HMAC over it, and PBKDF2  *)
(* over HMAC.                                                              *)
(*                                                                         *)
(* A byte is a vector over GF(2): a set of atoms, with the empty set for   *)
(* zero and the symmetric difference for exclusive or.  The compression    *)
(* function is taken as injective, so the words of a hash are the blocks   *)
(* it has processed, and byte i of a digest is an atom of i and the blocks.*)
(***************************************************************************)
EXTENDS Integers, Sequences, FiniteSets

CONSTANTS
    BlockLen,     \* 64 or 128 in the code
    OutputLen,    \* 20, 32 or 64
    PadOffset     \* 8 or 16: the bytes of a block the length takes

Zero == {}
Xor(a, b) == (a \ b) \cup (b \ a)
XorSeq(s, t) == [i \in DOMAIN s |-> Xor(s[i], t[i])]
Zeros(n) == [i \in 1 .. n |-> Zero]
One == {<<"one">>}                 \* 0x80, the first byte of the padding
Length(n) == {<<"length", n>>}     \* setBigUint64
Inner == {<<"inner">>}             \* 0x36
Outer == {<<"outer">>}             \* 0x5c
DigestOf(words) == [i \in 1 .. OutputLen |-> {<<"digest", i, words>>}]
\* s with t written over it from place i on (TypedArray.set).
Over(s, i, t) == [j \in DOMAIN s |-> IF j \in i .. i + Len(t) - 1 THEN t[j - i + 1] ELSE s[j]]
Smaller(a, b) == IF a < b THEN a ELSE b

-----------------------------------------------------------------------------
(* HashMD *)

New == [words |-> <<>>, buffer |-> Zeros(BlockLen), pos |-> 0, length |-> 0,
        finished |-> FALSE, destroyed |-> FALSE, raised |-> FALSE]

Process(h, block) == [h EXCEPT !.words = Append(@, block)]

\* aexists: neither destroyed nor finished, or else the call raises.
Usable(h) == ~h.destroyed /\ ~h.finished
Raise(h) == [h EXCEPT !.raised = TRUE]

\* A turn of the loop of update, from place `at` of the data: a whole block is processed
\* from the data when nothing is buffered; the rest goes through the buffer.
Turn(h, data, at) ==
    LET take == Smaller(BlockLen - h.pos, Len(data) - at)
        piece == SubSeq(data, at + 1, at + take)
        filled == [h EXCEPT !.buffer = Over(@, h.pos + 1, piece), !.pos = @ + take]
    IN [at |-> at + take,
        hash |-> CASE take = BlockLen -> Process(h, piece)
                   [] take # BlockLen /\ filled.pos = BlockLen -> [Process(filled, filled.buffer) EXCEPT !.pos = 0]
                   [] OTHER -> filled]
\* Every turn takes a byte or more, so there are no more turns than bytes.
Absorb(h, data) ==
    LET loop[n \in 0 .. Len(data)] ==
            IF n = 0 THEN [at |-> 0, hash |-> h]
            ELSE LET l == loop[n - 1] IN IF l.at < Len(data) THEN Turn(l.hash, data, l.at) ELSE l
    IN loop[Len(data)].hash
Update(h, data) ==
    IF Usable(h) THEN [Absorb(h, data) EXCEPT !.length = @ + Len(data)] ELSE Raise(h)
\* One call of update after another.
Updated(pieces) ==
    LET fed[n \in 0 .. Len(pieces)] == IF n = 0 THEN New ELSE Update(fed[n - 1], pieces[n])
    IN fed[Len(pieces)]

\* digestInto: the padding may need a block of its own.
\* Mutant: the length does not fit when it would just do.
TooLittleRoom(pos) == PadOffset >= BlockLen - pos
NoRoom(pos) == PadOffset > BlockLen - pos
Padding(h) == Over(h.buffer, h.pos + 1, <<One>> \o Zeros(BlockLen - h.pos - 1))
DigestInto(h) ==
    LET padded == Padding(h)
        spilt == IF NoRoom(h.pos + 1) THEN Process(h, padded) ELSE h
        last == IF NoRoom(h.pos + 1) THEN Zeros(BlockLen) ELSE padded
        done == Process(spilt, Over(last, BlockLen, <<Length(h.length)>>))
    IN IF Usable(h) THEN [hash |-> [done EXCEPT !.finished = TRUE], out |-> DigestOf(done.words)]
       ELSE [hash |-> Raise(h), out |-> Zeros(OutputLen)]
Digest(h) == DigestInto(h).out

\* destroy of SHA256 and SHA512 clears the words and leaves the flag as it was.
Destroyed(h) == [h EXCEPT !.words = <<<<>>>>, !.buffer = Zeros(BlockLen)]

\* _cloneInto copies the buffer when it holds something.
\* Mutant: it copies the buffer when nothing has been processed yet.
CloneWithoutBuffer(h, to) ==
    [h EXCEPT !.buffer = IF h.length < BlockLen THEN h.buffer ELSE to.buffer]
CloneInto(h, to) ==
    [h EXCEPT !.buffer = IF h.length % BlockLen # 0 THEN h.buffer ELSE to.buffer]

-----------------------------------------------------------------------------
(* HMAC *)

Pad(key) == Over(Zeros(BlockLen), 1, IF Len(key) > BlockLen THEN Digest(Update(New, key)) ELSE key)
Constant(b) == [i \in 1 .. BlockLen |-> b]

Hmac(key) ==
    LET inner == XorSeq(Pad(key), Constant(Inner))
    IN [iHash |-> Update(New, inner),
        oHash |-> Update(New, XorSeq(inner, Constant(Xor(Inner, Outer)))),
        finished |-> FALSE, destroyed |-> FALSE]

HmacUpdate(m, data) ==
    [m EXCEPT !.iHash = IF Usable(m) THEN Update(m.iHash, data) ELSE Raise(m.iHash)]

HmacDigestInto(m) ==
    LET i == DigestInto(m.iHash)
        o == DigestInto(Update(m.oHash, i.out))
    IN [hmac |-> [iHash |-> Destroyed(i.hash), oHash |-> Destroyed(o.hash),
                  finished |-> TRUE, destroyed |-> TRUE],
        out |-> IF Usable(m) /\ ~i.hash.raised THEN o.out ELSE Zeros(OutputLen)]

HmacCloneInto(m, to) ==
    [m EXCEPT !.iHash = CloneInto(m.iHash, to.iHash), !.oHash = CloneInto(m.oHash, to.oHash)]
\* Object.create: the clone is built on new hashes.
FreshHmac == [iHash |-> New, oHash |-> New, finished |-> FALSE, destroyed |-> FALSE]

-----------------------------------------------------------------------------
(* PBKDF2: one HMAC object, prfW, is cloned into again and again *)

Index(n) == <<{<<"index", n>>}>>

\* c further rounds of one block: [prfW, u, t].
Rounds(prf, start, c) ==
    LET round[n \in 0 .. c] ==
            IF n = 0 THEN start
            ELSE LET s == round[n - 1]
                     d == HmacDigestInto(HmacUpdate(HmacCloneInto(prf, s.prfW), s.u))
                 IN [prfW |-> d.hmac, u |-> d.out, t |-> XorSeq(s.t, d.out)]
    IN round[c]

\* A turn of the loop over the blocks: [prfW, key].
Block(prf, prfSalt, s, ti, dkLen, c) ==
    LET d == HmacDigestInto(HmacUpdate(HmacCloneInto(prfSalt, s.prfW), Index(ti)))
        t == SubSeq(d.out, 1, Smaller(OutputLen, dkLen - Len(s.key)))
        r == Rounds(prf, [prfW |-> d.hmac, u |-> d.out, t |-> t], c - 1)
    IN [prfW |-> r.prfW, key |-> s.key \o r.t]
Blocks(prf, prfSalt, dkLen, c) ==
    LET loop[n \in 0 .. dkLen] ==
            IF n = 0 THEN [prfW |-> FreshHmac, key |-> <<>>]
            ELSE LET s == loop[n - 1] IN IF Len(s.key) < dkLen THEN Block(prf, prfSalt, s, n, dkLen, c) ELSE s
    IN loop[dkLen].key

Pbkdf2(password, salt, c, dkLen) ==
    LET prf == Hmac(password)
        prfSalt == HmacUpdate(HmacCloneInto(prf, FreshHmac), salt)
    IN Blocks(prf, prfSalt, dkLen, c)

-----------------------------------------------------------------------------
(* What they are to compute *)

\* FIPS 180-4: the message, a bit, zeros, the length; then blocks.
PaddedLength(n) == CHOOSE m \in n + 1 + PadOffset .. n + PadOffset + BlockLen : m % BlockLen = 0
Padded(msg) == msg \o <<One>> \o Zeros(PaddedLength(Len(msg)) - Len(msg) - 2)
               \o <<Length(Len(msg))>>
Split(s) == [i \in 1 .. Len(s) \div BlockLen |-> SubSeq(s, (i - 1) * BlockLen + 1, i * BlockLen)]
Sha(msg) == DigestOf(Split(Padded(msg)))

Joined(pieces) ==
    LET msg[n \in 0 .. Len(pieces)] == IF n = 0 THEN <<>> ELSE msg[n - 1] \o pieces[n]
    IN msg[Len(pieces)]
\* A message given to update in any pieces is padded and hashed as the standard says it is
\* as a whole, also where the length leaves no room for the padding (web/wallet.js:302-386).
HashIsReference(pieces) == Digest(Updated(pieces)) = Sha(Joined(pieces))

\* RFC 2104
Mac(key, msg) ==
    LET k == Over(Zeros(BlockLen), 1, IF Len(key) > BlockLen THEN Sha(key) ELSE key)
    IN Sha(XorSeq(k, Constant(Outer)) \o Sha(XorSeq(k, Constant(Inner)) \o msg))

\* RFC 8018
F(password, salt, c, i) ==
    LET U[n \in 1 .. c] == IF n = 1 THEN Mac(password, salt \o Index(i)) ELSE Mac(password, U[n - 1])
        T[n \in 1 .. c] == IF n = 1 THEN U[1] ELSE XorSeq(T[n - 1], U[n])
    IN T[c]
Derived(password, salt, c, dkLen) ==
    LET blocks == (dkLen + OutputLen - 1) \div OutputLen
        key[n \in 0 .. blocks] == IF n = 0 THEN <<>> ELSE key[n - 1] \o F(password, salt, c, n)
    IN SubSeq(key[blocks], 1, dkLen)
\* The key is derived block by block as the standard says, with one HMAC cloned for every
\* iteration and a key longer than a block hashed first (web/wallet.js:238-281).
Pbkdf2IsReference(password, salt, c, dkLen) ==
    Pbkdf2(password, salt, c, dkLen) = Derived(password, salt, c, dkLen)
=============================================================================

------------------------------- MODULE Sponge -------------------------------
(***************************************************************************)
(* The sponge of the wallet bundle (web/wallet.js, sha3.js): the class     *)
(* Keccak over the permutation of module Keccak.                           *)
(*                                                                         *)
(* A byte is a vector over GF(2) as in HashStream.  The permutation is     *)
(* taken as injective and nothing else is known of it: byte i of its       *)
(* result is an atom of i and the state it was given.  The suffix is 0x01  *)
(* for every hash of the bundle, so its high bit is never set.             *)
(***************************************************************************)
EXTENDS Integers, Sequences, FiniteSets

CONSTANTS
    StateLen,      \* 200
    BlockLen,      \* 136 for keccak256
    OutputLen      \* 32

Zero == {}
Mix(a, b) == (a \ b) \cup (b \ a)
Suffix == {<<"suffix">>}
Final == {<<"0x80">>}
Zeros(n) == [i \in 1 .. n |-> Zero]
Permuted(state) == [i \in 1 .. StateLen |-> {<<"f", i, state>>}]
Smaller(a, b) == IF a < b THEN a ELSE b
\* this.state[i] ^= byte
Mixed(state, i, byte) == [state EXCEPT ![i] = Mix(@, byte)]

New == [state |-> Zeros(StateLen), pos |-> 0, posOut |-> 0,
        finished |-> FALSE, destroyed |-> FALSE, raised |-> FALSE]
Raise(h) == [h EXCEPT !.raised = TRUE]

keccak(h) == [h EXCEPT !.state = Permuted(@), !.pos = 0, !.posOut = 0]

\* The loop of update, a byte at a time.
AbsorbByte(h, byte) ==
    LET n == [h EXCEPT !.state = Mixed(@, h.pos + 1, byte), !.pos = @ + 1]
    IN IF n.pos = BlockLen THEN keccak(n) ELSE n
Absorb(h, data) ==
    LET loop[n \in 0 .. Len(data)] == IF n = 0 THEN h ELSE AbsorbByte(loop[n - 1], data[n])
    IN loop[Len(data)]
Update(h, data) == IF h.finished \/ h.destroyed THEN Raise(h) ELSE Absorb(h, data)
\* One call of update after another.
Updated(pieces) ==
    LET fed[n \in 0 .. Len(pieces)] == IF n = 0 THEN New ELSE Update(fed[n - 1], pieces[n])
    IN fed[Len(pieces)]

\* finish
Finish(h) ==
    IF h.finished THEN h
    ELSE keccak([h EXCEPT !.finished = TRUE, !.state = Mixed(Mixed(@, h.pos + 1, Suffix), BlockLen, Final)])

\* writeInto: the state again and again, a block at a time, into `out` of length `len`.
SqueezeBlock(h, out, len) ==
    LET g == IF h.posOut >= BlockLen THEN keccak(h) ELSE h
        take == Smaller(BlockLen - g.posOut, len - Len(out))
    IN [hash |-> [g EXCEPT !.posOut = @ + take], out |-> out \o SubSeq(g.state, g.posOut + 1, g.posOut + take)]
Squeeze(h, len) ==
    LET loop[n \in 0 .. len] ==
            IF n = 0 THEN [hash |-> h, out |-> <<>>]
            ELSE LET l == loop[n - 1] IN IF Len(l.out) < len THEN SqueezeBlock(l.hash, l.out, len) ELSE l
    IN loop[len]
WriteInto(h, len) == IF h.destroyed THEN [hash |-> Raise(h), out |-> Zeros(len)]
                     ELSE Squeeze(Finish(h), len)

DigestInto(h) ==
    IF h.finished THEN [hash |-> Raise(h), out |-> Zeros(OutputLen)]
    ELSE LET w == WriteInto(h, OutputLen)
         IN [hash |-> [w.hash EXCEPT !.destroyed = TRUE, !.state = Zeros(StateLen)], out |-> w.out]

-----------------------------------------------------------------------------
(* What it is to compute: pad10*1, absorb, squeeze *)

PaddedMessage(msg) ==
    LET total == (Len(msg) \div BlockLen + 1) * BlockLen
    IN [i \in 1 .. total |-> Mix(IF i <= Len(msg) THEN msg[i] ELSE Zero,
                                 Mix(IF i = Len(msg) + 1 THEN Suffix ELSE Zero,
                                     IF i = total THEN Final ELSE Zero))]
Sponged(msg) ==
    LET padded == PaddedMessage(msg)
        absorbed(before, from) ==
            [i \in 1 .. StateLen |-> IF i <= BlockLen THEN Mix(before[i], padded[from + i]) ELSE before[i]]
        S[n \in 0 .. Len(padded) \div BlockLen] ==
            IF n = 0 THEN Zeros(StateLen) ELSE Permuted(absorbed(S[n - 1], (n - 1) * BlockLen))
        squeezed[n \in 1 .. OutputLen \div BlockLen + 1] ==
            IF n = 1 THEN S[Len(padded) \div BlockLen] ELSE Permuted(squeezed[n - 1])
    IN [i \in 1 .. OutputLen |-> squeezed[(i - 1) \div BlockLen + 1][((i - 1) % BlockLen) + 1]]

Joined(pieces) ==
    LET msg[n \in 0 .. Len(pieces)] == IF n = 0 THEN <<>> ELSE msg[n - 1] \o pieces[n]
    IN msg[Len(pieces)]
\* A message given to update in any pieces is padded, absorbed and squeezed as the standard
\* says it is as a whole (web/wallet.js:5300-5405).
HashIsReference(pieces) == DigestInto(Updated(pieces)).out = Sponged(Joined(pieces))
=============================================================================

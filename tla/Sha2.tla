-------------------------------- MODULE Sha2 --------------------------------
(***************************************************************************)
(* The compression functions of SHA-256 and SHA-512 in the wallet bundle   *)
(* (web/wallet.js, sha2.js).  SHA256.process works on words of Width bits; *)
(* SHA512.process does the same work, with its own constants, on words of  *)
(* twice the width kept in halves.                                         *)
(***************************************************************************)
EXTENDS SplitWords

CONSTANTS
    Rounds,      \* 64 and 80 in the code
    K,           \* the round constants, as whole words
    R            \* the rotations: [s0, s1, S0, S1], each a triple

Registers == 1 .. 8           \* A .. H

Add1(w, k) == {b + k : b \in w}
\* A whole word of two halves, and its halves.
Whole(w) == w.l \cup Add1(w.h, W)
Halves(x) == [h |-> {b \in Half : b + W \in x}, l |-> x \cap Half]
Wholes(ws) == [j \in DOMAIN ws |-> Whole(ws[j])]
Halved(xs) == [j \in DOMAIN xs |-> Halves(xs[j])]

-----------------------------------------------------------------------------
(* SHA256.process, at the width of a whole word *)

Wide == 0 .. 2 * W - 1
rotr(x, s) == {(b - s) % (2 * W) : b \in x}
shr(x, s) == {b - s : b \in x} \cap Wide
Chi(a, b, c) == Xor(a \cap b, (Wide \ a) \cap c)
Maj(a, b, c) == Xor3(a \cap b, a \cap c, b \cap c)
Plus(xs) == {b \in Wide : (Total(xs) \div Power[b]) % 2 = 1}

\* A word of the schedule, of those 15, 2, 7 and 16 places before it.
Scheduled(w15, w2, w7, w16) ==
    LET s0 == Xor3(rotr(w15, R.s0[1]), rotr(w15, R.s0[2]), shr(w15, R.s0[3]))
        s1 == Xor3(rotr(w2, R.s1[1]), rotr(w2, R.s1[2]), shr(w2, R.s1[3]))
    IN Plus(<<s1, w7, s0, w16>>)
Schedule(block) ==
    LET w[i \in 1 .. Rounds] ==
          IF i <= 16 THEN block[i] ELSE Scheduled(w[i - 15], w[i - 2], w[i - 7], w[i - 16])
    IN w

\* The registers after a round: H takes G's place and so on, E takes D + T1.
Shifted(v, e, a) == <<a, v[1], v[2], v[3], e, v[5], v[6], v[7]>>
Round(v, k, w) ==
    LET sigma1 == Xor3(rotr(v[5], R.S1[1]), rotr(v[5], R.S1[2]), rotr(v[5], R.S1[3]))
        sigma0 == Xor3(rotr(v[1], R.S0[1]), rotr(v[1], R.S0[2]), rotr(v[1], R.S0[3]))
        T1 == Plus(<<v[8], sigma1, Chi(v[5], v[6], v[7]), k, w>>)
        T2 == Plus(<<sigma0, Maj(v[1], v[2], v[3])>>)
    IN Shifted(v, Plus(<<v[4], T1>>), Plus(<<T1, T2>>))

\* The loop of process, a round at a time, and what it leaves in the hash.
Start256(v, block) == [iv |-> v, v |-> v, w |-> Schedule(block), i |-> 0]
Step256(p) == [p EXCEPT !.v = Round(@, K[p.i + 1], p.w[p.i + 1]), !.i = @ + 1]
Result256(p) == [j \in Registers |-> Plus(<<p.v[j], p.iv[j]>>)]

-----------------------------------------------------------------------------
(* SHA512.process: every word is [h, l] *)

Xor3W(a, b, c) == [h |-> Xor3(a.h, b.h, c.h), l |-> Xor3(a.l, b.l, c.l)]
rotrW(w, s) == IF s < W THEN [h |-> rotrSH(w.h, w.l, s), l |-> rotrSL(w.h, w.l, s)]
               ELSE [h |-> rotrBH(w.h, w.l, s), l |-> rotrBL(w.h, w.l, s)]
shrW(w, s) == [h |-> shrSH(w.h, w.l, s), l |-> shrSL(w.h, w.l, s)]
ChiW(a, b, c) == [h |-> Xor(a.h \cap b.h, Not(a.h) \cap c.h), l |-> Xor(a.l \cap b.l, Not(a.l) \cap c.l)]
MajW(a, b, c) == [h |-> Xor3(a.h \cap b.h, a.h \cap c.h, b.h \cap c.h),
                  l |-> Xor3(a.l \cap b.l, a.l \cap c.l, b.l \cap c.l)]
AddW(ws) == Add([i \in DOMAIN ws |-> ws[i].h], [i \in DOMAIN ws |-> ws[i].l])

Scheduled512(w15, w2, w7, w16) ==
    LET s0 == Xor3W(rotrW(w15, R.s0[1]), rotrW(w15, R.s0[2]), shrW(w15, R.s0[3]))
        s1 == Xor3W(rotrW(w2, R.s1[1]), rotrW(w2, R.s1[2]), shrW(w2, R.s1[3]))
    IN AddW(<<s0, s1, w7, w16>>)
Schedule512(block) ==
    LET w[i \in 1 .. Rounds] ==
          IF i <= 16 THEN block[i] ELSE Scheduled512(w[i - 15], w[i - 2], w[i - 7], w[i - 16])
    IN w

Round512(v, k, w) ==
    LET sigma1 == Xor3W(rotrW(v[5], R.S1[1]), rotrW(v[5], R.S1[2]), rotrW(v[5], R.S1[3]))
        sigma0 == Xor3W(rotrW(v[1], R.S0[1]), rotrW(v[1], R.S0[2]), rotrW(v[1], R.S0[3]))
        T1 == AddW(<<v[8], sigma1, ChiW(v[5], v[6], v[7]), k, w>>)
    IN Shifted(v, AddW(<<v[4], T1>>), AddW(<<T1, sigma0, MajW(v[1], v[2], v[3])>>))

Start512(v, block) == [iv |-> v, v |-> v, w |-> Schedule512(block), i |-> 0]
Step512(p) == [p EXCEPT !.v = Round512(@, Halves(K[p.i + 1]), p.w[p.i + 1]), !.i = @ + 1]
Result512(p) == [j \in Registers |-> AddW(<<p.iv[j], p.v[j]>>)]

-----------------------------------------------------------------------------
(* What the two have in common *)

\* SHA-512, on 64-bit words split in two halves of 32 with a carry between them, is
\* the compression function that SHA-256 computes on whole words (web/wallet.js:423-457,
\* 727-785).
SplitIsWhole(wide, split) == Result256(wide) = Wholes(Result512(split))
=============================================================================

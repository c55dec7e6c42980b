------------------------------- MODULE Keccak -------------------------------
(***************************************************************************)
(* The permutation keccakP of the wallet bundle (web/wallet.js, sha3.js),  *)
(* on 25 words of 2 * W bits kept as 50 halves.                            *)
(***************************************************************************)
EXTENDS SplitWords

-----------------------------------------------------------------------------
(* The tables, computed when the module is loaded *)

\* The places (x, y) the loop visits, and the entry for each round.
Visit[n \in 0 .. 24] == IF n = 0 THEN <<1, 0>>
                        ELSE LET v == Visit[n - 1] IN <<v[2], (2 * v[1] + 3 * v[2]) % 5>>
\* Mutant: the place is noted before the loop moves on.
PiOfLastPlace(n) == 2 * (5 * Visit[n][2] + Visit[n][1])
SHA3_PI(n) == 2 * (5 * Visit[n + 1][2] + Visit[n + 1][1])
SHA3_ROTL(n) == (((n + 1) * (n + 2)) \div 2) % (2 * W)

\* The shift register R, as the set of its bits, after n steps: R << 1, and
\* 0x71 into it when bit 7 was set.
Register[n \in 0 .. 24 * 7] ==
    IF n = 0 THEN {0}
    ELSE LET R == {b + 1 : b \in Register[n - 1]}
         IN Xor(R \ {8}, IF 8 \in R THEN {0, 4, 5, 6} ELSE {})
\* A round constant, and its halves: split(_SHA3_IOTA, true).
Iota(round) == {2 ^ j - 1 : j \in {j \in 0 .. 6 : 1 \in Register[7 * round + j + 1]}}
SHA3_IOTA_H(round) == Iota(round) \cap Half
SHA3_IOTA_L(round) == {b - W : b \in Iota(round) \ Half} \cap Half

rotlH(h, l, s) == IF s > W THEN rotlBH(h, l, s) ELSE rotlSH(h, l, s)
rotlL(h, l, s) == IF s > W THEN rotlBL(h, l, s) ELSE rotlSL(h, l, s)

-----------------------------------------------------------------------------
(* keccakP, a round at a time: s is a function on 0 .. 49, and the half    *)
(* with the even index holds the low bits, for the words are little-endian *)

Places == 0 .. 49

Theta(s) ==
    LET B == [x \in 0 .. 9 |-> Xor3(s[x], s[x + 10], Xor3(s[x + 20], s[x + 30], s[x + 40]))]
        Th(x) == Xor(rotlH(B[(x + 2) % 10], B[((x + 2) % 10) + 1], 1), B[(x + 8) % 10])
        Tl(x) == Xor(rotlL(B[(x + 2) % 10], B[((x + 2) % 10) + 1], 1), B[((x + 8) % 10) + 1])
        T == [x \in 0 .. 9 |-> IF x % 2 = 0 THEN Th(x) ELSE Tl(x - 1)]
    IN [p \in Places |-> Xor(s[p], T[p % 10])]

\* The loop carries one word around: place PI[t] gets the word that was at
\* PI[t - 1], and the first the word at 2.
RhoPi(s) ==
    LET from(t) == IF t = 0 THEN 2 ELSE SHA3_PI(t - 1)
        at(p) == CHOOSE t \in 0 .. 23 : SHA3_PI(t) = p
        moved(p) == LET t == at(p)
                    IN <<rotlH(s[from(t)], s[from(t) + 1], SHA3_ROTL(t)),
                         rotlL(s[from(t)], s[from(t) + 1], SHA3_ROTL(t))>>
    IN [p \in Places |-> IF p < 2 THEN s[p] ELSE moved(p - (p % 2))[(p % 2) + 1]]

ChiStep(s) ==
    LET row(p) == 10 * (p \div 10)
        next(p, n) == s[row(p) + (((p % 10) + n) % 10)]
    IN [p \in Places |-> Xor(s[p], Not(next(p, 2)) \cap next(p, 4))]

IotaStep(s, round) == [s EXCEPT ![0] = Xor(@, SHA3_IOTA_H(round)), ![1] = Xor(@, SHA3_IOTA_L(round))]

KeccakRound(s, round) == IotaStep(ChiStep(RhoPi(Theta(s))), round)

-----------------------------------------------------------------------------
(* What a round is to compute (FIPS 202): lanes A[x, y] of 2 * W bits *)

Lanes == (0 .. 4) \X (0 .. 4)
Rotated(w, n) == {(b + n) % (2 * W) : b \in w}
LaneAt(s, x, y) == s[2 * (5 * y + x)] \cup {b + W : b \in s[2 * (5 * y + x) + 1]}
State(s) == [a \in Lanes |-> LaneAt(s, a[1], a[2])]

ReferenceOffset(a) == IF a = <<0, 0>> THEN 0
                      ELSE LET t == CHOOSE t \in 0 .. 23 : Visit[t] = a IN ((t + 1) * (t + 2)) \div 2
\* rc(t): the linear feedback shift register x^8 + x^6 + x^5 + x^4 + 1.
Feedback[t \in 0 .. 24 * 7] ==
    IF t = 0 THEN <<1, 0, 0, 0, 0, 0, 0, 0>>
    ELSE LET R == <<0>> \o Feedback[t - 1]
         IN [i \in 1 .. 8 |-> IF i \in {1, 5, 6, 7} THEN (R[i] + R[9]) % 2 ELSE R[i]]
ReferenceConstant(round) == {2 ^ j - 1 : j \in {j \in 0 .. 6 : Feedback[j + 7 * round][1] = 1}}

ReferenceRound(A, round) ==
    LET C == [x \in 0 .. 4 |-> Xor3(A[<<x, 0>>], A[<<x, 1>>], Xor3(A[<<x, 2>>], A[<<x, 3>>], A[<<x, 4>>]))]
        theta == [a \in Lanes |-> Xor3(A[a], C[(a[1] + 4) % 5], Rotated(C[(a[1] + 1) % 5], 1))]
        rho == [a \in Lanes |-> Rotated(theta[a], ReferenceOffset(a))]
        pi == [a \in Lanes |-> rho[<<(a[1] + 3 * a[2]) % 5, a[1]>>]]
        chi == [a \in Lanes |-> Xor(pi[a], pi[<<(a[1] + 2) % 5, a[2]>>] \ pi[<<(a[1] + 1) % 5, a[2]>>])]
    IN [chi EXCEPT ![<<0, 0>>] = Xor(@, ReferenceConstant(round))]

\* The halves s, as keccakP carries them from place to place, are the lanes that the rounds
\* of the standard come to (web/wallet.js:5235-5299).
KeccakIsReference(s, lanes) == lanes = State(s)
=============================================================================

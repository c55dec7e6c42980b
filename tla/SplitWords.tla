---------------------------- MODULE SplitWords ----------------------------
(***************************************************************************)
(* Words of 2 * W bits kept as two halves of W bits, as the wallet bundle  *)
(* (web/wallet.js, _u64.js) keeps the 64-bit words of SHA-512 and Keccak   *)
(* in pairs of 32-bit integers.                                            *)
(*                                                                         *)
(* A word is the set of its bits that are one, bit 0 the lowest.  A shift  *)
(* count is taken modulo W, as JavaScript takes it modulo 32: a shift by W *)
(* is a shift by nothing.                                                  *)
(***************************************************************************)
EXTENDS Integers, Sequences

CONSTANT W     \* bits of a half word: 32

Half == 0 .. W - 1

Shl(x, s) == {b + (s % W) : b \in x} \cap Half          \* x << s
Shr(x, s) == {b - (s % W) : b \in x} \cap Half          \* x >>> s
Not(x) == Half \ x
Xor(a, b) == (a \ b) \cup (b \ a)
Xor3(a, b, c) == Xor(a, Xor(b, c))

-----------------------------------------------------------------------------
(* Shifts and rotations: S for counts below W, B for counts above *)

shrSH(h, l, s) == Shr(h, s)
shrSL(h, l, s) == Shl(h, W - s) \cup Shr(l, s)
rotrSH(h, l, s) == Shr(h, s) \cup Shl(l, W - s)
rotrSL(h, l, s) == Shl(h, W - s) \cup Shr(l, s)
rotrBH(h, l, s) == Shl(h, 2 * W - s) \cup Shr(l, s - W)
rotrBL(h, l, s) == Shr(h, s - W) \cup Shl(l, 2 * W - s)
rotlSH(h, l, s) == Shl(h, s) \cup Shr(l, W - s)
rotlSL(h, l, s) == Shl(l, s) \cup Shr(h, W - s)
rotlBH(h, l, s) == Shl(l, s - W) \cup Shr(h, 2 * W - s)
rotlBL(h, l, s) == Shl(h, s - W) \cup Shr(l, 2 * W - s)

-----------------------------------------------------------------------------
(* Sums: the low halves are added as numbers, and what exceeds W bits is   *)
(* carried into the sum of the high halves.                                *)

\* 2 ^ k, as far as the bits of a whole word go.
Power[k \in 0 .. 2 * W] == IF k = 0 THEN 1 ELSE 2 * Power[k - 1]
\* The number with the bits of x.
Number(x) ==
    LET upTo[n \in 0 .. 2 * W] == IF n = 0 THEN 0 ELSE upTo[n - 1] + (IF n - 1 \in x THEN Power[n - 1] ELSE 0)
    IN upTo[2 * W]
Bits(n) == {b \in Half : (n \div Power[b]) % 2 = 1}       \* n | 0
Total(xs) ==
    LET sum[n \in 0 .. Len(xs)] == IF n = 0 THEN 0 ELSE sum[n - 1] + Number(xs[n])
    IN sum[Len(xs)]

\* Mutant: the carry is one bit, as in a sum of two.
CarryOfTwo(low) == IF low >= Power[W] THEN 1 ELSE 0
Carry(low) == low \div Power[W]
AddL(ls) == Total(ls)
AddH(low, hs) == Bits(Total(hs) + Carry(low))
Add(hs, ls) == [h |-> AddH(AddL(ls), hs), l |-> Bits(AddL(ls))]
=============================================================================

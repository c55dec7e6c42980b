----------------------------- MODULE PrimeField -----------------------------
(***************************************************************************)
(* Arithmetic modulo a prime P in the wallet bundle (web/wallet.js,        *)
(* modular.js): inverses by Euclid's algorithm, powers by squaring, and    *)
(* square roots by the method the prime asks for.  An operation that       *)
(* raises returns None.                                                    *)
(***************************************************************************)
EXTENDS Integers, SequencesExt

CONSTANT P      \* the ORDER of a Field

None == -1
mod(a, b) == a % b        \* never negative, as the code's mod
Elements == 0 .. P - 1

neg(a) == mod(-a, P)
add(a, b) == mod(a + b, P)
sub(a, b) == mod(a - b, P)
mul(a, b) == mod(a * b, P)
sqr(a) == mul(a, a)

\* invert: b and a shrink as in Euclid's algorithm; x and u follow so that
\* a = u * number and b = x * number modulo the modulus.
RECURSIVE Euclid(_, _, _, _)
Euclid(a, b, x, u) ==
    IF a = 0 THEN [gcd |-> b, x |-> x] ELSE Euclid(b % a, a, u, x - u * (b \div a))
invert(number, modulus) ==
    LET e == Euclid(mod(number, modulus), modulus, 0, 1)
    IN IF number = 0 \/ e.gcd # 1 THEN None ELSE mod(e.x, modulus)
inv(a) == invert(a, P)

\* FpPow: one bit of the power after another, the lowest first.
RECURSIVE PowLoop(_, _, _)
PowLoop(p, d, power) ==
    IF power = 0 THEN p
    ELSE PowLoop(IF power % 2 = 1 THEN mul(p, d) ELSE p, sqr(d), power \div 2)
pow(num, power) == IF power = 1 THEN num ELSE PowLoop(1, num, power)

\* FpInvertBatch: one inverse for all; zeros are passed over.
UnlessZero(acc, n) == IF n = 0 THEN acc ELSE mul(acc, n)
Running(nums) == LET acc[i \in 0 .. Len(nums)] == IF i = 0 THEN 1 ELSE UnlessZero(acc[i - 1], nums[i])
                 IN [i \in 0 .. Len(nums) |-> acc[i]]
InvertFrom(nums, tmp) ==
    LET \* what reduceRight has in its accumulator when it comes to i
        acc[i \in DOMAIN nums] ==
            IF i = Len(nums) THEN inv(tmp[i]) ELSE UnlessZero(acc[i + 1], nums[i + 1])
    IN [i \in DOMAIN nums |-> IF nums[i] = 0 THEN None ELSE mul(acc[i], tmp[i - 1])]
invertBatch(nums) == InvertFrom(nums, Running(nums))

-----------------------------------------------------------------------------
(* Square roots *)

Legendre(n) == LET powered == pow(n, (P - 1) \div 2)
               IN IF powered = 1 THEN 1 ELSE IF powered = 0 THEN 0 ELSE -1
IsSquare(n) == Legendre(n) \in {0, 1}
\* Mutant: the root is not squared to see whether it is one.
Unchecked(root, n) == root
Checked(root, n) == IF sqr(root) = n THEN root ELSE None

sqrt3mod4(n) == Checked(pow(n, (P + 1) \div 4), n)

sqrt5mod8(n) ==
    LET v == pow(mul(n, 2), (P - 5) \div 8)
        nv == mul(n, v)
        i == mul(mul(nv, 2), v)
    IN Checked(mul(nv, sub(i, 1)), n)

\* P - 1 = Q * 2 ^ S with Q odd, and Z the first non-square from 2 on.
S == CHOOSE s \in 1 .. P : (P - 1) % 2 ^ s = 0 /\ ((P - 1) \div 2 ^ s) % 2 = 1
Q == (P - 1) \div 2 ^ S
Z == CHOOSE z \in 2 .. P - 1 : ~IsSquare(z) /\ \A y \in 2 .. z - 1 : IsSquare(y)

\* The least m with b ^ (2 ^ m) = 1, or r when there is none below.
RECURSIVE OrderOf(_, _, _)
OrderOf(t2, m, r) == IF m >= r \/ t2 = 1 THEN m ELSE OrderOf(sqr(t2), m + 1, r)
RECURSIVE TonelliLoop(_, _, _, _)
TonelliLoop(x, b, g, r) ==
    IF b = 1 THEN x
    ELSE IF b = 0 THEN 0
    ELSE LET m == OrderOf(sqr(b), 1, r)
             ge == pow(g, 2 ^ (r - m - 1))
         IN TonelliLoop(mul(x, ge), mul(b, sqr(ge)), sqr(ge), m)
tonelliShanks(n) ==
    IF S = 1 THEN Checked(pow(n, (P + 1) \div 4), n)
    ELSE IF ~IsSquare(n) THEN None
    ELSE TonelliLoop(pow(n, (Q + 1) \div 2), pow(n, Q), pow(Z, Q), S)

sqrt(n) == IF P % 4 = 3 THEN sqrt3mod4(n)
           ELSE IF P % 8 = 5 THEN sqrt5mod8(n)
           ELSE tonelliShanks(n)

-----------------------------------------------------------------------------
(* sqrtMod of secp256k1 raises its argument to a power by a chain of       *)
(* squarings.  Here are the exponents, as sets of bits; a product adds     *)
(* exponents, which here never share a bit.                                *)

Squared(e, times) == {b + times : b \in e}         \* pow2
Product(e, f) == IF e \cap f = {} THEN e \cup f ELSE {}
sqrtModExponent ==
    LET y == {0}
        b2 == Product(Squared(y, 1), y)
        b3 == Product(Squared(b2, 1), y)
        b6 == Product(Squared(b3, 3), b3)
        b9 == Product(Squared(b6, 3), b3)
        b11 == Product(Squared(b9, 2), b2)
        b22 == Product(Squared(b11, 11), b11)
        b44 == Product(Squared(b22, 22), b22)
        b88 == Product(Squared(b44, 44), b44)
        b176 == Product(Squared(b88, 88), b88)
        b220 == Product(Squared(b176, 44), b44)
        b223 == Product(Squared(b220, 3), b3)
        t1 == Product(Squared(b223, 23), b22)
        t2 == Product(Squared(t1, 6), b2)
    IN Squared(t2, 2)
\* (p + 1) / 4 = 2^254 - 2^30 - 244 for the prime of secp256k1: the bits from 31
\* on are set, and the others say 2^30 - 244.
QuarterOfSecp256k1 ==
    (31 .. 253) \cup {b \in 0 .. 30 : ((2 ^ 30 - 244) \div 2 ^ b) % 2 = 1}
=============================================================================

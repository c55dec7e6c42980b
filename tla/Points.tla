------------------------------- MODULE Points -------------------------------
(***************************************************************************)
(* Points of y^2 = x^3 + A x + B over the field of P elements, as the      *)
(* wallet bundle computes with them (web/wallet.js, weierstrass.js and     *)
(* curve.js): projective coordinates, complete formulas, multiplication by *)
(* windows and by the endomorphism of secp256k1, and the encodings.        *)
(***************************************************************************)
EXTENDS PrimeField

CONSTANTS
    A, B,        \* the equation: 0 and 7 for secp256k1
    N,           \* CURVE.n, the order of the group, a prime
    NBits,       \* CURVE.nBitLength
    Gx, Gy,      \* CURVE.Gx, CURVE.Gy
    Endo         \* [beta, a1, b1, a2], the endomorphism and its lattice

Point(x, y, z) == [x |-> x, y |-> y, z |-> z]
ZERO == Point(0, 1, 0)
BASE == Point(Gx, Gy, 1)
b3 == mul(B, 3)

Equals(p, q) == mul(p.x, q.z) = mul(q.x, p.z) /\ mul(p.y, q.z) = mul(q.y, p.z)
Is0(p) == Equals(p, ZERO)
Negate(p) == Point(p.x, neg(p.y), p.z)

\* add of Point3: Renes, Costello and Batina, algorithm 1.
Add(p, q) ==
    LET t0 == mul(p.x, q.x)
        t1 == mul(p.y, q.y)
        t2 == mul(p.z, q.z)
        xy == sub(mul(add(p.x, p.y), add(q.x, q.y)), add(t0, t1))
        xz == sub(mul(add(p.x, p.z), add(q.x, q.z)), add(t0, t2))
        yz == sub(mul(add(p.y, p.z), add(q.y, q.z)), add(t1, t2))
        c == add(mul(b3, t2), mul(A, xz))
        d == add(mul(3, t0), mul(A, t2))
        e == add(mul(b3, xz), mul(A, sub(t0, mul(A, t2))))
    IN Point(sub(mul(xy, sub(t1, c)), mul(yz, e)),
             add(mul(sub(t1, c), add(t1, c)), mul(d, e)),
             add(mul(yz, add(t1, c)), mul(xy, d)))

\* double: algorithm 3.
Double(p) ==
    LET t0 == sqr(p.x)
        t1 == sqr(p.y)
        t2 == sqr(p.z)
        xy == mul(2, mul(p.x, p.y))
        xz == mul(2, mul(p.x, p.z))
        yz == mul(2, mul(p.y, p.z))
        c == add(mul(A, xz), mul(b3, t2))
        d == add(mul(A, sub(t0, mul(A, t2))), mul(b3, xz))
    IN Point(sub(mul(xy, sub(t1, c)), mul(yz, d)),
             add(mul(sub(t1, c), add(t1, c)), mul(add(mul(3, t0), mul(A, t2)), d)),
             mul(4, mul(yz, t1)))

\* toAffine, with the inverse of z or without (iz = None).
ToAffine(p, iz) ==
    IF p.z = 1 THEN [x |-> p.x, y |-> p.y]
    ELSE IF Is0(p) THEN [x |-> 0, y |-> 0]
    ELSE LET i == IF iz = None THEN inv(p.z) ELSE iz IN [x |-> mul(p.x, i), y |-> mul(p.y, i)]
FromAffine(a) == IF a.x = 0 /\ a.y = 0 THEN ZERO ELSE Point(a.x, a.y, 1)
NormalizeZ(ps) ==
    LET izs == invertBatch([i \in DOMAIN ps |-> ps[i].z])
    IN [i \in DOMAIN ps |-> FromAffine(ToAffine(ps[i], izs[i]))]

weierstrassEquation(x) == add(add(mul(sqr(x), x), mul(x, A)), B)
AssertValidity(p) == ~Is0(p) /\ LET a == ToAffine(p, None) IN sqr(a.y) = weierstrassEquation(a.x)

-----------------------------------------------------------------------------
(* Multiplication by windows of w bits (wNAF) *)

CeilDiv(a, b) == (a + b - 1) \div b
Windows(w, bits) == CeilDiv(bits, w) + 1
WindowSize(w) == 2 ^ (w - 1)

\* calcOffsets: the signed digit of a window, and what is left of the scalar.
\* Mutant: a digit is made negative without a carry.
DigitsWithoutCarry(n, w) ==
    LET wbits == n % 2 ^ w
    IN IF wbits > WindowSize(w) THEN [digit |-> wbits - 2 ^ w, next |-> n \div 2 ^ w]
       ELSE [digit |-> wbits, next |-> n \div 2 ^ w]
calcOffsets(n, w) ==
    LET wbits == n % 2 ^ w
    IN IF wbits > WindowSize(w) THEN [digit |-> wbits - 2 ^ w, next |-> n \div 2 ^ w + 1]
       ELSE [digit |-> wbits, next |-> n \div 2 ^ w]

\* precomputeWindow: in each window 1, 2, .. times its point, whose double is the next.
Multiples(p, n) == FoldLeft(LAMBDA ps, i : Append(ps, Add(Last(ps), p)), <<p>>, [i \in 1 .. n - 1 |-> i])
precomputeWindow(p, w, bits) ==
    FoldLeft(LAMBDA t, i : LET ps == Multiples(t.p, WindowSize(w))
                           IN [table |-> t.table \o ps, p |-> Double(Last(ps))],
             [p |-> p, table |-> <<>>], [i \in 1 .. Windows(w, bits) |-> i]).table
\* getPrecomputes: the first call returns the table as computed and keeps the
\* normalized one for later calls; the points are the same.
GetPrecomputes(p, w, bits) == IF w = 1 THEN precomputeWindow(p, w, bits)
                              ELSE NormalizeZ(precomputeWindow(p, w, bits))

\* wNAF and wNAFUnsafe: the sum of a table's entries the digits name.  The fake
\* point of wNAF only keeps the time constant and is left out.
wNAF(w, table, n, bits, start) ==
    LET rest[i \in 0 .. Windows(w, bits)] == IF i = 0 THEN n ELSE calcOffsets(rest[i - 1], w).next
        digit(i) == calcOffsets(rest[i], w).digit
        item(i, d) == IF d < 0 THEN Negate(table[i * WindowSize(w) - d]) ELSE table[i * WindowSize(w) + d]
        sum[i \in 0 .. Windows(w, bits)] ==
            IF i = 0 THEN start
            ELSE IF digit(i - 1) = 0 THEN sum[i - 1] ELSE Add(sum[i - 1], item(i - 1, digit(i - 1)))
    IN sum[Windows(w, bits)]

RECURSIVE UnsafeLadder(_, _, _)
UnsafeLadder(d, n, p) ==
    IF n = 0 THEN p ELSE UnsafeLadder(Double(d), n \div 2, IF n % 2 = 1 THEN Add(p, d) ELSE p)

-----------------------------------------------------------------------------
(* The endomorphism: beta * x is the x of lambda times the point, and a    *)
(* scalar splits into two of half its length                               *)

HalfBits == CeilDiv(NBits, 2)
divNearest(a, b) == (a + b \div 2) \div b
splitScalar(k) ==
    LET b2 == Endo.a1
        c1 == divNearest(b2 * k, N)
        c2 == divNearest(-Endo.b1 * k, N)
        k1 == mod(k - c1 * Endo.a1 - c2 * Endo.a2, N)
        k2 == mod(-c1 * Endo.b1 - c2 * b2, N)
        big(i) == i > 2 ^ HalfBits
    IN [k1neg |-> big(k1), k1 |-> IF big(k1) THEN N - k1 ELSE k1,
        k2neg |-> big(k2), k2 |-> IF big(k2) THEN N - k2 ELSE k2]

\* Both halves with their signs, the second through the endomorphism.
Joined(s, k1p, k2p) ==
    LET p1 == IF s.k1neg THEN Negate(k1p) ELSE k1p
        p2 == IF s.k2neg THEN Negate(k2p) ELSE k2p
    IN Add(p1, [p2 EXCEPT !.x = mul(@, Endo.beta)])

\* Scalars outside the range raise; w is the window size set for the point.
WithTable(table, s, w) ==
    Joined(s, wNAF(w, table, s.k1, HalfBits, ZERO), wNAF(w, table, s.k2, HalfBits, ZERO))
Multiply(p, k, w) == NormalizeZ(<<WithTable(GetPrecomputes(p, w, HalfBits), splitScalar(k), w)>>)[1]

Doubling(p, s) == Joined(s, UnsafeLadder(p, s.k1, ZERO), UnsafeLadder(p, s.k2, ZERO))
MultiplyUnsafe(p, k, w) ==
    IF k = 0 THEN ZERO
    ELSE IF Is0(p) \/ k = 1 THEN p
    ELSE IF w # 1 THEN wNAF(w, GetPrecomputes(p, w, HalfBits), k, HalfBits, ZERO)
    ELSE Doubling(p, splitScalar(k))

\* pippenger: buckets of the points that share a window's digit, summed from the top.
BitLength(n) == CHOOSE l \in 0 .. n : 2 ^ l > n /\ (l = 0 \/ 2 ^ (l - 1) <= n)
pippenger(points, scalars) ==
    LET wbits == BitLength(Len(points))
        size == IF wbits > 12 THEN wbits - 3 ELSE IF wbits > 4 THEN wbits - 2 ELSE IF wbits > 0 THEN 2 ELSE 1
        bucket(i, d) == FoldLeft(LAMBDA acc, j : IF (scalars[j] \div (2 ^ i)) % (2 ^ size) = d THEN Add(acc, points[j]) ELSE acc,
                                 ZERO, [j \in DOMAIN points |-> j])
        window(i) == FoldRight(LAMBDA d, r : LET sum == Add(r.sum, bucket(i, d)) IN [sum |-> sum, res |-> Add(r.res, sum)],
                               [d \in 1 .. 2 ^ size - 1 |-> d], [sum |-> ZERO, res |-> ZERO]).res
        doubled(p) == FoldLeft(LAMBDA q, j : Double(q), p, [j \in 1 .. size |-> j])
        sum[i \in 0 .. CeilDiv(NBits, size)] ==
            IF i = CeilDiv(NBits, size) THEN ZERO ELSE Add(doubled(sum[i + 1]), window(i * size))
    IN sum[0]

-----------------------------------------------------------------------------
(* toRawBytes and fromHex: 02 or 03 and x, or 04 and x and y *)

ToRawBytes(p, compressed) ==
    LET a == ToAffine(p, None)
    IN IF compressed THEN [head |-> 2 + (a.y % 2), x |-> a.x] ELSE [head |-> 4, x |-> a.x, y |-> a.y]

WithParity(y, head) == IF y # None /\ head % 2 # y % 2 THEN neg(y) ELSE y
\* The affine point, or one with None where the code raises.
FromBytes(bytes) ==
    IF bytes.head = 4 THEN [x |-> bytes.x, y |-> bytes.y]
    ELSE [x |-> bytes.x, y |-> IF bytes.x \notin 1 .. P - 1 THEN None
                               ELSE WithParity(sqrt(weierstrassEquation(bytes.x)), bytes.head)]
\* FromHex(bytes) is a point only when OnCurve(bytes) says that fromHex returns.
Valid(a) == a.y # None /\ AssertValidity(FromAffine(a))
OnCurve(bytes) == Valid(FromBytes(bytes))
FromHex(bytes) == FromAffine(FromBytes(bytes))

\* normPrivateKeyToScalar, and what getPublicKey returns.
IsValidPrivateKey(k) == k \in 1 .. N - 1
GetPublicKey(k) == ToRawBytes(Multiply(BASE, k, 2), TRUE)

-----------------------------------------------------------------------------
(* What they are to compute: the chord and tangent rules on affine points *)

Infinity == [x |-> None, y |-> None]
Plus(p, q) ==
    LET slope == IF p = q THEN mul(add(mul(3, sqr(p.x)), A), inv(mul(2, p.y)))
                 ELSE mul(sub(q.y, p.y), inv(sub(q.x, p.x)))
        x == sub(sqr(slope), add(p.x, q.x))
    IN IF p = Infinity THEN q
       ELSE IF q = Infinity THEN p
       ELSE IF p.x = q.x /\ p.y = neg(q.y) THEN Infinity
       ELSE [x |-> x, y |-> sub(mul(slope, sub(p.x, x)), p.y)]
RECURSIVE Times(_, _)
Times(k, p) == IF k = 0 THEN Infinity ELSE Plus(Times(k - 1, p), p)

AffineOf(p) == IF Is0(p) THEN Infinity ELSE ToAffine(p, None)
CurvePoints == {a \in [x : Elements, y : Elements] : sqr(a.y) = weierstrassEquation(a.x)}
\* The projective points of an affine one.
Scaled(a, z) == IF a = Infinity THEN Point(0, z, 0) ELSE Point(mul(a.x, z), mul(a.y, z), z)
=============================================================================

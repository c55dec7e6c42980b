------------------------------- MODULE Ecdsa -------------------------------
(***************************************************************************)
(* Signatures over the points of module Points, as the wallet bundle makes *)
(* and checks them (web/wallet.js, weierstrass.js).  A hash is already a   *)
(* number below 2 ^ NBits; an operation that raises returns NoSignature,   *)
(* or Infinity for a key.                                                  *)
(***************************************************************************)
EXTENDS Points

NoSignature == [r |-> None, s |-> None, recovery |-> None]
modN(a) == mod(a, N)
isBiggerThanHalfOrder(s) == s > N \div 2
HighS(sig) == isBiggerThanHalfOrder(sig.s)

\* k2sig: the signature with the nonce k, or none when the nonce will not do.
\* Mutant: the recovery bit stays when s is negated.
FlipForgotten(recovery) == recovery
Flipped(recovery) == IF recovery % 2 = 0 THEN recovery + 1 ELSE recovery - 1
SignatureAt(q, m, d, k, lowS) ==
    LET r == modN(q.x)
        s == modN(invert(k, N) * modN(m + r * d))
        recovery == (IF q.x = r THEN 0 ELSE 2) + (q.y % 2)
        high == lowS /\ isBiggerThanHalfOrder(s)
    IN IF r = 0 \/ s = 0 THEN NoSignature
       ELSE [r |-> r, s |-> IF high THEN modN(-s) ELSE s,
             recovery |-> IF high THEN Flipped(recovery) ELSE recovery]
k2sig(m, d, k, lowS) ==
    IF IsValidPrivateKey(k) THEN SignatureAt(ToAffine(Multiply(BASE, k, 2), None), m, d, k, lowS)
    ELSE NoSignature

\* sign: genUntil tries one nonce after another and returns the first signature.
FirstMade(sigs) ==
    LET made == SelectInSeq(sigs, LAMBDA sig : sig # NoSignature)
    IN IF made = 0 THEN NoSignature ELSE sigs[made]
sign(m, d, nonces, lowS) == FirstMade([i \in DOMAIN nonces |-> k2sig(modN(m), d, nonces[i], lowS)])

\* multiplyAndAddUnsafe: a * BASE + b * q, and nothing when that is zero.
MultiplyAndAdd(q, a, b) ==
    LET times(p, k) == IF k \in {0, 1} \/ ~Equals(p, BASE) THEN MultiplyUnsafe(p, k, 1) ELSE Multiply(p, k, 2)
    IN AffineOf(Add(times(BASE, a), times(q, b)))

Reached(R, r) == R # Infinity /\ modN(R.x) = r
verify(sig, m, key, lowS) ==
    LET is == invert(sig.s, N)
    IN /\ sig.r \in 1 .. N - 1 /\ sig.s \in 1 .. N - 1
       /\ OnCurve(key)
       /\ lowS => ~HighS(sig)
       /\ Reached(MultiplyAndAdd(FromHex(key), modN(modN(m) * is), modN(sig.r * is)), sig.r)

recoverPublicKey(sig, m) ==
    LET radj == IF sig.recovery \in {2, 3} THEN sig.r + N ELSE sig.r
        R == [head |-> 2 + (sig.recovery % 2), x |-> radj]
        ir == invert(radj, N)
    IN IF radj >= P \/ ~OnCurve(R) THEN Infinity
       ELSE MultiplyAndAdd(FromHex(R), modN(-modN(m) * ir), modN(sig.s * ir))

\* getSharedSecret
Shared(d, key) == ToRawBytes(Multiply(FromHex(key), d, 1), TRUE)

-----------------------------------------------------------------------------
(* DER: tag, length and value; a length above 127 is written with the      *)
(* number of its bytes in front.  A decoder returns [ok, v, l]: the value  *)
(* and the bytes that are left.                                            *)

Wrong == [ok |-> FALSE, v |-> <<>>, l |-> <<>>]
\* numberToHexUnpadded: the bytes of a number, at least one.
NumberBytes(n) ==
    LET size == CHOOSE k \in 1 .. 4 : (k = 4 \/ n < 256 ^ k) /\ (k = 1 \/ n >= 256 ^ (k - 1))
    IN [i \in 1 .. size |-> (n \div (256 ^ (size - i))) % 256]
NumberOf(bytes) == FoldLeft(LAMBDA n, b : n * 256 + b, 0, bytes)

tlvEncode(tag, data) ==
    LET len == NumberBytes(Len(data))
    IN <<tag>> \o (IF Len(data) > 127 THEN <<128 + Len(len)>> ELSE <<>>) \o len \o data

tlvDecode(tag, data) ==
    LET first == data[2]
        lenLen == IF first >= 128 THEN first - 128 ELSE 0
        lengthBytes == SubSeq(data, 3, lenLen + 2)
        length == IF first < 128 THEN first ELSE NumberOf(lengthBytes)
        from == 3 + lenLen
    IN IF Len(data) < 2 THEN Wrong
       ELSE IF data[1] # tag THEN Wrong
       ELSE IF first >= 128 /\ (lenLen \notin 1 .. 4 \/ Len(data) < lenLen + 2) THEN Wrong
       ELSE IF first >= 128 /\ (lengthBytes[1] = 0 \/ length < 128) THEN Wrong
       ELSE IF Len(data) < from + length - 1 THEN Wrong
       ELSE [ok |-> TRUE, v |-> SubSeq(data, from, from + length - 1), l |-> SubSeq(data, from + length, Len(data))]

\* The first bit is a sign: a zero byte comes before one that is set, and only there.
\* No byte at all is read as zero.
intEncode(n) == (IF NumberBytes(n)[1] >= 128 THEN <<0>> ELSE <<>>) \o NumberBytes(n)
IntIsMinimal(b) == b # <<>> => b[1] < 128 /\ (b[1] = 0 => Len(b) > 1 /\ b[2] >= 128)

hexFromSig(r, s) == tlvEncode(48, tlvEncode(2, intEncode(r)) \o tlvEncode(2, intEncode(s)))
\* toSig: [ok, r, s].
toSig(bytes) ==
    LET seq == tlvDecode(48, bytes)
        r == tlvDecode(2, seq.v)
        s == tlvDecode(2, r.l)
        ok == seq.ok /\ r.ok /\ s.ok /\ seq.l = <<>> /\ s.l = <<>> /\ IntIsMinimal(r.v) /\ IntIsMinimal(s.v)
    IN [ok |-> ok, r |-> IF ok THEN NumberOf(r.v) ELSE 0, s |-> IF ok THEN NumberOf(s.v) ELSE 0]
=============================================================================

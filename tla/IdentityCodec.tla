--------------------------- MODULE IdentityCodec ---------------------------
(***************************************************************************)
(* The identity of the browser application (web/crypto.js): base64url and  *)
(* base58, the DID of a public key, and identity.pem, an encrypted PKCS#8  *)
(* key in DER.  WebCrypto is given by operators.  A function that raises   *)
(* returns a record whose ok is FALSE.                                     *)
(***************************************************************************)
EXTENDS Integers, SequencesExt

CONSTANTS
    KeyLen,              \* bytes of a public key: 32
    LineLen,             \* characters of a line of a PEM file: 64
    Derived(_, _, _),    \* the AES key of passphrase, salt, iterations
    Encrypt(_, _, _),    \* key, iv, plain bytes
    Decrypt(_, _, _)     \* key, iv, cipher bytes: [ok, value]

Ok(v) == [ok |-> TRUE, value |-> v]
Error == [ok |-> FALSE, value |-> <<>>]
NumberOf(bytes) == FoldLeft(LAMBDA n, b : n * 256 + b, 0, bytes)
\* The digits of n > 0 in a base, and none for zero.
RECURSIVE Digits(_, _)
Digits(n, base) == IF n = 0 THEN <<>> ELSE Digits(n \div base, base) \o <<n % base>>
Leading(s, c) == Cardinality({i \in DOMAIN s : \A j \in 1 .. i : s[j] = c})
Repeated(c, n) == [i \in 1 .. n |-> c]
\* s in pieces of n, the last one as long as what is left.
Chunks(s, n) == [i \in 1 .. (Len(s) + n - 1) \div n |->
                    SubSeq(s, (i - 1) * n + 1, IF i * n < Len(s) THEN i * n ELSE Len(s))]

-----------------------------------------------------------------------------
(* base64: a character is a number below 64, or Pad *)

PadChar == 64
Sextets(b) == LET n == NumberOf(b) * (256 ^ (3 - Len(b)))
              IN [i \in 1 .. 4 |-> IF i <= Len(b) + 1 THEN (n \div (64 ^ (4 - i))) % 64 ELSE PadChar]
Joined(groups, n, len) == [i \in 1 .. len |-> groups[(i + n - 1) \div n][((i - 1) % n) + 1]]
toBase64(bytes) ==
    LET groups == Chunks(bytes, 3)
    IN Joined([i \in DOMAIN groups |-> Sextets(groups[i])], 4, 4 * Len(groups))
Octets(s) == LET n == FoldLeft(LAMBDA m, c : m * 64 + c, 0, s) * (64 ^ (4 - Len(s)))
             IN [i \in 1 .. 3 |-> (n \div (256 ^ (3 - i))) % 256]
Foreign(text) == \E i \in DOMAIN text : text[i] \notin 0 .. 63
\* atob: one or two pads may end a text of whole groups, and no group has one character.
Unpadded(text) ==
    LET n == Len(text)
        pads == IF n = 0 \/ n % 4 # 0 \/ text[n] # PadChar THEN 0
                ELSE IF text[n - 1] = PadChar THEN 2 ELSE 1
    IN SubSeq(text, 1, n - pads)
fromBase64(text) ==
    LET letters == Unpadded(text)
        groups == Chunks(letters, 4)
    IN IF Foreign(letters) \/ Len(letters) % 4 = 1 THEN Error
       ELSE Ok(Joined([i \in DOMAIN groups |-> Octets(groups[i])], 3, (3 * Len(letters)) \div 4))

base64url(bytes) == SelectSeq(toBase64(bytes), LAMBDA c : c # PadChar)
\* Mutant: as many pads as characters over a whole group.
PadsOver(len) == len % 4
Pads(len) == 3 - ((len + 3) % 4)
decodeBase64url(text) ==
    IF text = <<>> \/ Foreign(text) THEN Error
    ELSE fromBase64(text \o Repeated(PadChar, Pads(Len(text))))

-----------------------------------------------------------------------------
(* base58: through one number, with a 1 for every zero byte in front *)

base58(bytes) == Repeated(0, Leading(bytes, 0)) \o Digits(NumberOf(bytes), 58)
decodeBase58(letters) ==
    IF \E i \in DOMAIN letters : letters[i] \notin 0 .. 57 THEN Error
    ELSE Ok(Repeated(0, Leading(letters, 0))
            \o Digits(FoldLeft(LAMBDA n, d : n * 58 + d, 0, letters), 256))

ED25519_PREFIX == <<237, 1>>
didFromPublicKey(key) == base58(ED25519_PREFIX \o key)
publicKeyFromDid(letters) ==
    LET decoded == decodeBase58(letters)
    IN IF decoded.ok /\ Len(decoded.value) = KeyLen + 2 /\ SubSeq(decoded.value, 1, 2) = ED25519_PREFIX
       THEN Ok(SubSeq(decoded.value, 3, KeyLen + 2)) ELSE Error

-----------------------------------------------------------------------------
(* Writing DER *)

derLength(n) ==
    IF n < 128 THEN <<n>> ELSE LET bytes == Digits(n, 256) IN <<128 + Len(bytes)>> \o bytes
der(tag, content) == <<tag>> \o derLength(Len(content)) \o content
derInteger(n) ==
    LET bytes == IF n = 0 THEN <<0>> ELSE Digits(n, 256)
    IN der(2, IF bytes[1] >= 128 THEN <<0>> \o bytes ELSE bytes)
\* Seven bits to a byte, with the high bit in all but the last.
Septets(n) == LET d == IF n = 0 THEN <<0>> ELSE Digits(n, 128)
              IN [i \in DOMAIN d |-> IF i < Len(d) THEN d[i] + 128 ELSE d[i]]
derOid(oid) ==
    der(6, <<oid[1] * 40 + oid[2]>> \o FlattenSeq([i \in 1 .. Len(oid) - 2 |-> Septets(oid[i + 2])]))
derSequence(parts) == der(48, FlattenSeq(parts))
derOctets(bytes) == der(4, bytes)

Pbes2 == <<1, 2, 840, 113549, 1, 5, 13>>
Pbkdf2Oid == <<1, 2, 840, 113549, 1, 5, 12>>
HmacSha256 == <<1, 2, 840, 113549, 2, 9>>
Aes256Cbc == <<2, 16, 840, 1, 101, 3, 4, 1, 42>>
Iterations == 600000

encryptedPrivateKeyInfo(ciphertext, salt, iv) ==
    LET pbkdf2Parameters == derSequence(<<derOctets(salt), derInteger(Iterations),
                                          derSequence(<<derOid(HmacSha256), der(5, <<>>)>>)>>)
        kdf == derSequence(<<derOid(Pbkdf2Oid), pbkdf2Parameters>>)
        cipher == derSequence(<<derOid(Aes256Cbc), derOctets(iv)>>)
        algorithm == derSequence(<<derOid(Pbes2), derSequence(<<kdf, cipher>>)>>)
    IN derSequence(<<algorithm, derOctets(ciphertext)>>)

-----------------------------------------------------------------------------
(* Reading DER.  item returns [ok, v, l]: the value, and what is left.     *)
(* Where the code reads a length past the end it goes on with NaN, which   *)
(* the next item or done of that reader refuses: the model refuses it here. *)

Bad == [ok |-> FALSE, v |-> <<>>, l |-> <<>>]
item(tag, s) ==
    LET count == IF s[2] >= 128 THEN s[2] - 128 ELSE 0
        length == IF s[2] < 128 THEN s[2] ELSE NumberOf(SubSeq(s, 3, 2 + count))
        from == 3 + count
    IN IF Len(s) < 2 THEN Bad
       ELSE IF s[1] # tag \/ (s[2] >= 128 /\ count \notin 1 .. 4) \/ Len(s) < 2 + count THEN Bad
       ELSE IF from + length - 1 > Len(s) THEN Bad
       ELSE [ok |-> TRUE, v |-> SubSeq(s, from, from + length - 1), l |-> SubSeq(s, from + length, Len(s))]

oid(bytes) ==
    FoldLeft(LAMBDA a, b : IF b < 128 THEN [out |-> Append(a.out, a.current * 128 + b), current |-> 0]
                           ELSE [a EXCEPT !.current = @ * 128 + (b - 128)],
             [out |-> <<bytes[1] \div 40, bytes[1] % 40>>, current |-> 0], Tail(bytes)).out
IsOid(bytes, expected) == bytes # <<>> /\ oid(bytes) = expected
Done(rest) == rest = <<>>

\* An item is read as a value, or as the items that it must consist of.
Value(tag) == [tag |-> tag, items |-> <<>>]
Sequence(items) == [tag |-> 48, items |-> items]

\* The values v of the items that s consists of.
RECURSIVE Items(_, _)
Items(shape, s) ==
    IF shape = <<>> THEN [ok |-> Done(s), v |-> <<>>]
    ELSE LET first == item(Head(shape).tag, s)
             inner == IF Head(shape).items = <<>> THEN [ok |-> TRUE, v |-> <<first.v>>]
                      ELSE Items(Head(shape).items, first.v)
             rest == Items(Tail(shape), first.l)
         IN [ok |-> first.ok /\ inner.ok /\ rest.ok, v |-> inner.v \o rest.v]

\* A size of the key may stand between the iterations and the hash.
Pbkdf2Items(size) == <<Value(4), Value(2)>> \o size \o <<Sequence(<<Value(6), Value(5)>>)>>
Info(size) ==
    <<Sequence(<<Value(6), Sequence(<<Sequence(<<Value(6), Sequence(Pbkdf2Items(size))>>),
                                      Sequence(<<Value(6), Value(4)>>)>>)>>), Value(4)>>

Parsed(read, size, v) ==
    IF /\ read /\ size = 32
       /\ IsOid(v[1], Pbes2) /\ IsOid(v[2], Pbkdf2Oid) /\ IsOid(v[5], HmacSha256) /\ IsOid(v[7], Aes256Cbc)
       /\ Len(v[3]) >= 8 /\ NumberOf(v[4]) \in 1000 .. 10000000 /\ Done(v[6]) /\ Len(v[8]) = 16
    THEN Ok([salt |-> v[3], iterations |-> NumberOf(v[4]), iv |-> v[8], ciphertext |-> v[9]])
    ELSE Error

\* What stands after the one item of bytes is not looked at.
parseEncryptedPrivateKeyInfo(bytes) ==
    LET outer == item(48, bytes).v
        sized(r) == Parsed(r.ok, NumberOf(r.v[5]), SubSeq(r.v, 1, 4) \o SubSeq(r.v, 6, 10))
        plain(r) == Parsed(r.ok, 32, r.v)
    IN IF Items(Info(<<Value(2)>>), outer).ok THEN sized(Items(Info(<<Value(2)>>), outer))
       ELSE plain(Items(Info(<<>>), outer))

-----------------------------------------------------------------------------
(* identity.pem: the lines between the two labels *)

pemToDer(pem) == fromBase64(FlattenSeq(pem))

exportEncryptedPem(pkcs8, passphrase, salt, iv) ==
    IF Len(passphrase) < 12 THEN Error
    ELSE LET key == Derived(passphrase, salt, Iterations)
         IN Ok(Chunks(toBase64(encryptedPrivateKeyInfo(Encrypt(key, iv, pkcs8), salt, iv)), LineLen))
Opened(p, passphrase) ==
    IF passphrase = <<>> \/ ~p.ok THEN Error
    ELSE Decrypt(Derived(passphrase, p.value.salt, p.value.iterations), p.value.iv, p.value.ciphertext)
importEncryptedPem(pem, passphrase) ==
    LET bytes == pemToDer(pem)
    IN IF bytes.ok THEN Opened(parseEncryptedPrivateKeyInfo(bytes.value), passphrase) ELSE Error
=============================================================================

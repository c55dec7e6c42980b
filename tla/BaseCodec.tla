----------------------------- MODULE BaseCodec -----------------------------
(***************************************************************************)
(* The codecs of the wallet bundle (web/wallet.js, @scure/base and bip39): *)
(* digits from one radix to another by long division (Base58), groups of   *)
(* bits regrouped (mnemonics), checksums, and the BIP-39 coder made of     *)
(* them.  A codec raises or returns: the result is [ok, value].            *)
(***************************************************************************)
EXTENDS Integers, Sequences

CONSTANT Hash(_)      \* the checksum hash, from bytes to bytes: SHA-256, once or twice

Ok(v) == [ok |-> TRUE, value |-> v]
Error == [ok |-> FALSE, value |-> <<>>]

-----------------------------------------------------------------------------
(* convertRadix: from and to at least 2 *)

\* A pass of the long division, over the digits from pos on: the quotient, what is left,
\* whether the quotient is zero, and the last of the zeros it begins with.
Carries(p, from, to) ==
    LET carry[i \in 0 .. Len(p.digits)] ==
          IF i < p.pos THEN 0 ELSE (from * carry[i - 1] + p.digits[i]) % to
    IN carry
Pass(p, from, to) ==
    LET carry == Carries(p, from, to)
        quotient == [i \in 1 .. Len(p.digits) |->
                        IF i < p.pos THEN p.digits[i] ELSE (from * carry[i - 1] + p.digits[i]) \div to]
        zeros == {i \in p.pos .. Len(p.digits) : \A j \in p.pos .. i : quotient[j] = 0}
    IN [digits |-> quotient, carry |-> carry[Len(p.digits)], done |-> zeros = p.pos .. Len(p.digits),
        pos |-> IF zeros = {} THEN p.pos ELSE CHOOSE i \in zeros : \A j \in zeros : j <= i]

\* The passes, one on the quotient of another.  None is needed after as many as this:
\* a digit is worth fewer bits than the radix.
MostPasses(data, from) == from * Len(data)
Passes(data, from, to) ==
    LET pass[n \in 0 .. MostPasses(data, from)] ==
          IF n = 0 THEN [digits |-> data, carry |-> 0, done |-> FALSE, pos |-> 1]
          ELSE Pass(pass[n - 1], from, to)
    IN pass
Needed(passes) == CHOOSE n \in DOMAIN passes : passes[n].done /\ \A m \in 0 .. n - 1 : ~passes[m].done

\* The zeros in front, but for the last digit.
LeadingZeros(data) ==
    CHOOSE n \in 0 .. Len(data) - 1 : (\A i \in 1 .. n : data[i] = 0) /\ (n = Len(data) - 1 \/ data[n + 1] # 0)

\* The digits are what the passes left, the last one first, behind the zeros in front.
Converted(data, from, to) ==
    LET passes == Passes(data, from, to)
        n == Needed(passes)
        zeros == LeadingZeros(data)
    IN [i \in 1 .. zeros + n |-> IF i <= zeros THEN 0 ELSE passes[zeros + n + 1 - i].carry]
convertRadix(data, from, to) ==
    IF data = <<>> THEN Ok(<<>>)
    ELSE IF \E i \in DOMAIN data : data[i] \notin 0 .. from - 1 THEN Error
    ELSE Ok(Converted(data, from, to))

\* What a number says, most significant digit first.
Values(digits, base) ==
    LET value[i \in 0 .. Len(digits)] == IF i = 0 THEN 0 ELSE value[i - 1] * base + digits[i]
    IN value
ValueOf(digits, base) == Values(digits, base)[Len(digits)]

-----------------------------------------------------------------------------
(* convertRadix2: groups of bits *)

Two(n) == LET power[i \in 0 .. n] == IF i = 0 THEN 1 ELSE 2 * power[i - 1] IN power[n]

\* The bits of n behind those of the carry: whole groups are taken from the top.
Regroup(a, n, from, to) ==
    LET carry == a.carry * Two(from) + n
        pos == a.pos + from
    IN [ok |-> a.ok /\ n \in 0 .. Two(from) - 1 /\ pos <= 32,
        carry |-> carry % Two(pos % to), pos |-> pos % to,
        res |-> a.res \o [j \in 1 .. pos \div to |-> (carry \div Two(pos - j * to)) % Two(to)]]
Regrouped(data, from, to) ==
    LET a[i \in 0 .. Len(data)] ==
          IF i = 0 THEN [ok |-> TRUE, carry |-> 0, pos |-> 0, res |-> <<>>]
          ELSE Regroup(a[i - 1], data[i], from, to)
    IN a

\* What is left over: padded with zeros when asked, or it has to be short and zero.
convertRadix2(data, from, to, padding) ==
    LET a == Regrouped(data, from, to)[Len(data)]
        last == (a.carry * Two(to - a.pos)) % Two(to)
    IN IF ~a.ok \/ (~padding /\ (a.pos >= from \/ last > 0)) THEN Error
       ELSE Ok(IF padding /\ a.pos > 0 THEN Append(a.res, last) ELSE a.res)

-----------------------------------------------------------------------------
(* alphabet and checksum *)

Letter(d) == [letter |-> d]
AlphabetEncode(digits, size) ==
    IF \A i \in DOMAIN digits : digits[i] \in 0 .. size - 1
    THEN Ok([i \in DOMAIN digits |-> Letter(digits[i])]) ELSE Error
AlphabetDecode(letters, size) ==
    IF \A i \in DOMAIN letters : \E d \in 0 .. size - 1 : letters[i] = Letter(d)
    THEN Ok([i \in DOMAIN letters |-> CHOOSE d \in 0 .. size - 1 : letters[i] = Letter(d)]) ELSE Error

ChecksumEncode(data, sum) == Ok(data \o sum)
\* data.slice(0, -len), data.slice(-len); len is at least 1, since -0 is no place from the end.
Payload(data, len) == SubSeq(data, 1, Len(data) - len)
ChecksumDecode(data, len, sum) ==
    IF Len(data) >= len /\ sum = SubSeq(data, Len(data) - len + 1, Len(data))
    THEN Ok(Payload(data, len)) ELSE Error

\* chain: the next codec is used when the one before has returned.
Then(r, Codec(_)) == IF r.ok THEN Codec(r.value) ELSE Error

-----------------------------------------------------------------------------
(* base58 and base58check, over an alphabet of any size *)

Base58Encode(bytes, base, size) ==
    Then(convertRadix(bytes, base, size), LAMBDA d : AlphabetEncode(d, size))
Base58Decode(letters, base, size) ==
    Then(AlphabetDecode(letters, size), LAMBDA d : convertRadix(d, size, base))

SumOf(len, data) == SubSeq(Hash(data), 1, len)
Base58CheckEncode(bytes, len, base, size) ==
    Then(ChecksumEncode(bytes, SumOf(len, bytes)), LAMBDA b : Base58Encode(b, base, size))
Base58CheckDecode(letters, len, base, size) ==
    Then(Base58Decode(letters, base, size),
         LAMBDA b : ChecksumDecode(b, len, SumOf(len, Payload(b, len))))

-----------------------------------------------------------------------------
(* BIP-39 *)

WordBits == 11
Words == 2048
EntropyLengths == {16, 20, 24, 28, 32}
MnemonicLengths == {12, 15, 18, 21, 24}

\* A byte with the first Len(entropy) / 4 bits of the hash.
\* Mutant: a checksum of four bits for every length.
calcChecksumOfFour(entropy) == <<(Hash(entropy)[1] \div 16) * 16>>
calcChecksum(entropy) ==
    LET bitsLeft == 8 - Len(entropy) \div 4
    IN <<(Hash(entropy)[1] \div Two(bitsLeft)) * Two(bitsLeft)>>

entropyToMnemonic(entropy) ==
    IF Len(entropy) \notin EntropyLengths THEN Error
    ELSE Then(Then(ChecksumEncode(entropy, calcChecksum(entropy)),
                   LAMBDA b : convertRadix2(b, 8, WordBits, FALSE)),
              LAMBDA d : AlphabetEncode(d, Words))

mnemonicToEntropy(words) ==
    IF Len(words) \notin MnemonicLengths THEN Error
    ELSE LET decoded == Then(Then(AlphabetDecode(words, Words),
                                  LAMBDA d : convertRadix2(d, WordBits, 8, TRUE)),
                             LAMBDA b : ChecksumDecode(b, 1, calcChecksum(Payload(b, 1))))
         IN IF decoded.ok /\ Len(decoded.value) \in EntropyLengths THEN decoded ELSE Error

validateMnemonic(words) == mnemonicToEntropy(words).ok

-----------------------------------------------------------------------------
(* What is to be *)

\* The digits say the same number, and the text gives the bytes back, with a checksum too
\* (web/wallet.js:913-1081).
TextMatches(bytes, from, to, len) ==
    /\ ValueOf(convertRadix(bytes, from, to).value, to) = ValueOf(bytes, from)
    /\ Base58Decode(Base58Encode(bytes, from, to).value, from, to) = Ok(bytes)
    /\ Base58CheckDecode(Base58CheckEncode(bytes, len, 256, 58).value, len, 256, 58) = Ok(bytes)

\* BIP-39: the bits of the entropy and the first bits of its hash, eleven to a word.
BitsOf(bytes) == [i \in 1 .. 8 * Len(bytes) |-> (bytes[((i - 1) \div 8) + 1] \div Two(7 - ((i - 1) % 8))) % 2]
AllBits(entropy) == BitsOf(entropy) \o SubSeq(BitsOf(Hash(entropy)), 1, Len(entropy) \div 4)
WordOf(bits, w) == ValueOf(SubSeq(bits, (w - 1) * WordBits + 1, w * WordBits), 2)
MnemonicOf(entropy) ==
    [w \in 1 .. Len(AllBits(entropy)) \div WordBits |-> Letter(WordOf(AllBits(entropy), w))]

\* The mnemonic is the entropy's and gives it back (web/wallet.js:1083-1135).
MnemonicMatches(entropy) ==
    /\ entropyToMnemonic(entropy) = Ok(MnemonicOf(entropy))
    /\ mnemonicToEntropy(MnemonicOf(entropy)) = Ok(entropy)
    /\ ~validateMnemonic(Tail(MnemonicOf(entropy)))

\* Words are accepted only as the mnemonic of what they give (web/wallet.js:1113-1131).
PhraseMatches(words) ==
    validateMnemonic(words) => words = MnemonicOf(mnemonicToEntropy(words).value)
=============================================================================

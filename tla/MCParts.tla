------------------------------ MODULE MCParts ------------------------------
(***************************************************************************)
(* The parts that stand alone, on small instances.  A behaviour picks one  *)
(* of them and its inputs: of module Algorithms, or of the curves,         *)
(* signatures and the identity file, evaluated in the state that has their *)
(* inputs; the wallet panel, the rate limiter and the GitHub verifier are  *)
(* state machines.                                                         *)
(***************************************************************************)
EXTENDS Integers, Sequences, FiniteSets, SequencesExt, WalletPanel, RateLimiter,
        GitHubVerifier, Algorithms, TLC

CONSTANTS client1, client2, r1, r2

MCSymmetry == Permutations(Client) \cup Permutations(Repo)

\* Words that look like nothing in particular.
Scrambled(w, n) == {b \in 0 .. w - 1 : ((n * 7919 + b * b * 104729 + n * b * 31 + n * n * 17) % 1009) % 2 = 0}
MCHash(bytes) == LET v == FoldLeft(LAMBDA h, b : (h * 31 + b + 7) % 65521, 1, bytes)
                 IN <<v % 256, v \div 256, (v * 3) % 256, (v * 7) % 256>>
Field(P) == INSTANCE PrimeField
\* y^2 = x^3 + 7 over 43 elements: 31 points, and the endomorphism of secp256k1.
MCEndo == [beta |-> 36, a1 |-> 1, b1 |-> -5, a2 |-> 6]
Curve == INSTANCE Ecdsa WITH P <- 43, A <- 0, B <- 7, N <- 31, NBits <- 5, Gx <- 2, Gy <- 12, Endo <- MCEndo
MCPrf(chain, data) == LET v == FoldLeft(LAMBDA h, b : (h * 31 + b + 11) % 9973, chain + 5, data)
                      IN [tweak |-> v % 13, chain |-> (v \div 13) % 7]
MCHash160(pub) == pub + 1
MCCase(address) == [i \in DOMAIN address |-> (address[i].digit * 5 + i * 3) % 16]
MCDerived(secret, salt, iterations) == <<secret, salt, iterations>>
PadTo16(s) == s \o [i \in 1 .. 16 - (Len(s) % 16) |-> 16 - (Len(s) % 16)]
MCPassphrase == [i \in 1 .. 12 |-> i]
MCEncrypt(key, iv, plain) == PadTo16(plain)
MCDecrypt(key, iv, cipher) ==
    IF key[1] = MCPassphrase THEN [ok |-> TRUE, value |-> SubSeq(cipher, 1, Len(cipher) - Last(cipher))]
    ELSE [ok |-> FALSE, value |-> <<>>]
Identity == INSTANCE IdentityCodec WITH KeyLen <- 1, LineLen <- 64, Derived <- MCDerived,
                Encrypt <- MCEncrypt, Decrypt <- MCDecrypt

-----------------------------------------------------------------------------
(* The inputs of module Algorithms: messages of up to nine bytes in three   *)
(* calls of update, keys of every depth, and the seeds of paths             *)

Message(n) == [i \in 1 .. n |-> {<<"byte", i>>}]
Password(n) == [i \in 1 .. n |-> {<<"key", i>>}]
MCByte == {{<<kind, i>>} : kind \in {"byte", "key"}, i \in 1 .. 9}
Pieces(msg, i, j) == <<SubSeq(msg, 1, i), SubSeq(msg, i + 1, j), SubSeq(msg, j + 1, Len(msg))>>
Cuts == {t \in (0 .. 9) \X (0 .. 9) \X (0 .. 9) : t[2] <= t[3] /\ t[3] <= t[1]}
MCUpdates == {Pieces(Message(t[1]), t[2], t[3]) : t \in Cuts}
MCKeyRequests == [password : {Password(n) : n \in {0, 1, 3, 4, 5, 9}}, salt : {Message(n) : n \in {0, 2, 3, 4}},
                  c : 1 .. 3, dkLen : 1 .. 5]
MCShaConstants == [i \in 1 .. 18 |-> Scrambled(16, i)]
MCShaRotations == [s0 |-> <<1, 3, 2>>, s1 |-> <<5, 15, 2>>, S1 |-> <<3, 5, 10>>, S0 |-> <<7, 9, 10>>]
MCCompressions == {[v |-> [i \in 1 .. 8 |-> Scrambled(16, x * 50 + i)],
                    block |-> [i \in 1 .. 16 |-> IF x = 0 THEN 0 .. 15 ELSE Scrambled(16, x * 50 + 20 + i)]] : x \in 0 .. 7}
MCKeccakStates == {[p \in 0 .. 49 |-> IF x = 0 THEN {} ELSE Scrambled(32, x * 50 + p)] : x \in 0 .. 3}
MCKeys == {Key(k, None, c, d, IF d = 0 THEN 0 ELSE 1, IF d = 0 THEN 0 ELSE 2) : k \in 1 .. 10, c \in 0 .. 6, d \in {0, 1, 5}}
MCSeeds == (1 .. 9) \X (1 .. 9)
Nibbles == <<10, 3, 15, 0, 11>>
MCAddresses == {[i \in DOMAIN Nibbles |-> [digit |-> (Nibbles[i] + x) % 16, upper |-> i \in upper]]
                : x \in 0 .. 9, upper \in {{}, {1, 3}}}
MCTexts == [bytes : BoundedSeq(0 .. 5, 4), from : {6}, to : {4}, sum : {4}]
Entropy(n, x) == [i \in 1 .. n |-> IF x = 0 THEN 0 ELSE IF x = 1 THEN 255 ELSE (i * i * 37 + x * 91 + i * x) % 256]
MCEntropies == {Entropy(n, x) : n \in Codecs!EntropyLengths, x \in 0 .. 5}
\* Mnemonics with one of their words changed, also to one that is not in the list.
Tampered(words) == {[words EXCEPT ![at] = Codecs!Letter(d)] : at \in {1, 2, Len(words)}, d \in {0, 1, 1024, 2047, 2048}}
MCPhrases == UNION {Tampered(Codecs!MnemonicOf(entropy)) : entropy \in MCEntropies}

-----------------------------------------------------------------------------
(* The permutation of zeros *)

\* F1258F7940E1DDE7, the first lane of what FIPS 202 makes of zeros.
KnownNibbles == <<15, 1, 2, 5, 8, 15, 7, 9, 4, 0, 14, 1, 13, 13, 14, 7>>
KnownLane == {b \in 0 .. 63 : (KnownNibbles[16 - (b \div 4)] \div 2 ^ (b % 4)) % 2 = 1}

\* The permutation makes the known answer of zeros (web/wallet.js:5235-5299).
KnownAnswer ==
    run.task = "keccak" /\ run.round = 24 /\ (\A p \in 0 .. 49 : run.start[p] = {}) =>
        Sha3!LaneAt(run.s, 0, 0) = KnownLane

-----------------------------------------------------------------------------
(* Fields and the curve *)

FieldInputs == UNION {{[task |-> "field", p |-> p, a |-> a] : a \in 0 .. p - 1} : p \in {3, 7, 13, 17, 29, 41, 43}}
PowerOf(p, a, e) == LET power[n \in 0 .. e] == IF n = 0 THEN 1 ELSE (power[n - 1] * a) % p IN power[e]

\* Every element but zero has its inverse, alone and in a batch with zeros; powers
\* are repeated products; a square root is returned for squares only and is one, for
\* primes of every residue; and the chain of squarings of secp256k1's square root
\* raises to (p + 1) / 4 (web/wallet.js:3419-3687, 4810-4835).
FieldLaws ==
    run.task = "field" =>
        LET p == run.p
            a == run.a
            others == <<a, 0, (a + 1) % p, a>>
            batch == Field(p)!invertBatch(others)
            square == \E b \in 0 .. p - 1 : (b * b) % p = a
        IN /\ (a = 0) = (Field(p)!inv(a) = -1)
           /\ a # 0 => (a * Field(p)!inv(a)) % p = 1
           /\ \A i \in DOMAIN others : batch[i] = Field(p)!inv(others[i])
           /\ \A e \in {0, 1, 2, 3, p - 2, p - 1, p} : Field(p)!pow(a, e) = PowerOf(p, a, e)
           /\ \A root \in {Field(p)!sqrt(a), Field(p)!tonelliShanks(a)} :
                 IF square THEN (root * root) % p = a ELSE root = -1
           /\ Field(p)!sqrtModExponent = Field(p)!QuarterOfSecp256k1

Generator == Curve!FromAffine([x |-> 2, y |-> 12])
AllPoints == Curve!CurvePoints \cup {Curve!Infinity}
AddInputs == [task : {"add"}, p : AllPoints, q : AllPoints, z : {1, 5}]
MulInputs == [task : {"mul"}, p : Curve!CurvePoints, k : 1 .. 30]
MsmInputs == [task : {"msm"}, p : {[x |-> 2, y |-> 12], [x |-> 2, y |-> 31]}, k : {0, 1, 4, 17, 30}, l : 0 .. 30]

\* The complete formulas add and double points as the chord and the tangent do, with
\* no exception; multiplication by windows of every size and by the endomorphism, and
\* the sum of several multiples, are repeated addition; and an encoded point is
\* decoded to itself (web/wallet.js:3689-3912, 4054-4450).
GroupLaw ==
    /\ run.task = "add" =>
          LET p == Curve!Scaled(run.p, run.z)
              q == Curve!Scaled(run.q, 7)
          IN /\ Curve!AffineOf(Curve!Add(p, q)) = Curve!Plus(run.p, run.q)
             /\ Curve!AffineOf(Curve!Double(p)) = Curve!Plus(run.p, run.p)
             /\ Curve!Equals(p, q) = (run.p = run.q)
    /\ run.task = "mul" =>
          LET p == Curve!Scaled(run.p, 3)
              product == Curve!Times(run.k, run.p)
          IN /\ \A w \in 1 .. 3 : Curve!AffineOf(Curve!Multiply(p, run.k, w)) = product
             /\ Curve!AffineOf(Curve!MultiplyUnsafe(p, run.k, 1)) = product
             /\ \A compressed \in BOOLEAN :
                   LET bytes == Curve!ToRawBytes(p, compressed)
                   IN Curve!OnCurve(bytes) /\ Curve!AffineOf(Curve!FromHex(bytes)) = run.p
    /\ run.task = "msm" =>
          Curve!AffineOf(Curve!pippenger(<<Curve!Scaled(run.p, 2), Generator, Generator>>, <<run.k, run.l, 3>>))
              = Curve!Plus(Curve!Times(run.k, run.p), Curve!Times((run.l + 3) % 31, [x |-> 2, y |-> 12]))

-----------------------------------------------------------------------------
(* Signatures *)

SignInputs == [task : {"sign"}, m : {0, 1, 15, 30, 31}, d : {1, 7, 30}, k : {0} \cup 2 .. 30]
DerNumbers == {1, 2, 127, 128, 255, 256, 32767, 32768, 65535, 8388607, 8388608, 2147483647}
DerInputs == [task : {"der"}, r : DerNumbers, s : DerNumbers]
TlvInputs == [task : {"tlv"}, n : {0, 1, 126, 127, 128, 129, 255, 256, 257}]

SignedBy(sig, key, lowS) ==
    /\ sig # Curve!NoSignature
    /\ lowS => ~Curve!HighS(sig)
    /\ \A form \in {sig, [sig EXCEPT !.s = 31 - @]}, strict \in BOOLEAN :
          Curve!verify(form, run.m, key, strict) = (strict => ~Curve!HighS(form))
    /\ Curve!recoverPublicKey(sig, run.m) = Curve!AffineOf(Curve!FromHex(key))
Peer == (run.m % 30) + 1

\* What was signed is verified under its key and the key is recovered from it, with
\* the other value of s only when that is allowed; both sides of a shared secret agree;
\* DER gives back the numbers it was given and no prefix and no extension of it is
\* taken for a signature, nor a value across the lengths that need one byte more
\* (web/wallet.js:3951-4040, 4468-4785).
SignaturesVerify ==
    /\ run.task = "sign" =>
          \A key \in {Curve!GetPublicKey(run.d)}, peerKey \in {Curve!GetPublicKey(Peer)} :
             /\ \A lowS \in BOOLEAN : \A sig \in {Curve!sign(run.m, run.d, <<run.k, 3, 5, 8>>, lowS)} :
                   SignedBy(sig, key, lowS)
             /\ Curve!Shared(run.d, peerKey) = Curve!Shared(Peer, key)
    /\ run.task = "der" =>
          LET bytes == Curve!hexFromSig(run.r, run.s)
          IN /\ Curve!toSig(bytes) = [ok |-> TRUE, r |-> run.r, s |-> run.s]
             /\ \A n \in 0 .. Len(bytes) - 1 : ~Curve!toSig(SubSeq(bytes, 1, n)).ok
             /\ ~Curve!toSig(Append(bytes, 0)).ok
    /\ run.task = "tlv" =>
          LET data == [i \in 1 .. run.n |-> i % 7]
              bytes == Curve!tlvEncode(4, data)
          IN /\ Curve!tlvDecode(4, bytes \o <<1, 2>>) = [ok |-> TRUE, v |-> data, l |-> <<1, 2>>]
             /\ \A n \in 0 .. Len(bytes) - 1 : ~Curve!tlvDecode(4, SubSeq(bytes, 1, n)).ok

-----------------------------------------------------------------------------
(* The identity file *)

PemInputs == [task : {"pem"}, n : {0, 1, 15, 16, 47, 48, 64, 126, 140, 255, 256, 300}]
TextInputs == [task : {"text"}, bytes : BoundedSeq({0, 1, 57, 58, 200, 255}, 3)]
Salt == [i \in 1 .. 16 |-> (i * 31) % 256]
Iv == [i \in 1 .. 16 |-> 255 - i]

\* identity.pem gives the key back under its passphrase and under no other, whatever
\* the lengths in its DER, and no prefix of its DER is accepted; base64url gives its
\* bytes back, and refuses no text at all, a pad, and a character over a whole group;
\* base58 gives its bytes back, in the same text as the wallet's, and a DID its public
\* key (web/crypto.js:1-283).
IdentityRoundTrips ==
    /\ run.task = "pem" =>
          LET pkcs8 == [i \in 1 .. run.n |-> (i * 37 + 100) % 256]
              pem == Identity!exportEncryptedPem(pkcs8, MCPassphrase, Salt, Iv)
              bytes == Identity!pemToDer(pem.value).value
          IN /\ pem.ok
             /\ Identity!importEncryptedPem(pem.value, MCPassphrase) = Identity!Ok(pkcs8)
             /\ ~Identity!importEncryptedPem(pem.value, Append(MCPassphrase, 1)).ok
             /\ ~Identity!exportEncryptedPem(pkcs8, Tail(MCPassphrase), Salt, Iv).ok
             /\ \A n \in 0 .. Len(bytes) - 1 : ~Identity!parseEncryptedPrivateKeyInfo(SubSeq(bytes, 1, n)).ok
    /\ run.task = "text" =>
          LET letters == Identity!base58(run.bytes)
              text == Identity!base64url(run.bytes)
          IN /\ Identity!decodeBase64url(text) =
                    IF run.bytes = <<>> THEN Identity!Error ELSE Identity!Ok(run.bytes)
             /\ ~Identity!decodeBase64url(Append(text, Identity!PadChar)).ok
             /\ Len(text) % 4 = 0 => ~Identity!decodeBase64url(Append(text, 0)).ok
             /\ Identity!decodeBase58(letters) = Identity!Ok(run.bytes)
             /\ Codecs!Base58Encode(run.bytes, 256, 58) = Codecs!Ok([i \in DOMAIN letters |-> Codecs!Letter(letters[i])])
             /\ Len(run.bytes) = 1 =>
                   Identity!publicKeyFromDid(Identity!didFromPublicKey(run.bytes)) = Identity!Ok(run.bytes)

-----------------------------------------------------------------------------
(* Behaviours *)

OtherRuns ==
    UNION {FieldInputs, AddInputs, MulInputs, MsmInputs,
           SignInputs, DerInputs, TlvInputs, PemInputs, TextInputs}
EmptyGitHub == (\A n \in Name : owner[n] = Nobody) /\ holds = {} /\ ~tree.asked /\ tree.file = "absent"
Init ==
    /\ PanelInit /\ LimiterInit /\ VerifierInit
    /\ run \in {[task |-> "verifier"]} \cup
               IF EmptyGitHub THEN Runs \cup OtherRuns \cup {[task |-> "panel"], [task |-> "limiter"]} ELSE {}
Next ==
    \/ AlgorithmsNext /\ UNCHANGED <<panelVars, limiterVars, verifierVars>>
    \/ run.task = "panel" /\ PanelNext /\ UNCHANGED <<run, limiterVars, verifierVars>>
    \/ run.task = "limiter" /\ LimiterNext /\ UNCHANGED <<run, panelVars, verifierVars>>
    \/ run.task = "verifier" /\ VerifierNext /\ UNCHANGED <<run, panelVars, limiterVars>>
Spec == Init /\ [][Next]_<<run, panelVars, limiterVars, verifierVars>>
=============================================================================

----------------------------- MODULE Algorithms -----------------------------
(***************************************************************************)
(* The algorithms of the wallet bundle that need no more than their inputs *)
(* and a few sizes: hashes, their compression functions, the permutation   *)
(* of Keccak, derived keys, hierarchical keys and codecs.  A behaviour     *)
(* picks an algorithm and its inputs, and what has rounds goes on a round  *)
(* at a time.  The inputs are constants: small sets for TLC, and every set *)
(* of legal inputs in PartsProofs, for which the modules of the algorithms *)
(* are used with their theorems.                                           *)
(***************************************************************************)
EXTENDS HdKey

CONSTANTS
    HashBlock, HashOutput, LengthOffset,       \* of HashMD: BlockLen, OutputLen, PadOffset
    SpongeState, SpongeBlock, SpongeOutput,    \* of Keccak: StateLen, BlockLen, OutputLen
    ShaHalf, ShaRounds, ShaConstants, ShaRotations,      \* W, Rounds, K and R of Sha2
    Byte,
    Updates,             \* messages, each in the pieces given to update
    KeyRequests,         \* calls of pbkdf2
    Compressions,        \* hashes and the blocks that are put into them
    KeccakStates,
    ParentKeys, Seeds, Numbers, Addresses,
    Checksum(_),         \* Hash of BaseCodec
    Texts,               \* bytes, the radixes to convert from and to, the length of a checksum
    Entropies, Phrases   \* of mnemonics: bytes, and words that may be none of the list

VARIABLE run

Hashes == INSTANCE HashProofs WITH BlockLen <- HashBlock, OutputLen <- HashOutput, PadOffset <- LengthOffset
Sha == INSTANCE WordsProofs WITH W <- ShaHalf, Rounds <- ShaRounds, K <- ShaConstants, R <- ShaRotations,
                                 StateLen <- SpongeState, BlockLen <- SpongeBlock, OutputLen <- SpongeOutput
\* The permutation and the sponge have no use for the constants of the compression functions.
Sha3 == INSTANCE WordsProofs WITH W <- 32, Rounds <- 0, K <- <<>>, R <- <<>>,
                                  StateLen <- SpongeState, BlockLen <- SpongeBlock, OutputLen <- SpongeOutput
Codecs == INSTANCE CodecProofs WITH Hash <- Checksum

ASSUME AlgorithmsAssumption ==
    /\ HashBlock \in Nat \ {0} /\ HashOutput \in Nat \ {0} /\ LengthOffset \in 1 .. HashBlock
    /\ SpongeState \in Nat \ {0} /\ SpongeBlock \in 1 .. SpongeState /\ SpongeOutput \in Nat \ {0}
    /\ Sha!Width /\ Sha!Constants
    /\ N \in Nat /\ N > 1 /\ Offset \in Nat \ {0} /\ Depths \in Nat \ {0}
ASSUME InputsAssumption ==
    /\ Updates \subseteq Seq(Seq(Byte))
    /\ KeyRequests \subseteq [password : Seq(Byte), salt : Seq(Byte), c : Nat \ {0}, dkLen : Nat]
    /\ Compressions \subseteq [v : [1 .. 8 -> SUBSET Sha!Wide], block : [1 .. 16 -> SUBSET Sha!Wide]]
    /\ KeccakStates \subseteq Sha3!States
    /\ \A key \in ParentKeys : IsPrivateKey(key)
    /\ \A seed \in Seeds : Prf(None, seed).tweak \in Nat
    /\ Addresses \subseteq Seq([digit : 0 .. 15, upper : BOOLEAN])
    /\ \A t \in Texts : /\ t.from \in 2 .. 256 /\ t.to \in Nat \ {0, 1} /\ t.bytes \in Seq(0 .. t.from - 1)
                        /\ Checksum(t.bytes) \in Seq(0 .. 255) /\ t.sum \in 1 .. Len(Checksum(t.bytes))
    /\ \A entropy \in Entropies : /\ Len(entropy) \in Codecs!EntropyLengths /\ entropy \in Seq(0 .. 255)
                                   /\ Checksum(entropy) \in Seq(0 .. 255) \ {<<>>}
    /\ \A words \in Phrases : /\ words \in Seq([letter : Nat])
                               /\ Checksum(Codecs!mnemonicToEntropy(words).value) \in Seq(0 .. 255) \ {<<>>}

-----------------------------------------------------------------------------
(* Behaviours *)

Runs == UNION {
    [task : {"hash"}, pieces : Updates],
    [task : {"pbkdf2"}, request : KeyRequests],
    {[task |-> "sha2", wide |-> Sha!Start256(c.v, c.block),
      split |-> Sha!Start512(Sha!Halved(c.v), Sha!Halved(c.block))] : c \in Compressions},
    {[task |-> "keccak", start |-> s, s |-> s, lanes |-> Sha3!State(s), round |-> 0] : s \in KeccakStates},
    [task : {"hd"}, key : ParentKeys, index : Indexes],
    [task : {"path"}, seed : Seeds, purpose : Numbers, coin : Numbers],
    [task : {"address"}, address : Addresses, other : Addresses],
    [task : {"radix"}, text : Texts],
    [task : {"mnemonic"}, entropy : Entropies],
    [task : {"words"}, words : Phrases]}
\* The loop of SHA512.process, beside that of SHA256.process on whole words.
ShaRound ==
    /\ run.task = "sha2"
    /\ run.wide.i < ShaRounds
    /\ run' = [run EXCEPT !.wide = Sha!Step256(@), !.split = Sha!Step512(@)]
\* The loop of keccakP, beside the round of the standard.
KeccakRound ==
    /\ run.task = "keccak"
    /\ run.round < 24
    /\ run' = [run EXCEPT !.s = Sha3!KeccakRound(@, run.round),
                          !.lanes = Sha3!ReferenceRound(@, run.round), !.round = @ + 1]
AlgorithmsInit == run \in Runs
AlgorithmsNext == ShaRound \/ KeccakRound
AlgorithmsSpec == AlgorithmsInit /\ [][AlgorithmsNext]_run

-----------------------------------------------------------------------------
(* Properties *)

\* A message given to update in any pieces is padded and hashed as the standards say
\* it is as a whole, by SHA-2's buffer and by Keccak's sponge, also where the length
\* leaves no room for the padding (web/wallet.js:302-386, 5300-5405).
HashIsReference ==
    run.task = "hash" => Hashes!HashIsReference(run.pieces) /\ Sha3!HashIsReference(run.pieces)

\* The key is derived block by block as RFC 8018 says, with one HMAC cloned for
\* every iteration and a key longer than a block hashed first (web/wallet.js:238-281).
Pbkdf2IsReference ==
    run.task = "pbkdf2" =>
        Hashes!Pbkdf2IsReference(run.request.password, run.request.salt, run.request.c, run.request.dkLen)

\* SHA-512, on 64-bit words split in two halves of 32 with a carry between them, is
\* the compression function that SHA-256 computes on whole words, after every round
\* (web/wallet.js:423-457, 727-785).
SplitIsWhole == run.task = "sha2" => Sha!SplitIsWhole(run.wide, run.split)

\* The rounds on halves of lanes, carried from place to place, are the permutation of
\* FIPS 202 (web/wallet.js:5235-5299).
KeccakIsReference == run.task = "keccak" => Sha3!KeccakIsReference(run.s, run.lanes)

\* A public key derives the children of its private key and no hardened ones, also
\* where a child is invalid and the next one takes its place, up to the boundary of the
\* hardened indexes; an extended key gives its key back; and the wallet's address can be
\* derived from the account's public key, its letters in a case that only its digits
\* decide (web/wallet.js:5030-5230, 5437-5462).
PublicDerivationMatches ==
    /\ run.task = "hd" => ChildrenMatch(run.key, run.index)
    /\ run.task = "path" => AccountMatches(run.seed, run.purpose, run.coin)
    /\ run.task = "address" => CaseMatches(run.address, run.other)

\* Base58 and Base58Check give back the bytes they were given, zeros in front too,
\* and denote the same number; a mnemonic is the entropy and its checksum in groups of
\* eleven bits, it gives the entropy back, and words are accepted only when their
\* number and their checksum are right (web/wallet.js:880-1135).
CodecsRoundTrip ==
    /\ run.task = "radix" => Codecs!TextMatches(run.text.bytes, run.text.from, run.text.to, run.text.sum)
    /\ run.task = "mnemonic" => Codecs!MnemonicMatches(run.entropy)
    /\ run.task = "words" => Codecs!PhraseMatches(run.words)
=============================================================================

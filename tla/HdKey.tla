------------------------------- MODULE HdKey -------------------------------
(***************************************************************************)
(* Hierarchical keys of the wallet bundle (web/wallet.js, @scure/bip32),   *)
(* and the address wallet-source.js derives with them.                     *)
(*                                                                         *)
(* The group is that of module Points seen from its scalars: the public    *)
(* key of k is [point |-> k].  HMAC-SHA512 and HASH160 are operators.  A   *)
(* call that raises returns NoKey.                                         *)
(***************************************************************************)
EXTENDS Integers, Sequences

CONSTANTS
    N,               \* the order of the group, a prime
    Offset,          \* HARDENED_OFFSET: 2 ^ 31
    Depths,          \* 256: the depth is written in a byte
    Prf(_, _),       \* hmac(sha512, chainCode, data): [tweak, chain]
    Hash160(_),      \* a fingerprint of a public key, not zero
    AddressHash(_)   \* keccak_256 of an address, digit by digit

Indexes == 0 .. 2 * Offset - 1        \* toU32
None == -1
NoKey == [priv |-> None, pub |-> None, chain |-> None, depth |-> 0, index |-> 0, parent |-> 0]
PublicOf(k) == k % N                  \* getPublicKey: the scalar stands for its point
IsValidPrivateKey(k) == k \in 1 .. N - 1

\* The constructor: a key at depth zero has no index and no parent.
Key(priv, pub, chain, depth, index, parent) ==
    LET k == [priv |-> priv, pub |-> IF priv # None THEN PublicOf(priv) ELSE pub,
              chain |-> chain, depth |-> depth, index |-> index, parent |-> parent]
    IN IF (depth = 0 /\ (index # 0 \/ parent # 0)) \/ (priv # None /\ ~IsValidPrivateKey(priv)) THEN NoKey ELSE k

\* What the constructor makes of a private key, from a seed or from its parent.
IsPrivateKey(key) ==
    /\ key # NoKey /\ IsValidPrivateKey(key.priv) /\ key.depth \in 0 .. Depths - 1
    /\ key = Key(key.priv, None, key.chain, key.depth, key.index, key.parent)

fingerprint(key) == Hash160(key.pub)
fromMasterSeed(seed) == LET I == Prf(None, seed) IN Key(I.tweak, None, I.chain, 0, 0, 0)

\* wipePrivateData: what is left derives as a public key does.
Wiped(key) == [key EXCEPT !.priv = None]

-----------------------------------------------------------------------------
(* deriveChild *)

\* Mutant: the parent's private key is hashed whatever the index.
AlwaysPrivate(key, index) == <<key.priv, index>>
ChildData(key, index) == IF index >= Offset THEN <<None, key.priv, index>> ELSE <<key.pub, index>>

\* The key with the tweak added, in Z / N or in the group.
Child(key, I, index) ==
    LET added == (IF key.priv # None THEN key.priv + I.tweak ELSE key.pub + PublicOf(I.tweak)) % N
    IN IF added = 0 THEN NoKey       \* an invalid private key, or the point ZERO
       ELSE IF key.priv # None THEN Key(added, None, I.chain, key.depth + 1, index, fingerprint(key))
       ELSE Key(None, added, I.chain, key.depth + 1, index, fingerprint(key))

\* What the call raises for at index i.
Raises(key, i) ==
    \/ i \notin Indexes
    \/ i >= Offset /\ key.priv = None
    \/ ~IsValidPrivateKey(Prf(key.chain, ChildData(key, i)).tweak)
ChildAt(key, i) == Child(key, Prf(key.chain, ChildData(key, i)), i)

\* An invalid child is replaced by the next one, the hardened ones being next to the
\* last of the others: the call goes on until it raises or has a child.
Settled(key, i) == Raises(key, i) \/ ChildAt(key, i) # NoKey
FirstSettled(key, index) ==
    CHOOSE i \in index .. 2 * Offset : Settled(key, i) /\ \A j \in index .. i - 1 : ~Settled(key, j)
deriveChild(key, index) ==
    IF key = NoKey \/ index \notin Indexes \/ Raises(key, FirstSettled(key, index)) THEN NoKey
    ELSE ChildAt(key, FirstSettled(key, index))

\* derive: a path is a sequence of [number, hardened]; EVM_DERIVATION_PATH has five.
PathIndex(part) == IF part.hardened THEN part.number + Offset ELSE part.number
DeriveStep(key, part) == IF part.number >= Offset THEN NoKey ELSE deriveChild(key, PathIndex(part))
derive(key, path) ==
    LET along[n \in 0 .. Len(path)] == IF n = 0 THEN key ELSE DeriveStep(along[n - 1], path[n])
    IN along[Len(path)]

-----------------------------------------------------------------------------
(* Extended keys: the fields and the key, with a zero byte before a private *)
(* key; Base58Check is in module BaseCodec                                  *)

Versions == [private |-> "xprv", public |-> "xpub"]
serialize(version, key, bytes) ==
    [version |-> version, depth |-> key.depth % Depths, parent |-> key.parent, index |-> key.index,
     chain |-> key.chain, key |-> bytes]
privateExtendedKey(key) == serialize(Versions.private, key, <<0, key.priv>>)
publicExtendedKey(key) == serialize(Versions.public, key, <<2, key.pub>>)

fromExtendedKey(x) ==
    LET isPriv == x.key[1] = 0
        body == x.key[2]
    IN IF x.version # (IF isPriv THEN Versions.private ELSE Versions.public) THEN NoKey
       ELSE IF isPriv THEN Key(body, None, x.chain, x.depth, x.index, x.parent)
       ELSE Key(None, body, x.chain, x.depth, x.index, x.parent)

-----------------------------------------------------------------------------
(* wallet-source.js: checksumAddress gives each letter of an address the    *)
(* case that the hash of its lower-case form asks for                       *)

IsLetter(c) == c.digit >= 10
lower(address) == [i \in DOMAIN address |-> [address[i] EXCEPT !.upper = FALSE]]
checksumAddress(address) ==
    LET hash == AddressHash(lower(address))
    IN [i \in DOMAIN address |->
            [digit |-> address[i].digit, upper |-> IsLetter(address[i]) /\ hash[i] >= 8]]

\* walletFromMnemonic: the public key whose hash is the address.
EVM_DERIVATION_PATH(purpose, coin) ==
    <<[number |-> purpose, hardened |-> TRUE], [number |-> coin, hardened |-> TRUE],
      [number |-> 0, hardened |-> TRUE], [number |-> 0, hardened |-> FALSE], [number |-> 0, hardened |-> FALSE]>>
walletPublicKey(seed, path) == derive(fromMasterSeed(seed), path).pub

-----------------------------------------------------------------------------
(* What derivation is to give *)

\* A public key derives the children of its private key and no hardened ones, also where a
\* child is invalid and the next one takes its place, up to the boundary of the hardened
\* indexes; and an extended key gives its key back (web/wallet.js:5030-5230).
ChildrenMatch(key, index) ==
    LET child == deriveChild(key, index)
        public == deriveChild(Wiped(key), index)
    IN /\ public # NoKey => Wiped(child) = public
       /\ child # NoKey /\ child.index < Offset => Wiped(child) = public
       /\ index >= Offset => public = NoKey
       /\ fromExtendedKey(privateExtendedKey(key)) = key
       /\ fromExtendedKey(publicExtendedKey(key)) = Wiped(key)

\* The wallet's public key can be derived from the public part of its account, the third key
\* of its path, and is derived from nothing where the wallet has none
\* (web/wallet.js:5142-5187, 5437-5462).
AccountMatches(seed, purpose, coin) ==
    LET path == EVM_DERIVATION_PATH(purpose, coin)
        root == fromMasterSeed(seed)
        account == derive(root, SubSeq(path, 1, 3))
        leaf == derive(root, path)
        public == derive(Wiped(account), SubSeq(path, 4, 5))
    IN /\ leaf # NoKey /\ public # NoKey => public.pub = walletPublicKey(seed, path)
       /\ leaf = NoKey => public = NoKey

\* The case of a letter is decided by the digits of the address alone (web/wallet.js:5437-5462).
CaseMatches(address, other) ==
    lower(address) = lower(other) => checksumAddress(address) = checksumAddress(other)
=============================================================================

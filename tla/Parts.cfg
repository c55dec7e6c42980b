SPECIFICATION Spec
CONSTANTS
    client1 = client1
    client2 = client2
    r1 = r1
    r2 = r2
    Name = {"asked", "other"}
    Asked = "asked"
    Repo = {r1, r2}
    Nobody = "nobody"
    MaxChanges = 3
    Client = {client1, client2}
    MaxKeys = 1
    Limit = 2
    Window = 3
    MaxDelay = 1
    MaxTime = 5
    MaxRequests = 4
    MaxWallets = 2
    HashBlock = 4
    HashOutput = 2
    LengthOffset = 1
    SpongeState = 6
    SpongeBlock = 4
    SpongeOutput = 9
    ShaHalf = 8
    ShaRounds = 18
    ShaConstants <- MCShaConstants
    ShaRotations <- MCShaRotations
    N = 11
    Offset = 4
    Depths = 6
    Prf <- MCPrf
    Hash160 <- MCHash160
    AddressHash <- MCCase
    Byte <- MCByte
    Updates <- MCUpdates
    KeyRequests <- MCKeyRequests
    Compressions <- MCCompressions
    KeccakStates <- MCKeccakStates
    ParentKeys <- MCKeys
    Seeds <- MCSeeds
    Numbers = {0, 1, 2, 3, 4}
    Addresses <- MCAddresses
    Checksum <- MCHash
    Texts <- MCTexts
    Entropies <- MCEntropies
    Phrases <- MCPhrases
CHECK_DEADLOCK FALSE
SYMMETRY MCSymmetry
INVARIANTS
    HashIsReference
    Pbkdf2IsReference
    SplitIsWhole
    KeccakIsReference
    KnownAnswer
    CodecsRoundTrip
    FieldLaws
    GroupLaw
    SignaturesVerify
    PublicDerivationMatches
    IdentityRoundTrips
    PhraseNeedsReveal
    LimitHolds
    VerdictBacked

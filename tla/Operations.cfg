SPECIFICATION OpsSpec
CONSTANTS
    BlockSize <- MCRates
    WORD32_MAX = 7
    FirstCap = 2
    SizeMaxes = {7, 15}
    MaxOut = 12
    NoCtx = NoCtx
    None = None
    Free = Free
    NoIv = NoIv
    Garbage = Garbage
    DigestLen <- MCDigestLen
    FullLens <- MCFullLens
    HashLens <- MCHashLens
    MsgLens <- MCMsgLens
    SigLens <- MCSigLens
    CipherKeys <- MCCipherKeys
    MacKeys <- MCMacKeys
    PolicyAlgs <- MCPolicyAlgs
    SignKeys <- MCSignKeys
    SignRequests <- MCRequests
    TransportKeys <- MCTransportKeys
    KwAlgs <- MCKwAlgs
    KemAlgs <- MCKemAlgs
    KaAlgs <- MCKaAlgs
    Peers <- MCPeers
    HashOps = {"o1", "o2"}
    HashLocal = "local"
    HashBytes = {1}
    Cells = {"c1", "c2", "c3"}
    HashMaxLen = 2
    MacLens = {3, 4, 5, 7}
    MinTrunc = 4
    MacMaxLen = 1
    CipherAlgs <- MCCipherAlgs
    BlockLen = 3
    Ivs = {"i1", "i2"}
    CipherLens = {0, 1, 4, 6}
    CipherRooms = {0, 4, 9}
    CipherMaxLen = 6
    PolicyAlgs2 <- MCPolicyAlgs2
    UsageSets <- MCUsageSets
    WcHashes = {"SHA_256", "SHA_512"}
    MldsaHashes = {"SHA_256", "SHA3_256", "SHAKE256_512"}
    HashMax = 3
    PrehashLen = 3
    Labels = {"", "c", "long"}
    Ids = {1, 2}
    OutTypes = {"DERIVE", "ECC"}
    KeyRooms = {8, 32, 48}
    CtLen = 32
INVARIANTS
    TypeOK
    OneStream
    AbsorbedOnce
    InputFits
    AnswersExact
    HeapBalanced
    MacVerdictsExact
    MacKeyBuffersHeld
    CipherStreamKept
    CipherRoundTrip
    CopyNeverGains
    UsageCheckHonest
    SignatureVerdictsExact
    AsymmetricOutputsRight
    FreshAtUse
    CleanReturn
PROPERTIES
    OutputReturns
    CipherOneIv

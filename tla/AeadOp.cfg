SPECIFICATION Spec
CONSTANTS
    n1 = n1
    n2 = n2
    Algs <- MCAlgs
    Keys <- MCKeys
    Nonces = {n1, n2}
    CcmLimit <- MCCcmLimit
    Word32 = 2
    BS = 2
    TagLens = {1, 2}
    FullTag = 2
    AdLens = {0, 1}
    Lens = {0, 1, 3}
    Rooms = {0, 3}
    MaxAd = 2
    MaxLen = 3
    NoCtx = NoCtx
    NoNonce = NoNonce
    NoTag = NoTag
    Garbage = Garbage
    Nothing = Nothing
INVARIANTS
    TagCoversAll
    DecryptsExactly
    LengthsKept
PROPERTIES
    DeclaredLengths

SPECIFICATION Spec
CONSTANTS
    FullLen = NoMac
    Algs <- MCAlgs
    Algs2 = {}
    UsageSets = {{"COPY", "SIGN_HASH", "VERIFY_HASH"}, {"VERIFY_HASH"}}
INVARIANT
    EcdsaAnyApart

SPECIFICATION Spec
CONSTANTS
    NoCtx = NoCtx
    Setups <- MCSetups
    InputLens = {1, 2}
    KeyViews <- MCKeyViews
    OutputLens = {0, 1, 3}
    Capacities = {0, 3, 7}
    HashLen = 2
    MaxBlocks = 2
    PskMax = 1
    U16Max = 1
    Sp800Max = 6
    CacheMax = 4
    SizeMax = 7
INVARIANT
    KeyInputsPermitDerive

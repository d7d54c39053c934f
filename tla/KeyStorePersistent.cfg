SPECIFICATION Spec
CONSTANTS
    t1 = t1
    t2 = t2
    m1 = m1
    m2 = m2
    NoThread = NoThread
    NoKey = NoKey
    Threads <- MCThreads
    Material <- MCMaterial
    Granted <- MCGranted
    Asymmetric <- MCAsymmetric
    RequestIds = {1}
    VendorMin = 10
    VendorMax = 10
    Calls <- MCPersistentCalls
SYMMETRY ThreadSymmetry
INVARIANTS
    UsageWithinGrant
    AnswersTrue
PROPERTIES
    NoOverwrite

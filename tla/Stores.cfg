SPECIFICATION StoresSpec
CONSTANTS
    h1 = h1
    h2 = h2
    n1 = n1
    n2 = n2
    n3 = n3
    a = a
    b = b
    Ids = {1}
    Handles = {h1, h2}
    Chunks = {a, b}
    Inodes = {n1, n2, n3}
    MaxWrites = 2
    Uids = {1}
    Buffers <- ZephyrBuffers
    MaxLen = 3
    None = None
    Closed = Closed
SYMMETRY MCSymmetry
INVARIANTS
    StoreInv
    ReaderInv
PROPERTIES
    Atomic
    CloseTellsTheTruth
    StreamedWrites

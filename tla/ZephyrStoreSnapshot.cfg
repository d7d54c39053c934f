SPECIFICATION Spec
CONSTANTS
    a = a
    b = b
    Uids = {1}
    Handles = {h1, h2}
    Buffers <- MCBuffers
    MaxWrites = 1
    MaxLen = 3
    None = None
    Closed = Closed
INVARIANT
    WholeSnapshot

\* The scaled-down code: a 2-byte prefix, 3-bit usize, a first chunk of 2 bytes.
SPECIFICATION FairSpec
CONSTANTS
    LenBytes = 2
    Elements <- MCElements
    Chunk = 2
    Budget = 4
    MaxUsize = 7
    Lens = {0, 1, 2, 3, 5, 6, 7}
    MaxSrc = 10
    MaxInterrupts = 1
INVARIANTS
    TypeOK
    InOrder
    AllocBounded
PROPERTIES
    Implements
    Terminates

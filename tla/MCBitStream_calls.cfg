\* Every sequence of calls on every stream.
SPECIFICATION CSpec
CONSTANTS
    ByteBits = 2
    Buffers <- AllBuffers
    Arrays <- SomeArrays
    Counts <- AllCounts
    MaxBeyond = 1
INVARIANTS
    CTypeOK
    FlushInRange
    PutsKept
    TakenRight

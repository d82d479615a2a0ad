\* The same, for what is not so.
SPECIFICATION CSpec
CONSTANTS
    ByteBits = 2
    Buffers <- AllBuffers
    Arrays <- SomeArrays
    Counts <- AllCounts
    MaxBeyond = 1
INVARIANT
    PutsThere

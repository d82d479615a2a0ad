\* Each request in chunks cut in every way; the longest exceed the byte limit.
SPECIFICATION Spec
CONSTANTS
    Requests <- MCRequests
    ChunkMax = 24
    ByteCountMax = 21
\* A request may be all a client sends.
CHECK_DEADLOCK FALSE
INVARIANTS
    ChunkingIrrelevant
    FieldsComplete

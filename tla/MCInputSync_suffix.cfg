\* The stream goes on in packets with the longer suffix.
SPECIFICATION Spec
CONSTANTS
    Basic = 11
    Prefix = 1
    Suffix1 = 4
    Suffix2 = 5
    ErrorLimit = 4
    GivenSizes = {0}
    MaxShort = 0
    Tapes <- SuffixedTapes
\* The server stops at the end of its input.
CHECK_DEADLOCK FALSE
INVARIANTS
    SuffixDiscarded

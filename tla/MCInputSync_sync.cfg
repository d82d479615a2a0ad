\* Streams whole, damaged and with bytes missing; one read may come short.
SPECIFICATION Spec
CONSTANTS
    Basic = 11
    Prefix = 1
    Suffix1 = 4
    Suffix2 = 5
    ErrorLimit = 4
    GivenSizes = {0, 11, 12, 15, 16}
    MaxShort = 1
    Tapes <- EveryTape
\* The server stops at the end of its input.
CHECK_DEADLOCK FALSE
INVARIANTS
    PacketsForwarded
    LossBounded

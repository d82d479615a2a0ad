\* Streams of every packet size, whole, damaged, torn and behind garbage; the size
\* is detected, or is given as the basic one.
SPECIFICATION Spec
CONSTANTS
    Basic = 11
    Prefix = 1
    Suffixes <- MCSuffixes
    Detect = 8
    Limit = 8
    Tapes <- EveryTape
    GivenSizes = {0, 11}
\* The reader stops at the end of its input.
CHECK_DEADLOCK FALSE
INVARIANTS
    BytesInOrder
    PacketsIntact
    NothingHeldBack
    LossBounded

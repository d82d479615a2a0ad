\* A byte lost after the second packet.
SPECIFICATION FairSpec
CONSTANTS
    Basic = 11
    Prefix = 1
    Suffixes <- MCSuffixes
    Detect = 8
    Limit = 8
    Tapes <- StumbledTapes
    GivenSizes = {0}
\* The reader stops at the end of its input.
CHECK_DEADLOCK FALSE
PROPERTY
    ReadReturns

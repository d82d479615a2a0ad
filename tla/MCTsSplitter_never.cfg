\* A request that starts behind the end of the input.
SPECIFICATION Spec
CONSTANTS
    PacketLen = 2
    Second = 1
    Pcrs = {0, 1, 3}
    NoPcr = NoPcr
    Cases <- NeverBegun
\* The program exits at the end of its input.
CHECK_DEADLOCK FALSE
INVARIANTS
    IncompleteWarned

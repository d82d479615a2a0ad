\* Requests of every kind, templates, and devices that refuse to write at times.
SPECIFICATION Spec
CONSTANTS
    PacketLen = 2
    Second = 1
    Pcrs = {0, 1, 3}
    NoPcr = NoPcr
    Cases <- EveryCase
\* The program exits at the end of its input.
CHECK_DEADLOCK FALSE
INVARIANTS
    OutputsAsRequested
    WarnedRightly
    SegmentsOnDisk
    OneSegmentOpen
    SegmentsContinuous

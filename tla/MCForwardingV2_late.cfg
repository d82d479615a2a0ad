\* The same, for what is not so.
SPECIFICATION Spec
CONSTANTS
    ByteBits = 8
    SizeBasic = 20
    TimeCodePrefix = 1
    PcrRatio = 3
    Second = 2
    Packets <- CommonPackets
    FirstPackets <- All
    ContentOf <- Contents
    NoPcr = NoPcr
    PrefixOf <- OneEach
    MaxQueue = 2
    MaxRoom = 1
INVARIANT
    BrokenForwarded

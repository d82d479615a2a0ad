\* A packet of every layout on an idle server, and common ones, two in a queue, on a
\* client that strips them and one that does not.
SPECIFICATION Spec
CONSTANTS
    ByteBits = 8
    SizeBasic = 20
    TimeCodePrefix = 1
    PcrRatio = 3
    Second = 2
    Packets <- CommonPackets
    FirstPackets <- All
    ContentOf <- Contents
    NoPcr = NoPcr
    PrefixOf <- OneEach
    MaxQueue = 2
    MaxRoom = 1
INVARIANTS
    ParsedAsV1
    DamageBounded
    SoundNeverDropped
    StoreExact
    SentAtOnceAsRead
    FlagArrives

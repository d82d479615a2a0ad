\* Seconds of two ticks, and two and a half of them; readings of the clock up to
\* one tick apart.
SPECIFICATION FSpec
CONSTANTS
    Second = 2
    PCRSleep = TRUE
    MaxPcr = 5
    MaxClock = 5
    MaxLag = 1
    LengthBasic = 20
    TimeCodePrefix = 1
    PcrRatio = 3
    Packets <- Common
    FirstPackets <- All
    BytesOf <- Built
    Shapes <- Every
    Nothing = Nothing
INVARIANTS
    ForwardingTypeOK
    SleepBounded
    NeverEarly
    SentAsRead
    ParsedAsBuilt
    StepsFlagged
PROPERTIES
    BrakeImplemented

\* One connection that goes down just before the signal arrives.
SPECIFICATION FairSpec
CONSTANTS
    Conns = {c1}
    c1 = c1
    Chunks = {"get", "lost"}
    MaxPackets = 1
    MaxChunks = 1
    BufCap = 1
    SockCap = 1
CHECK_DEADLOCK FALSE
PROPERTY
    ExitsWhenNobodyLeft

\* Liveness of two connections; no symmetry, which liveness checking forbids.
SPECIFICATION FairSpec
CONSTANTS
    Conns = {c1, c2}
    c1 = c1
    c2 = c2
    Chunks = {"get", "lost"}
    MaxPackets = 1
    MaxChunks = 1
    BufCap = 1
    SockCap = 1
\* The process may exit.
CHECK_DEADLOCK FALSE
PROPERTIES
    Reclaimed
    ExitsWhenAllClosing
    PacketsDelivered

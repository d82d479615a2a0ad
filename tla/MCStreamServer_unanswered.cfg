\* One connection, every kind of request.
SPECIFICATION Spec
CONSTANTS
    Conns = {c1}
    c1 = c1
    Chunks = {"get", "head", "lost", "refused", "part", "post", "bad"}
    MaxPackets = 1
    MaxChunks = 1
    BufCap = 1
    SockCap = 1
CHECK_DEADLOCK FALSE
INVARIANT
    ResponseStarted

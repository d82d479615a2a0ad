\* Two connections and three packets; a socket and a send buffer of one unit, so
\* that header, packets, socket buffer and queue back up on each other.  More
\* chunks in one readyRead come to what one does.
SPECIFICATION Spec
CONSTANTS
    Conns = {c1, c2}
    c1 = c1
    c2 = c2
    Chunks = {"get", "head", "lost", "refused", "part", "post", "bad"}
    MaxPackets = 3
    MaxChunks = 1
    BufCap = 1
    SockCap = 1
SYMMETRY ConnSymmetry
\* The process may exit, and an idle server only waits for its peers.
CHECK_DEADLOCK FALSE
INVARIANTS
    TypeOK
    NoLostWakeup
    StreamIntact
    NothingForeign
    ListsAreExact
    GracefulExit
PROPERTIES
    ResponseWhole
    QueueIsBacklog
    ImplementsDelivery

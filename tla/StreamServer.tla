---------------------------- MODULE StreamServer ----------------------------
(***************************************************************************)
(* The event loop of streamserver-cvn-cli: HTTP::Server accepting and      *)
(* serving connections, StreamServer broadcasting the input's TS packets   *)
(* to its stream clients, and the shutdown that a signal or a failed       *)
(* reopening of the input starts.                                          *)
(*                                                                         *)
(* The program has one thread.  A handler the loop dispatches (a readyRead,*)
(* a bytesWritten, the input's notifier, a timer) is one action.  What is  *)
(* posted meanwhile - deleteLater() and the queued shutdown() - the loop   *)
(* later delivers in the order of posting, until nothing is left, before   *)
(* it dispatches again: `loop' says which of the two it is doing.  Peers   *)
(* and signals act at any time.                                            *)
(***************************************************************************)
EXTENDS HttpConnection, FiniteSets

CONSTANTS
    Conns,          \* the connections peers may open, each at most once
    Chunks,         \* the kinds of chunk these peers send
    MaxPackets,     \* bound: packets the input yields
    MaxChunks       \* bound: chunks of a peer that one readyRead finds

ASSUME ChunksAssumption == Chunks \subseteq Chunk
ASSUME BoundAssumption == MaxPackets \in Nat /\ MaxChunks \in Nat \ {0}

VARIABLES
    conn,           \* [Conns -> Connection], the objects of each connection
    httpClients,    \* HTTP::ServerPrivate::_clients
    streamClients,  \* StreamServer::_clients
    listening,      \* the listening socket is open
    shuttingDown,   \* StreamServer::_isShuttingDown
    signalled,      \* lastSigNum, never reset
    posted,         \* the posted events: a set per handler that posted any
    input,          \* the input file: open, waiting for its timer, or given up
    packets,        \* packets broadcast so far
    loop,           \* "events": dispatching; "posted": draining posted events
    app,            \* running; exiting (exit() called); forced; fatal (qFatal)
    peer,           \* each peer: not yet there, open, gone
    got             \* ghost: the units each peer has received

netVars    == <<peer, got>>
serverVars == <<listening, shuttingDown, signalled>>
listVars   == <<httpClients, streamClients>>
vars == <<conn, listVars, serverVars, posted, input, packets, loop, app, netVars>>

Objects      == {"ctx", "http", "stream"}
ShutdownCall == <<"shutdown">>
Event        == (Objects \X Conns) \cup {ShutdownCall}

TypeOK ==
    /\ conn \in [Conns -> Connection]
    /\ \A c \in Conns : WithinCaps(conn[c])
    /\ httpClients \subseteq Conns
    /\ streamClients \subseteq Conns
    /\ listening \in BOOLEAN
    /\ shuttingDown \in BOOLEAN
    /\ signalled \in BOOLEAN
    /\ posted \in Seq(SUBSET Event)
    /\ input \in {"open", "waiting", "closed"}
    /\ packets \in Nat
    /\ loop \in {"events", "posted"}
    /\ app \in {"running", "exiting", "forced", "fatal"}
    /\ peer \in [Conns -> {"away", "open", "gone"}]
    /\ got \in [Conns -> Seq(Unit)]

\* main() just before exec(): the input is open, the signals are set up.
Init ==
    /\ conn = [c \in Conns |-> NoConnection]
    /\ httpClients = {}
    /\ streamClients = {}
    /\ listening = TRUE
    /\ shuttingDown = FALSE
    /\ signalled = FALSE
    /\ posted = <<>>
    /\ input = "open"
    /\ packets = 0
    /\ loop = "events"
    /\ app = "running"
    /\ peer = [c \in Conns |-> "away"]
    /\ got = [c \in Conns |-> <<>>]

Dispatching == app = "running" /\ loop = "events"
Draining    == app \in {"running", "exiting"} /\ loop = "posted"

\* What the calls of deleteLater() in this step post.
Doomed(cs)    == {e \in Objects \X Conns : cs[e[2]][e[1]] = "doomed"}
NewlyDoomed   == Doomed(conn') \ Doomed(conn)
Post(q, batch) == IF batch = {} THEN q ELSE Append(q, batch)
PostDeletions == posted' = Post(posted, NewlyDoomed)

\* Deliver one event of the oldest batch.
Delivered(e) ==
    IF Head(posted) = {e} THEN Tail(posted)
    ELSE <<Head(posted) \ {e}>> \o Tail(posted)

-----------------------------------------------------------------------------
(***************************************************************************)
(* Peers and signals.                                                      *)
(***************************************************************************)

PeerClose(c) ==
    /\ app = "running"
    /\ peer[c] = "open"
    /\ peer' = [peer EXCEPT ![c] = "gone"]
    /\ UNCHANGED <<conn, listVars, serverVars, posted, input, packets, loop, app,
                   got>>

\* handleSignalShutdown: the first signal queues shutdown(); any later one
\* finds lastSigNum set and ends in qFatal.
Signal ==
    /\ app = "running"
    /\ signalled' = TRUE
    /\ IF signalled
         THEN app' = "fatal" /\ UNCHANGED posted
         ELSE posted' = Append(posted, {ShutdownCall}) /\ UNCHANGED app
    /\ UNCHANGED <<conn, listVars, listening, shuttingDown, input, packets,
                   loop, netVars>>

-----------------------------------------------------------------------------
(***************************************************************************)
(* Handlers of connection events.                                          *)
(***************************************************************************)

\* HTTP::Server::handleClientConnected.
ClientConnected(c) ==
    /\ Dispatching
    /\ listening
    /\ peer[c] = "away"
    /\ peer' = [peer EXCEPT ![c] = "open"]
    /\ conn' = [conn EXCEPT ![c] = Accepted]
    /\ httpClients' = httpClients \cup {c}
    /\ UNCHANGED <<streamClients, serverVars, posted, input, packets, loop, app,
                   got>>

\* readyRead: _receiveData on the chunks that have arrived.  What a peer sent
\* before it went away is still read.
ReadyRead(c) ==
    /\ Dispatching
    /\ conn[c].sock = "connected"
    /\ \E len \in 1 .. MaxChunks : \E s \in [1 .. len -> Chunks] :
         conn' = [conn EXCEPT ![c] = ReceiveData(@, s, packets)]
    /\ streamClients' = IF conn'[c].stream = "live" THEN streamClients \cup {c}
                                                    ELSE streamClients
    /\ PostDeletions
    /\ UNCHANGED <<httpClients, serverVars, input, packets, loop, app, netVars>>

\* Mutant of AfterWrite: nothing more is sent.
AfterWriteNoSend(k, n) ==
    LET s == [k EXCEPT !.wbuf = SubSeq(@, n + 1, Len(@))]
    IN  IF s.sock = "closing" /\ s.wbuf = <<>> THEN Disconnected(s) ELSE s

\* The kernel takes n units: bytesWritten calls sendData, and a socket that
\* was closing and has nothing left disconnects.
AfterWrite(k, n) ==
    LET s == SendData([k EXCEPT !.wbuf = SubSeq(@, n + 1, Len(@))])
    IN  IF s.sock = "closing" /\ s.wbuf = <<>> THEN Disconnected(s) ELSE s

BytesWritten(c) ==
    /\ Dispatching
    /\ peer[c] = "open"
    /\ conn[c].sock \in {"connected", "closing"}
    /\ \E n \in 1 .. Len(conn[c].wbuf) :
         /\ got' = [got EXCEPT ![c] = @ \o SubSeq(conn[c].wbuf, 1, n)]
         /\ conn' = [conn EXCEPT ![c] = AfterWrite(@, n)]
    /\ PostDeletions
    /\ UNCHANGED <<listVars, serverVars, input, packets, loop, app, peer>>

\* The socket reads the peer's end of stream and disconnects.
PeerGoneRead(c) ==
    /\ Dispatching
    /\ peer[c] = "gone"
    /\ conn[c].sock = "connected"
    /\ conn' = [conn EXCEPT ![c] = Close(@)]
    /\ PostDeletions
    /\ UNCHANGED <<listVars, serverVars, input, packets, loop, app, netVars>>

\* Writing to a peer that has gone fails: the socket aborts the connection.
PeerGoneWrite(c) ==
    /\ Dispatching
    /\ peer[c] = "gone"
    /\ conn[c].sock \in {"connected", "closing"}
    /\ conn[c].wbuf # <<>>
    /\ conn' = [conn EXCEPT ![c] = Abort(@)]
    /\ PostDeletions
    /\ UNCHANGED <<listVars, serverVars, input, packets, loop, app, netVars>>

-----------------------------------------------------------------------------
(***************************************************************************)
(* StreamServer: input, shutdown.                                          *)
(***************************************************************************)

\* The tail of processInput: every listed client queues the packet.
ProcessInput ==
    /\ Dispatching
    /\ input = "open"
    /\ packets < MaxPackets
    /\ packets' = packets + 1
    /\ conn' = [c \in Conns |->
                  IF c \in streamClients THEN QueuePacket(conn[c], packets')
                                         ELSE conn[c]]
    /\ PostDeletions
    /\ UNCHANGED <<listVars, serverVars, input, loop, app, netVars>>

\* processInput at end of file: finalizeInput and a single-shot timer.
InputEnds ==
    /\ Dispatching
    /\ input = "open"
    /\ input' = "waiting"
    /\ UNCHANGED <<conn, listVars, serverVars, posted, packets, loop, app,
                   netVars>>

\* initInputSlot, when initInput succeeds.
InputReopened ==
    /\ Dispatching
    /\ input = "waiting"
    /\ input' = "open"
    /\ UNCHANGED <<conn, listVars, serverVars, posted, packets, loop, app,
                   netVars>>

\* StreamServer::shutdown.
Shutdown ==
    IF shuttingDown
      THEN /\ app' = "forced"
           /\ UNCHANGED <<conn, listening, shuttingDown>>
      ELSE /\ shuttingDown' = TRUE
           /\ listening' = FALSE
           /\ app' = IF streamClients = {} THEN "exiting" ELSE app
           /\ conn' = [c \in Conns |->
                         IF c \in streamClients THEN CloseStream(conn[c])
                                                ELSE conn[c]]

\* initInputSlot, when initInput throws.
ReopenFails ==
    /\ Dispatching
    /\ input = "waiting"
    /\ input' = "closed"
    /\ Shutdown
    /\ PostDeletions
    /\ UNCHANGED <<listVars, signalled, packets, loop, netVars>>

-----------------------------------------------------------------------------
(***************************************************************************)
(* Posted events.                                                          *)
(***************************************************************************)

StartPosted ==
    /\ Dispatching
    /\ posted # <<>>
    /\ loop' = "posted"
    /\ UNCHANGED <<conn, listVars, serverVars, posted, input, packets, app,
                   netVars>>

EndPosted ==
    /\ Draining
    /\ posted = <<>>
    /\ loop' = "events"
    /\ UNCHANGED <<conn, listVars, serverVars, posted, input, packets, app,
                   netVars>>

Delivering(e) == Draining /\ posted # <<>> /\ e \in Head(posted)

DeleteContext(c) ==
    /\ Delivering(<<"ctx", c>>)
    /\ conn' = [conn EXCEPT ![c] = ContextDestroyed(@)]
    /\ posted' = Post(Delivered(<<"ctx", c>>), NewlyDoomed)
    /\ UNCHANGED <<listVars, serverVars, input, packets, loop, app, netVars>>

\* handleClientDestroyed, then handleHTTPServerClientDestroyed's decision.
ExitBeforeRemoval(left) ==
    IF shuttingDown /\ httpClients = {} THEN "exiting" ELSE app

ClientGoneExitsAtOnce(left) == IF shuttingDown THEN "exiting" ELSE app

AppAfterClientGone(left) ==
    IF shuttingDown /\ left = {} THEN "exiting" ELSE app

\* _handleDisconnected posts the context's deletion before the client's.
DeleteClient(c) ==
    /\ Delivering(<<"http", c>>)
    /\ conn[c].ctx # "doomed"
    /\ conn' = [conn EXCEPT ![c] = ClientDestroyed(@)]
    /\ posted' = Delivered(<<"http", c>>)
    /\ httpClients' = httpClients \ {c}
    /\ app' = AppAfterClientGone(httpClients')
    /\ UNCHANGED <<streamClients, serverVars, input, packets, loop, netVars>>

\* handleStreamClientDestroyed.
DeleteStream(c) ==
    /\ Delivering(<<"stream", c>>)
    /\ conn' = [conn EXCEPT ![c] = StreamDestroyed(@)]
    /\ posted' = Delivered(<<"stream", c>>)
    /\ streamClients' = streamClients \ {c}
    /\ UNCHANGED <<httpClients, serverVars, input, packets, loop, app, netVars>>

\* The queued call of shutdown() that the signal handler posted.
QueuedShutdown ==
    /\ Delivering(ShutdownCall)
    /\ Shutdown
    /\ posted' = Post(Delivered(ShutdownCall), NewlyDoomed)
    /\ UNCHANGED <<listVars, signalled, input, packets, loop, netVars>>

-----------------------------------------------------------------------------
ConnectionEvent(c) ==
    \/ ClientConnected(c) \/ ReadyRead(c) \/ BytesWritten(c)
    \/ PeerGoneRead(c) \/ PeerGoneWrite(c)

PostedEvent(c) == DeleteContext(c) \/ DeleteClient(c) \/ DeleteStream(c)

Next ==
    \/ \E c \in Conns : PeerClose(c) \/ ConnectionEvent(c) \/ PostedEvent(c)
    \/ Signal
    \/ ProcessInput \/ InputEnds \/ InputReopened \/ ReopenFails
    \/ StartPosted \/ EndPosted \/ QueuedShutdown

\* The loop dispatches what is ready; a peer that stays reads what it is sent.
Fairness ==
    /\ WF_vars(StartPosted) /\ WF_vars(EndPosted) /\ WF_vars(QueuedShutdown)
    /\ \A c \in Conns :
         /\ WF_vars(PostedEvent(c))
         /\ WF_vars(BytesWritten(c))
         /\ WF_vars(PeerGoneRead(c))
         /\ WF_vars(PeerGoneWrite(c))

Spec     == Init /\ [][Next]_vars
FairSpec == Spec /\ Fairness
-----------------------------------------------------------------------------
(***************************************************************************)
(* Safety.                                                                 *)
(***************************************************************************)

Streaming(c) == conn[c].forward /\ conn[c].sock \in {"connected", "closing"}

\* Sending is driven by bytesWritten alone once the queue has stopped growing
\* (streamclient.cpp:143, httpserver.cpp:549).  So a connected stream client
\* with anything left to send always has data in its socket: the wakeup that
\* sends the rest is under way.
NoLostWakeup ==
    \A c \in Conns :
        conn[c].sock = "connected" /\ conn[c].forward
          => \/ conn[c].sendBuf = <<>> /\ conn[c].queue = <<>>
             \/ conn[c].wbuf # <<>>

\* Packets from..to of the input, as units.
Slice(from, to) == [i \in 1 .. to - from |-> from + i]

Pipeline(c) == got[c] \o conn[c].wbuf \o conn[c].sendBuf \o conn[c].queue

\* What a stream client's peer has received and what is still under way to
\* it, through socket, send buffer and queue, is the response header and then
\* every packet broadcast since it asked, in order, without gap or repetition.
StreamIntact ==
    \A c \in Conns :
        Streaming(c) => Pipeline(c) = <<Header>> \o Slice(conn[c].since, packets)

\* After its connection has gone down in whatever way, what a peer got is
\* still the beginning of a response to its own request.
NothingForeign ==
    \A c \in Conns :
        LET k == conn[c]
            whole == IF k.forward THEN <<Header>> \o Slice(k.since, packets)
                                  ELSE ResponseUnits(k.response)
        IN  got[c] # <<>> =>
              /\ k.response # "none"
              /\ Len(got[c]) <= Len(whole)
              /\ got[c] = SubSeq(whole, 1, Len(got[c]))

\* The raw pointers in the two _clients lists, which every broadcast, shutdown
\* and client count goes through, are those of existing objects, and no object
\* is missing from its list; a stream client outlives neither its connection's
\* lists nor is left behind once context and client are gone and posted events
\* have run.
ListsAreExact ==
    /\ \A c \in Conns :
         /\ c \in httpClients <=> Exists(conn[c].http)
         /\ c \in streamClients <=> Exists(conn[c].stream)
    /\ loop = "events" =>
         \A c \in streamClients : c \in httpClients /\ Exists(conn[c].ctx)

\* A shutdown that runs its course ends the event loop only when no stream is
\* cut short: everything a stream client's socket had accepted has been sent
\* (or its peer has gone).
GracefulExit ==
    app = "exiting" =>
        \A c \in Conns :
            conn[c].stream # "none" /\ peer[c] = "open" => conn[c].wbuf = <<>>

\* A response of fixed length is sent whole: a socket that _sendData closes
\* after a HEAD or an error, with the peer still there, has by then delivered
\* header and body.  (A shutdown closes sockets without regard to what is left
\* to send, see the TODO at streamclient.cpp:254.)
ResponseWhole ==
    [][ \A c \in Conns :
          /\ conn[c].sock = "closing" /\ conn'[c].sock = "closed"
          /\ ~conn[c].forward /\ peer[c] = "open" /\ ~shuttingDown
          => got'[c] = ResponseUnits(conn[c].response) ]_vars

\* The queue has no limit (streamclient.cpp:136), so nothing but a peer that does
\* not read may make it grow: a packet is left in the queue of a connected client
\* only while its send buffer and its socket are both full.
QueueIsBacklog ==
    [][ \A c \in Conns :
          /\ conn[c].sock = "connected"
          /\ Len(conn'[c].queue) > Len(conn[c].queue)
          => Len(conn[c].sendBuf) = BufCap /\ Len(conn[c].wbuf) = SockCap ]_vars

(***************************************************************************)
(* Liveness.                                                               *)
(***************************************************************************)

\* Every packet broadcast to a stream client reaches its peer, unless its
\* connection starts to go down or the program ends.
PacketsDelivered ==
    \A c \in Conns, p \in 1 .. MaxPackets :
        (Streaming(c) /\ conn[c].since < p /\ p <= packets)
          ~> (\/ p \in {got[c][i] : i \in DOMAIN got[c]}
              \/ conn[c].sock # "connected"
              \/ app # "running")

\* A connection that is down leaves nothing behind: its objects are destroyed
\* and both lists forget it.
Reclaimed ==
    \A c \in Conns :
        conn[c].sock = "closed"
          ~> (\/ /\ ~Exists(conn[c].http) /\ ~Exists(conn[c].ctx)
                 /\ ~Exists(conn[c].stream)
                 /\ c \notin httpClients \cup streamClients
              \/ app # "running")

\* After a shutdown that a failed reopening of the input began, the program
\* ends once every connection left is on its way down: the last client to be
\* destroyed exits the event loop (streamserver.cpp:260).
ExitsWhenAllClosing ==
    (/\ shuttingDown /\ ~signalled
     /\ \A c \in httpClients : conn[c].sock # "connected")
      ~> (app # "running" \/ signalled)

\* The same of any shutdown, when no client is left at all
\* (streamserver.cpp:264, "No HTTP clients left, exiting event loop").
ExitsWhenNobodyLeft == (shuttingDown /\ httpClients = {}) ~> app # "running"

(***************************************************************************)
(* The server implements the delivery it promises.                         *)
(***************************************************************************)

PhaseOf(k) == IF ~k.forward THEN "idle"
              ELSE IF k.sock = "closed" THEN "off" ELSE "on"

Delivery == INSTANCE StreamDelivery WITH
    Subscribers <- Conns,
    produced    <- packets,
    phase       <- [c \in Conns |-> PhaseOf(conn[c])],
    since       <- [c \in Conns |-> conn[c].since],
    delivered   <- [c \in Conns |-> IF conn[c].forward /\ got[c] # <<>>
                                      THEN Tail(got[c]) ELSE <<>>]

\* Whatever peers, input, socket and shutdown do, the packets that reach a
\* stream client's peer are those StreamDelivery would deliver to it.
ImplementsDelivery == Delivery!Spec

\* Once a response is set, its delivery has been started (httpserver.cpp:476,
\* "Without starting it here, the event loop won't be enough...").
ResponseStarted ==
    \A c \in Conns :
        conn[c].sock = "connected" /\ conn[c].response # "none"
          => conn[c].headerSent
=============================================================================

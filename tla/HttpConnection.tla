--------------------------- MODULE HttpConnection ---------------------------
(***************************************************************************)
(* One HTTP connection of streamserver-cvn-cli, as the four objects that   *)
(* make it up: the QTcpSocket, HTTP::ServerClient, its HTTP::ServerContext *)
(* and the StreamClient the stream handler attaches to the context.  The   *)
(* slots of these objects call each other synchronously on one thread, so  *)
(* each is an operator from the connection before the call to the          *)
(* connection after it; module StreamServer composes them into the event   *)
(* loop's handlers.                                                        *)
(*                                                                         *)
(* Data is abstracted to units.  A unit on the way to the peer is the HTTP *)
(* response header, the body of an error response, or a TS packet, named   *)
(* by its position in the input.  A unit from the peer is one chunk that   *)
(* _receiveData reads, named by what RequestNetside makes of it.           *)
(***************************************************************************)
EXTENDS Integers, Sequences

CONSTANTS
    BufCap,     \* units that fit into the 1 KiB send buffer (_sendBuf)
    SockCap     \* units the socket's write() takes before it accepts no more

ASSUME CapAssumption == BufCap \in Nat \ {0} /\ SockCap \in Nat \ {0}

(***************************************************************************)
(* Units.                                                                  *)
(***************************************************************************)
Header    == 0
ErrorBody == -1
Unit      == Int       \* n > 0 is the n-th TS packet broadcast

\* A request chunk either leaves the request incomplete ("part"), completes a
\* request - a streaming GET, a HEAD, a path the stream handler does not know,
\* or one processRequest refuses (version, Host) -, completes the header of a
\* request with another method ("post"), or is rejected by the parser ("bad").
Complete == {"get", "head", "lost", "refused"}
Chunk    == Complete \cup {"part", "post", "bad"}

Object == {"none", "live", "doomed", "dead"}   \* "doomed": deleteLater() is posted

Connection ==
    [ sock       : {"none", "connected", "closing", "closed"},
      wbuf       : Seq(Unit),      \* socket write buffer, accepted and not sent
      http       : Object,         \* ServerClient
      receiving  : BOOLEAN,        \* ServerClientPrivate::_isReceiving
      sendDone   : BOOLEAN,        \* ServerClientPrivate::_isBufferSendDone
      sendBuf    : Seq(Unit),      \* ServerClientPrivate::_sendBuf
      ctx        : Object,         \* ServerContext
      request    : {"line", "body", "ready", "failed"},
      response   : {"none", "ok", "error"},
      headerSent : BOOLEAN,        \* ServerContextPrivate::_responseHeaderSent
      generate   : BOOLEAN,        \* ServerContextPrivate::_isGenerateResponseBody
      stream     : Object,         \* StreamClient
      forward    : BOOLEAN,        \* StreamClient::_forwardPackets
      queue      : Seq(Unit),      \* StreamClient::_queue
      since      : Nat ]           \* ghost: packets broadcast before forward

\* What the buffers may hold: the socket what it accepts, the send buffer of a
\* streaming client its 1 KiB.
WithinCaps(k) ==
    /\ Len(k.wbuf) <= SockCap
    /\ k.forward => Len(k.sendBuf) <= BufCap

NoConnection ==
    [ sock |-> "none", wbuf |-> <<>>, http |-> "none", receiving |-> TRUE,
      sendDone |-> FALSE, sendBuf |-> <<>>, ctx |-> "none",
      request |-> "line", response |-> "none", headerSent |-> FALSE,
      generate |-> FALSE, stream |-> "none", forward |-> FALSE,
      queue |-> <<>>, since |-> 0 ]

\* ServerClient's constructor, on a socket nextPendingConnection() returned.
Accepted == [NoConnection EXCEPT !.sock = "connected", !.http = "live"]

Exists(o)    == o \in {"live", "doomed"}
DeleteLater(o) == IF o = "live" THEN "doomed" ELSE o

SmallerOf(a, b) == IF a <= b THEN a ELSE b

-----------------------------------------------------------------------------
(***************************************************************************)
(* The socket and its disconnected() signal.                               *)
(***************************************************************************)

\* Mutant of Disconnected: the context is left behind.
DisconnectedLeak(k) ==
    [k EXCEPT !.sock = "closed", !.wbuf = <<>>, !.http = DeleteLater(@)]

\* ServerClientPrivate::_handleDisconnected, on the socket that has just
\* become unconnected and has dropped what it had not sent.
Disconnected(k) ==
    [k EXCEPT !.sock = "closed", !.wbuf = <<>>,
              !.ctx = DeleteLater(@), !.http = DeleteLater(@)]

\* QTcpSocket::abort() emits disconnected() before it returns, and does
\* nothing on an unconnected socket.
Abort(k) == IF k.sock \in {"connected", "closing"} THEN Disconnected(k) ELSE k

\* QTcpSocket::close() disconnects at once when nothing is left to send, and
\* waits in ClosingState for the write buffer to drain otherwise.
Close(k) ==
    IF k.sock # "connected" THEN k
    ELSE IF k.wbuf = <<>> THEN Disconnected(k)
    ELSE [k EXCEPT !.sock = "closing"]

-----------------------------------------------------------------------------
(***************************************************************************)
(* Sending: StreamClient -> ServerContext -> ServerClient -> socket.       *)
(***************************************************************************)

ResponseUnits(response) ==
    IF response = "ok" THEN <<Header>> ELSE <<Header, ErrorBody>>

\* StreamClient::handleGenerateResponseBody: move packets while they fit.
FillByOneTooFew(k) ==
    LET n == SmallerOf(BufCap - Len(k.sendBuf), Len(k.queue))
    IN  [k EXCEPT !.sendBuf = @ \o SubSeq(k.queue, 1, n),
                  !.queue = SubSeq(@, n + 2, Len(@))]

FillFromQueue(k) ==
    LET n == SmallerOf(BufCap - Len(k.sendBuf), Len(k.queue))
    IN  [k EXCEPT !.sendBuf = @ \o SubSeq(k.queue, 1, n),
                  !.queue = SubSeq(@, n + 1, Len(@))]

\* The head of ServerContextPrivate::_bufferResponse: the header, once.
HeaderEveryTime(k) ==
    [k EXCEPT !.sendBuf = @ \o ResponseUnits(k.response), !.headerSent = TRUE]

BufferHeader(k) ==
    IF k.headerSent THEN k
    ELSE [k EXCEPT !.sendBuf = @ \o ResponseUnits(k.response),
                   !.headerSent = TRUE]

\* ServerContextPrivate::_bufferResponse and the caller's reaction to its
\* result: FALSE (no body to generate) sets _isBufferSendDone.
BufferResponse(k) ==
    IF k.response = "none" THEN k
    ELSE LET h == BufferHeader(k)
         IN  IF ~(h.generate /\ h.forward) THEN [h EXCEPT !.sendDone = TRUE]
             ELSE IF Len(h.sendBuf) < BufCap THEN FillFromQueue(h) ELSE h

\* A write loop that takes any write for complete.
WriteAll(k) ==
    IF k.sock # "connected" THEN k
    ELSE [k EXCEPT !.wbuf = @ \o k.sendBuf, !.sendBuf = <<>>]

\* The write loop of _sendData: hand the socket all it accepts.  A socket that
\* is no longer connected refuses the write and the abort() is a no-op.
Write(k) ==
    IF k.sock # "connected" THEN k
    ELSE LET n == SmallerOf(SockCap - Len(k.wbuf), Len(k.sendBuf))
         IN  [k EXCEPT !.wbuf = @ \o SubSeq(k.sendBuf, 1, n),
                       !.sendBuf = SubSeq(@, n + 1, Len(@))]

\* _sendData closing as soon as the response is buffered, sent or not.
SendDataCloseEarly(k) ==
    IF k.sock = "closing" \/ ~Exists(k.ctx) THEN k
    ELSE LET b == IF k.sendDone THEN k ELSE BufferResponse(k)
             w == Write(b)
         IN  IF w.sendDone THEN Close(w) ELSE w

\* ServerClientPrivate::_sendData.
SendData(k) ==
    IF k.sock = "closing" \/ ~Exists(k.ctx) THEN k
    ELSE LET b == IF k.sendDone THEN k ELSE BufferResponse(k)
             w == Write(b)
         IN  IF w.sendBuf = <<>> /\ w.sendDone THEN Close(w) ELSE w

\* queuePacket without the sendData() that starts sending again.
QueuePacketNoSend(k, p) ==
    IF ~k.forward THEN k ELSE [k EXCEPT !.queue = Append(@, p)]

\* queuePacket that starts sending before it appends.
QueuePacketSendFirst(k, p) ==
    IF ~k.forward THEN k
    ELSE LET s == IF Exists(k.ctx) /\ Exists(k.http) THEN SendData(k) ELSE k
         IN  [s EXCEPT !.queue = Append(@, p)]

\* StreamClient::queuePacket.
QueuePacket(k, p) ==
    IF ~k.forward THEN k
    ELSE LET q == [k EXCEPT !.queue = Append(@, p)]
         IN  IF Exists(q.ctx) /\ Exists(q.http) THEN SendData(q) ELSE q

\* StreamClient::close.
CloseStream(k) ==
    IF Exists(k.ctx) /\ Exists(k.http) THEN Close(k) ELSE k

-----------------------------------------------------------------------------
(***************************************************************************)
(* Receiving: socket -> ServerClient -> RequestNetside -> handler.         *)
(***************************************************************************)

\* RequestNetside::processChunk over the chunks s of one readyRead, in request
\* state r.  It throws on a malformed chunk, on data for a body, and on any
\* chunk after the one that made the request Ready.
Rejects(r, s) ==
    \/ r # "line"
    \/ s[Len(s)] = "bad"
    \/ \E i \in 1 .. Len(s) - 1 : s[i] # "part"

Parsed(r, s) ==
    IF Rejects(r, s) THEN "failed"
    ELSE IF s[Len(s)] = "part" THEN "line"
    ELSE IF s[Len(s)] = "post" THEN "body"
    ELSE "ready"

\* StreamHandler::handleRequest, StreamServer::client and
\* StreamClient::processRequest, after `sent' packets.
HandleRequest(k, kind, sent) ==
    CASE kind = "lost" -> [k EXCEPT !.stream = "live", !.response = "error"]
      [] kind = "head" -> [k EXCEPT !.stream = "live", !.response = "ok"]
      [] kind = "get"  -> [k EXCEPT !.stream = "live", !.response = "ok",
                                    !.forward = TRUE, !.generate = TRUE,
                                    !.since = sent]

\* Server::processRequest, for a complete request of the given kind.
ProcessRequest(k, kind, sent) ==
    IF kind = "refused" THEN [k EXCEPT !.response = "error"]
    ELSE HandleRequest(k, kind, sent)

\* The end of _receiveData: answer 500 if no response was produced.
EnsureResponse(k) ==
    IF k.response = "none" THEN [k EXCEPT !.response = "error"] ELSE k

\* ServerClientPrivate::_receiveData on the chunks s.
ReceiveData(k, s, sent) ==
    IF ~k.receiving THEN Abort(k)
    ELSE LET r == Parsed(k.request, s)
             c == [k EXCEPT !.ctx = IF @ = "none" THEN "live" ELSE @,
                            !.request = r]
         IN  CASE r = "failed" -> [c EXCEPT !.receiving = FALSE,
                                            !.response = "error"]
               [] r \in {"line", "body"} -> c
               [] r = "ready" ->
                    SendData(EnsureResponse(ProcessRequest(
                        [c EXCEPT !.receiving = FALSE], s[Len(s)], sent)))

-----------------------------------------------------------------------------
(***************************************************************************)
(* Deferred deletion.                                                      *)
(***************************************************************************)

\* ~ServerContext, whose destroyed() signal reaches
\* StreamClient::handleHTTPServerContextDestroyed.
ContextDestroyed(k) ==
    [k EXCEPT !.ctx = "dead", !.stream = DeleteLater(@),
              !.queue = IF k.stream = "live" THEN <<>> ELSE @]

\* ~ServerClient: the object and its child socket.
ClientDestroyed(k) == [k EXCEPT !.http = "dead", !.sendBuf = <<>>]

StreamDestroyed(k) == [k EXCEPT !.stream = "dead", !.queue = <<>>]
=============================================================================

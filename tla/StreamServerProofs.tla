------------------------- MODULE StreamServerProofs -------------------------
(***************************************************************************)
(* What every operation of a connection preserves, whatever the sizes of   *)
(* its buffers; and, for any number of connections and any kinds of        *)
(* requests, what follows from it:                                         *)
(*   - the types, the socket's and the send buffer's bounds, and that no   *)
(*     stream client's wakeup is ever lost;                                *)
(*   - what a peer gets: through queue, send buffer and socket no unit is  *)
(*     lost, repeated or reordered, and the server implements              *)
(*     StreamDelivery;                                                     *)
(*   - what becomes of connections: the two lists of raw pointers are      *)
(*     those of existing objects through every deferred deletion, the      *)
(*     event loop ends only when no stream is cut short, and a response of *)
(*     fixed length is sent whole.                                         *)
(***************************************************************************)
EXTENDS StreamServer, SequenceTheorems, TLAPS

\* The smaller of two lengths, by which both the packets moved into the send
\* buffer and the bytes handed to the socket are limited, is at most either and
\* is one of them.
LEMMA SmallerOfProperties ==
    ASSUME NEW a \in Nat, NEW b \in Nat
    PROVE  /\ SmallerOf(a, b) \in Nat
           /\ SmallerOf(a, b) \in 0 .. a
           /\ SmallerOf(a, b) \in 0 .. b
           /\ SmallerOf(a, b) = a \/ SmallerOf(a, b) = b
  BY DEF SmallerOf

\* Room left in a buffer that is not overfull is a length, and none is left only
\* when it is full (httpserver.cpp:709, streamclient.cpp:181).
LEMMA Room ==
    ASSUME NEW cap \in Nat, NEW used \in Nat, used <= cap
    PROVE  cap - used \in Nat /\ (used < cap => cap - used > 0)
  OBVIOUS

\* Cutting a sequence in two: both parts are sequences, their lengths add up,
\* and together they are the sequence again.
LEMMA Cut ==
    ASSUME NEW q \in Seq(Unit), NEW n \in 0 .. Len(q)
    PROVE  /\ SubSeq(q, 1, n) \in Seq(Unit)
           /\ SubSeq(q, n + 1, Len(q)) \in Seq(Unit)
           /\ Len(SubSeq(q, 1, n)) = n
           /\ Len(SubSeq(q, n + 1, Len(q))) = Len(q) - n
           /\ SubSeq(q, 1, n) \o SubSeq(q, n + 1, Len(q)) = q
  <1>1. Len(q) \in Nat /\ \A i \in 1 .. Len(q) : q[i] \in Unit
    BY LenProperties, ElementOfSeq
  <1>2. /\ SubSeq(q, 1, n) \in Seq(Unit)
        /\ Len(SubSeq(q, 1, n)) = n
    <2>1. \A i \in 1 .. n : q[i] \in Unit
      BY <1>1
    <2> QED BY <1>1, <2>1, SubSeqProperties
  <1>3. /\ SubSeq(q, n + 1, Len(q)) \in Seq(Unit)
        /\ Len(SubSeq(q, n + 1, Len(q))) = Len(q) - n
    <2>1. \A i \in n + 1 .. Len(q) : q[i] \in Unit
      BY <1>1
    <2>2. n + 1 \in Int /\ Len(q) \in Int
      BY <1>1
    <2> QED BY <1>1, <2>1, <2>2, SubSeqProperties
  <1>4. SubSeq(q, 1, n) \o SubSeq(q, n + 1, Len(q)) = SubSeq(q, 1, Len(q))
    <2>1. /\ 1 \in 1 .. Len(q) + 1
          /\ n \in 1 - 1 .. Len(q)
          /\ Len(q) \in n .. Len(q)
      BY <1>1
    <2> QED BY <2>1, ConcatAdjacentSubSeq
  <1> QED BY <1>2, <1>3, <1>4, SubSeqFull

\* Moving the first n units of y to the end of x.
LEMMA Move ==
    ASSUME NEW x \in Seq(Unit), NEW y \in Seq(Unit), NEW n \in 0 .. Len(y)
    PROVE  /\ x \o SubSeq(y, 1, n) \in Seq(Unit)
           /\ Len(x \o SubSeq(y, 1, n)) = Len(x) + n
           /\ (x \o SubSeq(y, 1, n)) \o SubSeq(y, n + 1, Len(y)) = x \o y
  <1> DEFINE a == SubSeq(y, 1, n)
             b == SubSeq(y, n + 1, Len(y))
  <1>1. a \in Seq(Unit) /\ b \in Seq(Unit)
    BY Cut
  <1>2. Len(a) = n /\ a \o b = y
    BY Cut
  <1> HIDE DEF a, b
  <1>3. (x \o a) \o b = x \o (a \o b)
    BY <1>1, ConcatAssociative, SMTT(20)
  <1>4. x \o a \in Seq(Unit) /\ Len(x \o a) = Len(x) + n
    BY <1>1, <1>2, ConcatProperties
  <1> QED BY <1>2, <1>3, <1>4 DEF a, b

\* A connection between any two operations.
Sound(k) ==
    /\ k \in Connection
    /\ WithinCaps(k)
    /\ k.receiving => /\ k.response = "none" /\ ~k.forward
                      /\ ~k.headerSent /\ ~k.sendDone
    /\ ~k.headerSent => k.sendBuf = <<>>
    /\ ~k.forward => k.queue = <<>>
    /\ k.forward => k.response = "ok" /\ k.generate /\ ~k.sendDone
    /\ k.sock = "connected" => k.http = "live" /\ k.ctx \in {"none", "live"}
    /\ k.sock = "connected" /\ ~k.receiving => k.ctx = "live"
    /\ k.sock = "none" => k.receiving
    /\ "doomed" \in {k.http, k.ctx, k.stream} => k.sock = "closed"

\* The wakeup that will send the rest is under way.
Awake(k) ==
    k.sock = "connected" /\ k.forward
      => \/ k.sendBuf = <<>> /\ k.queue = <<>>
         \/ k.wbuf # <<>>

\* _handleDisconnected leaves a sound connection on which nothing needs waking
\* up (httpserver.cpp:347).
LEMMA DisconnectedSound ==
    ASSUME NEW k, Sound(k)
    PROVE  Sound(Disconnected(k)) /\ Awake(Disconnected(k))
  <1> DEFINE d == Disconnected(k)
  <1>1. d \in Connection
    <2>1. k \in Connection
      BY DEF Sound
    <2>2. DeleteLater(k.ctx) \in Object /\ DeleteLater(k.http) \in Object
      BY <2>1 DEF Connection, DeleteLater, Object
    <2>3. <<>> \in Seq(Unit)
      OBVIOUS
    <2> QED BY <2>1, <2>2, <2>3, Zenon DEF Disconnected, Connection
  <1>2. /\ d.sock = "closed" /\ d.wbuf = <<>>
        /\ d.sendBuf = k.sendBuf /\ d.queue = k.queue
        /\ d.receiving = k.receiving /\ d.response = k.response
        /\ d.forward = k.forward /\ d.headerSent = k.headerSent
        /\ d.sendDone = k.sendDone /\ d.generate = k.generate
    BY DEF Sound, Disconnected, Connection
  <1> QED BY <1>1, <1>2, CapAssumption DEF Sound, Awake, WithinCaps

\* Closing a socket, at once or once it has drained, keeps the connection sound
\* and its wakeup under way (httpserver.cpp:629).
LEMMA CloseSound ==
    ASSUME NEW k, Sound(k)
    PROVE  /\ Sound(Close(k))
           /\ Awake(k) => Awake(Close(k))
           /\ k.sock # "connected" => Close(k) = k
  <1>1. CASE k.sock = "connected" /\ k.wbuf # <<>>
    BY <1>1 DEF Close, Sound, Awake, Connection, WithinCaps
  <1>2. CASE k.sock = "connected" /\ k.wbuf = <<>>
    BY <1>2, DisconnectedSound DEF Close
  <1>3. CASE k.sock # "connected"
    BY <1>3 DEF Close
  <1> QED BY <1>1, <1>2, <1>3

\* handleGenerateResponseBody moves packets from the queue into what room the
\* send buffer has: nothing is lost, the buffer is not overfull, and packets stay
\* queued only behind a full buffer (streamclient.cpp:153).
LEMMA FillFromQueueSound ==
    ASSUME NEW k \in Connection, Len(k.sendBuf) <= BufCap
    PROVE  LET f == FillFromQueue(k)
           IN  /\ f \in Connection
               /\ f = [k EXCEPT !.sendBuf = f.sendBuf, !.queue = f.queue]
               /\ Len(f.sendBuf) <= BufCap
               /\ f.sendBuf \o f.queue = k.sendBuf \o k.queue
               /\ Len(k.sendBuf) < BufCap => \/ f.queue = <<>>
                                             \/ f.sendBuf # <<>>
  <1> DEFINE n == SmallerOf(BufCap - Len(k.sendBuf), Len(k.queue))
             a == k.sendBuf \o SubSeq(k.queue, 1, n)
             b == SubSeq(k.queue, n + 1, Len(k.queue))
             f == FillFromQueue(k)
  <1>1. k.sendBuf \in Seq(Unit) /\ k.queue \in Seq(Unit)
    BY DEF Connection
  <1>2. Len(k.sendBuf) \in Nat /\ Len(k.queue) \in Nat
    BY <1>1, LenProperties
  <1>3. /\ n \in Nat /\ n \in 0 .. Len(k.queue)
        /\ n \in 0 .. (BufCap - Len(k.sendBuf))
        /\ n = BufCap - Len(k.sendBuf) \/ n = Len(k.queue)
    <2>1. BufCap - Len(k.sendBuf) \in Nat
      BY <1>2, CapAssumption, Room
    <2> QED BY <1>2, <2>1, SmallerOfProperties
  <1> HIDE DEF n
  <1>4. b \in Seq(Unit) /\ Len(b) = Len(k.queue) - n
    BY <1>1, <1>3, Cut
  <1>5. /\ a \in Seq(Unit) /\ Len(a) = Len(k.sendBuf) + n
        /\ a \o b = k.sendBuf \o k.queue
    BY <1>1, <1>3, Move
  <1> HIDE DEF a, b
  <1>7. f = [k EXCEPT !.sendBuf = a, !.queue = b]
    BY DEF FillFromQueue, a, b, n
  <1>8. f \in Connection
    BY <1>4, <1>5, <1>7, Zenon DEF Connection
  <1>9. f.sendBuf = a /\ f.queue = b
    BY <1>7 DEF Connection
  <1>10. Len(a) <= BufCap
    <2>1. ASSUME NEW cap \in Nat, NEW used \in Nat, NEW m \in 0 .. cap - used
          PROVE  used + m <= cap
      OBVIOUS
    <2> QED BY <1>2, <1>3, <1>5, <2>1, CapAssumption
  <1>11. ASSUME Len(k.sendBuf) < BufCap
         PROVE  b = <<>> \/ a # <<>>
    <2>1. CASE Len(k.queue) = 0
      BY <2>1, <1>3, <1>4, EmptySeq
    <2>2. CASE Len(k.queue) # 0
      <3>1. n > 0
        BY <2>2, <1>2, <1>3, <1>11, Room, CapAssumption
      <3> QED BY <3>1, <1>2, <1>3, <1>5, EmptySeq
    <2> QED BY <2>1, <2>2
  <1> QED BY <1>5, <1>7, <1>8, <1>9, <1>10, <1>11

\* The response header goes into the send buffer once, and for a stream client
\* it fits (httpserver.cpp:687).
LEMMA BufferHeaderSound ==
    ASSUME NEW k, Sound(k), k.response # "none"
    PROVE  LET h == BufferHeader(k)
           IN  /\ h \in Connection
               /\ h = [k EXCEPT !.sendBuf = h.sendBuf, !.headerSent = TRUE]
               /\ h.headerSent
               /\ k.forward => Len(h.sendBuf) <= BufCap
  <1> DEFINE h == BufferHeader(k)
             r == ResponseUnits(k.response)
  <1>1. k \in Connection /\ k.sendBuf \in Seq(Unit)
    BY DEF Sound, Connection
  <1>2. CASE k.headerSent
    <2>1. h = k
      BY <1>2 DEF BufferHeader
    <2>2. k.headerSent = TRUE
      BY <1>1, <1>2 DEF Connection
    <2>3. k = [k EXCEPT !.sendBuf = k.sendBuf, !.headerSent = TRUE]
      BY <1>1, <2>2 DEF Connection
    <2> QED BY <1>1, <2>1, <2>2, <2>3 DEF Sound, WithinCaps
  <1>3. CASE ~k.headerSent
    <2>1. k.sendBuf = <<>>
      BY <1>3 DEF Sound
    <2>2. r \in Seq(Unit) /\ (k.forward => Len(r) = 1)
      BY DEF Sound, ResponseUnits, Header, ErrorBody, Unit
    <2>3. k.sendBuf \o r = r
      BY <2>1, <2>2, ConcatEmptySeq
    <2>4. h = [k EXCEPT !.sendBuf = r, !.headerSent = TRUE]
      BY <1>3, <2>3 DEF BufferHeader
    <2>5. h \in Connection
      BY <1>1, <2>2, <2>4, Zenon DEF Connection
    <2>6. h.sendBuf = r /\ h.headerSent
      BY <1>1, <2>4 DEF Connection
    <2>7. 1 <= BufCap
      BY CapAssumption
    <2>8. k.forward => Len(r) <= BufCap
      <3> HIDE DEF r
      <3> QED BY <2>2, <2>7
    <2> QED BY <2>4, <2>5, <2>6, <2>8
  <1> QED BY <1>2, <1>3

\* Buffering a response keeps the connection sound and, if anything of a stream
\* remains to be sent, leaves some of it in the send buffer.
LEMMA BufferResponseSound ==
    ASSUME NEW k, Sound(k), ~k.sendDone
    PROVE  LET b == BufferResponse(k)
           IN  /\ Sound(b)
               /\ k.forward => b.queue = <<>> \/ b.sendBuf # <<>>
               /\ b.sock = k.sock /\ b.forward = k.forward /\ b.wbuf = k.wbuf
  <1> DEFINE h == BufferHeader(k)
             b == BufferResponse(k)
  <1>1. k \in Connection
    BY DEF Sound
  <1>2. CASE k.response = "none"
    BY <1>2 DEF BufferResponse, Sound
  <1>3. ASSUME k.response # "none"
        PROVE  /\ h \in Connection /\ h.headerSent
               /\ k.forward => Len(h.sendBuf) <= BufCap
               /\ h = [k EXCEPT !.sendBuf = h.sendBuf, !.headerSent = TRUE]
    BY <1>3, BufferHeaderSound
  <1>4. ASSUME k.response # "none"
        PROVE  /\ h.sock = k.sock /\ h.wbuf = k.wbuf /\ h.http = k.http
               /\ h.receiving = k.receiving /\ h.sendDone = k.sendDone
               /\ h.ctx = k.ctx /\ h.response = k.response
               /\ h.generate = k.generate /\ h.stream = k.stream
               /\ h.forward = k.forward /\ h.queue = k.queue
    <2> HIDE DEF h
    <2> QED BY <1>1, <1>3, <1>4 DEF Connection
  <1>5. ASSUME k.response # "none", ~k.forward
        PROVE  Sound(b) /\ b.sock = k.sock /\ b.forward = k.forward
               /\ b.wbuf = k.wbuf
    <2>1. ~h.forward
      BY <1>4, <1>5
    <2>2. b = [h EXCEPT !.sendDone = TRUE]
      BY <1>5, <2>1 DEF BufferResponse
    <2> HIDE DEF h, b
    <2>3. b \in Connection
      BY <1>3, <1>5, <2>2, Zenon DEF Connection
    <2>4. /\ b.sock = h.sock /\ b.wbuf = h.wbuf /\ b.http = h.http
          /\ b.receiving = h.receiving /\ b.ctx = h.ctx
          /\ b.response = h.response /\ b.stream = h.stream
          /\ b.forward = h.forward /\ b.queue = h.queue
          /\ b.headerSent = h.headerSent
      BY <1>3, <1>5, <2>2 DEF Connection
    <2> QED BY <1>3, <1>4, <1>5, <2>3, <2>4 DEF Sound, WithinCaps
  <1>6. ASSUME k.response # "none", k.forward
        PROVE  /\ Sound(b) /\ b.sock = k.sock /\ b.forward = k.forward
               /\ b.wbuf = k.wbuf
               /\ b.queue = <<>> \/ b.sendBuf # <<>>
    <2>1. h.generate /\ h.forward
      BY <1>4, <1>6 DEF Sound
    <2>2. CASE Len(h.sendBuf) < BufCap
      <3> DEFINE f == FillFromQueue(h)
      <3>1. b = f
        BY <1>6, <2>1, <2>2 DEF BufferResponse
      <3>2. /\ f \in Connection
            /\ f = [h EXCEPT !.sendBuf = f.sendBuf, !.queue = f.queue]
            /\ Len(f.sendBuf) <= BufCap
            /\ f.queue = <<>> \/ f.sendBuf # <<>>
        BY <1>3, <1>6, <2>2, FillFromQueueSound
      <3> HIDE DEF f, h, b
      <3>3. /\ f.sock = h.sock /\ f.wbuf = h.wbuf /\ f.http = h.http
            /\ f.receiving = h.receiving /\ f.ctx = h.ctx
            /\ f.response = h.response /\ f.stream = h.stream
            /\ f.forward = h.forward /\ f.sendDone = h.sendDone
            /\ f.headerSent = h.headerSent /\ f.generate = h.generate
        BY <1>3, <1>6, <3>2 DEF Connection
      <3> QED BY <1>3, <1>4, <1>6, <3>1, <3>2, <3>3 DEF Sound, WithinCaps
    <2>3. CASE ~(Len(h.sendBuf) < BufCap)
      <3>1. b = h
        BY <1>6, <2>1, <2>3 DEF BufferResponse
      <3> HIDE DEF h, b
      <3>2. h.sendBuf # <<>>
        BY <2>3, EmptySeq, CapAssumption
      <3> QED BY <1>3, <1>4, <1>6, <3>1, <3>2 DEF Sound, WithinCaps
    <2> QED BY <2>2, <2>3
  <1> QED BY <1>1, <1>2, <1>5, <1>6 DEF Sound

\* The lengths around one write(): n of the y units of the send buffer move to a
\* socket that holds x of cap, and all of them unless it is full after that
\* (httpserver.cpp:508).
LEMMA WriteArithmetic ==
    ASSUME NEW cap \in Nat \ {0}, NEW x \in Nat, NEW y \in Nat, NEW n \in Nat,
           x <= cap, n \in 0 .. y, n \in 0 .. (cap - x), n = cap - x \/ n = y
    PROVE  /\ x + n <= cap
           /\ y - n \in Nat /\ y - n <= y
           /\ y = 0 => y - n = 0
           /\ x + n = 0 => y = 0 /\ y - n = 0
  OBVIOUS

\* The write loop moves units from the send buffer to the socket.  What it
\* cannot move, it leaves behind a socket that is full.
LEMMA WriteSound ==
    ASSUME NEW k, Sound(k), k.forward => k.queue = <<>> \/ k.sendBuf # <<>>
    PROVE  LET w == Write(k)
           IN  /\ Sound(w) /\ Awake(w)
               /\ w.sock = k.sock /\ w.forward = k.forward
  <1> DEFINE n == SmallerOf(SockCap - Len(k.wbuf), Len(k.sendBuf))
             a == k.wbuf \o SubSeq(k.sendBuf, 1, n)
             b == SubSeq(k.sendBuf, n + 1, Len(k.sendBuf))
             w == Write(k)
  <1>1. k \in Connection /\ k.wbuf \in Seq(Unit) /\ k.sendBuf \in Seq(Unit)
    BY DEF Sound, Connection
  <1>2. CASE k.sock # "connected"
    BY <1>2 DEF Write, Awake
  <1>3. CASE k.sock = "connected"
    <2>1. /\ Len(k.wbuf) \in Nat /\ Len(k.sendBuf) \in Nat
          /\ Len(k.wbuf) <= SockCap
      BY <1>1, LenProperties DEF Sound, WithinCaps
    <2>2. /\ n \in Nat /\ n \in 0 .. Len(k.sendBuf)
          /\ n \in 0 .. (SockCap - Len(k.wbuf))
          /\ n = SockCap - Len(k.wbuf) \/ n = Len(k.sendBuf)
      <3>1. SockCap - Len(k.wbuf) \in Nat
        BY <2>1, CapAssumption, Room
      <3> QED BY <2>1, <3>1, SmallerOfProperties
    <2> HIDE DEF n
    <2>3. b \in Seq(Unit) /\ Len(b) = Len(k.sendBuf) - n
      BY <1>1, <2>2, Cut
    <2>4. a \in Seq(Unit) /\ Len(a) = Len(k.wbuf) + n
      BY <1>1, <2>2, Move
    <2> HIDE DEF a, b
    <2>5. w = [k EXCEPT !.wbuf = a, !.sendBuf = b]
      BY <1>3 DEF Write, a, b, n
    <2>6. w \in Connection
      BY <1>1, <2>3, <2>4, <2>5, Zenon DEF Connection
    <2> HIDE DEF w
    <2>7. /\ w.wbuf = a /\ w.sendBuf = b /\ w.sock = k.sock
          /\ w.http = k.http /\ w.receiving = k.receiving /\ w.ctx = k.ctx
          /\ w.response = k.response /\ w.stream = k.stream
          /\ w.forward = k.forward /\ w.queue = k.queue
          /\ w.sendDone = k.sendDone /\ w.headerSent = k.headerSent
          /\ w.generate = k.generate
      BY <1>1, <2>5 DEF Connection
    <2>8. /\ Len(a) <= SockCap
          /\ Len(b) \in Nat /\ Len(b) <= Len(k.sendBuf)
          /\ Len(k.sendBuf) = 0 => Len(b) = 0
          /\ Len(a) = 0 => Len(k.sendBuf) = 0 /\ Len(b) = 0
      BY <2>1, <2>2, <2>3, <2>4, WriteArithmetic, CapAssumption
    <2>9. ~k.headerSent => b = <<>>
      <3>1. ~k.headerSent => Len(k.sendBuf) = 0
        BY EmptySeq DEF Sound
      <3> QED BY <2>3, <2>8, <3>1, EmptySeq
    <2>10. k.forward => Len(b) <= BufCap
      <3>1. k.forward => Len(k.sendBuf) <= BufCap
        BY DEF Sound, WithinCaps
      <3>2. ASSUME NEW x \in Nat, NEW y \in Nat, NEW z \in Nat, x <= y, y <= z
            PROVE  x <= z
        BY <3>2
      <3> QED BY <2>1, <2>8, <3>1, <3>2, CapAssumption
    <2>11. Sound(w)
      BY <2>6, <2>7, <2>8, <2>9, <2>10 DEF Sound, WithinCaps
    <2>12. ASSUME k.forward, a = <<>>
           PROVE  b = <<>> /\ k.queue = <<>>
      <3>1. Len(a) = 0
        BY <2>12, EmptySeq
      <3>2. k.sendBuf = <<>> /\ b = <<>>
        BY <1>1, <2>3, <2>8, <3>1, EmptySeq
      <3> QED BY <2>12, <3>2
    <2> QED BY <2>7, <2>11, <2>12 DEF Awake, w
  <1> QED BY <1>2, <1>3

\* _sendData re-establishes the wakeup, whatever was queued before it.
LEMMA SendDataSound ==
    ASSUME NEW k, Sound(k)
    PROVE  LET s == SendData(k)
           IN  /\ Sound(s) /\ Awake(s)
               /\ s.forward = k.forward
               /\ k.sock = "closed" => s.sock = "closed"
               /\ k.sock # "none" => s.sock # "none"
  <1> DEFINE b == IF k.sendDone THEN k ELSE BufferResponse(k)
             w == Write(b)
             s == SendData(k)
  <1>1. CASE k.sock = "closing"
    BY <1>1 DEF SendData, Awake
  <1>2. CASE k.sock # "closing" /\ ~Exists(k.ctx)
    BY <1>2 DEF SendData, Awake, Sound, Exists
  <1>3. CASE k.sock # "closing" /\ Exists(k.ctx)
    <2>1. /\ Sound(b) /\ b.sock = k.sock /\ b.forward = k.forward
          /\ b.forward => b.queue = <<>> \/ b.sendBuf # <<>>
      BY BufferResponseSound DEF Sound
    <2> HIDE DEF b
    <2>2. Sound(w) /\ Awake(w) /\ w.sock = k.sock /\ w.forward = k.forward
      BY <2>1, WriteSound
    <2>3. SendData(k) = IF w.sendBuf = <<>> /\ w.sendDone THEN Close(w) ELSE w
      BY <1>3 DEF SendData, b
    <2> HIDE DEF w
    <2>4. Sound(Close(w)) /\ Awake(Close(w))
      BY <2>2, CloseSound
    <2>5. /\ Close(w).forward = w.forward
          /\ w.sock = "closed" => Close(w).sock = "closed"
          /\ w.sock # "none" => Close(w).sock # "none"
      BY <2>2 DEF Close, Disconnected, Sound, Connection
    <2> QED BY <2>2, <2>3, <2>4, <2>5
  <1> QED BY <1>1, <1>2, <1>3

\* Queueing a packet: the units are put behind what is queued, then sent.
LEMMA QueuePacketSound ==
    ASSUME NEW k, Sound(k), Awake(k), NEW p \in Unit
    PROVE  LET q == QueuePacket(k, p)
           IN  /\ Sound(q) /\ Awake(q)
               /\ k.sock = "closed" => q.sock = "closed"
               /\ k.sock = "none" => q = k
  <1> DEFINE q == [k EXCEPT !.queue = Append(@, p)]
  <1>1. CASE ~k.forward
    BY <1>1 DEF QueuePacket
  <1>2. CASE k.forward
    <2>1. k \in Connection /\ k.queue \in Seq(Unit)
      BY DEF Sound, Connection
    <2>2. Append(k.queue, p) \in Seq(Unit)
      BY <2>1, AppendProperties
    <2>3. q \in Connection
      BY <2>1, <2>2, Zenon DEF Connection
    <2>4. /\ q.sock = k.sock /\ q.wbuf = k.wbuf /\ q.http = k.http
          /\ q.receiving = k.receiving /\ q.sendDone = k.sendDone
          /\ q.sendBuf = k.sendBuf /\ q.ctx = k.ctx
          /\ q.response = k.response /\ q.headerSent = k.headerSent
          /\ q.generate = k.generate /\ q.stream = k.stream
          /\ q.forward = k.forward
      BY <2>1 DEF Connection
    <2>5. QueuePacket(k, p) = IF Exists(q.ctx) /\ Exists(q.http)
                                THEN SendData(q) ELSE q
      BY <1>2 DEF QueuePacket
    <2> HIDE DEF q
    <2>6. Sound(q)
      BY <1>2, <2>3, <2>4 DEF Sound, WithinCaps
    <2>7. CASE Exists(q.ctx) /\ Exists(q.http)
      <3>1. /\ Sound(SendData(q)) /\ Awake(SendData(q))
            /\ q.sock = "closed" => SendData(q).sock = "closed"
        BY <2>6, SendDataSound
      <3>2. k.sock # "none"
        BY <1>2 DEF Sound
      <3> QED BY <2>4, <2>5, <2>7, <3>1, <3>2
    <2>8. CASE ~(Exists(q.ctx) /\ Exists(q.http))
      BY <1>2, <2>4, <2>5, <2>6, <2>8 DEF Sound, Awake, Exists
    <2> QED BY <2>7, <2>8
  <1> QED BY <1>1, <1>2

\* StreamClient::close on a connection that is no longer connected changes
\* nothing, and on any other keeps it sound (streamclient.cpp:252).
LEMMA CloseStreamSound ==
    ASSUME NEW k, Sound(k), Awake(k)
    PROVE  LET s == CloseStream(k)
           IN  /\ Sound(s) /\ Awake(s)
               /\ k.sock # "connected" => s = k
  BY CloseSound DEF CloseStream

\* Aborting an open connection leaves it closed and sound (httpserver.cpp:417).
LEMMA AbortSound ==
    ASSUME NEW k, Sound(k), k.sock \in {"connected", "closing"}
    PROVE  Sound(Abort(k)) /\ Awake(Abort(k)) /\ Abort(k).sock = "closed"
  <1>1. Disconnected(k).sock = "closed"
    BY DEF Disconnected, Sound, Connection
  <1> QED BY <1>1, DisconnectedSound DEF Abort

\* A connection is sound when it is accepted (httpserver.cpp:543).
LEMMA AcceptedSound == Sound(Accepted) /\ Awake(Accepted)
  <1>1. <<>> \in Seq(Unit) /\ Len(<<>>) = 0
    BY EmptySeq
  <1>2. NoConnection \in Connection
    BY <1>1 DEF NoConnection, Connection, Object
  <1>3. Accepted \in Connection
    BY <1>2, Zenon DEF Accepted, Connection, Object
  <1>4. /\ Accepted.sock = "connected" /\ Accepted.wbuf = <<>>
        /\ Accepted.http = "live" /\ Accepted.receiving
        /\ ~Accepted.sendDone /\ Accepted.sendBuf = <<>>
        /\ Accepted.ctx = "none" /\ Accepted.response = "none"
        /\ ~Accepted.headerSent /\ Accepted.stream = "none"
        /\ ~Accepted.forward /\ Accepted.queue = <<>>
    BY DEF Accepted, NoConnection
  <1>5. 0 <= SockCap
    BY CapAssumption
  <1> QED BY <1>1, <1>3, <1>4, <1>5 DEF Sound, Awake, WithinCaps

\* A connection that has not been opened yet is sound.
LEMMA NoConnectionSound == Sound(NoConnection) /\ Awake(NoConnection)
  <1>1. <<>> \in Seq(Unit) /\ Len(<<>>) = 0
    BY EmptySeq
  <1>2. NoConnection \in Connection
    BY <1>1 DEF NoConnection, Connection, Object
  <1>3. 0 <= SockCap
    BY CapAssumption
  <1>4. /\ NoConnection.sock = "none" /\ NoConnection.wbuf = <<>>
        /\ NoConnection.http = "none" /\ NoConnection.receiving
        /\ ~NoConnection.sendDone /\ NoConnection.sendBuf = <<>>
        /\ NoConnection.ctx = "none" /\ NoConnection.response = "none"
        /\ ~NoConnection.headerSent /\ NoConnection.stream = "none"
        /\ ~NoConnection.forward /\ NoConnection.queue = <<>>
    BY DEF NoConnection
  <1> QED BY <1>1, <1>2, <1>3, <1>4 DEF Sound, Awake, WithinCaps

\* The request a ready connection is given turns it into one that may send.
LEMMA ProcessRequestSound ==
    ASSUME NEW k, Sound(k), k.receiving, k.sock = "connected",
           NEW kind \in Complete, NEW sent \in Nat,
           NEW c, c = [k EXCEPT !.ctx = "live", !.request = "ready",
                                !.receiving = FALSE]
    PROVE  Sound(EnsureResponse(ProcessRequest(c, kind, sent)))
  <1> DEFINE r == ProcessRequest(c, kind, sent)
  <1>1. k \in Connection
    BY DEF Sound
  <1>2. c \in Connection
    BY <1>1, Zenon DEF Connection, Object
  <1>3. /\ c.sock = "connected" /\ c.wbuf = k.wbuf /\ c.http = "live"
        /\ c.receiving = FALSE /\ c.sendDone = FALSE /\ c.sendBuf = <<>>
        /\ c.ctx = "live" /\ c.response = "none" /\ c.headerSent = FALSE
        /\ c.stream = k.stream /\ c.forward = FALSE /\ c.queue = <<>>
    BY <1>1 DEF Sound, Connection
  <1>4. \A d \in Connection :
            /\ d.sock = c.sock /\ d.wbuf = c.wbuf /\ d.http = c.http
            /\ d.receiving = c.receiving /\ d.sendDone = c.sendDone
            /\ d.sendBuf = c.sendBuf /\ d.ctx = c.ctx
            /\ d.headerSent = c.headerSent /\ d.queue = c.queue
            /\ d.stream \in {c.stream, "live"}
            /\ d.response \in {"ok", "error"}
            /\ d.forward => d.response = "ok" /\ d.generate
            => Sound(d)
    BY <1>3, EmptySeq, CapAssumption DEF Sound, WithinCaps
  <1>5. CASE kind = "refused"
    <2>1. r = [c EXCEPT !.response = "error"]
      BY <1>5 DEF ProcessRequest, HandleRequest
    <2> HIDE DEF r
    <2>2. r \in Connection
      BY <1>2, <2>1, Zenon DEF Connection
    <2>3. /\ r.sock = c.sock /\ r.wbuf = c.wbuf /\ r.http = c.http
          /\ r.receiving = c.receiving /\ r.sendDone = c.sendDone
          /\ r.sendBuf = c.sendBuf /\ r.ctx = c.ctx
          /\ r.headerSent = c.headerSent /\ r.queue = c.queue
          /\ r.stream = c.stream /\ r.response = "error"
          /\ r.forward = c.forward
      BY <1>2, <2>1 DEF Connection
    <2> QED BY <1>3, <1>4, <2>2, <2>3 DEF EnsureResponse, r
  <1>6. CASE kind \in {"lost", "head"}
    <2>1. PICK x \in {"ok", "error"} :
            r = [c EXCEPT !.stream = "live", !.response = x]
      BY <1>6 DEF ProcessRequest, HandleRequest
    <2> HIDE DEF r
    <2>2. r \in Connection
      <3>1. x \in {"none", "ok", "error"} /\ "live" \in Object
        BY DEF Object
      <3> QED BY <1>2, <2>1, <3>1, Zenon DEF Connection
    <2>3. /\ r.sock = c.sock /\ r.wbuf = c.wbuf /\ r.http = c.http
          /\ r.receiving = c.receiving /\ r.sendDone = c.sendDone
          /\ r.sendBuf = c.sendBuf /\ r.ctx = c.ctx
          /\ r.headerSent = c.headerSent /\ r.queue = c.queue
          /\ r.stream = "live" /\ r.response \in {"ok", "error"}
          /\ r.forward = c.forward
      BY <1>2, <2>1 DEF Connection
    <2> QED BY <1>3, <1>4, <2>2, <2>3 DEF EnsureResponse, r
  <1>7. CASE kind = "get"
    <2>1. r = [c EXCEPT !.stream = "live", !.response = "ok",
                        !.forward = TRUE, !.generate = TRUE, !.since = sent]
      BY <1>7 DEF ProcessRequest, HandleRequest
    <2> HIDE DEF r
    <2>2. r \in Connection
      <3> DEFINE d == [c EXCEPT !.stream = "live", !.response = "ok"]
      <3>1. d \in Connection
        <4>1. "live" \in Object /\ "ok" \in {"none", "ok", "error"}
          BY DEF Object
        <4> QED BY <1>2, <4>1, Zenon DEF Connection
      <3> DEFINE e == [d EXCEPT !.forward = TRUE, !.generate = TRUE]
      <3>2. r = [e EXCEPT !.since = sent]
        BY <2>1
      <3> HIDE DEF d
      <3>3. e \in Connection
        <4>1. TRUE \in BOOLEAN
          OBVIOUS
        <4> QED BY <3>1, <4>1, Zenon DEF Connection
      <3> HIDE DEF e
      <3> QED BY <3>2, <3>3, Zenon DEF Connection
    <2>3. /\ r.sock = c.sock /\ r.wbuf = c.wbuf /\ r.http = c.http
          /\ r.receiving = c.receiving /\ r.sendDone = c.sendDone
          /\ r.sendBuf = c.sendBuf /\ r.ctx = c.ctx
          /\ r.headerSent = c.headerSent /\ r.queue = c.queue
          /\ r.stream = "live" /\ r.response = "ok"
          /\ r.forward = TRUE /\ r.generate = TRUE
      BY <1>2, <2>1 DEF Connection
    <2> QED BY <1>3, <1>4, <2>2, <2>3 DEF EnsureResponse, r
  <1> QED BY <1>5, <1>6, <1>7 DEF Complete

\* _receiveData keeps a connected connection sound and its wakeup under way,
\* whatever chunks arrive: rejected, incomplete, complete, or too many
\* (httpserver.cpp:407).
LEMMA ReceiveDataSound ==
    ASSUME NEW k, Sound(k), k.sock = "connected", NEW sent \in Nat,
           NEW len \in Nat \ {0}, NEW s \in [1 .. len -> Chunk]
    PROVE  LET t == ReceiveData(k, s, sent)
           IN  Sound(t) /\ Awake(t) /\ t.sock # "none"
  <1> DEFINE r == Parsed(k.request, s)
             c == [k EXCEPT !.ctx = IF @ = "none" THEN "live" ELSE @,
                            !.request = r]
  <1>1. k \in Connection
    BY DEF Sound
  <1>2. CASE ~k.receiving
    BY <1>2, AbortSound DEF ReceiveData
  <1>3. CASE k.receiving
    <2>1. (IF k.ctx = "none" THEN "live" ELSE k.ctx) = "live"
      BY DEF Sound
    <2>2. c = [k EXCEPT !.ctx = "live", !.request = r]
      BY <2>1
    <2>3. r \in {"line", "body", "ready", "failed"}
      BY DEF Parsed
    <2>4. Len(s) = len /\ s[Len(s)] \in Chunk
      <3>1. s \in Seq(Chunk)
        OBVIOUS
      <3>2. Len(s) = len
        BY <3>1, LenProperties
      <3> QED BY <3>2
    <2>5. r = "ready" => s[Len(s)] \in Complete
      BY <2>4 DEF Parsed, Rejects, Chunk
    <2>6. c \in Connection
      <3> HIDE DEF r
      <3> QED BY <1>1, <2>2, <2>3, Zenon DEF Connection, Object
    <2>7. CASE r = "failed"
      <3> DEFINE d == [c EXCEPT !.receiving = FALSE, !.response = "error"]
      <3>1. ReceiveData(k, s, sent) = d
        BY <1>3, <2>7 DEF ReceiveData
      <3>2. d = [k EXCEPT !.ctx = "live", !.request = "failed",
                          !.receiving = FALSE, !.response = "error"]
        BY <1>1, <2>2, <2>7 DEF Connection
      <3> HIDE DEF d, c, r
      <3>3. d \in Connection
        BY <1>1, <3>2, Zenon DEF Connection, Object
      <3>4. /\ d.sock = "connected" /\ d.wbuf = k.wbuf /\ d.http = k.http
            /\ d.receiving = FALSE /\ d.sendDone = k.sendDone
            /\ d.sendBuf = k.sendBuf /\ d.ctx = "live"
            /\ d.headerSent = k.headerSent /\ d.queue = k.queue
            /\ d.stream = k.stream /\ d.forward = k.forward
        BY <1>1, <3>2 DEF Connection
      <3> QED BY <1>3, <3>1, <3>3, <3>4 DEF Sound, Awake, WithinCaps
    <2>8. CASE r \in {"line", "body"}
      <3>1. ReceiveData(k, s, sent) = c
        BY <1>3, <2>8 DEF ReceiveData
      <3> HIDE DEF c, r
      <3>2. /\ c.sock = "connected" /\ c.wbuf = k.wbuf /\ c.http = k.http
            /\ c.receiving = k.receiving /\ c.sendDone = k.sendDone
            /\ c.sendBuf = k.sendBuf /\ c.ctx = "live"
            /\ c.headerSent = k.headerSent /\ c.queue = k.queue
            /\ c.stream = k.stream /\ c.forward = k.forward
            /\ c.response = k.response
        BY <1>1, <2>2 DEF Connection
      <3> QED BY <1>3, <2>6, <3>1, <3>2 DEF Sound, Awake, WithinCaps
    <2>9. CASE r = "ready"
      <3> DEFINE d == [c EXCEPT !.receiving = FALSE]
                 e == EnsureResponse(ProcessRequest(d, s[Len(s)], sent))
      <3>1. ReceiveData(k, s, sent) = SendData(e)
        BY <1>3, <2>9 DEF ReceiveData
      <3>2. d = [k EXCEPT !.ctx = "live", !.request = "ready",
                          !.receiving = FALSE]
        BY <1>1, <2>2, <2>9 DEF Connection
      <3>3. Sound(e)
        <4> HIDE DEF d, c, r
        <4> QED BY <1>3, <2>5, <2>9, <3>2, ProcessRequestSound
      <3>4. e.sock # "none"
        <4>1. d.sock = "connected"
          BY <1>1, <3>2 DEF Connection
        <4> HIDE DEF d, c, r
        <4> QED BY <2>5, <2>9, <3>2, <4>1, <1>1
              DEF EnsureResponse, ProcessRequest, HandleRequest, Connection, Complete
      <3> HIDE DEF e, d, c, r
      <3> QED BY <3>1, <3>3, <3>4, SendDataSound
    <2> QED BY <2>3, <2>7, <2>8, <2>9
  <1> QED BY <1>2, <1>3

-----------------------------------------------------------------------------
(***************************************************************************)
(* The server.                                                             *)
(***************************************************************************)
\* Every connection is sound and awake between two handlers.
Good(cs) ==
    /\ cs \in [Conns -> Connection]
    /\ \A c \in Conns : Sound(cs[c]) /\ Awake(cs[c])

\* Only objects of connections that are down wait for their deletion: a posted
\* deletion never meets a connection that still sends.
Down(cs, q) ==
    \A i \in DOMAIN q, o \in Objects, c \in Conns :
        <<o, c>> \in q[i] => cs[c].sock = "closed"

\* A connection whose peer has not come yet has no objects.
Unopened == \A c \in Conns : peer[c] = "away" => conn[c].sock = "none"

IInv == TypeOK /\ Good(conn) /\ Unopened /\ Down(conn, posted)

\* From one conn to the next, connections stay down and stay unopened.
Stays(cs, ds) ==
    \A c \in Conns : /\ cs[c].sock = "closed" => ds[c].sock = "closed"
                     /\ cs[c].sock = "none" => ds[c].sock = "none"

-----------------------------------------------------------------------------
\* ~ServerContext with handleHTTPServerContextDestroyed, ~ServerClient and
\* ~StreamClient leave a connection that is down sound.
LEMMA DestroyedSound ==
    ASSUME NEW k, Sound(k), k.sock = "closed"
    PROVE  \A d \in {ContextDestroyed(k), ClientDestroyed(k), StreamDestroyed(k)} :
             Sound(d) /\ Awake(d) /\ d.sock = "closed"
  <1>1. k \in Connection /\ <<>> \in Seq(Unit) /\ Len(<<>>) = 0
    BY EmptySeq DEF Sound
  <1>2. 0 <= BufCap
    BY CapAssumption
  <1>3. ASSUME NEW d \in Connection,
               d.sock = "closed", d.wbuf = k.wbuf, d.receiving = k.receiving,
               d.sendDone = k.sendDone, d.response = k.response,
               d.headerSent = k.headerSent, d.generate = k.generate,
               d.forward = k.forward,
               d.sendBuf \in {k.sendBuf, <<>>}, d.queue \in {k.queue, <<>>}
        PROVE  Sound(d) /\ Awake(d) /\ d.sock = "closed"
    BY <1>1, <1>2, <1>3 DEF Sound, Awake, WithinCaps
  <1>4. Sound(ContextDestroyed(k)) /\ Awake(ContextDestroyed(k))
        /\ ContextDestroyed(k).sock = "closed"
    <2> DEFINE q == IF k.stream = "live" THEN <<>> ELSE k.queue
               d == [k EXCEPT !.ctx = "dead", !.stream = DeleteLater(@),
                              !.queue = q]
    <2>1. ContextDestroyed(k) = d
      BY DEF ContextDestroyed
    <2>2. q \in Seq(Unit) /\ q \in {k.queue, <<>>}
      BY <1>1 DEF Connection
    <2>3. DeleteLater(k.stream) \in Object /\ "dead" \in Object
      BY <1>1 DEF Connection, DeleteLater, Object
    <2> HIDE DEF q
    <2>4. d \in Connection
      BY <1>1, <2>2, <2>3, Zenon DEF Connection
    <2>5. /\ d.sock = k.sock /\ d.wbuf = k.wbuf /\ d.receiving = k.receiving
          /\ d.sendDone = k.sendDone /\ d.response = k.response
          /\ d.headerSent = k.headerSent /\ d.generate = k.generate
          /\ d.forward = k.forward /\ d.sendBuf = k.sendBuf /\ d.queue = q
      BY <1>1 DEF Connection
    <2> HIDE DEF d
    <2> QED BY <1>3, <2>1, <2>2, <2>4, <2>5
  <1>5. Sound(ClientDestroyed(k)) /\ Awake(ClientDestroyed(k))
        /\ ClientDestroyed(k).sock = "closed"
    <2> DEFINE d == ClientDestroyed(k)
    <2>1. d \in Connection
      <3>1. "dead" \in Object
        BY DEF Object
      <3> QED BY <1>1, <3>1, Zenon DEF Connection, ClientDestroyed
    <2>2. /\ d.sock = k.sock /\ d.wbuf = k.wbuf /\ d.receiving = k.receiving
          /\ d.sendDone = k.sendDone /\ d.response = k.response
          /\ d.headerSent = k.headerSent /\ d.generate = k.generate
          /\ d.forward = k.forward /\ d.sendBuf = <<>> /\ d.queue = k.queue
      BY <1>1 DEF Connection, ClientDestroyed
    <2> HIDE DEF d
    <2> QED BY <1>3, <2>1, <2>2 DEF d
  <1>6. Sound(StreamDestroyed(k)) /\ Awake(StreamDestroyed(k))
        /\ StreamDestroyed(k).sock = "closed"
    <2> DEFINE d == StreamDestroyed(k)
    <2>1. d \in Connection
      <3>1. "dead" \in Object
        BY DEF Object
      <3> QED BY <1>1, <3>1, Zenon DEF Connection, StreamDestroyed
    <2>2. /\ d.sock = k.sock /\ d.wbuf = k.wbuf /\ d.receiving = k.receiving
          /\ d.sendDone = k.sendDone /\ d.response = k.response
          /\ d.headerSent = k.headerSent /\ d.generate = k.generate
          /\ d.forward = k.forward /\ d.sendBuf = k.sendBuf /\ d.queue = <<>>
      BY <1>1 DEF Connection, StreamDestroyed
    <2> HIDE DEF d
    <2> QED BY <1>3, <2>1, <2>2 DEF d
  <1> QED BY <1>4, <1>5, <1>6

\* bytesWritten: what the kernel took leaves the socket's buffer, and sendData
\* then fills it again or closes the socket.
LEMMA AfterWriteSound ==
    ASSUME NEW k, Sound(k), k.sock \in {"connected", "closing"},
           NEW n \in 1 .. Len(k.wbuf)
    PROVE  LET t == AfterWrite(k, n)
           IN  Sound(t) /\ Awake(t) /\ t.sock # "none"
  <1> DEFINE rest == SubSeq(k.wbuf, n + 1, Len(k.wbuf))
             w == [k EXCEPT !.wbuf = rest]
             s == SendData(w)
  <1>1. k \in Connection /\ k.wbuf \in Seq(Unit)
    BY DEF Sound, Connection
  <1>2. Len(k.wbuf) \in Nat
    BY <1>1, LenProperties
  <1>3. n \in 0 .. Len(k.wbuf)
    BY <1>2
  <1>4. rest \in Seq(Unit) /\ Len(rest) = Len(k.wbuf) - n
    BY <1>1, <1>3, Cut
  <1>5. Len(rest) <= SockCap
    <2>1. ASSUME NEW x \in Nat, NEW m \in 1 .. x, x <= SockCap
          PROVE  x - m <= SockCap
      BY <2>1, CapAssumption
    <2>2. Len(k.wbuf) <= SockCap
      BY DEF Sound, WithinCaps
    <2> QED BY <1>2, <1>4, <2>1, <2>2
  <1> HIDE DEF rest
  <1>6. w \in Connection
    BY <1>1, <1>4, Zenon DEF Connection
  <1>7. /\ w.sock = k.sock /\ w.wbuf = rest /\ w.http = k.http
        /\ w.receiving = k.receiving /\ w.sendDone = k.sendDone
        /\ w.sendBuf = k.sendBuf /\ w.ctx = k.ctx
        /\ w.response = k.response /\ w.headerSent = k.headerSent
        /\ w.generate = k.generate /\ w.stream = k.stream
        /\ w.forward = k.forward /\ w.queue = k.queue
    BY <1>1 DEF Connection
  <1>8. AfterWrite(k, n) = IF s.sock = "closing" /\ s.wbuf = <<>>
                             THEN Disconnected(s) ELSE s
    BY DEF AfterWrite, rest
  <1> HIDE DEF w
  <1>9. Sound(w)
    BY <1>5, <1>6, <1>7 DEF Sound, WithinCaps
  <1>10. Sound(s) /\ Awake(s) /\ s.sock # "none"
    BY <1>7, <1>9, SendDataSound
  <1> HIDE DEF s
  <1>11. Sound(Disconnected(s)) /\ Awake(Disconnected(s))
    BY <1>10, DisconnectedSound
  <1>12. Disconnected(s).sock = "closed"
    BY <1>10 DEF Disconnected, Sound, Connection
  <1> QED BY <1>8, <1>10, <1>11, <1>12

-----------------------------------------------------------------------------
\* What the deleteLater() calls of a handler post belongs to connections that
\* are down after it.
LEMMA PostSound ==
    ASSUME NEW cs, NEW ds, Good(ds),
           \A c \in Conns : cs[c].sock = "closed" => ds[c].sock = "closed",
           NEW q \in Seq(SUBSET Event), Down(cs, q)
    PROVE  LET r == Post(q, Doomed(ds) \ Doomed(cs))
           IN  r \in Seq(SUBSET Event) /\ Down(ds, r)
  <1> DEFINE batch == Doomed(ds) \ Doomed(cs)
  <1>1. batch \in SUBSET Event
    BY DEF Doomed, Event
  <1>2. Down(ds, q)
    BY DEF Down
  <1>3. ASSUME NEW o \in Objects, NEW c \in Conns, <<o, c>> \in batch
        PROVE  ds[c].sock = "closed"
    <2>1. ds[c][o] = "doomed"
      BY <1>3 DEF Doomed
    <2>2. "doomed" \in {ds[c].http, ds[c].ctx, ds[c].stream}
      BY <2>1 DEF Objects
    <2> QED BY <2>2 DEF Good, Sound
  <1> HIDE DEF batch
  <1>4. CASE batch = {}
    BY <1>2, <1>4 DEF Post, batch
  <1>5. CASE batch # {}
    <2>1. Append(q, batch) \in Seq(SUBSET Event)
      BY <1>1, AppendProperties
    <2>2. \A i \in DOMAIN Append(q, batch) :
            Append(q, batch)[i] = batch \/ (i \in DOMAIN q /\ Append(q, batch)[i] = q[i])
      BY <1>1
    <2>3. Down(ds, Append(q, batch))
      BY <1>2, <1>3, <2>2 DEF Down
    <2> QED BY <1>5, <2>1, <2>3 DEF Post, batch
  <1> QED BY <1>4, <1>5

\* Delivering a posted event removes it and nothing else.
LEMMA DeliveredSound ==
    ASSUME NEW e, posted \in Seq(SUBSET Event), posted # <<>>,
           NEW cs, Down(cs, posted)
    PROVE  Delivered(e) \in Seq(SUBSET Event) /\ Down(cs, Delivered(e))
  <1> DEFINE h == Head(posted) \ {e}
             t == Tail(posted)
  <1>1. /\ Head(posted) \in SUBSET Event /\ Head(posted) = posted[1]
        /\ 1 \in DOMAIN posted
        /\ t \in Seq(SUBSET Event)
        /\ \A i \in DOMAIN t : i + 1 \in DOMAIN posted /\ t[i] = posted[i + 1]
    BY HeadTailProperties, LenProperties, EmptySeq
  <1>2. Down(cs, t)
    BY <1>1 DEF Down
  <1>3. h \in SUBSET Event /\ h \subseteq posted[1]
    BY <1>1
  <1> HIDE DEF h, t
  <1>4. <<h>> \o t \in Seq(SUBSET Event)
    BY <1>1, <1>3, ConcatProperties
  <1>5. \A i \in DOMAIN (<<h>> \o t) :
          \/ (<<h>> \o t)[i] = h
          \/ i - 1 \in DOMAIN t /\ (<<h>> \o t)[i] = t[i - 1]
    BY <1>1, <1>3
  <1>6. Down(cs, <<h>> \o t)
    <2> SUFFICES ASSUME NEW i \in DOMAIN (<<h>> \o t), NEW o \in Objects,
                        NEW c \in Conns, <<o, c>> \in (<<h>> \o t)[i]
                 PROVE  cs[c].sock = "closed"
      BY DEF Down
    <2>1. CASE (<<h>> \o t)[i] = h
      BY <1>1, <1>3, <2>1 DEF Down
    <2>2. CASE i - 1 \in DOMAIN t /\ (<<h>> \o t)[i] = t[i - 1]
      BY <1>2, <2>2 DEF Down
    <2> QED BY <1>5, <2>1, <2>2
  <1> QED BY <1>1, <1>2, <1>4, <1>6 DEF Delivered, h, t

-----------------------------------------------------------------------------
\* The server starts without connections and without posted events.
LEMMA InitInvariant == Init => IInv
  <1> SUFFICES ASSUME Init PROVE IInv
    OBVIOUS
  <1>1. \A c \in Conns : conn[c] = NoConnection
    BY DEF Init
  <1>2. Sound(NoConnection) /\ Awake(NoConnection)
    BY NoConnectionSound
  <1>3. NoConnection \in Connection /\ WithinCaps(NoConnection)
    BY <1>2 DEF Sound
  <1>4. Good(conn)
    BY <1>1, <1>2, <1>3, Zenon DEF Init, Good
  <1>5. Unopened
    BY <1>1 DEF Unopened, NoConnection
  <1>6. TypeOK
    <2>1. posted \in Seq(SUBSET Event)
      BY DEF Init
    <2>2. got \in [Conns -> Seq(Unit)]
      <3>1. <<>> \in Seq(Unit)
        OBVIOUS
      <3> QED BY <3>1, Zenon DEF Init
    <2>3. peer \in [Conns -> {"away", "open", "gone"}]
      BY DEF Init
    <2> QED BY <1>1, <1>3, <1>4, <2>1, <2>2, <2>3 DEF Init, TypeOK, Good
  <1>7. Down(conn, posted)
    BY DEF Down, Init
  <1> QED BY <1>4, <1>5, <1>6, <1>7 DEF IInv

\* Every handler that runs on one connection, given that what it makes of the
\* connection is sound, keeps the connections' and the posted events' part of
\* the invariant.
LEMMA HandlerSound ==
    ASSUME IInv, NEW c \in Conns, NEW x, Sound(x), Awake(x),
           conn[c].sock = "closed" => x.sock = "closed",
           conn[c].sock # "none", x.sock # "none",
           conn' = [conn EXCEPT ![c] = x],
           PostDeletions, peer' = peer
    PROVE  /\ Good(conn') /\ Unopened' /\ Down(conn', posted')
           /\ posted' \in Seq(SUBSET Event)
  <1>1. Good(conn) /\ Down(conn, posted) /\ posted \in Seq(SUBSET Event)
    BY DEF IInv, TypeOK
  <1>2. /\ Good(conn')
        /\ \A d \in Conns : conn[d].sock = "closed" => conn'[d].sock = "closed"
        /\ \A d \in Conns : d # c => conn'[d] = conn[d]
        /\ conn'[c] = x
    BY <1>1 DEF Good, Sound
  <1>3. /\ posted' \in Seq(SUBSET Event)
        /\ Down(conn', posted')
    BY <1>1, <1>2, PostSound DEF PostDeletions, NewlyDoomed
  <1>4. Unopened'
    BY <1>2 DEF IInv, Unopened
  <1> QED BY <1>2, <1>3, <1>4

\* The same for a step that changes several connections.
LEMMA BroadcastSound ==
    ASSUME IInv, Good(conn'), Stays(conn, conn'), peer' = peer,
           NEW q \in Seq(SUBSET Event), Down(conn, q),
           posted' = Post(q, NewlyDoomed)
    PROVE  /\ Unopened' /\ Down(conn', posted')
           /\ posted' \in Seq(SUBSET Event)
  <1>1. posted' \in Seq(SUBSET Event) /\ Down(conn', posted')
    BY PostSound DEF Stays, NewlyDoomed
  <1>2. Unopened'
    BY DEF IInv, Unopened, Stays
  <1> QED BY <1>1, <1>2

\* shutdown() keeps every connection sound: a stream client's socket closes,
\* or starts to, the others stay as they are.
LEMMA ShutdownSound ==
    ASSUME IInv, Shutdown
    PROVE  /\ Good(conn') /\ Stays(conn, conn')
           /\ listening' \in BOOLEAN /\ shuttingDown' \in BOOLEAN
           /\ app' \in {"running", "exiting", "forced", "fatal"}
  <1>1. Good(conn)
    BY DEF IInv
  <1>2. CASE shuttingDown
    BY <1>1, <1>2 DEF Shutdown, IInv, TypeOK, Stays
  <1>3. CASE ~shuttingDown
    <2>1. conn' = [c \in Conns |-> IF c \in streamClients
                                     THEN CloseStream(conn[c]) ELSE conn[c]]
      BY <1>3 DEF Shutdown
    <2>2. \A c \in Conns : /\ Sound(CloseStream(conn[c]))
                           /\ Awake(CloseStream(conn[c]))
                           /\ conn[c].sock # "connected"
                                => CloseStream(conn[c]) = conn[c]
      BY <1>1, CloseStreamSound DEF Good
    <2>3. \A c \in Conns : CloseStream(conn[c]) \in Connection
      BY <2>2 DEF Sound
    <2>4. Good(conn')
      BY <1>1, <2>1, <2>2, <2>3 DEF Good
    <2>5. Stays(conn, conn')
      BY <2>1, <2>2 DEF Stays
    <2> QED BY <1>3, <2>4, <2>5 DEF Shutdown, IInv, TypeOK
  <1> QED BY <1>2, <1>3

\* Every step of the server keeps the invariant.
LEMMA NextInvariant == IInv /\ [Next]_vars => IInv'
  <1> SUFFICES ASSUME IInv, [Next]_vars PROVE IInv'
    OBVIOUS
  <1>1. Good(conn) /\ Down(conn, posted) /\ posted \in Seq(SUBSET Event) /\ TypeOK
    BY DEF IInv, TypeOK
  <1>2. ASSUME Good(conn'), Unopened', Down(conn', posted'),
               posted' \in Seq(SUBSET Event),
               httpClients' \subseteq Conns, streamClients' \subseteq Conns,
               listening' \in BOOLEAN, shuttingDown' \in BOOLEAN,
               signalled' \in BOOLEAN, packets' \in Nat,
               input' \in {"open", "waiting", "closed"},
               loop' \in {"events", "posted"},
               app' \in {"running", "exiting", "forced", "fatal"},
               peer' \in [Conns -> {"away", "open", "gone"}],
               got' \in [Conns -> Seq(Unit)]
        PROVE  IInv'
    BY <1>2 DEF IInv, TypeOK, Good, Sound
  <1>3. ASSUME NEW c \in Conns, PeerClose(c) PROVE IInv'
    <2>1. peer' \in [Conns -> {"away", "open", "gone"}]
      BY <1>1, <1>3 DEF PeerClose, TypeOK
    <2>2. Unopened'
      BY <1>1, <1>3 DEF PeerClose, Unopened, IInv, TypeOK
    <2> QED BY <1>1, <1>2, <1>3, <2>1, <2>2
          DEF PeerClose, TypeOK, listVars, serverVars
  <1>4. CASE Signal
    <2>1. posted' \in Seq(SUBSET Event) /\ Down(conn', posted')
      <3>1. CASE posted' = posted
        BY <1>1, <1>4, <3>1 DEF Signal
      <3>2. CASE posted' = Append(posted, {ShutdownCall})
        <4>1. {ShutdownCall} \in SUBSET Event
          BY DEF Event
        <4>2. posted' \in Seq(SUBSET Event)
          BY <1>1, <3>2, <4>1, AppendProperties
        <4>3. \A i \in DOMAIN posted' :
                \/ posted'[i] = {ShutdownCall}
                \/ i \in DOMAIN posted /\ posted'[i] = posted[i]
          BY <1>1, <3>2, <4>1
        <4>4. \A o \in Objects, c \in Conns : <<o, c>> \notin {ShutdownCall}
          BY DEF ShutdownCall
        <4>5. conn' = conn
          BY <1>4 DEF Signal
        <4> QED BY <1>1, <4>2, <4>3, <4>4, <4>5 DEF Down
      <3> QED BY <1>4, <3>1, <3>2 DEF Signal
    <2>2. Unopened'
      BY <1>4 DEF Signal, IInv, Unopened, netVars
    <2> QED BY <1>1, <1>2, <1>4, <2>1, <2>2
          DEF Signal, TypeOK, listVars, netVars
  <1>5. ASSUME NEW c \in Conns, ClientConnected(c) PROVE IInv'
    <2>1. conn' = [conn EXCEPT ![c] = Accepted]
          /\ peer' = [peer EXCEPT ![c] = "open"] /\ posted' = posted
          /\ httpClients' = httpClients \cup {c}
      BY <1>5 DEF ClientConnected
    <2>2. Good(conn')
      BY <1>1, <2>1, AcceptedSound DEF Good, Sound
    <2>3. conn[c].sock = "none"
      BY <1>5 DEF ClientConnected, IInv, Unopened
    <2>4. Down(conn', posted')
      BY <1>1, <2>1, <2>3 DEF Down, Good
    <2>5. Unopened'
      BY <1>1, <2>1 DEF Unopened, IInv, TypeOK, Good
    <2>6. peer' \in [Conns -> {"away", "open", "gone"}]
      BY <1>1, <2>1 DEF TypeOK
    <2> QED BY <1>1, <1>2, <1>5, <2>1, <2>2, <2>4, <2>5, <2>6
          DEF ClientConnected, TypeOK, serverVars
  <1>6. ASSUME NEW c \in Conns, ReadyRead(c) PROVE IInv'
    <2>a. PICK len \in 1 .. MaxChunks : \E s \in [1 .. len -> Chunks] :
            conn' = [conn EXCEPT ![c] = ReceiveData(@, s, packets)]
      BY <1>6 DEF ReadyRead
    <2>1. PICK q \in [1 .. len -> Chunks] :
            conn' = [conn EXCEPT ![c] = ReceiveData(@, q, packets)]
      BY <2>a
    <2> DEFINE x == ReceiveData(conn[c], q, packets)
    <2>2. Sound(x) /\ Awake(x) /\ x.sock # "none"
      <3>1. Sound(conn[c]) /\ conn[c].sock = "connected"
        BY <1>1, <1>6 DEF Good, ReadyRead
      <3>2. len \in Nat \ {0} /\ q \in [1 .. len -> Chunk] /\ packets \in Nat
        BY <1>1, ChunksAssumption, BoundAssumption DEF TypeOK
      <3> QED BY <3>1, <3>2, ReceiveDataSound
    <2> HIDE DEF x
    <2>3. conn' = [conn EXCEPT ![c] = x]
      BY <2>1 DEF x
    <2>4. conn[c].sock = "connected" /\ PostDeletions /\ peer' = peer
      BY <1>6 DEF ReadyRead, netVars
    <2>5. /\ Good(conn') /\ Unopened' /\ Down(conn', posted')
          /\ posted' \in Seq(SUBSET Event)
      BY <2>2, <2>3, <2>4, HandlerSound
    <2>6. streamClients' \subseteq Conns
      BY <1>1, <1>6 DEF ReadyRead, TypeOK
    <2> QED BY <1>1, <1>2, <1>6, <2>5, <2>6
          DEF ReadyRead, TypeOK, serverVars, netVars
  <1>7. ASSUME NEW c \in Conns, BytesWritten(c) PROVE IInv'
    <2>1. PICK n \in 1 .. Len(conn[c].wbuf) :
            /\ got' = [got EXCEPT ![c] = @ \o SubSeq(conn[c].wbuf, 1, n)]
            /\ conn' = [conn EXCEPT ![c] = AfterWrite(@, n)]
      BY <1>7 DEF BytesWritten
    <2> DEFINE x == AfterWrite(conn[c], n)
    <2>2. Sound(conn[c]) /\ conn[c].sock \in {"connected", "closing"}
      BY <1>1, <1>7 DEF Good, BytesWritten
    <2>3. Sound(x) /\ Awake(x) /\ x.sock # "none"
      BY <2>2, AfterWriteSound
    <2> HIDE DEF x
    <2>4. conn' = [conn EXCEPT ![c] = x]
      BY <2>1 DEF x
    <2>5. PostDeletions /\ peer' = peer
      BY <1>7 DEF BytesWritten
    <2>6. /\ Good(conn') /\ Unopened' /\ Down(conn', posted')
          /\ posted' \in Seq(SUBSET Event)
      BY <2>2, <2>3, <2>4, <2>5, HandlerSound
    <2>7. got' \in [Conns -> Seq(Unit)]
      <3>1. conn[c].wbuf \in Seq(Unit) /\ got[c] \in Seq(Unit)
        BY <1>1, <2>2 DEF Sound, Connection, TypeOK
      <3>2. n \in 0 .. Len(conn[c].wbuf)
        BY <3>1, LenProperties
      <3>3. SubSeq(conn[c].wbuf, 1, n) \in Seq(Unit)
        BY <3>1, <3>2, Cut
      <3>4. got[c] \o SubSeq(conn[c].wbuf, 1, n) \in Seq(Unit)
        BY <3>1, <3>3, ConcatProperties
      <3> QED BY <1>1, <2>1, <3>4 DEF TypeOK
    <2> QED BY <1>1, <1>2, <1>7, <2>6, <2>7
          DEF BytesWritten, TypeOK, listVars, serverVars
  <1>8. ASSUME NEW c \in Conns, PeerGoneRead(c) PROVE IInv'
    <2> DEFINE x == Close(conn[c])
    <2>1. /\ Sound(conn[c]) /\ Awake(conn[c]) /\ conn[c].sock = "connected"
          /\ conn' = [conn EXCEPT ![c] = x]
          /\ PostDeletions /\ peer' = peer
      BY <1>1, <1>8 DEF Good, PeerGoneRead, netVars
    <2>2. Sound(x) /\ Awake(x)
      BY <2>1, CloseSound
    <2>3. x.sock # "none"
      BY <2>1 DEF Close, Disconnected, Sound, Connection
    <2> HIDE DEF x
    <2>4. /\ Good(conn') /\ Unopened' /\ Down(conn', posted')
          /\ posted' \in Seq(SUBSET Event)
      BY <2>1, <2>2, <2>3, HandlerSound
    <2> QED BY <1>1, <1>2, <1>8, <2>4
          DEF PeerGoneRead, TypeOK, listVars, serverVars, netVars
  <1>9. ASSUME NEW c \in Conns, PeerGoneWrite(c) PROVE IInv'
    <2> DEFINE x == Abort(conn[c])
    <2>1. /\ Sound(conn[c]) /\ conn[c].sock \in {"connected", "closing"}
          /\ conn' = [conn EXCEPT ![c] = x]
          /\ PostDeletions /\ peer' = peer
      BY <1>1, <1>9 DEF Good, PeerGoneWrite, netVars
    <2>2. Sound(x) /\ Awake(x) /\ x.sock = "closed"
      BY <2>1, AbortSound
    <2> HIDE DEF x
    <2>3. /\ Good(conn') /\ Unopened' /\ Down(conn', posted')
          /\ posted' \in Seq(SUBSET Event)
      BY <2>1, <2>2, HandlerSound
    <2> QED BY <1>1, <1>2, <1>9, <2>3
          DEF PeerGoneWrite, TypeOK, listVars, serverVars, netVars
  <1>10. CASE ProcessInput
    <2>1. /\ packets' = packets + 1 /\ packets' \in Unit /\ packets' \in Nat
          /\ conn' = [c \in Conns |-> IF c \in streamClients
                        THEN QueuePacket(conn[c], packets') ELSE conn[c]]
          /\ PostDeletions /\ peer' = peer
      BY <1>1, <1>10 DEF ProcessInput, TypeOK, Unit, netVars
    <2>2. \A c \in Conns : LET t == QueuePacket(conn[c], packets')
                           IN  /\ Sound(t) /\ Awake(t)
                               /\ conn[c].sock = "closed" => t.sock = "closed"
                               /\ conn[c].sock = "none" => t = conn[c]
      BY <1>1, <2>1, QueuePacketSound DEF Good
    <2>3. Good(conn')
      BY <1>1, <2>1, <2>2 DEF Good, Sound
    <2>4. Stays(conn, conn')
      BY <2>1, <2>2 DEF Stays
    <2>5. /\ Unopened' /\ Down(conn', posted')
          /\ posted' \in Seq(SUBSET Event)
      BY <1>1, <2>1, <2>3, <2>4, BroadcastSound DEF PostDeletions
    <2> QED BY <1>1, <1>2, <1>10, <2>1, <2>3, <2>5
          DEF ProcessInput, TypeOK, listVars, serverVars, netVars
  <1>11. CASE InputEnds \/ InputReopened \/ StartPosted \/ EndPosted
    <2>1. conn' = conn /\ peer' = peer /\ posted' = posted
      BY <1>11 DEF InputEnds, InputReopened, StartPosted, EndPosted, netVars
    <2>2. Unopened'
      BY <2>1 DEF IInv, Unopened
    <2> QED BY <1>1, <1>2, <1>11, <2>1, <2>2
          DEF InputEnds, InputReopened, StartPosted, EndPosted, TypeOK,
              listVars, serverVars, netVars
  <1>12. CASE ReopenFails
    <2>1. Shutdown /\ PostDeletions /\ peer' = peer
      BY <1>12 DEF ReopenFails, netVars
    <2>2. /\ Good(conn') /\ Stays(conn, conn')
          /\ listening' \in BOOLEAN /\ shuttingDown' \in BOOLEAN
          /\ app' \in {"running", "exiting", "forced", "fatal"}
      BY <2>1, ShutdownSound
    <2>3. /\ Unopened' /\ Down(conn', posted')
          /\ posted' \in Seq(SUBSET Event)
      BY <1>1, <2>1, <2>2, BroadcastSound DEF PostDeletions
    <2> QED BY <1>1, <1>2, <1>12, <2>2, <2>3
          DEF ReopenFails, TypeOK, listVars, netVars
  <1>13. ASSUME NEW c \in Conns, PostedEvent(c) PROVE IInv'
    <2>1. PICK o \in Objects : Delivering(<<o, c>>)
      BY <1>13 DEF PostedEvent, DeleteContext, DeleteClient, DeleteStream, Objects
    <2>2. posted # <<>> /\ <<o, c>> \in posted[1] /\ 1 \in DOMAIN posted
      BY <1>1, <2>1, LenProperties, EmptySeq, HeadTailProperties DEF Delivering
    <2>3. Sound(conn[c]) /\ conn[c].sock = "closed"
      BY <1>1, <2>2 DEF Good, Down
    <2>4. PICK x \in {ContextDestroyed(conn[c]), ClientDestroyed(conn[c]),
                      StreamDestroyed(conn[c])} : conn' = [conn EXCEPT ![c] = x]
      BY <1>13 DEF PostedEvent, DeleteContext, DeleteClient, DeleteStream
    <2>5. Sound(x) /\ Awake(x) /\ x.sock = "closed"
      BY <2>3, DestroyedSound
    <2>6. Good(conn') /\ Stays(conn, conn')
      BY <1>1, <2>3, <2>4, <2>5 DEF Good, Stays, Sound
    <2>7. \A e : Delivered(e) \in Seq(SUBSET Event) /\ Down(conn, Delivered(e))
      BY <1>1, <2>2, DeliveredSound
    <2>8. peer' = peer
      BY <1>13 DEF PostedEvent, DeleteContext, DeleteClient, DeleteStream, netVars
    <2>9. /\ Unopened' /\ Down(conn', posted')
          /\ posted' \in Seq(SUBSET Event)
      <3>1. CASE DeleteContext(c)
        BY <2>6, <2>7, <2>8, <3>1, BroadcastSound DEF DeleteContext
      <3>2. CASE \E e : posted' = Delivered(e)
        BY <2>6, <2>7, <2>8, <3>2 DEF Down, Stays, Unopened, IInv
      <3> QED BY <1>13, <3>1, <3>2 DEF PostedEvent, DeleteClient, DeleteStream
    <2> QED BY <1>1, <1>2, <1>13, <2>6, <2>9
          DEF PostedEvent, DeleteContext, DeleteClient, DeleteStream, TypeOK,
              AppAfterClientGone, listVars, serverVars, netVars
  <1>14. CASE QueuedShutdown
    <2>1. /\ Shutdown /\ posted # <<>> /\ peer' = peer
          /\ posted' = Post(Delivered(ShutdownCall), NewlyDoomed)
      BY <1>14 DEF QueuedShutdown, Delivering, netVars
    <2>2. /\ Good(conn') /\ Stays(conn, conn')
          /\ listening' \in BOOLEAN /\ shuttingDown' \in BOOLEAN
          /\ app' \in {"running", "exiting", "forced", "fatal"}
      BY <2>1, ShutdownSound
    <2>3. /\ Delivered(ShutdownCall) \in Seq(SUBSET Event)
          /\ Down(conn, Delivered(ShutdownCall))
      BY <1>1, <2>1, DeliveredSound
    <2>4. /\ Unopened' /\ Down(conn', posted')
          /\ posted' \in Seq(SUBSET Event)
      BY <2>1, <2>2, <2>3, BroadcastSound
    <2> QED BY <1>1, <1>2, <1>14, <2>2, <2>4
          DEF QueuedShutdown, TypeOK, listVars, netVars
  <1>15. CASE UNCHANGED vars
    <2>1. Unopened'
      BY <1>15 DEF IInv, Unopened, vars, netVars
    <2> QED BY <1>1, <1>2, <1>15, <2>1
          DEF vars, TypeOK, listVars, serverVars, netVars
  <1> QED BY <1>3, <1>4, <1>5, <1>6, <1>7, <1>8, <1>9, <1>10, <1>11, <1>12,
             <1>13, <1>14, <1>15 DEF Next, ConnectionEvent

\* The invariant holds throughout, whatever peers, input and signals do.
THEOREM Invariant == Spec => []IInv
  BY InitInvariant, NextInvariant, PTL DEF Spec

\* Types, and with them the bounds of the two buffers: no write ever hands the
\* socket more than it accepts, and _sendBuf of a streaming client never holds
\* more than its limit (httpserver.cpp:709, streamclient.cpp:181).
THEOREM TypeCorrect == Spec => []TypeOK
  <1>1. IInv => TypeOK
    BY DEF IInv
  <1> QED BY <1>1, Invariant, PTL

\* No wakeup is lost, with any number of clients and any buffers: a connected
\* stream client with anything left to send has data in its socket, whose
\* bytesWritten will run _sendData again (httpserver.cpp:549).
THEOREM WakeupNeverLost == Spec => []NoLostWakeup
  <1>1. IInv => NoLostWakeup
    BY DEF IInv, Good, Awake, NoLostWakeup
  <1> QED BY <1>1, Invariant, PTL

-----------------------------------------------------------------------------
(***************************************************************************)
(* What a peer gets.                                                       *)
(***************************************************************************)


Open == {"connected", "closing"}

\* What is on its way to the peer, with the header if it is still to come.
Line(k) == k.wbuf \o (BufferHeader(k).sendBuf \o k.queue)

-----------------------------------------------------------------------------
\* Concatenating sequences of units, in whatever order.
LEMMA Concat3 ==
    ASSUME NEW x \in Seq(Unit), NEW y \in Seq(Unit), NEW z \in Seq(Unit)
    PROVE  /\ x \o y \in Seq(Unit) /\ y \o z \in Seq(Unit)
           /\ x \o (y \o z) \in Seq(Unit)
           /\ (x \o y) \o z = x \o (y \o z)
  <1>1. (x \o y) \o z = x \o (y \o z)
    BY ConcatAssociative, SMTT(20)
  <1>2. x \o y \in Seq(Unit) /\ y \o z \in Seq(Unit)
    BY ConcatProperties
  <1>3. x \o (y \o z) \in Seq(Unit)
    BY <1>2, ConcatProperties
  <1> QED BY <1>1, <1>2, <1>3

\* The response header goes in front of what is queued, once
\* (httpserver.cpp:687).
LEMMA BufferHeaderCarries ==
    ASSUME NEW k, Sound(k), k.response # "none"
    PROVE  LET h == BufferHeader(k)
           IN  /\ h.wbuf = k.wbuf /\ h.queue = k.queue /\ h.sock = k.sock
               /\ h.response = k.response /\ h.since = k.since
               /\ h.forward = k.forward /\ h.sendDone = k.sendDone
               /\ h.generate = k.generate /\ h.stream = k.stream
               /\ h.headerSent = TRUE
               /\ h \in Connection
               /\ BufferHeader(h) = h
  <1> DEFINE h == BufferHeader(k)
  <1>1. /\ h \in Connection /\ h.headerSent = TRUE
        /\ h = [k EXCEPT !.sendBuf = h.sendBuf, !.headerSent = TRUE]
    BY BufferHeaderSound DEF Connection
  <1>2. k \in Connection
    BY DEF Sound
  <1> HIDE DEF h
  <1>3. BufferHeader(h) = h
    BY <1>1 DEF BufferHeader
  <1> QED BY <1>1, <1>2, <1>3 DEF Connection, h

\* Buffering the response changes what is on its way only in where it is
\* (streamclient.cpp:153, httpserver.cpp:675).
LEMMA BufferResponseCarries ==
    ASSUME NEW k, Sound(k), ~k.sendDone, k.response # "none"
    PROVE  LET b == BufferResponse(k)
           IN  /\ Line(b) = Line(k)
               /\ b.headerSent = TRUE
               /\ b.since = k.since /\ b.response = k.response
               /\ b.stream = k.stream
  <1> DEFINE h == BufferHeader(k)
             b == BufferResponse(k)
  <1>1. /\ h.wbuf = k.wbuf /\ h.queue = k.queue /\ h.sock = k.sock
        /\ h.response = k.response /\ h.since = k.since
        /\ h.forward = k.forward /\ h.sendDone = k.sendDone
        /\ h.generate = k.generate /\ h.stream = k.stream
        /\ h.headerSent = TRUE /\ h \in Connection
        /\ BufferHeader(h) = h
    BY BufferHeaderCarries
  <1>2. Line(k) = h.wbuf \o (h.sendBuf \o h.queue)
    BY <1>1 DEF Line
  <1>3. b = IF ~(h.generate /\ h.forward) THEN [h EXCEPT !.sendDone = TRUE]
            ELSE IF Len(h.sendBuf) < BufCap THEN FillFromQueue(h) ELSE h
    BY DEF BufferResponse
  <1>4. ASSUME NEW d, d.headerSent = TRUE PROVE BufferHeader(d).sendBuf = d.sendBuf
    BY <1>4 DEF BufferHeader
  <1>5. CASE ~(h.generate /\ h.forward)
    <2>1. b = [h EXCEPT !.sendDone = TRUE]
      BY <1>3, <1>5
    <2> HIDE DEF h, b
    <2>2. /\ b.wbuf = h.wbuf /\ b.sendBuf = h.sendBuf /\ b.queue = h.queue
          /\ b.headerSent = TRUE /\ b.since = h.since
          /\ b.response = h.response /\ b.stream = h.stream
      BY <1>1, <2>1 DEF Connection
    <2> QED BY <1>1, <1>2, <1>4, <2>2 DEF Line, b
  <1>6. CASE (h.generate /\ h.forward) /\ Len(h.sendBuf) < BufCap
    <2> DEFINE f == FillFromQueue(h)
    <2>1. b = f
      BY <1>3, <1>6
    <2>2. Len(h.sendBuf) <= BufCap
      BY <1>1, <1>6, BufferHeaderSound
    <2>3. /\ f \in Connection
          /\ f = [h EXCEPT !.sendBuf = f.sendBuf, !.queue = f.queue]
          /\ f.sendBuf \o f.queue = h.sendBuf \o h.queue
      BY <1>1, <2>2, FillFromQueueSound
    <2> HIDE DEF f, h, b
    <2>4. /\ f.wbuf = h.wbuf
          /\ f.headerSent = TRUE /\ f.since = h.since
          /\ f.response = h.response /\ f.stream = h.stream
      BY <1>1, <2>3 DEF Connection
    <2>5. Line(f) = f.wbuf \o (f.sendBuf \o f.queue)
      BY <1>4, <2>4 DEF Line
    <2>6. Line(f) = Line(k)
      BY <1>2, <2>3, <2>4, <2>5
    <2> QED BY <1>1, <2>1, <2>4, <2>6 DEF b
  <1>7. CASE (h.generate /\ h.forward) /\ ~(Len(h.sendBuf) < BufCap)
    <2>1. b = h
      BY <1>3, <1>7
    <2> HIDE DEF h, b
    <2> QED BY <1>1, <1>2, <1>4, <2>1 DEF Line, b
  <1> QED BY <1>5, <1>6, <1>7

\* Writing moves units from the front of the send buffer to the end of the
\* socket's, and what stays in the send buffer stays because the socket is full
\* (httpserver.cpp:508).
LEMMA WriteCarries ==
    ASSUME NEW k, Sound(k)
    PROVE  LET w == Write(k)
           IN  /\ w.wbuf \o w.sendBuf = k.wbuf \o k.sendBuf
               /\ w = [k EXCEPT !.wbuf = w.wbuf, !.sendBuf = w.sendBuf]
               /\ w.wbuf \in Seq(Unit) /\ w.sendBuf \in Seq(Unit)
               /\ k.sock = "connected" =>
                    w.sendBuf = <<>> \/ Len(w.wbuf) = SockCap
  <1> DEFINE n == SmallerOf(SockCap - Len(k.wbuf), Len(k.sendBuf))
             a == k.wbuf \o SubSeq(k.sendBuf, 1, n)
             b == SubSeq(k.sendBuf, n + 1, Len(k.sendBuf))
             w == Write(k)
  <1>1. k \in Connection /\ k.wbuf \in Seq(Unit) /\ k.sendBuf \in Seq(Unit)
    BY DEF Sound, Connection
  <1>2. CASE k.sock # "connected"
    <2>1. w = k
      BY <1>2 DEF Write
    <2> HIDE DEF w
    <2> QED BY <1>1, <1>2, <2>1 DEF Connection, w
  <1>3. CASE k.sock = "connected"
    <2>1. /\ Len(k.wbuf) \in Nat /\ Len(k.sendBuf) \in Nat
          /\ Len(k.wbuf) <= SockCap
      BY <1>1, LenProperties DEF Sound, WithinCaps
    <2>2. /\ n \in Nat /\ n \in 0 .. Len(k.sendBuf)
          /\ n \in 0 .. (SockCap - Len(k.wbuf))
          /\ n = SockCap - Len(k.wbuf) \/ n = Len(k.sendBuf)
      <3>1. SockCap - Len(k.wbuf) \in Nat
        BY <2>1, CapAssumption, Room
      <3> QED BY <2>1, <3>1, SmallerOfProperties
    <2> HIDE DEF n
    <2>3. b \in Seq(Unit) /\ Len(b) = Len(k.sendBuf) - n
      BY <1>1, <2>2, Cut
    <2>4. a \in Seq(Unit) /\ Len(a) = Len(k.wbuf) + n /\ a \o b = k.wbuf \o k.sendBuf
      BY <1>1, <2>2, Move
    <2> HIDE DEF a, b
    <2>5. w = [k EXCEPT !.wbuf = a, !.sendBuf = b]
      BY <1>3 DEF Write, a, b, n
    <2> HIDE DEF w
    <2>6. w.wbuf = a /\ w.sendBuf = b
      BY <1>1, <2>5 DEF Connection
    <2>7. Len(b) = 0 \/ Len(a) = SockCap
      <3>1. ASSUME NEW x \in Nat, NEW y \in Nat, NEW cap \in Nat, NEW m \in Nat,
                   m = cap - x \/ m = y
            PROVE  y - m = 0 \/ x + m = cap
        BY <3>1
      <3> QED BY <2>1, <2>2, <2>3, <2>4, <3>1, CapAssumption
    <2> QED BY <2>3, <2>4, <2>5, <2>6, <2>7, EmptySeq DEF w
  <1> QED BY <1>2, <1>3

\* Closing a socket leaves everything else alone, unless it is closed at once
\* (httpserver.cpp:629).
LEMMA CloseCarries ==
    ASSUME NEW k, k \in Connection
    PROVE  LET s == Close(k)
           IN  /\ s.response = k.response /\ s.since = k.since
               /\ s.forward = k.forward /\ s.stream = k.stream
               /\ s.headerSent = k.headerSent /\ s.sendDone = k.sendDone
               /\ s.sendBuf = k.sendBuf /\ s.queue = k.queue
               /\ s.sock \in Open => k.sock \in Open /\ s.wbuf = k.wbuf
               /\ s.sock = "connected" => FALSE
               /\ s.wbuf \in {k.wbuf, <<>>}
               /\ k.sock = "closing" => s = k
  BY DEF Close, Disconnected, Open, Connection

\* What sending needs to find: no body without its header.
Sendable(k) ==
    /\ Sound(k) /\ k.response # "none"
    /\ k.sendDone => k.headerSent
    /\ k.forward /\ k.sock = "closing" => k.headerSent

\* _sendData loses, repeats and reorders nothing, sends the header of a stream
\* client first, and leaves something in the send buffer only behind a full
\* socket (httpserver.cpp:485).
LEMMA SendDataCarries ==
    ASSUME NEW k, Sendable(k)
    PROVE  LET s == SendData(k)
           IN  /\ s.response = k.response /\ s.since = k.since
               /\ s.forward = k.forward /\ s.stream = k.stream
               /\ s.sock \in Open => k.sock \in Open /\ Line(s) = Line(k)
               /\ k.forward => s.sock = k.sock
               /\ s.sendDone => s.headerSent
               /\ s.forward /\ s.sock \in Open => s.headerSent
               /\ s.sock = "connected" =>
                    s.sendBuf = <<>> \/ Len(s.wbuf) = SockCap
  <1> DEFINE b == IF k.sendDone THEN k ELSE BufferResponse(k)
             w == Write(b)
             s == SendData(k)
  <1>1. CASE k.sock = "closing"
    BY <1>1 DEF SendData, Open, Sendable
  <1>2. CASE k.sock # "closing" /\ ~Exists(k.ctx)
    <2>1. SendData(k) = k
      BY <1>2 DEF SendData
    <2>2. k.sock \notin Open
      BY <1>2 DEF Sendable, Sound, Exists, Open
    <2> QED BY <2>1, <2>2 DEF Sendable, Open
  <1>3. CASE k.sock # "closing" /\ Exists(k.ctx)
    <2>1. /\ Sound(b) /\ b.sock = k.sock /\ b.forward = k.forward
          /\ Line(b) = Line(k) /\ b.headerSent = TRUE
          /\ b.since = k.since /\ b.response = k.response
          /\ b.stream = k.stream
      <3>1. CASE k.sendDone
        BY <3>1 DEF Sendable, Sound, Connection
      <3>2. CASE ~k.sendDone
        BY <3>2, BufferResponseSound, BufferResponseCarries DEF Sendable
      <3> QED BY <3>1, <3>2
    <2>2. SendData(k) = IF w.sendBuf = <<>> /\ w.sendDone THEN Close(w) ELSE w
      BY <1>3 DEF SendData
    <2> HIDE DEF b
    <2>3. /\ Sound(b) /\ w.wbuf \o w.sendBuf = b.wbuf \o b.sendBuf
          /\ w = [b EXCEPT !.wbuf = w.wbuf, !.sendBuf = w.sendBuf]
          /\ w.wbuf \in Seq(Unit) /\ w.sendBuf \in Seq(Unit)
          /\ b.sock = "connected" => w.sendBuf = <<>> \/ Len(w.wbuf) = SockCap
      BY <2>1, WriteCarries
    <2> HIDE DEF w
    <2>4. /\ w.sock = b.sock /\ w.response = b.response /\ w.since = b.since
          /\ w.forward = b.forward /\ w.stream = b.stream
          /\ w.headerSent = TRUE /\ w.queue = b.queue
          /\ b.wbuf \in Seq(Unit) /\ b.sendBuf \in Seq(Unit)
          /\ b.queue \in Seq(Unit)
      BY <2>1, <2>3 DEF Sound, Connection
    <2>5. w \in Connection
      <3>1. b \in Connection
        BY <2>1 DEF Sound
      <3> QED BY <2>3, <3>1, Zenon DEF Connection
    <2>6. ASSUME NEW d, d.headerSent = TRUE
          PROVE  Line(d) = d.wbuf \o (d.sendBuf \o d.queue)
      BY <2>6 DEF Line, BufferHeader
    <2>7. Line(w) = Line(b)
      <3>1. Line(w) = w.wbuf \o (w.sendBuf \o b.queue)
        BY <2>4, <2>6
      <3>2. Line(b) = b.wbuf \o (b.sendBuf \o b.queue)
        BY <2>1, <2>6
      <3>3. (w.wbuf \o w.sendBuf) \o b.queue = w.wbuf \o (w.sendBuf \o b.queue)
        <4>1. w.wbuf \in Seq(Unit) /\ w.sendBuf \in Seq(Unit) /\ b.queue \in Seq(Unit)
          BY <2>3, <2>4
        <4> QED BY <4>1, Concat3, Zenon
      <3>4. (b.wbuf \o b.sendBuf) \o b.queue = b.wbuf \o (b.sendBuf \o b.queue)
        <4>1. b.wbuf \in Seq(Unit) /\ b.sendBuf \in Seq(Unit) /\ b.queue \in Seq(Unit)
          BY <2>4
        <4> QED BY <4>1, Concat3, Zenon
      <3> QED BY <2>3, <3>1, <3>2, <3>3, <3>4
    <2>8. CASE ~(w.sendBuf = <<>> /\ w.sendDone)
      BY <2>1, <2>2, <2>3, <2>4, <2>7, <2>8 DEF Open
    <2>9. CASE w.sendBuf = <<>> /\ w.sendDone
      <3> DEFINE c == Close(w)
      <3>1. /\ c.response = w.response /\ c.since = w.since
            /\ c.forward = w.forward /\ c.stream = w.stream
            /\ c.headerSent = TRUE
            /\ c.sendBuf = w.sendBuf /\ c.queue = w.queue
            /\ c.sock \in Open => w.sock \in Open /\ c.wbuf = w.wbuf
            /\ c.sock # "connected"
        BY <2>4, <2>5, CloseCarries
      <3>2. SendData(k) = c
        BY <2>2, <2>9
      <3> HIDE DEF c
      <3>3. c.sock \in Open => Line(c) = Line(w)
        BY <2>4, <2>6, <3>1
      <3>4. ~k.forward
        <4>1. w.sendDone = b.sendDone
          BY <2>1, <2>3 DEF Sound, Connection
        <4> QED BY <2>1, <2>9, <4>1 DEF Sound
      <3> QED BY <2>1, <2>4, <2>7, <3>1, <3>2, <3>3, <3>4
    <2> QED BY <2>8, <2>9
  <1> QED BY <1>1, <1>2, <1>3

-----------------------------------------------------------------------------
\* What the peer is to get of its response by now.
Expected(k, sent) ==
    IF k.forward THEN <<Header>> \o Slice(k.since, sent) ELSE ResponseUnits(k.response)

\* Slices of the input are sequences of units, each one longer than the last.
LEMMA SliceProperties ==
    ASSUME NEW from \in Nat, NEW to \in Nat, from <= to
    PROVE  /\ Slice(from, to) \in Seq(Unit) /\ Len(Slice(from, to)) = to - from
           /\ Slice(from, to + 1) = Slice(from, to) \o <<to + 1>>
           /\ Slice(from, from) = <<>>
  <1>1. Slice(from, to) \in Seq(Unit) /\ Len(Slice(from, to)) = to - from
    <2>1. to - from \in Nat /\ \A i \in 1 .. to - from : from + i \in Unit
      BY DEF Unit
    <2> QED BY <2>1, IsASeq, LenProperties DEF Slice
  <1>2. Slice(from, to + 1) \in Seq(Unit) /\ Len(Slice(from, to + 1)) = to + 1 - from
    <2>1. to + 1 - from \in Nat /\ \A i \in 1 .. to + 1 - from : from + i \in Unit
      BY DEF Unit
    <2> QED BY <2>1, IsASeq, LenProperties DEF Slice
  <1>3. Slice(from, to + 1) = Append(Slice(from, to), to + 1)
    <2> DEFINE a == Append(Slice(from, to), to + 1)
               b == Slice(from, to + 1)
    <2>1. to + 1 \in Unit
      BY DEF Unit
    <2>2. /\ a \in Seq(Unit) /\ Len(a) = to - from + 1
          /\ \A i \in 1 .. to - from : a[i] = Slice(from, to)[i]
          /\ a[to - from + 1] = to + 1
      BY <1>1, <2>1, AppendProperties
    <2>3. \A i \in 1 .. to - from : Slice(from, to)[i] = from + i /\ b[i] = from + i
      BY DEF Slice
    <2>4. b[to - from + 1] = to + 1
      BY DEF Slice
    <2>5. \A i \in 1 .. Len(b) : b[i] = a[i]
      <3>1. \A i \in 1 .. Len(b) : i \in 1 .. to - from \/ i = to - from + 1
        BY <1>2
      <3> HIDE DEF a, b
      <3> QED BY <2>2, <2>3, <2>4, <3>1
    <2>6. Len(a) = Len(b)
      BY <1>2, <2>2
    <2> HIDE DEF a
    <2> QED BY <1>2, <2>2, <2>5, <2>6, SeqEqual DEF a
  <1>4. to + 1 \in Unit
    BY DEF Unit
  <1>5. Slice(from, from) = <<>>
    BY DEF Slice
  <1> QED BY <1>1, <1>3, <1>4, <1>5, AppendIsConcat

\* What is due to a peer is a sequence of units, and one packet more makes it one
\* unit longer, for a stream.
LEMMA ExpectedProperties ==
    ASSUME NEW k \in Connection, NEW sent \in Nat, k.forward => k.since <= sent,
           k.response # "none"
    PROVE  /\ Expected(k, sent) \in Seq(Unit)
           /\ k.forward => Expected(k, sent + 1) = Expected(k, sent) \o <<sent + 1>>
           /\ ~k.forward => Expected(k, sent + 1) = Expected(k, sent)
  <1>1. <<Header>> \in Seq(Unit) /\ ResponseUnits(k.response) \in Seq(Unit)
    BY DEF ResponseUnits, Header, ErrorBody, Unit
  <1>2. k.since \in Nat
    BY DEF Connection
  <1>3. CASE k.forward
    <2> DEFINE a == Slice(k.since, sent)
    <2>1. a \in Seq(Unit) /\ Slice(k.since, sent + 1) = a \o <<sent + 1>>
      BY <1>2, <1>3, SliceProperties
    <2> HIDE DEF a
    <2>2. <<sent + 1>> \in Seq(Unit)
      BY DEF Unit
    <2>3. (<<Header>> \o a) \o <<sent + 1>> = <<Header>> \o (a \o <<sent + 1>>)
      <3> DEFINE h == <<Header>>
                 t == <<sent + 1>>
      <3>1. h \in Seq(Unit) /\ a \in Seq(Unit) /\ t \in Seq(Unit)
        BY <1>1, <2>1, <2>2
      <3> HIDE DEF h, t
      <3>2. (h \o a) \o t = h \o (a \o t)
        BY <3>1, Concat3, Zenon
      <3> QED BY <3>2 DEF h, t
    <2>4. <<Header>> \o a \in Seq(Unit)
      BY <1>1, <2>1, ConcatProperties
    <2>5. /\ Expected(k, sent) = <<Header>> \o a
          /\ Expected(k, sent + 1) = <<Header>> \o (a \o <<sent + 1>>)
      BY <1>3, <2>1 DEF Expected, a
    <2> QED BY <1>3, <2>3, <2>4, <2>5, Zenon
  <1>4. CASE ~k.forward
    BY <1>1, <1>4 DEF Expected
  <1> QED BY <1>3, <1>4

\* What is on its way is a sequence of units.
LEMMA LineType ==
    ASSUME NEW k, Sound(k), k.response # "none"
    PROVE  /\ Line(k) \in Seq(Unit)
           /\ k.wbuf \in Seq(Unit) /\ BufferHeader(k).sendBuf \in Seq(Unit)
           /\ k.queue \in Seq(Unit)
  <1>1. BufferHeader(k) \in Connection
    BY BufferHeaderCarries
  <1>2. /\ k.wbuf \in Seq(Unit) /\ BufferHeader(k).sendBuf \in Seq(Unit)
        /\ k.queue \in Seq(Unit)
    BY <1>1 DEF Sound, Connection
  <1> QED BY <1>2, Concat3 DEF Line

\* A connection between two handlers, beyond Sound: nothing of a response before
\* it is there, no packet without the header, and no send buffer that waits for
\* anything but the socket.
Fed(k) ==
    /\ k.sendDone => k.headerSent
    /\ ~k.forward => k.since = 0
    /\ k.response = "none" => k.wbuf = <<>> /\ ~k.headerSent
    /\ k.forward /\ k.sock \in Open => k.headerSent /\ k.stream = "live"
    /\ k.sock = "connected" => k.sendBuf = <<>> \/ Len(k.wbuf) = SockCap

Begins(g, e) == \E rest \in Seq(Unit) : g \o rest = e

\* What the peer has got, g, and what is on its way make up what it is to get.
Right(k, g, sent) ==
    /\ k.forward => k.since <= sent
    /\ k.response = "none" => g = <<>>
    /\ k.response # "none" /\ k.sock \in Open => g \o Line(k) = Expected(k, sent)
    /\ k.response # "none" => Begins(g, Expected(k, sent))

\* Once a connection is down, what its peer has got does not change any more.
LEMMA DownRight ==
    ASSUME NEW k, NEW x, NEW g, NEW sent, Fed(k), Right(k, g, sent),
           x.sock \notin Open,
           x.response = k.response, x.since = k.since, x.forward = k.forward,
           x.sendDone = k.sendDone, x.headerSent = k.headerSent,
           x.wbuf \in {k.wbuf, <<>>}
    PROVE  Fed(x) /\ Right(x, g, sent)
  <1>1. Expected(x, sent) = Expected(k, sent)
    BY DEF Expected
  <1> QED BY <1>1 DEF Fed, Right, Open

\* _sendData keeps the promise (httpserver.cpp:485).
LEMMA SendDataRight ==
    ASSUME NEW k, Sendable(k), NEW g, NEW sent,
           k.forward /\ k.sock \in Open => k.stream = "live",
           ~k.forward => k.since = 0,
           Right(k, g, sent)
    PROVE  Fed(SendData(k)) /\ Right(SendData(k), g, sent)
  <1> DEFINE s == SendData(k)
  <1>1. /\ s.response = k.response /\ s.since = k.since
        /\ s.forward = k.forward /\ s.stream = k.stream
        /\ s.sock \in Open => k.sock \in Open /\ Line(s) = Line(k)
        /\ s.sendDone => s.headerSent
        /\ s.forward /\ s.sock \in Open => s.headerSent
        /\ s.sock = "connected" => s.sendBuf = <<>> \/ Len(s.wbuf) = SockCap
    BY SendDataCarries
  <1> HIDE DEF s
  <1>2. Expected(s, sent) = Expected(k, sent)
    BY <1>1 DEF Expected
  <1>3. Fed(s)
    BY <1>1 DEF Fed, Sendable
  <1>4. Right(s, g, sent)
    BY <1>1, <1>2 DEF Right, Sendable
  <1> QED BY <1>3, <1>4 DEF s

\* Closing, at once or once the socket has drained, keeps it.
LEMMA CloseRight ==
    ASSUME NEW k, Sound(k), NEW g, NEW sent, Fed(k), Right(k, g, sent)
    PROVE  Fed(Close(k)) /\ Right(Close(k), g, sent)
  <1> DEFINE s == Close(k)
  <1>1. k \in Connection
    BY DEF Sound
  <1>2. /\ s.response = k.response /\ s.since = k.since
        /\ s.forward = k.forward /\ s.stream = k.stream
        /\ s.headerSent = k.headerSent /\ s.sendDone = k.sendDone
        /\ s.sendBuf = k.sendBuf /\ s.queue = k.queue
        /\ s.sock \in Open => k.sock \in Open /\ s.wbuf = k.wbuf
        /\ s.sock # "connected"
        /\ s.wbuf \in {k.wbuf, <<>>}
    BY <1>1, CloseCarries
  <1> HIDE DEF s
  <1>3. CASE s.sock \notin Open
    BY <1>2, <1>3, DownRight DEF s
  <1>4. CASE s.sock \in Open
    <2>1. Expected(s, sent) = Expected(k, sent)
      BY <1>2 DEF Expected
    <2>2. s.response # "none" => Line(s) = Line(k)
      <3>1. BufferHeader(s).sendBuf = BufferHeader(k).sendBuf
        <4>1. CASE k.headerSent
          BY <1>2, <4>1 DEF BufferHeader
        <4>2. CASE ~k.headerSent
          <5>1. BufferHeader(k).sendBuf = k.sendBuf \o ResponseUnits(k.response)
            BY <1>1, <4>2 DEF BufferHeader, Connection
          <5>2. s \in Connection
            BY CloseSound DEF s, Sound
          <5>3. BufferHeader(s).sendBuf = s.sendBuf \o ResponseUnits(s.response)
            BY <1>2, <4>2, <5>2 DEF BufferHeader, Connection
          <5> QED BY <1>2, <5>1, <5>3
        <4> QED BY <4>1, <4>2
      <3> QED BY <1>2, <1>4, <3>1 DEF Line
    <2>3. Fed(s)
      BY <1>2, <1>4 DEF Fed
    <2>4. Right(s, g, sent)
      BY <1>2, <1>4, <2>1, <2>2 DEF Right
    <2> QED BY <2>3, <2>4 DEF s
  <1> QED BY <1>3, <1>4

\* An accepted connection owes nothing yet.
LEMMA AcceptedRight ==
    ASSUME NEW sent
    PROVE  /\ Fed(Accepted) /\ Right(Accepted, <<>>, sent)
           /\ Fed(NoConnection) /\ Right(NoConnection, <<>>, sent)
  BY DEF Fed, Right, Accepted, NoConnection, Open

\* Before anything of it is sent, all of a response is on its way.
LEMMA FirstResponse ==
    ASSUME NEW k \in Connection, NEW sent \in Nat,
           k.wbuf = <<>>, k.sendBuf = <<>>, k.queue = <<>>, ~k.headerSent,
           k.response \in {"ok", "error"},
           k.forward => k.since = sent /\ k.response = "ok"
    PROVE  Right(k, <<>>, sent)
  <1> DEFINE r == ResponseUnits(k.response)
  <1>1. r \in Seq(Unit) /\ (k.response = "ok" => r = <<Header>>)
    BY DEF ResponseUnits, Header, ErrorBody, Unit
  <1>2. BufferHeader(k).sendBuf = <<>> \o r
    BY DEF BufferHeader, Connection
  <1>3. Slice(sent, sent) = <<>>
    BY DEF Slice
  <1>4. Expected(k, sent) = r
    <2>1. CASE k.forward
      <3>1. Expected(k, sent) = <<Header>> \o <<>> /\ r = <<Header>>
        BY <1>1, <1>3, <2>1 DEF Expected
      <3> QED BY <1>1, <3>1, ConcatEmptySeq
    <2>2. CASE ~k.forward
      BY <2>2 DEF Expected
    <2> QED BY <2>1, <2>2
  <1> HIDE DEF r
  <1>5. <<>> \o (<<>> \o ((<<>> \o r) \o <<>>)) = r
    BY <1>1, ConcatEmptySeq
  <1>6. <<>> \o Line(k) = r
    BY <1>2, <1>5 DEF Line
  <1>7. Begins(<<>>, r)
    BY <1>1, ConcatEmptySeq DEF Begins
  <1> QED BY <1>4, <1>6, <1>7 DEF Right

\* What is read into _receiveData has the response sent in front of everything
\* else, and a stream begin with the next packet (httpserver.cpp:407,
\* streamclient.cpp:95).
LEMMA ReceiveDataRight ==
    ASSUME NEW k, Sound(k), Fed(k), k.sock = "connected",
           NEW g, NEW sent \in Nat, Right(k, g, sent),
           NEW len \in Nat \ {0}, NEW s \in [1 .. len -> Chunk]
    PROVE  LET t == ReceiveData(k, s, sent)
           IN  Fed(t) /\ Right(t, g, sent)
  <1> DEFINE r == Parsed(k.request, s)
             c == [k EXCEPT !.ctx = IF @ = "none" THEN "live" ELSE @,
                            !.request = r]
  <1>1. k \in Connection
    BY DEF Sound
  <1>2. CASE ~k.receiving
    <2>1. ReceiveData(k, s, sent) = Disconnected(k)
      BY <1>2 DEF ReceiveData, Abort
    <2> DEFINE d == Disconnected(k)
    <2>2. /\ d.sock \notin Open /\ d.response = k.response /\ d.since = k.since
          /\ d.forward = k.forward /\ d.sendDone = k.sendDone
          /\ d.headerSent = k.headerSent /\ d.wbuf \in {k.wbuf, <<>>}
      BY <1>1 DEF Disconnected, Open, Connection
    <2> HIDE DEF d
    <2> QED BY <2>1, <2>2, DownRight DEF d
  <1>3. CASE k.receiving
    <2>1. /\ k.response = "none" /\ ~k.forward /\ ~k.headerSent /\ ~k.sendDone
          /\ k.sendBuf = <<>> /\ k.queue = <<>> /\ k.wbuf = <<>> /\ g = <<>>
          /\ k.ctx \in {"none", "live"} /\ k.since = 0
      BY <1>3 DEF Sound, Fed, Right
    <2>2. c = [k EXCEPT !.ctx = "live", !.request = r]
      BY <2>1
    <2>3. r \in {"line", "body", "ready", "failed"}
      BY DEF Parsed
    <2>4. c \in Connection
      <3> HIDE DEF r
      <3> QED BY <1>1, <2>2, <2>3, Zenon DEF Connection, Object
    <2>5. CASE r = "failed"
      <3> DEFINE d == [c EXCEPT !.receiving = FALSE, !.response = "error"]
      <3>1. ReceiveData(k, s, sent) = d
        BY <1>3, <2>5 DEF ReceiveData
      <3>2. d = [k EXCEPT !.ctx = "live", !.request = "failed",
                          !.receiving = FALSE, !.response = "error"]
        BY <1>1, <2>2, <2>5 DEF Connection
      <3> HIDE DEF d, c, r
      <3>3. d \in Connection
        BY <1>1, <3>2, Zenon DEF Connection, Object
      <3>4. /\ d.sock = "connected" /\ d.wbuf = <<>> /\ ~d.sendDone
            /\ d.sendBuf = <<>> /\ ~d.headerSent /\ d.queue = <<>>
            /\ ~d.forward /\ d.response = "error" /\ d.since = 0
        BY <1>1, <2>1, <3>2 DEF Connection
      <3>5. Right(d, <<>>, sent)
        BY <3>3, <3>4, FirstResponse
      <3> QED BY <2>1, <3>1, <3>4, <3>5 DEF Fed
    <2>6. CASE r \in {"line", "body"}
      <3>1. ReceiveData(k, s, sent) = c
        BY <1>3, <2>6 DEF ReceiveData
      <3> HIDE DEF c, r
      <3>2. /\ c.sock = "connected" /\ c.wbuf = <<>> /\ ~c.sendDone
            /\ c.sendBuf = <<>> /\ ~c.headerSent /\ ~c.forward
            /\ c.response = "none" /\ c.since = 0
        BY <1>1, <2>1, <2>2 DEF Connection
      <3> QED BY <2>1, <3>1, <3>2 DEF Fed, Right
    <2>7. CASE r = "ready"
      <3> DEFINE d == [c EXCEPT !.receiving = FALSE]
                 kind == s[Len(s)]
                 p == ProcessRequest(d, kind, sent)
                 e == EnsureResponse(p)
      <3>1. ReceiveData(k, s, sent) = SendData(e)
        BY <1>3, <2>7 DEF ReceiveData
      <3>2. d = [k EXCEPT !.ctx = "live", !.request = "ready",
                          !.receiving = FALSE]
        BY <1>1, <2>2, <2>7 DEF Connection
      <3>3. kind \in Complete
        <4>1. Len(s) = len /\ s[len] \in Chunk
          BY LenProperties
        <4> QED BY <2>7, <4>1 DEF Parsed, Rejects, Chunk
      <3>4. Sound(e)
        <4> HIDE DEF d, c, r, kind
        <4> QED BY <1>3, <2>7, <3>2, <3>3, ProcessRequestSound
      <3>5. /\ d.sock = "connected" /\ d.wbuf = <<>> /\ d.sendDone = FALSE
            /\ d.sendBuf = <<>> /\ d.headerSent = FALSE /\ d.queue = <<>>
            /\ d.forward = FALSE /\ d.response = "none" /\ d.since = 0
            /\ d \in Connection
        <4>1. d \in Connection
          <5> HIDE DEF c, r, d
          <5> QED BY <1>1, <3>2, Zenon DEF Connection, Object
        <4> QED BY <1>1, <2>1, <3>2, <4>1 DEF Connection
      <3> HIDE DEF d, c, r, kind
      <3>6. /\ e.sock = "connected" /\ e.wbuf = <<>> /\ e.sendDone = FALSE
            /\ e.sendBuf = <<>> /\ e.headerSent = FALSE /\ e.queue = <<>>
            /\ e.response \in {"ok", "error"}
            /\ e.forward => e.since = sent /\ e.response = "ok" /\ e.stream = "live"
            /\ ~e.forward => e.since = 0
        <4>1. CASE kind = "refused"
          BY <3>5, <4>1 DEF EnsureResponse, ProcessRequest, Connection
        <4>2. CASE kind = "lost"
          BY <3>5, <4>2 DEF EnsureResponse, ProcessRequest, HandleRequest, Connection
        <4>3. CASE kind = "head"
          BY <3>5, <4>3 DEF EnsureResponse, ProcessRequest, HandleRequest, Connection
        <4>4. CASE kind = "get"
          BY <3>5, <4>4 DEF EnsureResponse, ProcessRequest, HandleRequest, Connection
        <4> QED BY <3>3, <4>1, <4>2, <4>3, <4>4 DEF Complete
      <3>7. e \in Connection
        BY <3>4 DEF Sound
      <3> HIDE DEF e
      <3>8. Right(e, <<>>, sent)
        BY <3>6, <3>7, FirstResponse
      <3>9. Sendable(e)
        BY <3>4, <3>6 DEF Sendable
      <3> QED BY <2>1, <3>1, <3>6, <3>8, <3>9, SendDataRight
    <2> QED BY <2>3, <2>5, <2>6, <2>7
  <1> QED BY <1>2, <1>3

\* What the kernel has taken, the peer gets (httpserver.cpp:549).
LEMMA AfterWriteRight ==
    ASSUME NEW k, Sound(k), Fed(k), k.sock \in Open,
           NEW g \in Seq(Unit), NEW sent, Right(k, g, sent),
           NEW n \in 1 .. Len(k.wbuf)
    PROVE  LET t == AfterWrite(k, n)
               h == g \o SubSeq(k.wbuf, 1, n)
           IN  /\ Fed(t) /\ Right(t, h, sent)
               /\ t.forward = k.forward /\ t.since = k.since
  <1> DEFINE first == SubSeq(k.wbuf, 1, n)
             rest == SubSeq(k.wbuf, n + 1, Len(k.wbuf))
             h == g \o first
             w == [k EXCEPT !.wbuf = rest]
             s == SendData(w)
  <1>1. k \in Connection /\ k.wbuf \in Seq(Unit)
    BY DEF Sound, Connection
  <1>2. Len(k.wbuf) \in Nat /\ n \in 0 .. Len(k.wbuf)
    BY <1>1, LenProperties
  <1>3. /\ rest \in Seq(Unit) /\ Len(rest) = Len(k.wbuf) - n
        /\ first \in Seq(Unit) /\ first \o rest = k.wbuf
    BY <1>1, <1>2, Cut
  <1>4. Len(rest) <= SockCap
    <2>1. ASSUME NEW x \in Nat, NEW m \in 1 .. x, x <= SockCap
          PROVE  x - m <= SockCap
      BY <2>1, CapAssumption
    <2>2. Len(k.wbuf) <= SockCap
      BY DEF Sound, WithinCaps
    <2> QED BY <1>2, <1>3, <2>1, <2>2
  <1>5. k.wbuf # <<>>
    BY <1>2, EmptySeq
  <1>6. AfterWrite(k, n) = IF s.sock = "closing" /\ s.wbuf = <<>>
                             THEN Disconnected(s) ELSE s
    BY DEF AfterWrite, rest
  <1> HIDE DEF rest, first
  <1>7. w \in Connection
    BY <1>1, <1>3, Zenon DEF Connection
  <1>8. /\ w.sock = k.sock /\ w.wbuf = rest /\ w.http = k.http
        /\ w.receiving = k.receiving /\ w.sendDone = k.sendDone
        /\ w.sendBuf = k.sendBuf /\ w.ctx = k.ctx
        /\ w.response = k.response /\ w.headerSent = k.headerSent
        /\ w.generate = k.generate /\ w.stream = k.stream
        /\ w.forward = k.forward /\ w.queue = k.queue /\ w.since = k.since
        /\ BufferHeader(w).sendBuf = BufferHeader(k).sendBuf
    <2>1. w.headerSent = k.headerSent /\ w.sendBuf = k.sendBuf
          /\ w.response = k.response
      BY <1>1 DEF Connection
    <2>2. BufferHeader(w).sendBuf = BufferHeader(k).sendBuf
      <3> HIDE DEF w
      <3> QED BY <1>1, <1>7, <2>1 DEF BufferHeader, Connection
    <2> QED BY <1>1, <2>2 DEF Connection
  <1> HIDE DEF w
  <1>9. Sound(w)
    BY <1>4, <1>7, <1>8 DEF Sound, WithinCaps
  <1>10. k.response # "none"
    BY <1>5 DEF Fed
  <1>11. Sendable(w)
    BY <1>8, <1>9, <1>10 DEF Sendable, Fed, Open
  <1>12. Right(w, h, sent)
    <2> DEFINE y == BufferHeader(k).sendBuf \o k.queue
    <2>1. y \in Seq(Unit)
      BY <1>10, LineType, ConcatProperties
    <2>2. Line(k) = (first \o rest) \o y /\ Line(w) = rest \o y
      BY <1>3, <1>8 DEF Line
    <2> HIDE DEF y
    <2>3. (g \o first) \o (rest \o y) = g \o ((first \o rest) \o y)
      <3>1. rest \o y \in Seq(Unit) /\ (first \o rest) \o y = first \o (rest \o y)
        BY <1>3, <2>1, Concat3, Zenon
      <3>2. (g \o first) \o (rest \o y) = g \o (first \o (rest \o y))
        BY <1>3, <3>1, Concat3, Zenon
      <3> QED BY <3>1, <3>2
    <2>4. h \o Line(w) = Expected(k, sent)
      BY <1>10, <2>2, <2>3 DEF Right
    <2>5. Expected(w, sent) = Expected(k, sent)
      BY <1>8 DEF Expected
    <2>6. Line(w) \in Seq(Unit)
      BY <1>8, <1>9, <1>10, LineType
    <2> HIDE DEF h
    <2>7. Begins(h, Expected(w, sent))
      BY <2>4, <2>5, <2>6 DEF Begins
    <2> QED BY <1>8, <1>10, <2>4, <2>5, <2>7 DEF Right
  <1> HIDE DEF h
  <1>13. /\ Fed(s) /\ Right(s, h, sent)
         /\ s.forward = k.forward /\ s.since = k.since
    BY <1>8, <1>11, <1>12, SendDataRight, SendDataCarries DEF Fed
  <1>14. Sound(s)
    BY <1>9, SendDataSound
  <1> HIDE DEF s
  <1>15. /\ Fed(Disconnected(s)) /\ Right(Disconnected(s), h, sent)
         /\ Disconnected(s).forward = k.forward
         /\ Disconnected(s).since = k.since
    <2> DEFINE d == Disconnected(s)
    <2>1. /\ d.sock \notin Open /\ d.response = s.response /\ d.since = s.since
          /\ d.forward = s.forward /\ d.sendDone = s.sendDone
          /\ d.headerSent = s.headerSent /\ d.wbuf \in {s.wbuf, <<>>}
      BY <1>14 DEF Disconnected, Open, Connection, Sound
    <2> HIDE DEF d
    <2> QED BY <1>13, <2>1, DownRight DEF d
  <1> QED BY <1>6, <1>13, <1>15 DEF h, first

\* A packet that a connection does not queue changes nothing of what it owes.
LEMMA IdleRight ==
    ASSUME NEW k \in Connection, NEW g \in Seq(Unit), NEW sent \in Nat,
           Right(k, g, sent), ~(k.forward /\ k.sock \in Open)
    PROVE  Right(k, g, sent + 1)
  <1>1. k.forward => k.since <= sent /\ k.since <= sent + 1
    BY DEF Right, Connection
  <1>2. CASE k.response = "none"
    BY <1>1, <1>2 DEF Right
  <1>3. CASE k.response # "none" /\ ~k.forward
    <2>1. Expected(k, sent + 1) = Expected(k, sent)
      BY <1>1, <1>3, ExpectedProperties
    <2> QED BY <1>3, <2>1 DEF Right
  <1>4. CASE k.response # "none" /\ k.forward
    <2>1. PICK rest \in Seq(Unit) : g \o rest = Expected(k, sent)
      BY <1>4 DEF Right, Begins
    <2> DEFINE p == <<sent + 1>>
    <2>2. Expected(k, sent + 1) = Expected(k, sent) \o p /\ p \in Seq(Unit)
      BY <1>1, <1>4, ExpectedProperties DEF Unit
    <2> HIDE DEF p
    <2>3. rest \o p \in Seq(Unit) /\ (g \o rest) \o p = g \o (rest \o p)
      BY <2>2, Concat3, Zenon
    <2>4. Begins(g, Expected(k, sent + 1))
      BY <2>1, <2>2, <2>3 DEF Begins
    <2> QED BY <1>1, <1>4, <2>4 DEF Right
  <1> QED BY <1>2, <1>3, <1>4

\* A packet that is queued is behind everything else that is on its way
\* (streamclient.cpp:136).
LEMMA QueuePacketRight ==
    ASSUME NEW k, Sound(k), Fed(k), NEW g \in Seq(Unit), NEW sent \in Nat,
           Right(k, g, sent)
    PROVE  LET t == QueuePacket(k, sent + 1)
           IN  /\ Fed(t) /\ Right(t, g, sent + 1)
               /\ t.forward = k.forward /\ t.since = k.since
               /\ t.sock \in Open => k.sock \in Open
               /\ t.sock = k.sock
  <1> DEFINE p == sent + 1
             q == [k EXCEPT !.queue = Append(@, p)]
  <1>1. /\ k \in Connection /\ k.queue \in Seq(Unit) /\ p \in Unit
        /\ Append(k.queue, p) \in Seq(Unit)
        /\ Append(k.queue, p) = k.queue \o <<p>>
    <2>1. k \in Connection /\ k.queue \in Seq(Unit) /\ p \in Unit
      BY DEF Sound, Connection, Unit
    <2> QED BY <2>1, AppendProperties, AppendIsConcat
  <1>2. CASE ~k.forward
    BY <1>1, <1>2, IdleRight DEF QueuePacket
  <1>3. CASE k.forward
    <2>1. q \in Connection
      BY <1>1, Zenon DEF Connection
    <2>2. /\ q.sock = k.sock /\ q.wbuf = k.wbuf /\ q.http = k.http
          /\ q.receiving = k.receiving /\ q.sendDone = k.sendDone
          /\ q.sendBuf = k.sendBuf /\ q.ctx = k.ctx
          /\ q.response = k.response /\ q.headerSent = k.headerSent
          /\ q.generate = k.generate /\ q.stream = k.stream
          /\ q.forward = k.forward /\ q.since = k.since
          /\ q.queue = k.queue \o <<p>>
      BY <1>1 DEF Connection
    <2>3. QueuePacket(k, p) = IF Exists(q.ctx) /\ Exists(q.http)
                                THEN SendData(q) ELSE q
      BY <1>3 DEF QueuePacket
    <2> HIDE DEF q
    <2>4. Sound(q)
      BY <1>3, <2>1, <2>2 DEF Sound, WithinCaps
    <2>5. k.response = "ok" /\ ~k.sendDone /\ k.since <= sent
      BY <1>3 DEF Sound, Right
    <2>6. Expected(q, sent + 1) = Expected(k, sent) \o <<p>>
      <3>1. Expected(q, sent + 1) = Expected(k, sent + 1)
        BY <2>2 DEF Expected
      <3>2. Expected(k, sent + 1) = Expected(k, sent) \o <<sent + 1>>
        BY <1>1, <1>3, <2>5, ExpectedProperties
      <3> QED BY <3>1, <3>2
    <2>7. Right(k, g, sent + 1) => Right(q, g, sent + 1) \/ k.sock \in Open
      <3>1. Expected(q, sent + 1) = Expected(k, sent + 1)
        BY <2>2 DEF Expected
      <3> QED BY <2>2, <3>1 DEF Right
    <2>8. Right(q, g, sent + 1)
      <3>1. CASE k.sock \notin Open
        BY <1>1, <2>7, <3>1, IdleRight
      <3>2. CASE k.sock \in Open
        <4> DEFINE u == <<p>>
                   b == BufferHeader(k).sendBuf
        <4>1. u \in Seq(Unit)
          BY <1>1
        <4>2. b \in Seq(Unit) /\ k.wbuf \in Seq(Unit) /\ k.queue \in Seq(Unit)
          BY <2>5, LineType
        <4>3. BufferHeader(q).sendBuf = b
          <5>1. k.headerSent
            BY <1>3, <3>2 DEF Fed
          <5> QED BY <2>2, <5>1 DEF BufferHeader
        <4>4. Line(k) = k.wbuf \o (b \o k.queue) /\ Line(q) = k.wbuf \o (b \o (k.queue \o u))
          BY <2>2, <4>3 DEF Line
        <4> HIDE DEF u, b
        <4>5. /\ k.wbuf \o (b \o (k.queue \o u)) = (k.wbuf \o (b \o k.queue)) \o u
              /\ k.wbuf \o (b \o k.queue) \in Seq(Unit)
          <5> DEFINE w == k.wbuf
                     z == k.queue
          <5>1. w \in Seq(Unit) /\ b \in Seq(Unit) /\ z \in Seq(Unit) /\ u \in Seq(Unit)
            BY <4>1, <4>2
          <5> HIDE DEF w, z
          <5>2. (b \o z) \o u = b \o (z \o u)
            BY <5>1, ConcatAssociative, SMTT(20)
          <5> DEFINE v == b \o z
          <5>3. v \in Seq(Unit)
            BY <5>1, ConcatProperties
          <5> HIDE DEF v
          <5>4. (w \o v) \o u = w \o (v \o u)
            BY <5>1, <5>3, ConcatAssociative, SMTT(20)
          <5>5. w \o v \in Seq(Unit)
            BY <5>1, <5>3, ConcatProperties
          <5> QED BY <5>2, <5>4, <5>5 DEF w, z, v
        <4>6. (g \o Line(k)) \o u = g \o (Line(k) \o u) /\ Line(k) \o u \in Seq(Unit)
          <5> DEFINE l == Line(k)
          <5>1. l \in Seq(Unit)
            BY <4>4, <4>5
          <5> HIDE DEF l
          <5>2. (g \o l) \o u = g \o (l \o u)
            BY <4>1, <5>1, Concat3, Zenon
          <5>3. l \o u \in Seq(Unit)
            BY <4>1, <5>1, ConcatProperties
          <5> QED BY <5>2, <5>3 DEF l
        <4>7. g \o Line(k) = Expected(k, sent)
          BY <2>5, <3>2 DEF Right
        <4>8. g \o Line(q) = Expected(q, sent + 1)
          BY <2>6, <4>4, <4>5, <4>6, <4>7 DEF u
        <4>9. Begins(g, Expected(q, sent + 1))
          BY <4>4, <4>5, <4>6, <4>8 DEF Begins
        <4>10. q.since <= sent + 1
          BY <1>1, <2>2, <2>5 DEF Connection
        <4> QED BY <2>2, <2>5, <4>8, <4>9, <4>10 DEF Right
      <3> QED BY <3>1, <3>2
    <2>9. Fed(q)
      BY <2>2 DEF Fed
    <2>10. Sendable(q)
      BY <2>2, <2>4, <2>5, <1>3 DEF Sendable, Fed, Open
    <2>11. /\ Fed(SendData(q)) /\ Right(SendData(q), g, sent + 1)
           /\ SendData(q).forward = q.forward /\ SendData(q).since = q.since
           /\ SendData(q).sock = q.sock
      BY <1>3, <2>2, <2>8, <2>9, <2>10, SendDataRight, SendDataCarries DEF Fed
    <2> QED BY <2>2, <2>3, <2>8, <2>9, <2>11
  <1> QED BY <1>2, <1>3

-----------------------------------------------------------------------------
\* Between two handlers every connection is fed, and its peer has what it ought
\* to have.
AllRight ==
    \A c \in Conns : Fed(conn[c]) /\ Right(conn[c], got[c], packets)

\* Every stream that is still open is in the list that packets are sent to.
Streams == \A c \in Conns : conn[c].forward /\ conn[c].sock \in Open => c \in streamClients

Unheard == \A c \in Conns : peer[c] = "away" => got[c] = <<>>

DInv == IInv /\ AllRight /\ Streams /\ Unheard

\* A step of one connection.
LEMMA OneRight ==
    ASSUME DInv, NEW c \in Conns, NEW x, NEW g, Fed(x), Right(x, g, packets),
           conn' = [conn EXCEPT ![c] = x], got' = [got EXCEPT ![c] = g],
           packets' = packets,
           x.forward /\ x.sock \in Open => c \in streamClients',
           \A d \in streamClients : d # c => d \in streamClients'
    PROVE  AllRight' /\ Streams'
  <1>1. /\ conn'[c] = x /\ got'[c] = g
        /\ \A d \in Conns : d # c => conn'[d] = conn[d] /\ got'[d] = got[d]
    BY DEF DInv, IInv, TypeOK
  <1>2. AllRight'
    BY <1>1 DEF DInv, AllRight
  <1>3. Streams'
    BY <1>1 DEF DInv, Streams
  <1> QED BY <1>2, <1>3

\* The server starts owing nothing.
LEMMA InitRight == Init => DInv
  <1> SUFFICES ASSUME Init PROVE DInv
    OBVIOUS
  <1>1. \A c \in Conns : conn[c] = NoConnection /\ got[c] = <<>>
    BY DEF Init
  <1>2. IInv
    BY InitInvariant
  <1>3. AllRight
    BY <1>1, AcceptedRight DEF AllRight
  <1>4. Streams
    BY <1>1 DEF Streams, NoConnection
  <1>5. Unheard
    BY <1>1 DEF Unheard
  <1> QED BY <1>2, <1>3, <1>4, <1>5 DEF DInv

\* shutdown() closes sockets and nothing else.
LEMMA ShutdownRight ==
    ASSUME DInv, Shutdown, got' = got, packets' = packets,
           streamClients' = streamClients
    PROVE  AllRight' /\ Streams'
  <1>1. CASE shuttingDown
    <2>1. conn' = conn
      BY <1>1 DEF Shutdown
    <2> QED BY <2>1 DEF DInv, AllRight, Streams
  <1>2. CASE ~shuttingDown
    <2>1. conn' = [c \in Conns |-> IF c \in streamClients
                                     THEN CloseStream(conn[c]) ELSE conn[c]]
      BY <1>2 DEF Shutdown
    <2>2. ASSUME NEW c \in Conns
          PROVE  /\ Fed(conn'[c]) /\ Right(conn'[c], got[c], packets)
                 /\ conn'[c].forward = conn[c].forward
                 /\ conn'[c].sock \in Open => conn[c].sock \in Open
      <3>1. /\ Sound(conn[c]) /\ Fed(conn[c]) /\ Right(conn[c], got[c], packets)
            /\ conn[c] \in Connection
        BY DEF DInv, IInv, Good, AllRight, Sound
      <3>2. conn'[c] \in {conn[c], Close(conn[c])}
        BY <2>1 DEF CloseStream
      <3>3. Fed(Close(conn[c])) /\ Right(Close(conn[c]), got[c], packets)
        BY <3>1, CloseRight
      <3>4. /\ Close(conn[c]).forward = conn[c].forward
            /\ Close(conn[c]).sock \in Open => conn[c].sock \in Open
        BY <3>1, CloseCarries
      <3> QED BY <3>1, <3>2, <3>3, <3>4
    <2> QED BY <2>2 DEF DInv, AllRight, Streams
  <1> QED BY <1>1, <1>2

\* Deleting an object of a connection that is down changes nothing its peer has.
LEMMA DestroyedRight ==
    ASSUME NEW k, Sound(k), Fed(k), k.sock = "closed", NEW g, NEW sent,
           Right(k, g, sent)
    PROVE  \A d \in {ContextDestroyed(k), ClientDestroyed(k), StreamDestroyed(k)} :
             /\ Fed(d) /\ Right(d, g, sent) /\ d.sock = "closed"
             /\ d.forward = k.forward /\ d.since = k.since
  <1>1. k \in Connection
    BY DEF Sound
  <1>2. ASSUME NEW d \in {ContextDestroyed(k), ClientDestroyed(k), StreamDestroyed(k)}
        PROVE  /\ d.sock = "closed" /\ d.response = k.response /\ d.since = k.since
               /\ d.forward = k.forward /\ d.sendDone = k.sendDone
               /\ d.headerSent = k.headerSent /\ d.wbuf = k.wbuf
    BY <1>1 DEF ContextDestroyed, ClientDestroyed, StreamDestroyed, Connection
  <1>3. "closed" \notin Open
    BY DEF Open
  <1> QED BY <1>2, <1>3, DownRight

\* Every step of the server keeps what it owes.
LEMMA NextRight == DInv /\ [Next]_vars => DInv'
  <1> SUFFICES ASSUME DInv, [Next]_vars PROVE DInv'
    OBVIOUS
  <1>1. /\ IInv' /\ IInv /\ AllRight /\ Streams /\ Unheard
        /\ got \in [Conns -> Seq(Unit)] /\ packets \in Nat
        /\ conn \in [Conns -> Connection]
        /\ peer \in [Conns -> {"away", "open", "gone"}]
    BY NextInvariant DEF DInv, IInv, TypeOK
  <1>2. \A c \in Conns : /\ Sound(conn[c]) /\ Fed(conn[c])
                         /\ Right(conn[c], got[c], packets)
                         /\ conn[c] \in Connection /\ got[c] \in Seq(Unit)
    BY <1>1 DEF IInv, Good, AllRight
  <1>3. ASSUME conn' = conn, got' = got, packets' = packets,
               streamClients' = streamClients
        PROVE  AllRight' /\ Streams'
    BY <1>1, <1>3 DEF AllRight, Streams
  <1>4. ASSUME peer' = peer, got' = got PROVE Unheard'
    BY <1>1, <1>4 DEF Unheard
  <1>5. got' = got => \A c \in Conns : got' = [got EXCEPT ![c] = got[c]]
    BY <1>1
  <1>6. ASSUME NEW c \in Conns, PeerClose(c) PROVE DInv'
    <2>1. AllRight' /\ Streams'
      BY <1>3, <1>6 DEF PeerClose, listVars
    <2>2. Unheard'
      BY <1>1, <1>6 DEF PeerClose, Unheard
    <2> QED BY <1>1, <2>1, <2>2 DEF DInv
  <1>7. CASE \/ Signal \/ InputEnds \/ InputReopened \/ StartPosted \/ EndPosted
             \/ UNCHANGED vars
    BY <1>1, <1>3, <1>4, <1>7
       DEF Signal, InputEnds, InputReopened, StartPosted, EndPosted, vars, DInv,
           listVars, netVars
  <1>8. ASSUME NEW c \in Conns, ClientConnected(c) PROVE DInv'
    <2>1. /\ conn' = [conn EXCEPT ![c] = Accepted] /\ got' = got
          /\ packets' = packets /\ streamClients' = streamClients
          /\ peer[c] = "away" /\ peer' = [peer EXCEPT ![c] = "open"]
      BY <1>8 DEF ClientConnected
    <2>2. got[c] = <<>>
      BY <1>1, <2>1 DEF Unheard
    <2>3. Fed(Accepted) /\ Right(Accepted, got[c], packets) /\ ~Accepted.forward
      BY <2>2, AcceptedRight DEF Accepted, NoConnection
    <2>4. AllRight' /\ Streams'
      BY <1>5, <2>1, <2>3, OneRight
    <2>5. Unheard'
      BY <1>1, <2>1 DEF Unheard
    <2> QED BY <1>1, <2>4, <2>5 DEF DInv
  <1>9. ASSUME NEW c \in Conns, ReadyRead(c) PROVE DInv'
    <2>1. PICK len \in 1 .. MaxChunks : \E s \in [1 .. len -> Chunks] :
            conn' = [conn EXCEPT ![c] = ReceiveData(@, s, packets)]
      BY <1>9 DEF ReadyRead
    <2>2. PICK q \in [1 .. len -> Chunks] :
            conn' = [conn EXCEPT ![c] = ReceiveData(@, q, packets)]
      BY <2>1
    <2> DEFINE x == ReceiveData(conn[c], q, packets)
    <2>3. Fed(x) /\ Right(x, got[c], packets)
      <3>1. conn[c].sock = "connected"
        BY <1>9 DEF ReadyRead
      <3>2. len \in Nat \ {0} /\ q \in [1 .. len -> Chunk]
        BY ChunksAssumption, BoundAssumption
      <3> QED BY <1>1, <1>2, <3>1, <3>2, ReceiveDataRight
    <2> HIDE DEF x
    <2>4. /\ conn' = [conn EXCEPT ![c] = x] /\ got' = got /\ packets' = packets
          /\ peer' = peer
          /\ streamClients' = IF conn'[c].stream = "live"
                                THEN streamClients \cup {c} ELSE streamClients
      BY <1>9, <2>2 DEF ReadyRead, netVars, x
    <2>5. x.forward /\ x.sock \in Open => c \in streamClients'
      BY <1>1, <2>3, <2>4 DEF Fed
    <2>6. AllRight' /\ Streams'
      BY <1>5, <2>3, <2>4, <2>5, OneRight
    <2> QED BY <1>1, <1>4, <2>4, <2>6 DEF DInv
  <1>10. ASSUME NEW c \in Conns, BytesWritten(c) PROVE DInv'
    <2>1. PICK n \in 1 .. Len(conn[c].wbuf) :
            /\ got' = [got EXCEPT ![c] = @ \o SubSeq(conn[c].wbuf, 1, n)]
            /\ conn' = [conn EXCEPT ![c] = AfterWrite(@, n)]
      BY <1>10 DEF BytesWritten
    <2> DEFINE x == AfterWrite(conn[c], n)
               h == got[c] \o SubSeq(conn[c].wbuf, 1, n)
    <2>2. conn[c].sock \in Open
      BY <1>10 DEF BytesWritten, Open
    <2>3. Fed(x) /\ Right(x, h, packets) /\ x.forward = conn[c].forward
      BY <1>2, <2>2, AfterWriteRight
    <2>4. /\ conn' = [conn EXCEPT ![c] = x] /\ got' = [got EXCEPT ![c] = h]
      BY <2>1
    <2> HIDE DEF x, h
    <2>5. /\ packets' = packets /\ peer' = peer /\ streamClients' = streamClients
          /\ peer[c] = "open"
      BY <1>10 DEF BytesWritten, listVars
    <2>6. x.forward /\ x.sock \in Open => c \in streamClients'
      BY <1>1, <2>2, <2>3, <2>5 DEF Streams
    <2>7. AllRight' /\ Streams'
      BY <2>3, <2>4, <2>5, <2>6, OneRight
    <2>8. Unheard'
      BY <1>1, <2>4, <2>5 DEF Unheard
    <2> QED BY <1>1, <2>7, <2>8 DEF DInv
  <1>11. ASSUME NEW c \in Conns, PeerGoneRead(c) \/ PeerGoneWrite(c) PROVE DInv'
    <2>1. /\ conn[c].sock \in Open /\ got' = got /\ packets' = packets
          /\ peer' = peer /\ streamClients' = streamClients
      BY <1>11 DEF PeerGoneRead, PeerGoneWrite, Open, netVars, listVars
    <2>2. PICK x \in {Close(conn[c]), Abort(conn[c])} : conn' = [conn EXCEPT ![c] = x]
      BY <1>11 DEF PeerGoneRead, PeerGoneWrite
    <2>3. Fed(x) /\ Right(x, got[c], packets) /\ x.forward = conn[c].forward
      <3>1. CASE x = Close(conn[c])
        BY <1>2, <3>1, CloseRight, CloseCarries
      <3>2. CASE x = Abort(conn[c])
        <4> DEFINE d == Disconnected(conn[c])
        <4>1. x = d
          BY <2>1, <3>2 DEF Abort, Open
        <4>2. /\ d.sock \notin Open /\ d.response = conn[c].response
              /\ d.since = conn[c].since /\ d.forward = conn[c].forward
              /\ d.sendDone = conn[c].sendDone
              /\ d.headerSent = conn[c].headerSent
              /\ d.wbuf \in {conn[c].wbuf, <<>>}
          BY <1>2 DEF Disconnected, Open, Connection
        <4> HIDE DEF d
        <4> QED BY <1>2, <4>1, <4>2, DownRight
      <3> QED BY <3>1, <3>2
    <2>4. x.forward /\ x.sock \in Open => c \in streamClients'
      BY <1>1, <2>1, <2>3 DEF Streams
    <2>5. AllRight' /\ Streams'
      BY <1>5, <2>1, <2>2, <2>3, <2>4, OneRight
    <2> QED BY <1>1, <1>4, <2>1, <2>5 DEF DInv
  <1>12. CASE ProcessInput
    <2>1. /\ packets' = packets + 1
          /\ conn' = [c \in Conns |-> IF c \in streamClients
                        THEN QueuePacket(conn[c], packets') ELSE conn[c]]
          /\ got' = got /\ peer' = peer /\ streamClients' = streamClients
      BY <1>12 DEF ProcessInput, netVars, listVars
    <2>2. ASSUME NEW c \in Conns
          PROVE  /\ Fed(conn'[c]) /\ Right(conn'[c], got[c], packets + 1)
                 /\ conn'[c].forward = conn[c].forward
                 /\ conn'[c].sock \in Open => conn[c].sock \in Open
      <3>1. CASE c \in streamClients
        <4>1. conn'[c] = QueuePacket(conn[c], packets + 1)
          BY <2>1, <3>1
        <4> QED BY <1>1, <1>2, <4>1, QueuePacketRight
      <3>2. CASE c \notin streamClients
        <4>1. conn'[c] = conn[c] /\ ~(conn[c].forward /\ conn[c].sock \in Open)
          BY <1>1, <2>1, <3>2 DEF Streams
        <4> QED BY <1>1, <1>2, <4>1, IdleRight
      <3> QED BY <3>1, <3>2
    <2>3. AllRight' /\ Streams'
      BY <1>1, <2>1, <2>2 DEF AllRight, Streams
    <2> QED BY <1>1, <1>4, <2>1, <2>3 DEF DInv
  <1>13. CASE ReopenFails \/ QueuedShutdown
    <2>1. /\ Shutdown /\ got' = got /\ packets' = packets /\ peer' = peer
          /\ streamClients' = streamClients
      BY <1>13 DEF ReopenFails, QueuedShutdown, netVars, listVars
    <2>2. AllRight' /\ Streams'
      BY <2>1, ShutdownRight
    <2> QED BY <1>1, <1>4, <2>1, <2>2 DEF DInv
  <1>14. ASSUME NEW c \in Conns, PostedEvent(c) PROVE DInv'
    <2>1. PICK o \in Objects : Delivering(<<o, c>>)
      BY <1>14 DEF PostedEvent, DeleteContext, DeleteClient, DeleteStream, Objects
    <2>2. conn[c].sock = "closed"
      <3>1. posted \in Seq(SUBSET Event) /\ Down(conn, posted)
        BY <1>1 DEF IInv, TypeOK
      <3>2. posted # <<>> /\ <<o, c>> \in posted[1] /\ 1 \in DOMAIN posted
        BY <2>1, <3>1, LenProperties, EmptySeq, HeadTailProperties DEF Delivering
      <3> QED BY <3>1, <3>2 DEF Down
    <2>3. PICK x \in {ContextDestroyed(conn[c]), ClientDestroyed(conn[c]),
                      StreamDestroyed(conn[c])} : conn' = [conn EXCEPT ![c] = x]
      BY <1>14 DEF PostedEvent, DeleteContext, DeleteClient, DeleteStream
    <2>4. Fed(x) /\ Right(x, got[c], packets) /\ x.sock = "closed"
      BY <1>2, <2>2, <2>3, DestroyedRight
    <2>5. x.sock \notin Open
      BY <2>4 DEF Open
    <2>6. /\ got' = got /\ packets' = packets /\ peer' = peer
          /\ \A d \in streamClients : d # c => d \in streamClients'
      BY <1>14 DEF PostedEvent, DeleteContext, DeleteClient, DeleteStream, netVars,
                   listVars
    <2>7. AllRight' /\ Streams'
      BY <1>5, <2>3, <2>4, <2>5, <2>6, OneRight
    <2> QED BY <1>1, <1>4, <2>6, <2>7 DEF DInv
  <1> QED BY <1>6, <1>7, <1>8, <1>9, <1>10, <1>11, <1>12, <1>13, <1>14
        DEF Next, ConnectionEvent

\* What peers have got and what is on its way to them is right throughout.
THEOREM AlwaysRight == Spec => []DInv
  BY InitRight, NextRight, PTL DEF Spec

\* Through queue, send buffer and socket no packet is lost, repeated or
\* reordered on the way to a stream client (streamclient.cpp:136,
\* httpserver.cpp:485).
THEOREM StreamsIntact == Spec => []StreamIntact
  <1>1. DInv => StreamIntact
    <2> SUFFICES ASSUME DInv, NEW c \in Conns, Streaming(c)
                 PROVE  Pipeline(c) = <<Header>> \o Slice(conn[c].since, packets)
      BY DEF StreamIntact
    <2> DEFINE k == conn[c]
               g == got[c]
               w == k.wbuf
               b == k.sendBuf
               q == k.queue
    <2>1. /\ Sound(k) /\ Fed(k) /\ Right(k, g, packets) /\ k.forward
          /\ k.sock \in Open /\ g \in Seq(Unit)
      BY DEF DInv, IInv, Good, TypeOK, AllRight, Streaming, Open
    <2>2. w \in Seq(Unit) /\ b \in Seq(Unit) /\ q \in Seq(Unit)
      BY <2>1 DEF Sound, Connection
    <2>3. k.response # "none" /\ k.headerSent
      BY <2>1 DEF Sound, Fed
    <2>4. Line(k) = w \o (b \o q)
      BY <2>3 DEF Line, BufferHeader
    <2>5. g \o Line(k) = <<Header>> \o Slice(k.since, packets)
      BY <2>1, <2>3 DEF Right, Expected
    <2> HIDE DEF w, b, q, g
    <2>6. ((g \o w) \o b) \o q = g \o (w \o (b \o q))
      <3>1. b \o q \in Seq(Unit) /\ g \o w \in Seq(Unit)
        BY <2>1, <2>2, ConcatProperties
      <3>2. ((g \o w) \o b) \o q = (g \o w) \o (b \o q)
        <4> DEFINE v == g \o w
        <4>1. v \in Seq(Unit)
          BY <3>1
        <4> HIDE DEF v
        <4>2. (v \o b) \o q = v \o (b \o q)
          BY <2>2, <4>1, ConcatAssociative, SMTT(20)
        <4> QED BY <4>2 DEF v
      <3>3. (g \o w) \o (b \o q) = g \o (w \o (b \o q))
        <4> DEFINE v == b \o q
        <4>1. v \in Seq(Unit)
          BY <3>1
        <4> HIDE DEF v
        <4>2. (g \o w) \o v = g \o (w \o v)
          BY <2>1, <2>2, <4>1, ConcatAssociative, SMTT(20)
        <4> QED BY <4>2 DEF v
      <3> QED BY <3>2, <3>3
    <2> QED BY <2>4, <2>5, <2>6 DEF Pipeline, w, b, q, g
  <1> QED BY <1>1, AlwaysRight, PTL

\* What a peer has got is the beginning of the response to its own request, also
\* after its connection has gone down (httpserver.cpp:347).
THEOREM NobodyElsesResponse == Spec => []NothingForeign
  <1>1. ASSUME NEW g \in Seq(Unit), NEW e, Begins(g, e)
        PROVE  Len(g) <= Len(e) /\ g = SubSeq(e, 1, Len(g))
    <2>1. PICK rest \in Seq(Unit) : g \o rest = e
      BY <1>1 DEF Begins
    <2>2. /\ Len(g) \in Nat /\ Len(rest) \in Nat
          /\ e \in Seq(Unit) /\ Len(e) = Len(g) + Len(rest)
          /\ \A i \in 1 .. Len(g) : e[i] = g[i]
      <3>1. Len(g) \in Nat /\ Len(rest) \in Nat
        BY LenProperties
      <3>2. /\ g \o rest \in Seq(Unit) /\ Len(g \o rest) = Len(g) + Len(rest)
            /\ \A i \in 1 .. Len(g) + Len(rest) :
                 (g \o rest)[i] = IF i <= Len(g) THEN g[i] ELSE rest[i - Len(g)]
        BY ConcatProperties
      <3>3. \A i \in 1 .. Len(g) : i \in 1 .. Len(g) + Len(rest) /\ i <= Len(g)
        BY <3>1
      <3>4. \A i \in 1 .. Len(g) : (g \o rest)[i] = g[i]
        BY <3>2, <3>3, Zenon
      <3> QED BY <2>1, <3>1, <3>2, <3>4, Zenon
    <2>3. Len(g) <= Len(e) /\ Len(g) \in 0 .. Len(e)
      BY <2>2
    <2>4. /\ SubSeq(e, 1, Len(g)) \in Seq(Unit)
          /\ Len(SubSeq(e, 1, Len(g))) = Len(g)
          /\ \A i \in 1 .. Len(g) : SubSeq(e, 1, Len(g))[i] = g[i]
      <3>1. /\ SubSeq(e, 1, Len(g)) \in Seq(Unit) /\ Len(SubSeq(e, 1, Len(g))) = Len(g)
        BY <2>2, <2>3, Cut
      <3>2. \A i \in 1 .. Len(g) : e[i] \in Unit
        BY <2>2, ElementOfSeq
      <3>3. \A i \in 1 .. Len(g) : SubSeq(e, 1, Len(g))[i] = e[i]
        BY <2>2, <3>2, SubSeqProperties
      <3> QED BY <2>2, <3>1, <3>3
    <2> QED BY <2>2, <2>3, <2>4, SeqEqual
  <1>2. DInv => NothingForeign
    <2> SUFFICES ASSUME DInv, NEW c \in Conns, got[c] # <<>>
                 PROVE  LET k == conn[c]
                            whole == IF k.forward THEN <<Header>> \o Slice(k.since, packets)
                                                  ELSE ResponseUnits(k.response)
                        IN  /\ k.response # "none"
                            /\ Len(got[c]) <= Len(whole)
                            /\ got[c] = SubSeq(whole, 1, Len(got[c]))
      BY DEF NothingForeign
    <2> DEFINE e == Expected(conn[c], packets)
    <2>1. /\ got[c] \in Seq(Unit) /\ conn[c].response # "none"
          /\ Begins(got[c], e)
      BY DEF DInv, IInv, TypeOK, AllRight, Right
    <2>2. Len(got[c]) <= Len(e) /\ got[c] = SubSeq(e, 1, Len(got[c]))
      BY <1>1, <2>1
    <2> QED BY <2>1, <2>2 DEF Expected
  <1> QED BY <1>2, AlwaysRight, PTL

-----------------------------------------------------------------------------
\* Packets leave the queue for the send buffer, one at least if there is one and
\* room for it (streamclient.cpp:153).
LEMMA FillFromQueueDrains ==
    ASSUME NEW k \in Connection, Len(k.sendBuf) <= BufCap
    PROVE  LET f == FillFromQueue(k)
           IN  /\ Len(f.queue) <= Len(k.queue)
               /\ Len(k.sendBuf) < BufCap /\ Len(k.queue) > 0
                    => Len(f.queue) < Len(k.queue)
  <1> DEFINE n == SmallerOf(BufCap - Len(k.sendBuf), Len(k.queue))
             b == SubSeq(k.queue, n + 1, Len(k.queue))
  <1>1. k.sendBuf \in Seq(Unit) /\ k.queue \in Seq(Unit)
    BY DEF Connection
  <1>2. Len(k.sendBuf) \in Nat /\ Len(k.queue) \in Nat
    BY <1>1, LenProperties
  <1>3. /\ n \in Nat /\ n \in 0 .. Len(k.queue)
        /\ n = BufCap - Len(k.sendBuf) \/ n = Len(k.queue)
    <2>1. BufCap - Len(k.sendBuf) \in Nat
      BY <1>2, CapAssumption, Room
    <2> QED BY <1>2, <2>1, SmallerOfProperties
  <1>4. FillFromQueue(k).queue = b
    BY DEF FillFromQueue, Connection
  <1> HIDE DEF n
  <1>5. Len(b) = Len(k.queue) - n
    BY <1>1, <1>3, Cut
  <1>6. Len(k.sendBuf) < BufCap /\ Len(k.queue) > 0 => n > 0
    BY <1>2, <1>3, CapAssumption, Room
  <1> HIDE DEF b
  <1>7. Len(b) <= Len(k.queue) /\ (n > 0 => Len(b) < Len(k.queue))
    BY <1>2, <1>3, <1>5
  <1> QED BY <1>4, <1>6, <1>7

\* _sendData never lengthens the queue, and shortens it where there is room.
LEMMA SendDataDrains ==
    ASSUME NEW k, Sendable(k)
    PROVE  LET s == SendData(k)
           IN  /\ Len(s.queue) <= Len(k.queue)
               /\ (/\ k.sock = "connected" /\ k.forward /\ k.headerSent
                   /\ Len(k.sendBuf) < BufCap /\ Len(k.queue) > 0)
                    => Len(s.queue) < Len(k.queue)
  <1> DEFINE h == BufferHeader(k)
             b == IF k.sendDone THEN k ELSE BufferResponse(k)
             w == Write(b)
  <1>1. /\ k \in Connection /\ k.queue \in Seq(Unit) /\ Len(k.queue) \in Nat
        /\ Len(k.queue) <= Len(k.queue)
    BY LenProperties DEF Sendable, Sound, Connection
  <1>2. CASE k.sock = "closing" \/ ~Exists(k.ctx)
    <2>1. SendData(k) = k
      BY <1>2 DEF SendData
    <2>2. ~(k.sock = "connected" /\ k.forward)
      BY <1>2 DEF Sendable, Sound, Exists
    <2> QED BY <1>1, <2>1, <2>2
  <1>3. CASE k.sock # "closing" /\ Exists(k.ctx)
    <2>1. /\ Len(b.queue) <= Len(k.queue)
          /\ (/\ k.sock = "connected" /\ k.forward /\ k.headerSent
              /\ Len(k.sendBuf) < BufCap /\ Len(k.queue) > 0)
               => Len(b.queue) < Len(k.queue)
      <3>1. CASE k.sendDone
        <4>1. b = k /\ ~k.forward
          BY <3>1 DEF Sendable, Sound
        <4> QED BY <1>1, <4>1
      <3>2. CASE ~k.sendDone
        <4>1. /\ h.queue = k.queue /\ h \in Connection
              /\ h.forward = k.forward /\ h.generate = k.generate
              /\ k.headerSent => h = k
          BY BufferHeaderCarries DEF Sendable, BufferHeader
        <4>2. b = IF ~(h.generate /\ h.forward) THEN [h EXCEPT !.sendDone = TRUE]
                  ELSE IF Len(h.sendBuf) < BufCap THEN FillFromQueue(h) ELSE h
          BY <3>2 DEF BufferResponse, Sendable
        <4>3. CASE ~(h.generate /\ h.forward)
          <5>1. b = [h EXCEPT !.sendDone = TRUE]
            BY <4>2, <4>3
          <5> HIDE DEF b, h
          <5>2. b.queue = h.queue
            BY <4>1, <5>1 DEF Connection
          <5>3. ~k.forward
            BY <4>1, <4>3 DEF Sendable, Sound
          <5> QED BY <1>1, <4>1, <5>2, <5>3
        <4>4. CASE (h.generate /\ h.forward) /\ Len(h.sendBuf) < BufCap
          <5>1. b = FillFromQueue(h)
            BY <4>2, <4>4
          <5>2. Len(h.sendBuf) <= BufCap
            BY <4>1, <4>4, BufferHeaderSound DEF Sendable
          <5> HIDE DEF b, h
          <5>3. /\ Len(FillFromQueue(h).queue) <= Len(h.queue)
                /\ Len(h.sendBuf) < BufCap /\ Len(h.queue) > 0
                     => Len(FillFromQueue(h).queue) < Len(h.queue)
            BY <4>1, <5>2, FillFromQueueDrains
          <5> QED BY <4>1, <5>1, <5>3
        <4>5. CASE (h.generate /\ h.forward) /\ ~(Len(h.sendBuf) < BufCap)
          <5>1. b = h
            BY <4>2, <4>5
          <5> HIDE DEF b, h
          <5> QED BY <1>1, <4>1, <4>5, <5>1
        <4> QED BY <4>3, <4>4, <4>5
      <3> QED BY <3>1, <3>2
    <2>2. Sound(b)
      BY BufferResponseSound DEF Sendable
    <2>3. SendData(k) = IF w.sendBuf = <<>> /\ w.sendDone THEN Close(w) ELSE w
      BY <1>3 DEF SendData
    <2> HIDE DEF b
    <2>4. w = [b EXCEPT !.wbuf = w.wbuf, !.sendBuf = w.sendBuf]
          /\ w.wbuf \in Seq(Unit) /\ w.sendBuf \in Seq(Unit)
      BY <2>2, WriteCarries
    <2> HIDE DEF w
    <2>5. w.queue = b.queue
      BY <2>2, <2>4 DEF Sound, Connection
    <2>6. w \in Connection
      BY <2>2, <2>4, Zenon DEF Sound, Connection
    <2>7. Close(w).queue = w.queue
      BY <2>6, CloseCarries
    <2> QED BY <2>1, <2>3, <2>5, <2>7
  <1> QED BY <1>2, <1>3

\* The part of QueueIsBacklog about one connection before and after a step.
Backlog(k, x) ==
    k.sock = "connected" /\ Len(x.queue) > Len(k.queue)
      => Len(k.sendBuf) = BufCap /\ Len(k.wbuf) = SockCap

\* A packet stays in the queue of a connected client only if both buffers are
\* full (streamclient.cpp:136).
LEMMA QueuePacketBacklog ==
    ASSUME NEW k, Sound(k), Fed(k), NEW p \in Unit
    PROVE  Backlog(k, QueuePacket(k, p))
  <1> DEFINE q == [k EXCEPT !.queue = Append(@, p)]
  <1>1. /\ k \in Connection /\ k.queue \in Seq(Unit) /\ Len(k.queue) \in Nat
        /\ k.sendBuf \in Seq(Unit) /\ Len(k.sendBuf) \in Nat
    BY LenProperties DEF Sound, Connection
  <1>2. CASE ~k.forward
    BY <1>1, <1>2 DEF QueuePacket, Backlog
  <1>3. CASE k.sock # "connected"
    BY <1>3 DEF Backlog
  <1>4. CASE k.forward /\ k.sock = "connected"
    <2>1. /\ Append(k.queue, p) \in Seq(Unit)
          /\ Len(Append(k.queue, p)) = Len(k.queue) + 1
      BY <1>1, AppendProperties
    <2>2. q \in Connection
      BY <1>1, <2>1, Zenon DEF Connection
    <2>3. /\ q.sock = k.sock /\ q.wbuf = k.wbuf /\ q.http = k.http
          /\ q.receiving = k.receiving /\ q.sendDone = k.sendDone
          /\ q.sendBuf = k.sendBuf /\ q.ctx = k.ctx
          /\ q.response = k.response /\ q.headerSent = k.headerSent
          /\ q.generate = k.generate /\ q.stream = k.stream
          /\ q.forward = k.forward /\ Len(q.queue) = Len(k.queue) + 1
      BY <1>1, <2>1 DEF Connection
    <2>4. Exists(q.ctx) /\ Exists(q.http)
      BY <1>4, <2>3 DEF Sound, Exists
    <2>5. QueuePacket(k, p) = SendData(q)
      BY <1>4, <2>4 DEF QueuePacket
    <2> HIDE DEF q
    <2>6. Sound(q)
      BY <1>4, <2>2, <2>3 DEF Sound, WithinCaps
    <2>7. Sendable(q) /\ q.headerSent
      BY <1>4, <2>3, <2>6 DEF Sendable, Sound, Fed, Open
    <2>8. CASE Len(k.sendBuf) < BufCap
      <3>1. Len(q.queue) > 0 /\ Len(q.queue) = Len(k.queue) + 1
        BY <1>1, <2>3
      <3>2. Len(SendData(q).queue) < Len(q.queue)
        BY <1>4, <2>3, <2>7, <2>8, <3>1, SendDataDrains
      <3>3. SendData(q) \in Connection
        BY <2>6, SendDataSound DEF Sound
      <3>4. Len(SendData(q).queue) \in Nat
        BY <3>3, LenProperties DEF Connection
      <3>5. ~(Len(SendData(q).queue) > Len(k.queue))
        BY <1>1, <3>1, <3>2, <3>4
      <3> QED BY <2>5, <3>5 DEF Backlog
    <2>9. CASE ~(Len(k.sendBuf) < BufCap)
      <3>1. Len(k.sendBuf) <= BufCap
        BY <1>4 DEF Sound, WithinCaps
      <3>2. Len(k.sendBuf) = BufCap /\ Len(k.sendBuf) # 0
        BY <1>1, <2>9, <3>1, CapAssumption
      <3>3. k.sendBuf # <<>>
        BY <3>2, EmptySeq
      <3> QED BY <1>4, <3>2, <3>3 DEF Fed, Backlog
    <2> QED BY <2>8, <2>9
  <1> QED BY <1>2, <1>3, <1>4

\* What is read never lengthens a queue (httpserver.cpp:407).
LEMMA ReceiveDataBacklog ==
    ASSUME NEW k, Sound(k), Fed(k), k.sock = "connected", NEW sent \in Nat,
           NEW len \in Nat \ {0}, NEW s \in [1 .. len -> Chunk]
    PROVE  Backlog(k, ReceiveData(k, s, sent))
  <1> DEFINE r == Parsed(k.request, s)
             c == [k EXCEPT !.ctx = IF @ = "none" THEN "live" ELSE @,
                            !.request = r]
             t == ReceiveData(k, s, sent)
  <1>1. /\ k \in Connection /\ k.queue \in Seq(Unit) /\ Len(k.queue) \in Nat
    BY LenProperties DEF Sound, Connection
  <1>2. ASSUME t.queue = k.queue PROVE Backlog(k, t)
    BY <1>1, <1>2 DEF Backlog
  <1>3. CASE ~k.receiving
    <2>1. t = Disconnected(k)
      BY <1>3 DEF ReceiveData, Abort
    <2>2. Disconnected(k).queue = k.queue
      BY <1>1 DEF Disconnected, Connection
    <2> QED BY <1>2, <2>1, <2>2
  <1>4. CASE k.receiving
    <2>1. r \in {"line", "body", "ready", "failed"}
      BY DEF Parsed
    <2>2. CASE r = "failed"
      <3>1. t = [c EXCEPT !.receiving = FALSE, !.response = "error"]
        BY <1>4, <2>2 DEF ReceiveData
      <3>2. t.queue = k.queue
        BY <1>1, <3>1 DEF Connection
      <3> QED BY <1>2, <3>2
    <2>3. CASE r \in {"line", "body"}
      <3>1. t = c
        BY <1>4, <2>3 DEF ReceiveData
      <3>2. t.queue = k.queue
        BY <1>1, <3>1 DEF Connection
      <3> QED BY <1>2, <3>2
    <2>4. CASE r = "ready"
      <3> DEFINE d == [c EXCEPT !.receiving = FALSE]
                 kind == s[Len(s)]
                 e == EnsureResponse(ProcessRequest(d, kind, sent))
      <3>1. t = SendData(e)
        BY <1>4, <2>4 DEF ReceiveData
      <3>2. d = [k EXCEPT !.ctx = "live", !.request = "ready",
                          !.receiving = FALSE]
        BY <1>1, <1>4, <2>4 DEF Connection, Sound
      <3>3. kind \in Complete
        <4>1. Len(s) = len /\ s[len] \in Chunk
          BY LenProperties
        <4> QED BY <2>4, <4>1 DEF Parsed, Rejects, Chunk
      <3>4. Sound(e)
        <4> HIDE DEF d, c, r, kind
        <4> QED BY <1>4, <3>2, <3>3, ProcessRequestSound
      <3>5. d \in Connection /\ d.queue = k.queue /\ ~d.sendDone /\ d.response = "none"
            /\ d.sock = "connected" /\ ~d.forward
        <4>1. d \in Connection
          <5> HIDE DEF c, r, d
          <5> QED BY <1>1, <3>2, Zenon DEF Connection, Object
        <4> QED BY <1>1, <1>4, <3>2, <4>1 DEF Connection, Sound
      <3> HIDE DEF d, c, r, kind, t
      <3>6. /\ e.queue = k.queue /\ ~e.sendDone /\ e.response # "none"
            /\ e.sock = "connected"
        <4>1. CASE kind = "refused"
          BY <3>5, <4>1 DEF EnsureResponse, ProcessRequest, Connection
        <4>2. CASE kind \in {"lost", "head"}
          BY <3>5, <4>2 DEF EnsureResponse, ProcessRequest, HandleRequest, Connection
        <4>3. CASE kind = "get"
          BY <3>5, <4>3 DEF EnsureResponse, ProcessRequest, HandleRequest, Connection
        <4> QED BY <3>3, <4>1, <4>2, <4>3 DEF Complete
      <3> HIDE DEF e
      <3>7. Sendable(e)
        BY <3>4, <3>6 DEF Sendable
      <3>8. Len(t.queue) <= Len(k.queue)
        BY <3>1, <3>6, <3>7, SendDataDrains
      <3>9. Len(t.queue) \in Nat
        <4>1. t \in Connection
          BY <3>1, <3>4, SendDataSound DEF Sound
        <4> QED BY <4>1, LenProperties DEF Connection
      <3>10. ~(Len(t.queue) > Len(k.queue))
        BY <1>1, <3>8, <3>9
      <3> QED BY <3>10 DEF Backlog, t
    <2> QED BY <2>1, <2>2, <2>3, <2>4
  <1> QED BY <1>3, <1>4

\* What has been written never lengthens it (httpserver.cpp:549).
LEMMA AfterWriteBacklog ==
    ASSUME NEW k, Sound(k), Fed(k), k.sock \in Open, NEW n \in 1 .. Len(k.wbuf)
    PROVE  Backlog(k, AfterWrite(k, n))
  <1> DEFINE rest == SubSeq(k.wbuf, n + 1, Len(k.wbuf))
             w == [k EXCEPT !.wbuf = rest]
             s == SendData(w)
  <1>1. /\ k \in Connection /\ k.wbuf \in Seq(Unit)
        /\ k.queue \in Seq(Unit) /\ Len(k.queue) \in Nat
    BY LenProperties DEF Sound, Connection
  <1>2. Len(k.wbuf) \in Nat /\ n \in 0 .. Len(k.wbuf) /\ k.wbuf # <<>>
    BY <1>1, LenProperties, EmptySeq
  <1>3. rest \in Seq(Unit) /\ Len(rest) = Len(k.wbuf) - n
    BY <1>1, <1>2, Cut
  <1>4. Len(rest) <= SockCap
    <2>1. ASSUME NEW x \in Nat, NEW m \in 1 .. x, x <= SockCap
          PROVE  x - m <= SockCap
      BY <2>1, CapAssumption
    <2>2. Len(k.wbuf) <= SockCap
      BY DEF Sound, WithinCaps
    <2> QED BY <1>2, <1>3, <2>1, <2>2
  <1>5. AfterWrite(k, n) = IF s.sock = "closing" /\ s.wbuf = <<>>
                             THEN Disconnected(s) ELSE s
    BY DEF AfterWrite
  <1> HIDE DEF rest
  <1>6. w \in Connection
    BY <1>1, <1>3, Zenon DEF Connection
  <1>7. /\ w.sock = k.sock /\ w.wbuf = rest /\ w.http = k.http
        /\ w.receiving = k.receiving /\ w.sendDone = k.sendDone
        /\ w.sendBuf = k.sendBuf /\ w.ctx = k.ctx
        /\ w.response = k.response /\ w.headerSent = k.headerSent
        /\ w.generate = k.generate /\ w.stream = k.stream
        /\ w.forward = k.forward /\ w.queue = k.queue
    BY <1>1 DEF Connection
  <1> HIDE DEF w
  <1>8. Sound(w)
    BY <1>4, <1>6, <1>7 DEF Sound, WithinCaps
  <1>9. Sendable(w)
    BY <1>2, <1>7, <1>8 DEF Sendable, Fed, Open
  <1>10. Len(s.queue) <= Len(k.queue)
    BY <1>7, <1>9, SendDataDrains
  <1>11. s \in Connection
    BY <1>8, SendDataSound DEF Sound
  <1> HIDE DEF s
  <1>12. Len(s.queue) \in Nat
    BY <1>11, LenProperties DEF Connection
  <1>13. Disconnected(s).queue = s.queue
    BY <1>11 DEF Disconnected, Connection
  <1>14. AfterWrite(k, n).queue = s.queue
    BY <1>5, <1>13
  <1>15. ~(Len(s.queue) > Len(k.queue))
    BY <1>1, <1>10, <1>12
  <1> QED BY <1>14, <1>15 DEF Backlog

\* A step leaves a packet in a connected client's queue only behind full buffers.
LEMMA NextBacklog ==
    ASSUME DInv, [Next]_vars
    PROVE  \A c \in Conns : Backlog(conn[c], conn'[c])
  <1>1. /\ conn \in [Conns -> Connection] /\ packets \in Nat
        /\ \A c \in Conns : Sound(conn[c]) /\ Fed(conn[c])
    BY DEF DInv, IInv, TypeOK, Good, AllRight
  <1>2. \A c \in Conns : conn[c].queue \in Seq(Unit) /\ Len(conn[c].queue) \in Nat
    BY <1>1, LenProperties DEF Connection
  <1>3. \A c \in Conns : conn'[c].queue = conn[c].queue => Backlog(conn[c], conn'[c])
    BY <1>2 DEF Backlog
  <1>4. ASSUME NEW c \in Conns, NEW x, conn' = [conn EXCEPT ![c] = x],
               Backlog(conn[c], x)
        PROVE  \A d \in Conns : Backlog(conn[d], conn'[d])
    <2>1. \A d \in Conns : d # c => conn'[d].queue = conn[d].queue
      BY <1>1, <1>4
    <2> QED BY <1>1, <1>3, <1>4, <2>1
  <1>5. ASSUME NEW c \in Conns, ClientConnected(c)
        PROVE  \A d \in Conns : Backlog(conn[d], conn'[d])
    <2>1. conn' = [conn EXCEPT ![c] = Accepted] /\ conn[c].sock = "none"
      BY <1>5 DEF ClientConnected, DInv, IInv, Unopened
    <2> QED BY <1>4, <2>1 DEF Backlog
  <1>6. ASSUME NEW c \in Conns, ReadyRead(c)
        PROVE  \A d \in Conns : Backlog(conn[d], conn'[d])
    <2>1. PICK len \in 1 .. MaxChunks : \E s \in [1 .. len -> Chunks] :
            conn' = [conn EXCEPT ![c] = ReceiveData(@, s, packets)]
      BY <1>6 DEF ReadyRead
    <2>2. PICK q \in [1 .. len -> Chunks] :
            conn' = [conn EXCEPT ![c] = ReceiveData(@, q, packets)]
      BY <2>1
    <2>3. /\ conn[c].sock = "connected"
          /\ len \in Nat \ {0} /\ q \in [1 .. len -> Chunk]
      BY <1>6, ChunksAssumption, BoundAssumption DEF ReadyRead
    <2>4. Backlog(conn[c], ReceiveData(conn[c], q, packets))
      BY <1>1, <2>3, ReceiveDataBacklog
    <2> QED BY <1>4, <2>2, <2>4
  <1>7. ASSUME NEW c \in Conns, BytesWritten(c)
        PROVE  \A d \in Conns : Backlog(conn[d], conn'[d])
    <2>1. PICK n \in 1 .. Len(conn[c].wbuf) :
            conn' = [conn EXCEPT ![c] = AfterWrite(@, n)]
      BY <1>7 DEF BytesWritten
    <2>2. conn[c].sock \in Open
      BY <1>7 DEF BytesWritten, Open
    <2>3. Backlog(conn[c], AfterWrite(conn[c], n))
      BY <1>1, <2>2, AfterWriteBacklog
    <2> QED BY <1>4, <2>1, <2>3
  <1>8. ASSUME NEW c \in Conns, PeerGoneRead(c) \/ PeerGoneWrite(c)
        PROVE  \A d \in Conns : Backlog(conn[d], conn'[d])
    <2>1. PICK x \in {Close(conn[c]), Abort(conn[c])} : conn' = [conn EXCEPT ![c] = x]
      BY <1>8 DEF PeerGoneRead, PeerGoneWrite
    <2>2. x.queue = conn[c].queue
      BY <1>1, <2>1 DEF Close, Abort, Disconnected, Connection
    <2>3. Backlog(conn[c], x)
      BY <1>2, <2>2 DEF Backlog
    <2> QED BY <1>4, <2>1, <2>3
  <1>9. CASE ProcessInput
    <2>1. /\ packets' \in Unit
          /\ conn' = [c \in Conns |-> IF c \in streamClients
                        THEN QueuePacket(conn[c], packets') ELSE conn[c]]
      BY <1>1, <1>9 DEF ProcessInput, Unit
    <2> SUFFICES ASSUME NEW c \in Conns PROVE Backlog(conn[c], conn'[c])
      OBVIOUS
    <2>2. CASE c \in streamClients
      BY <1>1, <2>1, <2>2, QueuePacketBacklog
    <2>3. CASE c \notin streamClients
      BY <1>3, <2>1, <2>3
    <2> QED BY <2>2, <2>3
  <1>10. CASE ReopenFails \/ QueuedShutdown
    <2>1. Shutdown
      BY <1>10 DEF ReopenFails, QueuedShutdown
    <2> SUFFICES ASSUME NEW c \in Conns PROVE conn'[c].queue = conn[c].queue
      BY <1>3
    <2>2. conn'[c] \in {conn[c], Close(conn[c])}
      BY <2>1 DEF Shutdown, CloseStream
    <2> QED BY <1>1, <2>2 DEF Close, Disconnected, Connection
  <1>11. ASSUME NEW c \in Conns, PostedEvent(c)
         PROVE  \A d \in Conns : Backlog(conn[d], conn'[d])
    <2>1. PICK o \in Objects : Delivering(<<o, c>>)
      BY <1>11 DEF PostedEvent, DeleteContext, DeleteClient, DeleteStream, Objects
    <2>2. conn[c].sock = "closed"
      <3>1. posted \in Seq(SUBSET Event) /\ Down(conn, posted)
        BY DEF DInv, IInv, TypeOK
      <3>2. posted # <<>> /\ <<o, c>> \in posted[1] /\ 1 \in DOMAIN posted
        BY <2>1, <3>1, LenProperties, EmptySeq, HeadTailProperties DEF Delivering
      <3> QED BY <3>1, <3>2 DEF Down
    <2>3. PICK x : conn' = [conn EXCEPT ![c] = x]
      BY <1>11 DEF PostedEvent, DeleteContext, DeleteClient, DeleteStream
    <2> QED BY <1>4, <2>2, <2>3 DEF Backlog
  <1>12. CASE conn' = conn
    BY <1>3, <1>12
  <1> QED BY <1>5, <1>6, <1>7, <1>8, <1>9, <1>10, <1>11, <1>12
        DEF Next, ConnectionEvent, PeerClose, Signal, InputEnds, InputReopened,
            StartPosted, EndPosted, vars

\* Nothing but a peer that does not read makes the queue of a connected client
\* grow (streamclient.cpp:136).
THEOREM QueueOnlyBehindFullBuffers == Spec => QueueIsBacklog
  <1>1. DInv /\ [Next]_vars =>
          [ \A c \in Conns :
              /\ conn[c].sock = "connected"
              /\ Len(conn'[c].queue) > Len(conn[c].queue)
              => Len(conn[c].sendBuf) = BufCap /\ Len(conn[c].wbuf) = SockCap ]_vars
    BY NextBacklog DEF Backlog
  <1> QED BY <1>1, AlwaysRight, PTL DEF Spec, QueueIsBacklog

-----------------------------------------------------------------------------
(***************************************************************************)
(* The server implements StreamDelivery.                                   *)
(***************************************************************************)

\* The packets that have reached a subscriber.
Received(k, g) == IF k.forward /\ g # <<>> THEN Tail(g) ELSE <<>>

-----------------------------------------------------------------------------
\* The beginning of a stream is its header and the first packets since it was
\* asked for (streamclient.cpp:95).
LEMMA ReceivedIsSlice ==
    ASSUME NEW k \in Connection, k.forward, NEW g \in Seq(Unit), NEW sent \in Nat,
           k.since <= sent, Begins(g, <<Header>> \o Slice(k.since, sent))
    PROVE  /\ Received(k, g) \in Seq(Unit)
           /\ Len(Received(k, g)) \in 0 .. sent - k.since
           /\ Received(k, g) = Slice(k.since, k.since + Len(Received(k, g)))
           /\ g # <<>> => Len(Received(k, g)) = Len(g) - 1
           /\ g = <<>> => Len(Received(k, g)) = 0
  <1> DEFINE f == k.since
             h == <<Header>>
             a == Slice(f, sent)
             e == h \o a
             r == Tail(g)
  <1>1. f \in Nat /\ f <= sent
    BY DEF Connection
  <1>2. /\ a \in Seq(Unit) /\ Len(a) = sent - f
        /\ h \in Seq(Unit) /\ Len(h) = 1
        /\ \A i \in 1 .. sent - f : a[i] = f + i
    <2>1. a \in Seq(Unit) /\ Len(a) = sent - f
      BY <1>1, SliceProperties
    <2> QED BY <1>1, <2>1 DEF Slice, Header, Unit
  <1>3. CASE g = <<>>
    <2>1. Received(k, g) = <<>>
      BY <1>3 DEF Received
    <2>2. Slice(f, f + 0) = <<>> /\ <<>> \in Seq(Unit) /\ Len(<<>>) = 0
      BY <1>1 DEF Slice
    <2>3. 0 \in 0 .. sent - f
      BY <1>1
    <2> QED BY <1>3, <2>1, <2>2, <2>3
  <1>4. CASE g # <<>>
    <2> HIDE DEF f, h, a
    <2>1. PICK rest \in Seq(Unit) : g \o rest = e
      BY DEF Begins, f, h, a
    <2>2. /\ Len(g) \in Nat /\ Len(rest) \in Nat /\ Len(g) # 0
          /\ Len(a) \in Nat
      BY <1>2, <1>4, LenProperties, EmptySeq
    <2>3. /\ Len(e) = 1 + (sent - f)
          /\ \A i \in 1 .. Len(h) + Len(a) :
               e[i] = IF i <= Len(h) THEN h[i] ELSE a[i - Len(h)]
      <3>1. h \in Seq(Unit) /\ a \in Seq(Unit)
        BY <1>2
      <3>2. Len(h \o a) = Len(h) + Len(a)
        BY <3>1, ConcatProperties, Zenon
      <3>3. \A i \in 1 .. Len(h) + Len(a) :
              (h \o a)[i] = IF i <= Len(h) THEN h[i] ELSE a[i - Len(h)]
        BY <3>1, ConcatProperties
      <3>4. e = h \o a
        OBVIOUS
      <3> HIDE DEF e
      <3> QED BY <1>2, <3>2, <3>3, <3>4
    <2>4. /\ Len(g \o rest) = Len(g) + Len(rest)
          /\ \A i \in 1 .. Len(g) + Len(rest) :
               (g \o rest)[i] = IF i <= Len(g) THEN g[i] ELSE rest[i - Len(g)]
      BY ConcatProperties
    <2> HIDE DEF e
    <2>5. Len(g) + Len(rest) = 1 + (sent - f)
      BY <2>1, <2>3, <2>4
    <2>6. Len(g) - 1 \in 0 .. sent - f /\ Len(g) - 1 \in Nat
      BY <1>1, <2>2, <2>5
    <2>7. \A i \in 1 .. Len(g) - 1 : g[i + 1] = f + i
      <3> SUFFICES ASSUME NEW i \in 1 .. Len(g) - 1 PROVE g[i + 1] = f + i
        OBVIOUS
      <3>1. /\ i + 1 \in 1 .. Len(g) + Len(rest) /\ i + 1 <= Len(g)
            /\ i + 1 \in 1 .. 1 + (sent - f) /\ ~(i + 1 <= 1)
            /\ i + 1 - 1 = i /\ i \in 1 .. sent - f
        BY <1>1, <2>2, <2>5, <2>6
      <3>2. (g \o rest)[i + 1] = g[i + 1]
        BY <2>4, <3>1
      <3>3. e[i + 1] = a[i]
        BY <1>2, <2>3, <3>1
      <3> QED BY <1>2, <2>1, <3>1, <3>2, <3>3
    <2>8. /\ r \in Seq(Unit) /\ Len(r) = Len(g) - 1
          /\ \A i \in 1 .. Len(g) - 1 : r[i] = g[i + 1]
      BY <1>4, HeadTailProperties
    <2>9. Received(k, g) = r
      BY <1>4 DEF Received
    <2> HIDE DEF r
    <2>10. r = Slice(f, f + (Len(g) - 1))
      <3> DEFINE n == Len(g) - 1
                 b == Slice(f, f + n)
      <3>1. n \in Nat /\ f + n \in Nat /\ f <= f + n /\ (f + n) - f = n
        BY <1>1, <2>6
      <3> HIDE DEF n
      <3>2. b \in Seq(Unit) /\ Len(b) = n
        BY <1>1, <3>1, SliceProperties
      <3>3. \A i \in 1 .. n : b[i] = f + i
        BY <3>1 DEF Slice
      <3>4. Len(r) = n /\ \A i \in 1 .. n : r[i] = f + i
        BY <2>7, <2>8 DEF n
      <3> HIDE DEF b
      <3>5. r = b
        BY <2>8, <3>2, <3>3, <3>4, SeqEqual
      <3> QED BY <3>5 DEF b, n
    <2> QED BY <1>4, <2>2, <2>6, <2>8, <2>9, <2>10 DEF f
  <1> QED BY <1>3, <1>4

\* A slice and the packets that follow it make up the slice up to the last of
\* them.
LEMMA SliceJoin ==
    ASSUME NEW from \in Nat, NEW a \in Nat, NEW m \in Nat
    PROVE  Slice(from, from + a) \o [i \in 1 .. m |-> from + a + i]
             = Slice(from, from + (a + m))
  <1> DEFINE s == Slice(from, from + a)
             t == [i \in 1 .. m |-> from + a + i]
             u == Slice(from, from + (a + m))
  <1>1. /\ from + a \in Nat /\ from <= from + a /\ from + a - from = a
        /\ from + (a + m) \in Nat /\ from <= from + (a + m)
        /\ from + (a + m) - from = a + m
    OBVIOUS
  <1>2. s \in Seq(Unit) /\ Len(s) = a /\ \A i \in 1 .. a : s[i] = from + i
    <2> DEFINE to == from + a
    <2>1. to \in Nat /\ from <= to /\ to - from = a /\ s = Slice(from, to)
      BY <1>1
    <2> HIDE DEF to, s
    <2>2. s \in Seq(Unit) /\ Len(s) = a
      BY <2>1, SliceProperties
    <2> QED BY <2>1, <2>2 DEF Slice
  <1>3. u \in Seq(Unit) /\ Len(u) = a + m /\ \A i \in 1 .. a + m : u[i] = from + i
    <2> DEFINE to == from + (a + m)
    <2>1. to \in Nat /\ from <= to /\ to - from = a + m /\ u = Slice(from, to)
      BY <1>1
    <2> HIDE DEF to, u
    <2>2. u \in Seq(Unit) /\ Len(u) = a + m
      BY <2>1, SliceProperties
    <2> QED BY <2>1, <2>2 DEF Slice
  <1>4. t \in Seq(Unit) /\ Len(t) = m /\ \A i \in 1 .. m : t[i] = from + a + i
    <2>1. \A i \in 1 .. m : from + a + i \in Unit
      BY DEF Unit
    <2> QED BY <2>1, IsASeq, LenProperties
  <1> HIDE DEF s, t, u
  <1>5. /\ s \o t \in Seq(Unit) /\ Len(s \o t) = Len(s) + Len(t)
        /\ \A i \in 1 .. Len(s) + Len(t) :
             (s \o t)[i] = IF i <= Len(s) THEN s[i] ELSE t[i - Len(s)]
    BY <1>2, <1>4, ConcatProperties
  <1>6. \A i \in 1 .. a + m : (s \o t)[i] = u[i]
    <2> SUFFICES ASSUME NEW i \in 1 .. a + m PROVE (s \o t)[i] = u[i]
      OBVIOUS
    <2>1. CASE i <= a
      BY <1>2, <1>3, <1>4, <1>5, <2>1
    <2>2. CASE ~(i <= a)
      <3>1. i - a \in 1 .. m /\ from + a + (i - a) = from + i
        BY <2>2
      <3>2. (s \o t)[i] = t[i - a]
        BY <1>2, <1>4, <1>5, <2>2
      <3> QED BY <1>3, <1>4, <3>1, <3>2
    <2> QED BY <2>1, <2>2
  <1>7. s \o t = u
    BY <1>2, <1>3, <1>4, <1>5, <1>6, SeqEqual
  <1> QED BY <1>7 DEF s, t, u

-----------------------------------------------------------------------------
\* What a subscriber was promised stays, and one that was cut off stays so.
Kept(k, x) ==
    /\ x.forward = k.forward /\ x.since = k.since
    /\ k.sock = "closed" => x.sock = "closed"

\* The packets received are those StreamDelivery knows as delivered.
LEMMA DeliveredIsReceived ==
    /\ Delivery!Init <=>
         /\ packets = 0
         /\ [c \in Conns |-> PhaseOf(conn[c])] = [c \in Conns |-> "idle"]
         /\ [c \in Conns |-> conn[c].since] = [c \in Conns |-> 0]
         /\ [c \in Conns |-> Received(conn[c], got[c])] = [c \in Conns |-> <<>>]
  BY DEF Delivery!Init, Received

\* Handlers that subscribe nobody and deliver nothing cut off at most
\* (httpserver.cpp:560, streamclient.cpp:236).
LEMMA KeptImplements ==
    ASSUME packets' = packets,
           \A c \in Conns : /\ Kept(conn[c], conn'[c])
                            /\ Received(conn'[c], got'[c]) = Received(conn[c], got[c])
    PROVE  Delivery!Next
  <1> DEFINE S == {c \in Conns : PhaseOf(conn[c]) = "on" /\ PhaseOf(conn'[c]) = "off"}
  <1>1. \A c \in Conns :
          PhaseOf(conn'[c]) = IF c \in S THEN "off" ELSE PhaseOf(conn[c])
    BY DEF Kept, PhaseOf
  <1>2. \A c \in S : PhaseOf(conn[c]) = "on"
    OBVIOUS
  <1>3. S \in SUBSET Conns
    OBVIOUS
  <1> HIDE DEF S
  <1>4. [c \in Conns |-> PhaseOf(conn'[c])]
          = [c \in Conns |-> IF c \in S THEN "off"
                             ELSE [d \in Conns |-> PhaseOf(conn[d])][c]]
    BY <1>1
  <1>5. /\ [c \in Conns |-> conn'[c].since] = [c \in Conns |-> conn[c].since]
        /\ [c \in Conns |-> IF conn'[c].forward /\ got'[c] # <<>>
                              THEN Tail(got'[c]) ELSE <<>>]
             = [c \in Conns |-> IF conn[c].forward /\ got[c] # <<>>
                                  THEN Tail(got[c]) ELSE <<>>]
    BY DEF Kept, Received
  <1>6. \A c \in S : [d \in Conns |-> PhaseOf(conn[d])][c] = "on"
    BY <1>2, <1>3
  <1>7. Delivery!CutOff(S)
    BY <1>4, <1>5, <1>6 DEF Delivery!CutOff
  <1> QED BY <1>3, <1>7 DEF Delivery!Next

\* A packet broadcast is one more that was produced (streamserver.cpp:523).
LEMMA PacketImplements ==
    ASSUME packets' = packets + 1,
           \A c \in Conns : /\ conn'[c].sock = conn[c].sock
                            /\ conn'[c].forward = conn[c].forward
                            /\ conn'[c].since = conn[c].since,
           got' = got
    PROVE  Delivery!Next
  <1>1. \A c \in Conns : PhaseOf(conn'[c]) = PhaseOf(conn[c])
    BY DEF PhaseOf
  <1>2. Delivery!Produce
    BY <1>1 DEF Delivery!Produce
  <1> QED BY <1>2 DEF Delivery!Next

\* Reading a request that asks for the stream subscribes its peer to what is
\* broadcast from then on (streamserver.cpp:133).
LEMMA RequestImplements ==
    ASSUME NEW c \in Conns, conn \in [Conns -> Connection], NEW x,
           conn' = [conn EXCEPT ![c] = x], got' = got, packets' = packets,
           ~conn[c].forward, got[c] = <<>>,
           x.forward, x.since = packets, x.sock = "connected"
    PROVE  Delivery!Next
  <1>1. \A d \in Conns : PhaseOf(conn'[d]) = IF d = c THEN "on" ELSE PhaseOf(conn[d])
    BY DEF PhaseOf
  <1>2. \A d \in Conns : conn'[d].since = IF d = c THEN packets ELSE conn[d].since
    OBVIOUS
  <1>3. \A d \in Conns : Received(conn'[d], got'[d]) = Received(conn[d], got[d])
    BY DEF Received
  <1>4. [d \in Conns |-> PhaseOf(conn'[d])]
          = [[d \in Conns |-> PhaseOf(conn[d])] EXCEPT ![c] = "on"]
    BY <1>1
  <1>5. [d \in Conns |-> conn'[d].since]
          = [[d \in Conns |-> conn[d].since] EXCEPT ![c] = packets]
    BY <1>2
  <1>6. [d \in Conns |-> IF conn'[d].forward /\ got'[d] # <<>>
                           THEN Tail(got'[d]) ELSE <<>>]
          = [d \in Conns |-> IF conn[d].forward /\ got[d] # <<>>
                               THEN Tail(got[d]) ELSE <<>>]
    BY <1>3 DEF Received
  <1>7. [d \in Conns |-> PhaseOf(conn[d])][c] = "idle"
    BY DEF PhaseOf
  <1>8. Delivery!Subscribe(c)
    BY <1>4, <1>5, <1>6, <1>7 DEF Delivery!Subscribe
  <1> QED BY <1>8 DEF Delivery!Next

\* From k with g received to x with h received, the packets that follow have
\* been received.
Continues(k, g, x, h, sent) ==
    \E m \in 0 .. sent - k.since - Len(Received(k, g)) :
      Received(x, h)
        = Received(k, g) \o [i \in 1 .. m |-> k.since + Len(Received(k, g)) + i]

\* What a subscriber has got and what it gets next are the packets that follow
\* (httpserver.cpp:549).
LEMMA ReceivedGrows ==
    ASSUME NEW k \in Connection, NEW x \in Connection, NEW sent \in Nat,
           NEW g \in Seq(Unit), NEW more \in Seq(Unit),
           k.forward, x.forward, x.since = k.since, k.response # "none",
           x.response # "none", Right(k, g, sent), Right(x, g \o more, sent)
    PROVE  Continues(k, g, x, g \o more, sent)
  <1> DEFINE h == g \o more
             a == Len(Received(k, g))
             b == Len(Received(x, h))
             m == b - a
  <1>1. h \in Seq(Unit) /\ Len(h) = Len(g) + Len(more)
    BY ConcatProperties
  <1>2. Len(g) \in Nat /\ Len(more) \in Nat
    BY LenProperties
  <1>3. k.since \in Nat /\ x.since <= sent /\ k.since <= sent
    BY DEF Connection, Right
  <1>4. /\ Begins(g, <<Header>> \o Slice(k.since, sent))
        /\ Begins(h, <<Header>> \o Slice(x.since, sent))
    BY DEF Right, Expected
  <1> HIDE DEF h
  <1>5. /\ a \in 0 .. sent - k.since
        /\ Received(k, g) = Slice(k.since, k.since + a)
        /\ g # <<>> => a = Len(g) - 1
        /\ g = <<>> => a = 0
    BY <1>3, <1>4, ReceivedIsSlice
  <1>6. /\ b \in 0 .. sent - k.since
        /\ Received(x, h) = Slice(k.since, k.since + b)
        /\ h # <<>> => b = Len(h) - 1
    BY <1>1, <1>3, <1>4, ReceivedIsSlice
  <1> HIDE DEF a, b
  <1>7. a <= b
    <2>1. CASE g = <<>>
      BY <1>3, <1>5, <1>6, <2>1
    <2>2. CASE g # <<>>
      <3>1. Len(g) # 0
        BY <2>2, EmptySeq
      <3>2. h # <<>>
        BY <1>1, <1>2, <3>1, EmptySeq
      <3> QED BY <1>1, <1>2, <1>5, <1>6, <2>2, <3>2
    <2> QED BY <2>1, <2>2
  <1>8. /\ a \in Nat /\ m \in Nat /\ a + m = b
        /\ m \in 0 .. sent - k.since - a
    BY <1>3, <1>5, <1>6, <1>7
  <1> HIDE DEF m
  <1>9. Slice(k.since, k.since + a) \o [i \in 1 .. m |-> k.since + a + i]
          = Slice(k.since, k.since + (a + m))
    BY <1>3, <1>8, SliceJoin
  <1>10. Received(x, h) = Received(k, g) \o [i \in 1 .. m |-> k.since + a + i]
    BY <1>5, <1>6, <1>8, <1>9
  <1> QED BY <1>8, <1>10 DEF a, h, Continues

LEMMA DeliveryImplements ==
    ASSUME NEW c \in Conns, conn \in [Conns -> Connection],
           got \in [Conns -> Seq(Unit)], NEW x, NEW h,
           conn' = [conn EXCEPT ![c] = x], got' = [got EXCEPT ![c] = h],
           packets' = packets, conn[c].forward, conn[c].sock # "closed",
           x.forward, x.since = conn[c].since,
           Continues(conn[c], got[c], x, h, packets)
    PROVE  Delivery!Next
  <1> DEFINE ph == [d \in Conns |-> PhaseOf(conn[d])]
             si == [d \in Conns |-> conn[d].since]
             de == [d \in Conns |-> IF conn[d].forward /\ got[d] # <<>>
                                      THEN Tail(got[d]) ELSE <<>>]
  <1>1. ph[c] = "on" /\ si[c] = conn[c].since /\ de[c] = Received(conn[c], got[c])
    BY DEF PhaseOf, Received
  <1>2. [d \in Conns |-> PhaseOf(conn'[d])] = [ph EXCEPT ![c] = PhaseOf(x)]
    OBVIOUS
  <1>3. PhaseOf(x) \in {"on", "off"}
    BY DEF PhaseOf
  <1>4. [d \in Conns |-> conn'[d].since] = si
    OBVIOUS
  <1>5. [d \in Conns |-> IF conn'[d].forward /\ got'[d] # <<>>
                           THEN Tail(got'[d]) ELSE <<>>]
          = [de EXCEPT ![c] = Received(x, h)]
    <2>1. \A d \in Conns : d # c => conn'[d] = conn[d] /\ got'[d] = got[d]
      OBVIOUS
    <2>2. conn'[c] = x /\ got'[c] = h
      OBVIOUS
    <2> QED BY <2>1, <2>2 DEF Received
  <1>6. PICK m \in 0 .. packets - conn[c].since - Len(Received(conn[c], got[c])) :
          Received(x, h)
            = Received(conn[c], got[c])
                \o [i \in 1 .. m |->
                      conn[c].since + Len(Received(conn[c], got[c])) + i]
    BY DEF Continues
  <1>7. Delivery!Following(c, m)
          = [i \in 1 .. m |-> si[c] + Len(de[c]) + i]
    BY DEF Delivery!Following
  <1> HIDE DEF ph, si, de
  <1>8. /\ m \in 0 .. packets - si[c] - Len(de[c])
        /\ [de EXCEPT ![c] = Received(x, h)]
             = [de EXCEPT ![c] = @ \o Delivery!Following(c, m)]
    BY <1>1, <1>6, <1>7
  <1>9. Delivery!Deliver(c)
    BY <1>1, <1>2, <1>3, <1>4, <1>5, <1>8 DEF Delivery!Deliver, ph, si, de
  <1> QED BY <1>9 DEF Delivery!Next

-----------------------------------------------------------------------------
\* _receiveData subscribes at most, and only a peer that had no response before
\* (httpserver.cpp:407).
LEMMA ReceiveDataSubscribes ==
    ASSUME NEW k, Sound(k), Fed(k), k.sock = "connected", NEW sent \in Nat,
           NEW len \in Nat \ {0}, NEW s \in [1 .. len -> Chunk]
    PROVE  LET t == ReceiveData(k, s, sent)
           IN  \/ Kept(k, t)
               \/ /\ k.response = "none" /\ ~k.forward
                  /\ t.forward /\ t.since = sent /\ t.sock = "connected"
  <1> DEFINE r == Parsed(k.request, s)
             c == [k EXCEPT !.ctx = IF @ = "none" THEN "live" ELSE @,
                            !.request = r]
             t == ReceiveData(k, s, sent)
  <1>1. k \in Connection
    BY DEF Sound
  <1>2. CASE ~k.receiving
    <2>1. t = Disconnected(k)
      BY <1>2 DEF ReceiveData, Abort
    <2>2. Kept(k, Disconnected(k))
      BY <1>1 DEF Disconnected, Kept, Connection
    <2> QED BY <2>1, <2>2
  <1>3. CASE k.receiving
    <2>1. /\ k.response = "none" /\ ~k.forward /\ k.since = 0
          /\ ~k.headerSent /\ ~k.sendDone
      BY <1>3 DEF Sound, Fed
    <2>2. r \in {"line", "body", "ready", "failed"}
      BY DEF Parsed
    <2>3. CASE r = "failed"
      <3>1. t = [c EXCEPT !.receiving = FALSE, !.response = "error"]
        BY <1>3, <2>3 DEF ReceiveData
      <3>2. Kept(k, t)
        BY <1>1, <3>1 DEF Kept, Connection
      <3> QED BY <3>2
    <2>4. CASE r \in {"line", "body"}
      <3>1. t = c
        BY <1>3, <2>4 DEF ReceiveData
      <3>2. Kept(k, t)
        BY <1>1, <3>1 DEF Kept, Connection
      <3> QED BY <3>2
    <2>5. CASE r = "ready"
      <3> DEFINE d == [c EXCEPT !.receiving = FALSE]
                 kind == s[Len(s)]
                 e == EnsureResponse(ProcessRequest(d, kind, sent))
      <3>1. t = SendData(e)
        BY <1>3, <2>5 DEF ReceiveData
      <3>2. d = [k EXCEPT !.ctx = "live", !.request = "ready",
                          !.receiving = FALSE]
        BY <1>1, <1>3, <2>5 DEF Connection, Sound
      <3>3. kind \in Complete
        <4>1. Len(s) = len /\ s[len] \in Chunk
          BY LenProperties
        <4> QED BY <2>5, <4>1 DEF Parsed, Rejects, Chunk
      <3>4. Sound(e)
        <4> HIDE DEF d, c, r, kind
        <4> QED BY <1>3, <3>2, <3>3, ProcessRequestSound
      <3>5. /\ d.sock = "connected" /\ d.sendDone = FALSE /\ d.headerSent = FALSE
            /\ d.forward = FALSE /\ d.response = "none" /\ d.since = 0
            /\ d \in Connection
        <4>1. d \in Connection
          <5> HIDE DEF c, r, d
          <5> QED BY <1>1, <3>2, Zenon DEF Connection, Object
        <4> QED BY <1>1, <2>1, <3>2, <4>1 DEF Connection
      <3> HIDE DEF d, c, r, kind, t
      <3>6. /\ e.sock = "connected" /\ e.sendDone = FALSE
            /\ e.response # "none"
            /\ e.forward => e.since = sent
            /\ ~e.forward => e.since = 0
        <4>1. CASE kind = "refused"
          BY <3>5, <4>1 DEF EnsureResponse, ProcessRequest, Connection
        <4>2. CASE kind = "lost"
          BY <3>5, <4>2 DEF EnsureResponse, ProcessRequest, HandleRequest, Connection
        <4>3. CASE kind = "head"
          BY <3>5, <4>3 DEF EnsureResponse, ProcessRequest, HandleRequest, Connection
        <4>4. CASE kind = "get"
          BY <3>5, <4>4 DEF EnsureResponse, ProcessRequest, HandleRequest, Connection
        <4> QED BY <3>3, <4>1, <4>2, <4>3, <4>4 DEF Complete
      <3>7. e.forward \in BOOLEAN
        BY <3>4 DEF Sound, Connection
      <3> HIDE DEF e
      <3>8. Sendable(e)
        BY <3>4, <3>6 DEF Sendable
      <3>9. /\ t.forward = e.forward /\ t.since = e.since
            /\ e.forward => t.sock = e.sock
        BY <3>1, <3>8, SendDataCarries
      <3>10. CASE e.forward
        BY <2>1, <3>6, <3>9, <3>10 DEF t
      <3>11. CASE ~e.forward
        <4>1. t.forward = k.forward
          BY <2>1, <3>7, <3>9, <3>11, <1>1, Zenon DEF Connection
        <4> QED BY <2>1, <3>6, <3>9, <3>11, <4>1 DEF Kept, t
      <3> QED BY <3>10, <3>11
    <2> QED BY <2>2, <2>3, <2>4, <2>5
  <1> QED BY <1>2, <1>3

\* Every handler is a step of StreamDelivery, or none.
LEMMA NextImplements == DInv /\ [Next]_vars => [Delivery!Next]_(Delivery!vars)
  <1> SUFFICES ASSUME DInv, [Next]_vars PROVE Delivery!Next
    OBVIOUS
  <1>1. /\ DInv' /\ packets \in Nat /\ conn \in [Conns -> Connection]
        /\ got \in [Conns -> Seq(Unit)]
    BY NextRight DEF DInv, IInv, TypeOK
  <1>2. \A c \in Conns : /\ Sound(conn[c]) /\ Fed(conn[c])
                         /\ Right(conn[c], got[c], packets)
                         /\ conn[c] \in Connection /\ got[c] \in Seq(Unit)
    BY <1>1 DEF DInv, IInv, Good, AllRight
  <1>3. ASSUME packets' = packets, got' = got,
               \A c \in Conns : Kept(conn[c], conn'[c])
        PROVE  Delivery!Next
    BY <1>3, KeptImplements DEF Kept, Received
  <1>4. ASSUME NEW c \in Conns, NEW x, conn' = [conn EXCEPT ![c] = x],
               packets' = packets, got' = got, Kept(conn[c], x)
        PROVE  Delivery!Next
    BY <1>1, <1>3, <1>4 DEF Kept
  <1>5. CASE conn' = conn /\ packets' = packets /\ got' = got
    BY <1>3, <1>5 DEF Kept
  <1>6. ASSUME NEW c \in Conns, ClientConnected(c) PROVE Delivery!Next
    <2>1. /\ conn' = [conn EXCEPT ![c] = Accepted] /\ got' = got
          /\ packets' = packets /\ conn[c].sock = "none"
      BY <1>6 DEF ClientConnected, DInv, IInv, Unopened
    <2>2. ~conn[c].forward /\ conn[c].since = 0
      BY <1>2, <2>1 DEF Sound, Fed
    <2>3. Kept(conn[c], Accepted)
      BY <1>2, <2>1, <2>2 DEF Kept, Accepted, NoConnection, Connection
    <2> QED BY <1>4, <2>1, <2>3
  <1>7. ASSUME NEW c \in Conns, ReadyRead(c) PROVE Delivery!Next
    <2>1. PICK len \in 1 .. MaxChunks : \E s \in [1 .. len -> Chunks] :
            conn' = [conn EXCEPT ![c] = ReceiveData(@, s, packets)]
      BY <1>7 DEF ReadyRead
    <2>2. PICK q \in [1 .. len -> Chunks] :
            conn' = [conn EXCEPT ![c] = ReceiveData(@, q, packets)]
      BY <2>1
    <2>3. /\ conn[c].sock = "connected" /\ got' = got /\ packets' = packets
          /\ len \in Nat \ {0} /\ q \in [1 .. len -> Chunk]
      BY <1>7, ChunksAssumption, BoundAssumption DEF ReadyRead, netVars
    <2> DEFINE x == ReceiveData(conn[c], q, packets)
    <2>4. \/ Kept(conn[c], x)
          \/ /\ conn[c].response = "none" /\ ~conn[c].forward
             /\ x.forward /\ x.since = packets /\ x.sock = "connected"
      BY <1>1, <1>2, <2>3, ReceiveDataSubscribes
    <2>5. conn' = [conn EXCEPT ![c] = x]
      BY <2>2
    <2> HIDE DEF x
    <2>6. conn[c].response = "none" => got[c] = <<>>
      BY <1>2 DEF Right
    <2> QED BY <1>1, <1>4, <2>3, <2>4, <2>5, <2>6, RequestImplements
  <1>8. ASSUME NEW c \in Conns, BytesWritten(c) PROVE Delivery!Next
    <2>1. PICK n \in 1 .. Len(conn[c].wbuf) :
            /\ got' = [got EXCEPT ![c] = @ \o SubSeq(conn[c].wbuf, 1, n)]
            /\ conn' = [conn EXCEPT ![c] = AfterWrite(@, n)]
      BY <1>8 DEF BytesWritten
    <2> DEFINE x == AfterWrite(conn[c], n)
               more == SubSeq(conn[c].wbuf, 1, n)
               h == got[c] \o more
    <2>2. /\ conn[c].sock \in Open /\ packets' = packets
      BY <1>8 DEF BytesWritten, Open
    <2>3. /\ Right(x, h, packets) /\ x.forward = conn[c].forward
          /\ x.since = conn[c].since
      BY <1>2, <2>2, AfterWriteRight
    <2>4. /\ conn' = [conn EXCEPT ![c] = x] /\ got' = [got EXCEPT ![c] = h]
      BY <2>1
    <2>5. more \in Seq(Unit)
      <3>1. conn[c].wbuf \in Seq(Unit) /\ Len(conn[c].wbuf) \in Nat
        BY <1>2, LenProperties DEF Connection
      <3>2. n \in 0 .. Len(conn[c].wbuf)
        BY <3>1
      <3> QED BY <3>1, <3>2, Cut
    <2> HIDE DEF x, more
    <2>6. x \in Connection /\ Sound(x)
      <3>1. conn'[c] = x
        BY <1>1, <2>4
      <3> QED BY <1>1, <3>1 DEF DInv, IInv, Good, Sound
    <2>7. CASE ~conn[c].forward
      <3>1. \A d \in Conns : Kept(conn[d], conn'[d])
        BY <1>1, <2>2, <2>3, <2>4 DEF Kept, Open
      <3>2. \A d \in Conns : Received(conn'[d], got'[d]) = Received(conn[d], got[d])
        BY <1>1, <2>3, <2>4, <2>7 DEF Received
      <3> QED BY <2>2, <3>1, <3>2, KeptImplements
    <2>8. CASE conn[c].forward
      <3>1. conn[c].response # "none" /\ x.response # "none" /\ x.forward
        BY <1>2, <2>3, <2>6, <2>8 DEF Sound
      <3>2. /\ conn[c] \in Connection /\ got[c] \in Seq(Unit)
            /\ Right(conn[c], got[c], packets) /\ Right(x, got[c] \o more, packets)
        BY <1>2, <2>3
      <3>3. Continues(conn[c], got[c], x, got[c] \o more, packets)
        BY <1>1, <2>3, <2>5, <2>6, <2>8, <3>1, <3>2, ReceivedGrows
      <3>4. conn[c].sock # "closed"
        BY <2>2 DEF Open
      <3> QED BY <1>1, <2>2, <2>3, <2>4, <2>8, <3>1, <3>3, <3>4, DeliveryImplements
    <2> QED BY <2>7, <2>8
  <1>9. ASSUME NEW c \in Conns, PeerGoneRead(c) \/ PeerGoneWrite(c)
        PROVE  Delivery!Next
    <2>1. PICK x \in {Close(conn[c]), Abort(conn[c])} : conn' = [conn EXCEPT ![c] = x]
      BY <1>9 DEF PeerGoneRead, PeerGoneWrite
    <2>2. Kept(conn[c], x)
      BY <1>2, <2>1 DEF Kept, Close, Abort, Disconnected, Connection
    <2> QED BY <1>4, <1>9, <2>1, <2>2 DEF PeerGoneRead, PeerGoneWrite, netVars
  <1>10. CASE ProcessInput
    <2>1. /\ packets' = packets + 1 /\ got' = got
          /\ conn' = [c \in Conns |-> IF c \in streamClients
                        THEN QueuePacket(conn[c], packets') ELSE conn[c]]
      BY <1>10 DEF ProcessInput, netVars
    <2>2. \A c \in Conns : /\ conn'[c].sock = conn[c].sock
                           /\ conn'[c].forward = conn[c].forward
                           /\ conn'[c].since = conn[c].since
      BY <1>1, <1>2, <2>1, QueuePacketRight
    <2> QED BY <2>1, <2>2, PacketImplements
  <1>11. CASE ReopenFails \/ QueuedShutdown
    <2>1. Shutdown /\ got' = got /\ packets' = packets
      BY <1>11 DEF ReopenFails, QueuedShutdown, netVars
    <2>2. ASSUME NEW c \in Conns PROVE Kept(conn[c], conn'[c])
      <3>1. conn'[c] \in {conn[c], Close(conn[c])}
        BY <2>1 DEF Shutdown, CloseStream
      <3> QED BY <1>2, <3>1 DEF Kept, Close, Disconnected, Connection
    <2> QED BY <1>3, <2>1, <2>2
  <1>12. ASSUME NEW c \in Conns, PostedEvent(c) PROVE Delivery!Next
    <2>1. PICK x \in {ContextDestroyed(conn[c]), ClientDestroyed(conn[c]),
                      StreamDestroyed(conn[c])} : conn' = [conn EXCEPT ![c] = x]
      BY <1>12 DEF PostedEvent, DeleteContext, DeleteClient, DeleteStream
    <2>2. Kept(conn[c], x)
      BY <1>2, <2>1
         DEF Kept, ContextDestroyed, ClientDestroyed, StreamDestroyed, Connection
    <2>3. got' = got /\ packets' = packets
      BY <1>12 DEF PostedEvent, DeleteContext, DeleteClient, DeleteStream, netVars
    <2> QED BY <1>4, <2>1, <2>2, <2>3
  <1> QED BY <1>5, <1>6, <1>7, <1>8, <1>9, <1>10, <1>11, <1>12
        DEF Next, ConnectionEvent, PeerClose, Signal, InputEnds, InputReopened,
            StartPosted, EndPosted, vars, netVars

\* Whatever peers, input, sockets and shutdown do, each peer receives from the
\* moment it asked the packets in order, until it is cut off.
THEOREM ServerImplementsDelivery == Spec => ImplementsDelivery
  <1>1. Init => Delivery!Init
    BY DEF Init, Delivery!Init, NoConnection, PhaseOf
  <1>2. DInv /\ [Next]_vars => [Delivery!Next]_(Delivery!vars)
    BY NextImplements
  <1> QED BY <1>1, <1>2, AlwaysRight, PTL DEF Spec, ImplementsDelivery, Delivery!Spec

-----------------------------------------------------------------------------
(***************************************************************************)
(* The lists, the exit, and whole responses.                               *)
(***************************************************************************)
\* Which of a connection's objects there are, by what its socket does.
Kin(k) ==
    /\ k.sock = "none" => k.http = "none" /\ k.ctx = "none" /\ k.stream = "none"
    /\ k.sock \in Open => /\ k.http = "live" /\ k.ctx \in {"none", "live"}
                          /\ k.stream \in {"none", "live"}
    /\ k.sock = "closed" => /\ k.http \in {"doomed", "dead"} /\ k.ctx # "live"
                            /\ k.wbuf = <<>>
    /\ k.stream = "live" => k.ctx \in {"live", "doomed"}

\* From k to x a socket stays what it is, or an open one stays open, or goes down
\* and takes its client and context with it.
Moves(k, x) ==
    /\ x.stream = k.stream
    /\ \/ /\ x.http = k.http /\ x.ctx = k.ctx
          /\ \/ k.sock \in Open /\ x.sock \in Open
             \/ x.sock = k.sock /\ x.wbuf = k.wbuf
       \/ /\ k.sock \in Open /\ x.sock = "closed" /\ x.wbuf = <<>>
          /\ x.http = DeleteLater(k.http) /\ x.ctx = DeleteLater(k.ctx)

LEMMA MovesKin ==
    ASSUME NEW k \in Connection, NEW x \in Connection, Kin(k), Moves(k, x)
    PROVE  /\ Kin(x)
           /\ Exists(x.http) <=> Exists(k.http)
           /\ Exists(x.ctx) <=> Exists(k.ctx)
           /\ x.stream = k.stream
           /\ k.sock = "closed" => x.sock = "closed"
  <1>1. CASE x.http = k.http /\ x.ctx = k.ctx
    <2>1. \/ k.sock \in Open /\ x.sock \in Open
          \/ x.sock = k.sock /\ x.wbuf = k.wbuf
      BY <1>1 DEF Kin, Moves, DeleteLater
    <2> QED BY <1>1, <2>1 DEF Kin, Moves, Open
  <1>2. CASE /\ k.sock \in Open /\ x.sock = "closed" /\ x.wbuf = <<>>
             /\ x.http = DeleteLater(k.http) /\ x.ctx = DeleteLater(k.ctx)
    BY <1>2 DEF Kin, Moves, Open, Exists, DeleteLater
  <1> QED BY <1>1, <1>2 DEF Moves

LEMMA DisconnectedMoves ==
    ASSUME NEW k \in Connection, k.sock \in Open
    PROVE  Moves(k, Disconnected(k))
  <1> DEFINE x == Disconnected(k)
  <1>1. /\ x.sock = "closed" /\ x.wbuf = <<>> /\ x.stream = k.stream
        /\ x.http = DeleteLater(k.http) /\ x.ctx = DeleteLater(k.ctx)
    BY DEF Disconnected, Connection
  <1> HIDE DEF x
  <1> QED BY <1>1 DEF Moves, x

LEMMA CloseMoves ==
    ASSUME NEW k \in Connection
    PROVE  Moves(k, Close(k))
  <1>1. CASE k.sock # "connected"
    BY <1>1 DEF Close, Moves
  <1>2. CASE k.sock = "connected" /\ k.wbuf = <<>>
    BY <1>2, DisconnectedMoves DEF Close, Open
  <1>3. CASE k.sock = "connected" /\ k.wbuf # <<>>
    <2>1. Close(k) = [k EXCEPT !.sock = "closing"]
      BY <1>3 DEF Close
    <2> QED BY <1>3, <2>1 DEF Moves, Open, Connection
  <1> QED BY <1>1, <1>2, <1>3

\* _sendData closes the socket only of a response that is buffered whole
\* (httpserver.cpp:526).
LEMMA SendDataMoves ==
    ASSUME NEW k, Sound(k)
    PROVE  LET s == SendData(k)
           IN  /\ Moves(k, s)
               /\ k.sock = "connected" /\ s.sock = "closing"
                    => s.sendBuf = <<>> /\ s.sendDone
               /\ k.sock = "closing" => s = k
  <1> DEFINE b == IF k.sendDone THEN k ELSE BufferResponse(k)
             w == Write(b)
             s == SendData(k)
  <1>1. CASE k.sock = "closing" \/ ~Exists(k.ctx)
    <2>1. s = k
      BY <1>1 DEF SendData
    <2> HIDE DEF s
    <2> QED BY <2>1 DEF Moves, s
  <1>2. CASE k.sock # "closing" /\ Exists(k.ctx)
    <2>1. k \in Connection
      BY DEF Sound
    <2>2. /\ b.sock = k.sock /\ b.wbuf = k.wbuf /\ b.http = k.http
          /\ b.ctx = k.ctx /\ b.stream = k.stream
      BY <2>1 DEF BufferResponse, BufferHeader, FillFromQueue, Connection
    <2>3. Sound(b)
      BY BufferResponseSound
    <2>4. s = IF w.sendBuf = <<>> /\ w.sendDone THEN Close(w) ELSE w
      BY <1>2 DEF SendData
    <2> HIDE DEF b
    <2>5. /\ w = [b EXCEPT !.wbuf = w.wbuf, !.sendBuf = w.sendBuf]
          /\ w.wbuf \in Seq(Unit) /\ w.sendBuf \in Seq(Unit)
      BY <2>3, WriteCarries
    <2>6. k.sock # "connected" => w = b
      BY <2>2 DEF Write
    <2> HIDE DEF w
    <2>7. /\ w.sock = k.sock /\ w.http = k.http
          /\ w.ctx = k.ctx /\ w.stream = k.stream
      <3>1. b \in Connection
        BY <2>3 DEF Sound
      <3>2. /\ w.sock = b.sock /\ w.http = b.http
            /\ w.ctx = b.ctx /\ w.stream = b.stream
        BY <2>5, <3>1 DEF Connection
      <3> QED BY <2>2, <3>2
    <2>8. w \in Connection
      BY <2>3, <2>5, Zenon DEF Sound, Connection
    <2>9. Moves(k, w)
      <3>1. k.sock \in Open \/ w.wbuf = k.wbuf
        BY <2>2, <2>6 DEF Open
      <3> QED BY <2>7, <3>1 DEF Moves
    <2>10. CASE ~(w.sendBuf = <<>> /\ w.sendDone)
      BY <1>2, <2>4, <2>7, <2>9, <2>10
    <2>11. CASE w.sendBuf = <<>> /\ w.sendDone
      <3>1. Close(w).sendBuf = w.sendBuf /\ Close(w).sendDone = w.sendDone
        BY <2>8, CloseCarries
      <3>2. Moves(w, Close(w))
        BY <2>8, CloseMoves
      <3>3. Moves(k, Close(w))
        BY <2>6, <2>2, <2>7, <3>2 DEF Moves, Open
      <3> QED BY <1>2, <2>4, <2>11, <3>1, <3>3
    <2> QED BY <2>10, <2>11
  <1> QED BY <1>1, <1>2

LEMMA AbortMoves ==
    ASSUME NEW k \in Connection
    PROVE  Moves(k, Abort(k))
  <1>1. CASE k.sock \in Open
    BY <1>1, DisconnectedMoves DEF Abort, Open
  <1>2. CASE k.sock \notin Open
    BY <1>2 DEF Abort, Open, Moves
  <1> QED BY <1>1, <1>2

LEMMA CloseStreamMoves ==
    ASSUME NEW k \in Connection
    PROVE  Moves(k, CloseStream(k))
  <1>1. Moves(k, k)
    BY DEF Moves
  <1> QED BY <1>1, CloseMoves DEF CloseStream

LEMMA QueuePacketMoves ==
    ASSUME NEW k, Sound(k), NEW p \in Unit
    PROVE  LET t == QueuePacket(k, p)
           IN  Moves(k, t)
  <1> DEFINE q == [k EXCEPT !.queue = Append(@, p)]
             t == QueuePacket(k, p)
  <1>1. CASE ~k.forward
    BY <1>1 DEF QueuePacket, Moves
  <1>2. CASE k.forward
    <2>1. k \in Connection /\ k.queue \in Seq(Unit)
      BY DEF Sound, Connection
    <2>2. Append(k.queue, p) \in Seq(Unit)
      BY <2>1, AppendProperties
    <2>3. q \in Connection
      BY <2>1, <2>2, Zenon DEF Connection
    <2>4. /\ q.sock = k.sock /\ q.wbuf = k.wbuf /\ q.http = k.http
          /\ q.receiving = k.receiving /\ q.sendDone = k.sendDone
          /\ q.sendBuf = k.sendBuf /\ q.ctx = k.ctx
          /\ q.response = k.response /\ q.headerSent = k.headerSent
          /\ q.generate = k.generate /\ q.stream = k.stream
          /\ q.forward = k.forward
      BY <2>1 DEF Connection
    <2>5. t = SendData(q) \/ t = q
      BY <1>2 DEF QueuePacket
    <2> HIDE DEF q, t
    <2>6. Sound(q)
      BY <1>2, <2>3, <2>4 DEF Sound, WithinCaps
    <2>7. Moves(q, t)
      BY <2>5, <2>6, SendDataMoves DEF Moves
    <2> QED BY <2>4, <2>7 DEF Moves, t
  <1> QED BY <1>1, <1>2

\* bytesWritten closes a socket that was closing when it has sent everything
\* (httpserver.cpp:549).
LEMMA AfterWriteMoves ==
    ASSUME NEW k, Sound(k), k.sock \in Open, NEW n \in 1 .. Len(k.wbuf)
    PROVE  LET t == AfterWrite(k, n)
           IN  /\ Moves(k, t)
               /\ k.sock = "connected" /\ t.sock = "closing"
                    => t.sendBuf = <<>> /\ t.sendDone
               /\ k.sock = "closing" /\ t.sock = "closing"
                    => t.sendBuf = k.sendBuf /\ t.sendDone = k.sendDone
               /\ k.sock = "closing" /\ t.sock = "closed" => n = Len(k.wbuf)
  <1> DEFINE rest == SubSeq(k.wbuf, n + 1, Len(k.wbuf))
             w == [k EXCEPT !.wbuf = rest]
             s == SendData(w)
             t == AfterWrite(k, n)
  <1>1. k \in Connection /\ k.wbuf \in Seq(Unit)
    BY DEF Sound, Connection
  <1>2. Len(k.wbuf) \in Nat /\ n \in 0 .. Len(k.wbuf)
    BY <1>1, LenProperties
  <1>3. rest \in Seq(Unit) /\ Len(rest) = Len(k.wbuf) - n
    BY <1>1, <1>2, Cut
  <1>4. Len(rest) <= SockCap
    <2>1. ASSUME NEW x \in Nat, NEW m \in 1 .. x, x <= SockCap
          PROVE  x - m <= SockCap
      BY <2>1, CapAssumption
    <2>2. Len(k.wbuf) <= SockCap
      BY DEF Sound, WithinCaps
    <2> QED BY <1>2, <1>3, <2>1, <2>2
  <1>5. t = IF s.sock = "closing" /\ s.wbuf = <<>> THEN Disconnected(s) ELSE s
    BY DEF AfterWrite
  <1>6. rest = <<>> => n = Len(k.wbuf)
    <2> HIDE DEF rest
    <2>1. rest = <<>> => Len(rest) = 0
      BY <1>3, EmptySeq
    <2> QED BY <1>2, <1>3, <2>1
  <1> HIDE DEF rest
  <1>7. w \in Connection
    BY <1>1, <1>3, Zenon DEF Connection
  <1>8. /\ w.sock = k.sock /\ w.wbuf = rest /\ w.http = k.http
        /\ w.receiving = k.receiving /\ w.sendDone = k.sendDone
        /\ w.sendBuf = k.sendBuf /\ w.ctx = k.ctx
        /\ w.response = k.response /\ w.headerSent = k.headerSent
        /\ w.generate = k.generate /\ w.stream = k.stream
        /\ w.forward = k.forward /\ w.queue = k.queue
    BY <1>1 DEF Connection
  <1> HIDE DEF w, t
  <1>9. Sound(w)
    BY <1>4, <1>7, <1>8 DEF Sound, WithinCaps
  <1>10. /\ Moves(w, s)
         /\ w.sock = "connected" /\ s.sock = "closing" => s.sendBuf = <<>> /\ s.sendDone
         /\ w.sock = "closing" => s = w
    BY <1>9, SendDataMoves
  <1>11. s \in Connection
    BY <1>9, SendDataSound DEF Sound
  <1> HIDE DEF s
  <1>12. CASE s.sock = "closing" /\ s.wbuf = <<>>
    <2> DEFINE d == Disconnected(s)
    <2>1. t = d
      BY <1>5, <1>12
    <2>2. /\ d.sock = "closed" /\ d.wbuf = <<>> /\ d.stream = s.stream
          /\ d.http = DeleteLater(s.http) /\ d.ctx = DeleteLater(s.ctx)
      BY <1>11 DEF Disconnected, Connection
    <2> HIDE DEF d
    <2>3. s.http = w.http /\ s.ctx = w.ctx /\ s.stream = w.stream
      BY <1>10, <1>12 DEF Moves
    <2>4. Moves(k, d)
      BY <1>8, <2>2, <2>3 DEF Moves, Open
    <2>5. k.sock = "closing" => rest = <<>>
      BY <1>8, <1>10, <1>12
    <2> QED BY <1>6, <2>1, <2>2, <2>4, <2>5 DEF t
  <1>13. CASE ~(s.sock = "closing" /\ s.wbuf = <<>>)
    <2>1. t = s
      BY <1>5, <1>13
    <2>2. Moves(k, s)
      <3>1. CASE s.http = w.http /\ s.ctx = w.ctx /\ s.sock \in Open
        BY <1>8, <1>10, <3>1 DEF Moves
      <3>2. CASE ~(s.http = w.http /\ s.ctx = w.ctx /\ s.sock \in Open)
        BY <1>8, <1>10, <3>2 DEF Moves
      <3> QED BY <3>1, <3>2
    <2>3. k.sock = "closing" => s.sock = "closing" /\ s.sendBuf = k.sendBuf
                                /\ s.sendDone = k.sendDone
      BY <1>8, <1>10
    <2> QED BY <1>8, <1>10, <2>1, <2>2, <2>3 DEF t
  <1> QED BY <1>12, <1>13

\* A request makes a context, and a stream client if it is for a stream
\* (httpserver.cpp:407, streamserver.cpp:133).
LEMMA ReceiveDataKin ==
    ASSUME NEW k, Sound(k), Kin(k), k.sock = "connected", NEW sent \in Nat,
           NEW len \in Nat \ {0}, NEW s \in [1 .. len -> Chunk]
    PROVE  LET t == ReceiveData(k, s, sent)
           IN  /\ Kin(t) /\ Exists(t.http) /\ t.sock # "none"
               /\ t.stream \in {k.stream, "live"}
               /\ t.sock = "closing" => t.sendBuf = <<>> /\ t.sendDone
  <1> DEFINE r == Parsed(k.request, s)
             c == [k EXCEPT !.ctx = IF @ = "none" THEN "live" ELSE @,
                            !.request = r]
             t == ReceiveData(k, s, sent)
  <1>1. /\ k \in Connection /\ k.http = "live" /\ k.ctx \in {"none", "live"}
        /\ k.stream \in {"none", "live"}
    BY DEF Sound, Kin, Open
  <1>2. ASSUME NEW d \in Connection, d.sock = "connected", d.http = "live",
               d.ctx = "live", d.stream \in {k.stream, "live"}
        PROVE  Kin(d)
    BY <1>1, <1>2 DEF Kin, Open
  <1>3. CASE ~k.receiving
    <2>1. t = Disconnected(k)
      BY <1>3 DEF ReceiveData, Abort
    <2> DEFINE d == Disconnected(k)
    <2>2. /\ d.sock = "closed" /\ d.wbuf = <<>> /\ d.http = "doomed"
          /\ d.ctx \in {"none", "doomed"} /\ d.stream = k.stream
          /\ k.ctx = "live" => d.ctx = "doomed"
      BY <1>1 DEF Disconnected, DeleteLater, Connection
    <2> HIDE DEF d, t
    <2>3. Kin(d) /\ Exists(d.http)
      BY <1>1, <2>2 DEF Kin, Exists, Open
    <2> QED BY <2>1, <2>2, <2>3 DEF d, t
  <1>4. CASE k.receiving
    <2>1. r \in {"line", "body", "ready", "failed"}
      BY DEF Parsed
    <2>2. CASE r = "failed"
      <3> DEFINE d == [c EXCEPT !.receiving = FALSE, !.response = "error"]
      <3>1. t = d
        BY <1>4, <2>2 DEF ReceiveData
      <3>2. d = [k EXCEPT !.ctx = "live", !.request = "failed",
                          !.receiving = FALSE, !.response = "error"]
        BY <1>1, <2>2 DEF Connection
      <3> HIDE DEF d, c, r
      <3>3. d \in Connection
        BY <1>1, <3>2, Zenon DEF Connection, Object
      <3>4. /\ d.sock = "connected" /\ d.http = "live" /\ d.ctx = "live"
            /\ d.stream = k.stream
        BY <1>1, <3>2 DEF Connection
      <3> QED BY <1>2, <3>1, <3>3, <3>4 DEF Exists
    <2>3. CASE r \in {"line", "body"}
      <3>1. t = c
        BY <1>4, <2>3 DEF ReceiveData
      <3>2. c = [k EXCEPT !.ctx = "live", !.request = r]
        BY <1>1 DEF Connection
      <3> HIDE DEF c, r
      <3>3. c \in Connection
        BY <1>1, <2>1, <3>2, Zenon DEF Connection, Object
      <3>4. /\ c.sock = "connected" /\ c.http = "live" /\ c.ctx = "live"
            /\ c.stream = k.stream
        BY <1>1, <3>2 DEF Connection
      <3> QED BY <1>2, <3>1, <3>3, <3>4 DEF Exists
    <2>4. CASE r = "ready"
      <3> DEFINE d == [c EXCEPT !.receiving = FALSE]
                 kind == s[Len(s)]
                 e == EnsureResponse(ProcessRequest(d, kind, sent))
      <3>1. t = SendData(e)
        BY <1>4, <2>4 DEF ReceiveData
      <3>2. d = [k EXCEPT !.ctx = "live", !.request = "ready",
                          !.receiving = FALSE]
        BY <1>1, <2>4 DEF Connection
      <3>3. kind \in Complete
        <4>1. Len(s) = len /\ s[len] \in Chunk
          BY LenProperties
        <4> QED BY <2>4, <4>1 DEF Parsed, Rejects, Chunk
      <3>4. Sound(e)
        <4> HIDE DEF d, c, r, kind
        <4> QED BY <1>4, <3>2, <3>3, ProcessRequestSound
      <3>5. /\ d.sock = "connected" /\ d.http = "live" /\ d.ctx = "live"
            /\ d.stream = k.stream /\ d \in Connection
        <4>1. d \in Connection
          <5> HIDE DEF c, r, d
          <5> QED BY <1>1, <3>2, Zenon DEF Connection, Object
        <4> QED BY <1>1, <3>2, <4>1 DEF Connection
      <3> HIDE DEF d, c, r, kind, t
      <3>6. /\ e.sock = "connected" /\ e.http = "live" /\ e.ctx = "live"
            /\ e.stream \in {k.stream, "live"}
        <4>1. CASE kind = "refused"
          BY <3>5, <4>1 DEF EnsureResponse, ProcessRequest, Connection
        <4>2. CASE kind = "lost"
          BY <3>5, <4>2 DEF EnsureResponse, ProcessRequest, HandleRequest, Connection
        <4>3. CASE kind = "head"
          BY <3>5, <4>3 DEF EnsureResponse, ProcessRequest, HandleRequest, Connection
        <4>4. CASE kind = "get"
          BY <3>5, <4>4 DEF EnsureResponse, ProcessRequest, HandleRequest, Connection
        <4> QED BY <3>3, <4>1, <4>2, <4>3, <4>4 DEF Complete
      <3>7. e \in Connection
        BY <3>4 DEF Sound
      <3> HIDE DEF e
      <3>8. Kin(e)
        BY <1>2, <3>6, <3>7
      <3>9. /\ Moves(e, t)
            /\ t.sock = "closing" => t.sendBuf = <<>> /\ t.sendDone
        BY <3>1, <3>4, <3>6, SendDataMoves
      <3>10. t \in Connection /\ t.sock # "none"
        BY <3>1, <3>4, <3>6, SendDataSound DEF Sound
      <3>11. Kin(t) /\ Exists(t.http) /\ t.stream = e.stream
        BY <3>6, <3>7, <3>8, <3>9, <3>10, MovesKin DEF Exists
      <3> QED BY <3>6, <3>9, <3>10, <3>11 DEF t
    <2> QED BY <2>1, <2>2, <2>3, <2>4
  <1> QED BY <1>3, <1>4

\* The destructors leave nothing alive behind them (streamclient.cpp:236).
LEMMA DestroyedKin ==
    ASSUME NEW k \in Connection, Kin(k), k.sock = "closed"
    PROVE  /\ Kin(ContextDestroyed(k)) /\ Kin(ClientDestroyed(k))
           /\ Kin(StreamDestroyed(k))
           /\ ContextDestroyed(k).ctx = "dead"
           /\ ContextDestroyed(k).http = k.http
           /\ Exists(ContextDestroyed(k).stream) <=> Exists(k.stream)
           /\ ClientDestroyed(k).http = "dead"
           /\ ClientDestroyed(k).ctx = k.ctx
           /\ ClientDestroyed(k).stream = k.stream
           /\ StreamDestroyed(k).stream = "dead"
           /\ StreamDestroyed(k).http = k.http /\ StreamDestroyed(k).ctx = k.ctx
           /\ k.stream = "none" => ContextDestroyed(k).stream = "none"
           /\ ContextDestroyed(k).stream \in {k.stream, "doomed"}
           /\ \A d \in {ContextDestroyed(k), ClientDestroyed(k), StreamDestroyed(k)} :
                d.sock = "closed"
  <1>1. LET d == ContextDestroyed(k)
        IN  /\ d.ctx = "dead" /\ d.http = k.http /\ d.sock = k.sock /\ d.wbuf = k.wbuf
            /\ d.stream = DeleteLater(k.stream)
    <2> DEFINE q == IF k.stream = "live" THEN <<>> ELSE k.queue
    <2>1. ContextDestroyed(k)
            = [k EXCEPT !.ctx = "dead", !.stream = DeleteLater(k.stream), !.queue = q]
      BY DEF ContextDestroyed
    <2> HIDE DEF q
    <2> QED BY <2>1 DEF Connection
  <1>2. LET d == ClientDestroyed(k)
        IN  /\ d.http = "dead" /\ d.ctx = k.ctx /\ d.stream = k.stream
            /\ d.sock = k.sock /\ d.wbuf = k.wbuf
    BY DEF ClientDestroyed, Connection
  <1>3. LET d == StreamDestroyed(k)
        IN  /\ d.stream = "dead" /\ d.http = k.http /\ d.ctx = k.ctx
            /\ d.sock = k.sock /\ d.wbuf = k.wbuf
    BY DEF StreamDestroyed, Connection
  <1> QED BY <1>1, <1>2, <1>3 DEF Kin, Open, DeleteLater, Exists

-----------------------------------------------------------------------------
\* What is doomed is posted for deletion.
Posts(cs, ds, q) ==
    \A o \in Objects, c \in Conns :
        cs[c][o] = "doomed" /\ ds[c][o] = "doomed"
          => \E i \in DOMAIN q : <<o, c>> \in q[i]

Awaited(cs, q) == Posts(cs, cs, q)

\* What a handler dooms, it posts.
LEMMA PostAwaits ==
    ASSUME NEW cs, NEW ds, NEW q \in Seq(SUBSET Event), Posts(cs, ds, q)
    PROVE  Awaited(ds, Post(q, Doomed(ds) \ Doomed(cs)))
  <1> DEFINE batch == Doomed(ds) \ Doomed(cs)
             p == Post(q, batch)
  <1>1. batch \in SUBSET Event
    BY DEF Doomed, Event
  <1> SUFFICES ASSUME NEW o \in Objects, NEW c \in Conns, ds[c][o] = "doomed"
               PROVE  \E i \in DOMAIN p : <<o, c>> \in p[i]
    BY DEF Awaited, Posts
  <1>2. CASE cs[c][o] = "doomed"
    <2>1. PICK i \in DOMAIN q : <<o, c>> \in q[i]
      BY <1>2 DEF Posts
    <2>2. CASE batch = {}
      BY <2>1, <2>2 DEF Post
    <2>3. CASE batch # {}
      <3>1. p = Append(q, batch)
        BY <2>3 DEF Post
      <3> HIDE DEF p, batch
      <3>2. i \in DOMAIN p /\ p[i] = q[i]
        BY <1>1, <2>1, <3>1
      <3> QED BY <2>1, <3>2 DEF p
    <2> QED BY <2>2, <2>3
  <1>3. CASE cs[c][o] # "doomed"
    <2>1. <<o, c>> \in batch
      BY <1>3 DEF Doomed
    <2>2. p = Append(q, batch)
      BY <2>1 DEF Post
    <2> HIDE DEF p, batch
    <2>3. Len(q) + 1 \in DOMAIN p /\ p[Len(q) + 1] = batch
      BY <1>1, <2>2
    <2> QED BY <2>1, <2>3 DEF p
  <1> QED BY <1>2, <1>3

\* Delivering an event takes no other away.
LEMMA DeliveredAwaits ==
    ASSUME posted \in Seq(SUBSET Event), posted # <<>>, NEW e, NEW f, f # e,
           NEW i \in DOMAIN posted, f \in posted[i]
    PROVE  \E j \in DOMAIN Delivered(e) : f \in Delivered(e)[j]
  <1> DEFINE h == Head(posted) \ {e}
             t == Tail(posted)
  <1>1. /\ Head(posted) = posted[1] /\ Len(posted) \in Nat \ {0}
        /\ DOMAIN posted = 1 .. Len(posted)
        /\ h \in SUBSET Event
        /\ t \in Seq(SUBSET Event) /\ Len(t) = Len(posted) - 1
        /\ \A j \in DOMAIN t : t[j] = posted[j + 1]
    BY HeadTailProperties, LenProperties, EmptySeq
  <1>2. i # 1 => i - 1 \in DOMAIN t /\ t[i - 1] = posted[i]
    BY <1>1, LenProperties
  <1>3. CASE Head(posted) = {e}
    <2>1. i # 1
      BY <1>1, <1>3
    <2> QED BY <1>2, <1>3, <2>1 DEF Delivered
  <1>4. CASE Head(posted) # {e}
    <2>1. Delivered(e) = <<h>> \o t
      BY <1>4 DEF Delivered
    <2>2. i = 1 => f \in h
      <3>1. Head(posted) = posted[1]
        BY <1>1
      <3> QED BY <3>1
    <2> HIDE DEF h, t
    <2> DEFINE one == <<h>>
               u == one \o t
    <2>3. one \in Seq(SUBSET Event) /\ Len(one) = 1 /\ one[1] = h
      BY <1>1
    <2> HIDE DEF one
    <2>4. u \in Seq(SUBSET Event) /\ Len(u) = Len(one) + Len(t)
      BY <1>1, <2>3, ConcatProperties
    <2>5. \A j \in 1 .. Len(one) + Len(t) :
            u[j] = IF j <= Len(one) THEN one[j] ELSE t[j - Len(one)]
      BY <1>1, <2>3, ConcatProperties
    <2>6. u = Delivered(e)
      BY <2>1 DEF one
    <2> HIDE DEF u
    <2>7. DOMAIN u = 1 .. Len(posted) /\ 1 \in DOMAIN u
      BY <1>1, <2>3, <2>4, LenProperties
    <2>8. CASE i = 1
      <3>1. u[1] = h
        BY <1>1, <2>3, <2>5
      <3> QED BY <2>2, <2>6, <2>7, <2>8, <3>1
    <2>9. CASE i # 1
      <3>1. i \in 1 .. Len(one) + Len(t) /\ ~(i <= Len(one)) /\ i \in DOMAIN u
            /\ i - Len(one) = i - 1
        BY <1>1, <2>3, <2>7, <2>9
      <3>2. u[i] = posted[i]
        BY <1>2, <2>5, <2>9, <3>1
      <3> QED BY <2>6, <3>1, <3>2
    <2> QED BY <2>8, <2>9
  <1> QED BY <1>3, <1>4

-----------------------------------------------------------------------------
Lists ==
    \A c \in Conns : /\ c \in httpClients <=> Exists(conn[c].http)
                     /\ c \in streamClients <=> Exists(conn[c].stream)

Settled ==
    loop = "events" =>
        \A c \in streamClients : c \in httpClients /\ Exists(conn[c].ctx)

\* The loop has been left only when every stream's socket is down.
Ended ==
    app = "exiting" =>
        \A c \in Conns : conn[c].stream # "none" => conn[c].sock = "closed"

LInv ==
    /\ IInv
    /\ \A c \in Conns : Kin(conn[c])
    /\ Lists /\ Settled /\ Ended
    /\ Awaited(conn, posted)

\* Handlers that make and delete nothing, given what they post.
LEMMA MovesStep ==
    ASSUME LInv, IInv', \A c \in Conns : Moves(conn[c], conn'[c]),
           httpClients' = httpClients, streamClients' = streamClients,
           NEW q \in Seq(SUBSET Event), Posts(conn, conn', q),
           posted' = Post(q, NewlyDoomed),
           loop' = "events" => loop = "events",
           app' = "exiting" => app = "exiting" \/ streamClients = {}
    PROVE  LInv'
  <1>1. \A c \in Conns : conn[c] \in Connection /\ conn'[c] \in Connection
    BY DEF LInv, IInv, Good
  <1>2. \A c \in Conns : /\ Kin(conn'[c])
                         /\ Exists(conn'[c].http) <=> Exists(conn[c].http)
                         /\ Exists(conn'[c].ctx) <=> Exists(conn[c].ctx)
                         /\ conn'[c].stream = conn[c].stream
                         /\ conn[c].sock = "closed" => conn'[c].sock = "closed"
    BY <1>1, MovesKin DEF LInv
  <1>3. Lists'
    BY <1>2 DEF LInv, Lists
  <1>4. Settled'
    BY <1>2 DEF LInv, Settled, IInv, TypeOK
  <1>5. Ended'
    <2>1. CASE app = "exiting"
      BY <1>2, <2>1 DEF LInv, Ended
    <2>2. CASE streamClients = {}
      <3>1. \A c \in Conns : conn[c].stream \in {"none", "dead"}
        BY <1>1, <2>2 DEF LInv, Lists, Exists, Connection, Object
      <3>2. \A c \in Conns : conn[c].stream # "none" => conn[c].sock = "closed"
        BY <1>1, <3>1 DEF LInv, Kin, Open, Connection
      <3> QED BY <1>2, <3>2 DEF Ended
    <2> QED BY <2>1, <2>2 DEF Ended
  <1>6. Awaited(conn', posted')
    BY PostAwaits DEF NewlyDoomed
  <1> QED BY <1>2, <1>3, <1>4, <1>5, <1>6 DEF LInv

\* Nothing is posted when no connection changes.
LEMMA StillPosts ==
    ASSUME conn' = conn, NEW q
    PROVE  Post(q, NewlyDoomed) = q
  BY DEF Post, NewlyDoomed

LEMMA InitLists == Init => LInv
  <1> SUFFICES ASSUME Init PROVE LInv
    OBVIOUS
  <1>1. \A c \in Conns : conn[c] = NoConnection
    BY DEF Init
  <1>2. /\ NoConnection.sock = "none" /\ NoConnection.http = "none"
        /\ NoConnection.ctx = "none" /\ NoConnection.stream = "none"
    BY DEF NoConnection
  <1>3. \A c \in Conns : Kin(conn[c])
    BY <1>1, <1>2 DEF Kin, Open
  <1>4. Lists /\ Settled /\ Ended
    BY <1>1, <1>2 DEF Init, Lists, Settled, Ended, Exists
  <1>5. Awaited(conn, posted)
    BY <1>1, <1>2 DEF Awaited, Posts, Objects
  <1> QED BY <1>3, <1>4, <1>5, InitInvariant DEF LInv

\* A connection that is accepted, or for which a stream client is made, is on the
\* lists (httpserver.cpp:88, streamserver.cpp:138).
LEMMA ArrivalLists ==
    ASSUME LInv, IInv', NEW c \in Conns,
           ClientConnected(c) \/ ReadyRead(c)
    PROVE  LInv'
  <1>1. /\ \A d \in Conns : conn[d] \in Connection /\ conn'[d] \in Connection
        /\ conn \in [Conns -> Connection] /\ posted \in Seq(SUBSET Event)
    BY DEF LInv, IInv, Good, TypeOK
  <1>2. CASE ClientConnected(c)
    <2>1. /\ conn' = [conn EXCEPT ![c] = Accepted] /\ posted' = posted
          /\ httpClients' = httpClients \cup {c} /\ streamClients' = streamClients
          /\ loop' = loop /\ app' = app /\ app = "running"
      BY <1>2 DEF ClientConnected, Dispatching, listVars
    <2>2. conn[c].sock = "none"
      BY <1>2 DEF ClientConnected, LInv, IInv, Unopened
    <2>3. conn[c].stream = "none"
      BY <2>2 DEF LInv, Kin
    <2>4. /\ Accepted.sock = "connected" /\ Accepted.http = "live"
          /\ Accepted.ctx = "none" /\ Accepted.stream = "none"
      BY DEF Accepted, NoConnection
    <2>5. /\ conn'[c] = Accepted
          /\ \A d \in Conns : d # c => conn'[d] = conn[d]
      BY <1>1, <2>1
    <2>6. \A d \in Conns : Kin(conn'[d])
      BY <2>4, <2>5 DEF LInv, Kin, Open
    <2>7. Lists'
      BY <2>1, <2>3, <2>4, <2>5 DEF LInv, Lists, Exists
    <2>8. Settled'
      <3>1. c \notin streamClients
        BY <2>3 DEF LInv, Lists, Exists
      <3> QED BY <2>1, <2>5, <3>1 DEF LInv, Settled, IInv, TypeOK
    <2>9. Ended'
      BY <2>1 DEF Ended
    <2>10. Awaited(conn', posted')
      BY <2>1, <2>4, <2>5 DEF LInv, Awaited, Posts, Objects
    <2> QED BY <2>6, <2>7, <2>8, <2>9, <2>10 DEF LInv
  <1>3. CASE ReadyRead(c)
    <2>1. PICK len \in 1 .. MaxChunks : \E s \in [1 .. len -> Chunks] :
            conn' = [conn EXCEPT ![c] = ReceiveData(@, s, packets)]
      BY <1>3 DEF ReadyRead
    <2>2. PICK q \in [1 .. len -> Chunks] :
            conn' = [conn EXCEPT ![c] = ReceiveData(@, q, packets)]
      BY <2>1
    <2> DEFINE x == ReceiveData(conn[c], q, packets)
    <2>3. Kin(x) /\ Exists(x.http) /\ x.stream \in {conn[c].stream, "live"}
      <3>1. /\ Sound(conn[c]) /\ Kin(conn[c]) /\ packets \in Nat
            /\ conn[c].sock = "connected"
        BY <1>3 DEF ReadyRead, LInv, IInv, Good, TypeOK
      <3>2. len \in Nat \ {0} /\ q \in [1 .. len -> Chunk]
        BY ChunksAssumption, BoundAssumption
      <3> QED BY <3>1, <3>2, ReceiveDataKin
    <2> HIDE DEF x
    <2>4. /\ conn'[c] = x
          /\ \A d \in Conns : d # c => conn'[d] = conn[d]
      BY <1>1, <2>2 DEF x
    <2>5. /\ httpClients' = httpClients /\ loop' = loop /\ app' = app
          /\ streamClients' = IF x.stream = "live" THEN streamClients \cup {c}
                                                   ELSE streamClients
          /\ PostDeletions /\ app = "running" /\ conn[c].sock = "connected"
      BY <1>3, <2>4 DEF ReadyRead, Dispatching
    <2>6. \A d \in Conns : Kin(conn'[d])
      BY <2>3, <2>4 DEF LInv
    <2>7. c \in httpClients
      BY <2>5 DEF LInv, Lists, Kin, Exists, Open
    <2>8. Lists'
      BY <2>3, <2>4, <2>5, <2>7 DEF LInv, Lists, Exists
    <2>9. Settled'
      <3>1. x.stream = "live" => Exists(x.ctx)
        BY <2>3 DEF Kin, Exists
      <3>2. c \in streamClients' => x.stream = "live"
        BY <2>3, <2>4, <2>5 DEF LInv, Lists, Kin, Open, Exists
      <3> QED BY <2>4, <2>5, <2>7, <3>1, <3>2 DEF LInv, Settled, IInv, TypeOK
    <2>10. Ended'
      BY <2>5 DEF Ended
    <2>11. Awaited(conn', posted')
      <3>1. Posts(conn, conn', posted)
        BY DEF LInv, Awaited, Posts
      <3> QED BY <1>1, <2>5, <3>1, PostAwaits DEF PostDeletions, NewlyDoomed
    <2> QED BY <2>6, <2>8, <2>9, <2>10, <2>11 DEF LInv
  <1> QED BY <1>2, <1>3

\* The two destroyed() handlers take the object that is deleted, and no other, off
\* its list (httpserver.cpp:177, streamserver.cpp:157), and the loop is left with
\* the last client.
LEMMA DeletionLists ==
    ASSUME LInv, IInv', NEW c \in Conns, PostedEvent(c)
    PROVE  LInv'
  <1>1. /\ \A d \in Conns : conn[d] \in Connection
        /\ conn \in [Conns -> Connection] /\ posted \in Seq(SUBSET Event)
        /\ httpClients \subseteq Conns
    BY DEF LInv, IInv, Good, TypeOK
  <1>2. /\ posted # <<>> /\ loop = "posted" /\ loop' = loop
        /\ \A o \in Objects : <<o, c>> \in Head(posted) => conn[c].sock = "closed"
    <2>1. posted # <<>> /\ loop = "posted" /\ loop' = loop
      BY DEF PostedEvent, DeleteContext, DeleteClient, DeleteStream, Delivering,
             Draining
    <2>2. Head(posted) = posted[1] /\ 1 \in DOMAIN posted
      BY <1>1, <2>1, HeadTailProperties, LenProperties, EmptySeq
    <2> QED BY <2>1, <2>2 DEF LInv, IInv, Down
  <1>3. conn[c].sock = "closed"
    <2>1. {"ctx", "http", "stream"} = Objects
      BY DEF Objects
    <2> QED BY <1>2, <2>1 DEF PostedEvent, DeleteContext, DeleteClient,
                              DeleteStream, Delivering
  <1> DEFINE k == conn[c]
  <1>4. /\ Kin(ContextDestroyed(k)) /\ Kin(ClientDestroyed(k))
        /\ Kin(StreamDestroyed(k))
        /\ ContextDestroyed(k).ctx = "dead"
        /\ ContextDestroyed(k).http = k.http
        /\ Exists(ContextDestroyed(k).stream) <=> Exists(k.stream)
        /\ ClientDestroyed(k).http = "dead"
        /\ ClientDestroyed(k).stream = k.stream
        /\ StreamDestroyed(k).stream = "dead"
        /\ StreamDestroyed(k).http = k.http
        /\ \A d \in {ContextDestroyed(k), ClientDestroyed(k), StreamDestroyed(k)} :
             d.sock = "closed"
    BY <1>1, <1>3, DestroyedKin DEF LInv
  <1>5. ASSUME NEW x, NEW o \in Objects, conn' = [conn EXCEPT ![c] = x],
               x[o] # "doomed",
               posted' = Post(Delivered(<<o, c>>), NewlyDoomed)
        PROVE  Awaited(conn', posted')
    <2>1. Delivered(<<o, c>>) \in Seq(SUBSET Event)
      BY <1>1, <1>2, DeliveredSound DEF LInv, IInv
    <2>2. Posts(conn, conn', Delivered(<<o, c>>))
      <3> SUFFICES ASSUME NEW p \in Objects, NEW d \in Conns,
                          conn[d][p] = "doomed", conn'[d][p] = "doomed"
                   PROVE  \E j \in DOMAIN Delivered(<<o, c>>) :
                            <<p, d>> \in Delivered(<<o, c>>)[j]
        BY DEF Posts
      <3>1. PICK i \in DOMAIN posted : <<p, d>> \in posted[i]
        BY DEF LInv, Awaited, Posts
      <3>2. <<p, d>> # <<o, c>>
        BY <1>1, <1>5
      <3> QED BY <1>1, <1>2, <3>1, <3>2, DeliveredAwaits
    <2> QED BY <1>5, <2>1, <2>2, PostAwaits DEF NewlyDoomed
  <1>6. Settled'
    BY <1>2 DEF Settled
  <1>7. CASE DeleteContext(c)
    <2> DEFINE x == ContextDestroyed(k)
    <2>1. /\ conn' = [conn EXCEPT ![c] = x] /\ app' = app
          /\ httpClients' = httpClients /\ streamClients' = streamClients
          /\ posted' = Post(Delivered(<<"ctx", c>>), NewlyDoomed)
      BY <1>7 DEF DeleteContext, listVars
    <2>2. conn'[c] = x /\ \A d \in Conns : d # c => conn'[d] = conn[d]
      BY <1>1, <2>1
    <2>3. "ctx" \in Objects /\ x["ctx"] # "doomed"
      BY <1>4 DEF Objects
    <2> HIDE DEF x
    <2>4. Awaited(conn', posted')
      BY <1>5, <2>1, <2>3
    <2>5. Lists' /\ \A d \in Conns : Kin(conn'[d])
      BY <1>4, <2>1, <2>2 DEF LInv, Lists, x
    <2>6. Ended'
      BY <1>3, <1>4, <2>1, <2>2 DEF LInv, Ended, x
    <2> QED BY <1>6, <2>4, <2>5, <2>6 DEF LInv
  <1>8. CASE DeleteStream(c)
    <2> DEFINE x == StreamDestroyed(k)
    <2>1. /\ conn' = [conn EXCEPT ![c] = x] /\ app' = app
          /\ httpClients' = httpClients /\ streamClients' = streamClients \ {c}
          /\ posted' = Delivered(<<"stream", c>>)
      BY <1>8 DEF DeleteStream
    <2>2. conn'[c] = x /\ \A d \in Conns : d # c => conn'[d] = conn[d]
      BY <1>1, <2>1
    <2>3. /\ "stream" \in Objects /\ x["stream"] # "doomed"
          /\ x["http"] = k["http"] /\ x["ctx"] = k["ctx"]
      BY <1>1, <1>3, <1>4, DestroyedKin DEF Objects, LInv
    <2> HIDE DEF x
    <2>4. NewlyDoomed = {}
      <3>1. ASSUME NEW o \in Objects, NEW d \in Conns, conn'[d][o] = "doomed"
            PROVE  conn[d][o] = "doomed"
        BY <2>2, <2>3, <3>1 DEF Objects
      <3> QED BY <3>1 DEF NewlyDoomed, Doomed
    <2>5. posted' = Post(Delivered(<<"stream", c>>), NewlyDoomed)
      BY <2>1, <2>4 DEF Post
    <2>6. Awaited(conn', posted')
      BY <1>5, <2>1, <2>3, <2>5
    <2>7. Lists' /\ \A d \in Conns : Kin(conn'[d])
      BY <1>4, <2>1, <2>2 DEF LInv, Lists, x, Exists
    <2>8. Ended'
      BY <1>3, <1>4, <2>1, <2>2 DEF LInv, Ended, x
    <2> QED BY <1>6, <2>6, <2>7, <2>8 DEF LInv
  <1>9. CASE DeleteClient(c)
    <2> DEFINE x == ClientDestroyed(k)
    <2>1. /\ conn' = [conn EXCEPT ![c] = x]
          /\ httpClients' = httpClients \ {c} /\ streamClients' = streamClients
          /\ posted' = Delivered(<<"http", c>>)
          /\ app' = "exiting" => app = "exiting" \/ httpClients \ {c} = {}
      BY <1>9 DEF DeleteClient, AppAfterClientGone
    <2>2. conn'[c] = x /\ \A d \in Conns : d # c => conn'[d] = conn[d]
      BY <1>1, <2>1
    <2>3. /\ "http" \in Objects /\ x["http"] # "doomed"
          /\ x["stream"] = k["stream"] /\ x["ctx"] = k["ctx"]
      BY <1>1, <1>3, <1>4, DestroyedKin DEF Objects, LInv
    <2> HIDE DEF x
    <2>4. NewlyDoomed = {}
      <3>1. ASSUME NEW o \in Objects, NEW d \in Conns, conn'[d][o] = "doomed"
            PROVE  conn[d][o] = "doomed"
        BY <2>2, <2>3, <3>1 DEF Objects
      <3> QED BY <3>1 DEF NewlyDoomed, Doomed
    <2>5. posted' = Post(Delivered(<<"http", c>>), NewlyDoomed)
      BY <2>1, <2>4 DEF Post
    <2>6. Awaited(conn', posted')
      BY <1>5, <2>1, <2>3, <2>5
    <2>7. Lists' /\ \A d \in Conns : Kin(conn'[d])
      BY <1>4, <2>1, <2>2 DEF LInv, Lists, x, Exists
    <2>8. Ended'
      <3>1. CASE app = "exiting"
        BY <1>3, <1>4, <2>1, <2>2, <3>1 DEF LInv, Ended, x
      <3>2. CASE httpClients \ {c} = {}
        <4>1. ASSUME NEW d \in Conns, d # c, conn[d].stream # "none"
              PROVE  conn[d].sock = "closed"
          <5>1. d \notin httpClients
            BY <3>2, <4>1
          <5>2. conn[d].http # "live"
            BY <5>1 DEF LInv, Lists, Exists
          <5>3. conn[d].sock \in {"none", "connected", "closing", "closed"}
            BY <1>1 DEF Connection
          <5> QED BY <4>1, <5>2, <5>3 DEF LInv, Kin, Open
        <4> QED BY <1>4, <2>2, <4>1 DEF Ended, x
      <3> QED BY <2>1, <3>1, <3>2 DEF Ended
    <2> QED BY <1>6, <2>6, <2>7, <2>8 DEF LInv
  <1> QED BY <1>7, <1>8, <1>9 DEF PostedEvent

\* Once the posted events have run, nothing is doomed.
LEMMA SettlesAtEnd == LInv /\ EndPosted => Settled'
  <1> SUFFICES ASSUME LInv, EndPosted, NEW c \in Conns, c \in streamClients
               PROVE  c \in httpClients /\ Exists(conn[c].ctx)
    BY DEF EndPosted, Settled, LInv, IInv, TypeOK, listVars
  <1>1. \A o \in Objects : conn[c][o] # "doomed"
    <2>1. DOMAIN posted = {}
      BY DEF EndPosted
    <2> QED BY <2>1 DEF LInv, Awaited, Posts
  <1>2. conn[c].http # "doomed" /\ conn[c].ctx # "doomed" /\ conn[c].stream # "doomed"
    BY <1>1 DEF Objects
  <1>3. conn[c].stream = "live"
    BY <1>2 DEF LInv, Lists, Exists
  <1>4. conn[c].ctx = "live"
    BY <1>2, <1>3 DEF LInv, Kin
  <1>5. conn[c].sock \in Open
    <2>1. conn[c].sock \in {"none", "connected", "closing", "closed"}
      BY DEF LInv, IInv, Good, Connection
    <2> QED BY <1>3, <1>4, <2>1 DEF LInv, Kin, Open
  <1> QED BY <1>4, <1>5 DEF LInv, Kin, Lists, Exists

\* shutdown() closes streams, and leaves the loop only when there are none
\* (streamserver.cpp:235).
LEMMA ShutdownMoves ==
    ASSUME LInv, Shutdown, app \in {"running", "exiting"}
    PROVE  /\ \A c \in Conns : Moves(conn[c], conn'[c])
           /\ app' = "exiting" => app = "exiting" \/ streamClients = {}
  <1>1. \A c \in Conns : conn[c] \in Connection
    BY DEF LInv, IInv, Good
  <1>2. CASE shuttingDown
    BY <1>2 DEF Shutdown, Moves
  <1>3. CASE ~shuttingDown
    <2>1. conn' = [c \in Conns |-> IF c \in streamClients
                                     THEN CloseStream(conn[c]) ELSE conn[c]]
      BY <1>3 DEF Shutdown
    <2>2. \A c \in Conns : Moves(conn[c], conn[c])
      BY DEF Moves
    <2>3. \A c \in Conns : Moves(conn[c], CloseStream(conn[c]))
      BY <1>1, CloseStreamMoves
    <2>4. app' = "exiting" => app = "exiting" \/ streamClients = {}
      BY <1>3 DEF Shutdown
    <2> QED BY <2>1, <2>2, <2>3, <2>4
  <1> QED BY <1>2, <1>3

LEMMA NextLists == LInv /\ [Next]_vars => LInv'
  <1> SUFFICES ASSUME LInv, [Next]_vars PROVE LInv'
    OBVIOUS
  <1>1. IInv'
    BY NextInvariant DEF LInv
  <1>2. /\ conn \in [Conns -> Connection] /\ posted \in Seq(SUBSET Event)
        /\ \A c \in Conns : Sound(conn[c]) /\ conn[c] \in Connection
        /\ packets \in Nat
        /\ Posts(conn, conn', posted)
    BY DEF LInv, IInv, Good, TypeOK, Awaited, Posts
  <1>3. \A k : Moves(k, k)
    BY DEF Moves
  \* One connection moves.
  <1>4. ASSUME NEW c \in Conns, NEW x, Moves(conn[c], x),
               conn' = [conn EXCEPT ![c] = x], PostDeletions,
               httpClients' = httpClients, streamClients' = streamClients,
               loop' = loop, app' = app
        PROVE  LInv'
    <2>1. \A d \in Conns : Moves(conn[d], conn'[d])
      BY <1>2, <1>3, <1>4
    <2> QED BY <1>1, <1>2, <1>4, <2>1, MovesStep DEF PostDeletions
  \* No connection does.
  <1>5. ASSUME conn' = conn, posted' = posted,
               httpClients' = httpClients, streamClients' = streamClients,
               loop' = "events" => loop = "events", app' = "exiting" => app = "exiting"
        PROVE  LInv'
    <2>1. \A c \in Conns : Moves(conn[c], conn'[c])
      BY <1>3, <1>5
    <2>2. posted' = Post(posted, NewlyDoomed)
      BY <1>5, StillPosts
    <2> QED BY <1>1, <1>2, <1>5, <2>1, <2>2, MovesStep
  <1>6. ASSUME NEW c \in Conns, PeerClose(c) PROVE LInv'
    BY <1>5, <1>6 DEF PeerClose, listVars
  <1>7. CASE Signal
    <2>1. CASE posted' = posted
      BY <1>5, <1>7, <2>1 DEF Signal, listVars
    <2>2. CASE posted' = Append(posted, {ShutdownCall})
      <3> DEFINE q == Append(posted, {ShutdownCall})
      <3>1. q \in Seq(SUBSET Event)
        <4>1. {ShutdownCall} \in SUBSET Event
          BY DEF Event
        <4> QED BY <1>2, <4>1, AppendProperties
      <3>2. conn' = conn
        BY <1>7 DEF Signal
      <3>3. Posts(conn, conn', q)
        <4>1. \A i \in DOMAIN posted : i \in DOMAIN q /\ q[i] = posted[i]
          BY <1>2
        <4> HIDE DEF q
        <4> QED BY <1>2, <4>1 DEF Posts
      <3>4. posted' = Post(q, NewlyDoomed)
        BY <2>2, <3>2, StillPosts
      <3>5. /\ httpClients' = httpClients /\ streamClients' = streamClients
            /\ loop' = loop /\ (app' = "exiting" => app = "exiting")
        BY <1>7 DEF Signal, listVars
      <3>6. \A c \in Conns : Moves(conn[c], conn'[c])
        BY <1>3, <3>2
      <3> HIDE DEF q
      <3> QED BY <1>1, <3>1, <3>3, <3>4, <3>5, <3>6, MovesStep
    <2> QED BY <1>7, <2>1, <2>2 DEF Signal
  <1>8. ASSUME NEW c \in Conns, ClientConnected(c) \/ ReadyRead(c) PROVE LInv'
    BY <1>1, <1>8, ArrivalLists
  <1>9. ASSUME NEW c \in Conns, BytesWritten(c) PROVE LInv'
    <2>1. PICK n \in 1 .. Len(conn[c].wbuf) :
            conn' = [conn EXCEPT ![c] = AfterWrite(@, n)]
      BY <1>9 DEF BytesWritten
    <2>2. Sound(conn[c]) /\ conn[c].sock \in Open
      BY <1>2, <1>9 DEF BytesWritten, Open
    <2>3. Moves(conn[c], AfterWrite(conn[c], n))
      BY <2>2, AfterWriteMoves
    <2> QED BY <1>4, <1>9, <2>1, <2>3 DEF BytesWritten, listVars
  <1>10. ASSUME NEW c \in Conns, PeerGoneRead(c) PROVE LInv'
    <2>1. Moves(conn[c], Close(conn[c]))
      BY <1>2, CloseMoves
    <2> QED BY <1>4, <1>10, <2>1 DEF PeerGoneRead, listVars
  <1>11. ASSUME NEW c \in Conns, PeerGoneWrite(c) PROVE LInv'
    <2>1. Moves(conn[c], Abort(conn[c]))
      BY <1>2, AbortMoves
    <2> QED BY <1>4, <1>11, <2>1 DEF PeerGoneWrite, listVars
  <1>12. CASE ProcessInput
    <2>1. /\ packets' \in Unit /\ PostDeletions
          /\ conn' = [c \in Conns |-> IF c \in streamClients
                        THEN QueuePacket(conn[c], packets') ELSE conn[c]]
      BY <1>2, <1>12 DEF ProcessInput, Unit
    <2>2. \A c \in Conns : Moves(conn[c], QueuePacket(conn[c], packets'))
      BY <1>2, <2>1, QueuePacketMoves
    <2>3. \A c \in Conns : Moves(conn[c], conn'[c])
      BY <1>3, <2>1, <2>2
    <2> QED BY <1>1, <1>2, <1>12, <2>1, <2>3, MovesStep
          DEF ProcessInput, PostDeletions, listVars
  <1>13. CASE InputEnds \/ InputReopened \/ StartPosted
    BY <1>5, <1>13 DEF InputEnds, InputReopened, StartPosted, listVars
  <1>14. CASE EndPosted
    <2>1. /\ conn' = conn /\ posted' = posted /\ app' = app
          /\ httpClients' = httpClients /\ streamClients' = streamClients
      BY <1>14 DEF EndPosted, listVars
    <2>2. Settled'
      BY <1>14, SettlesAtEnd
    <2> QED BY <1>1, <2>1, <2>2 DEF LInv, Lists, Ended
  <1>15. CASE ReopenFails
    <2>1. /\ Shutdown /\ PostDeletions /\ app = "running" /\ loop' = loop
          /\ httpClients' = httpClients /\ streamClients' = streamClients
      BY <1>15 DEF ReopenFails, Dispatching, listVars
    <2> QED BY <1>1, <1>2, <2>1, ShutdownMoves, MovesStep DEF PostDeletions
  <1>16. ASSUME NEW c \in Conns, PostedEvent(c) PROVE LInv'
    BY <1>1, <1>16, DeletionLists
  <1>17. CASE QueuedShutdown
    <2>1. /\ Shutdown /\ posted # <<>> /\ loop' = loop
          /\ app \in {"running", "exiting"}
          /\ posted' = Post(Delivered(ShutdownCall), NewlyDoomed)
          /\ httpClients' = httpClients /\ streamClients' = streamClients
      BY <1>17 DEF QueuedShutdown, Delivering, Draining, listVars
    <2>2. Delivered(ShutdownCall) \in Seq(SUBSET Event)
      BY <1>2, <2>1, DeliveredSound DEF LInv, IInv
    <2>3. Posts(conn, conn', Delivered(ShutdownCall))
      <3> SUFFICES ASSUME NEW o \in Objects, NEW d \in Conns,
                          conn[d][o] = "doomed", conn'[d][o] = "doomed"
                   PROVE  \E j \in DOMAIN Delivered(ShutdownCall) :
                            <<o, d>> \in Delivered(ShutdownCall)[j]
        BY DEF Posts
      <3>1. PICK i \in DOMAIN posted : <<o, d>> \in posted[i]
        BY <1>2 DEF Posts
      <3>2. <<o, d>> # ShutdownCall
        BY DEF ShutdownCall
      <3> QED BY <1>2, <2>1, <3>1, <3>2, DeliveredAwaits
    <2> QED BY <1>1, <2>1, <2>2, <2>3, ShutdownMoves, MovesStep
  <1>18. CASE UNCHANGED vars
    BY <1>5, <1>18 DEF vars, listVars
  <1> QED BY <1>6, <1>7, <1>8, <1>9, <1>10, <1>11, <1>12, <1>13, <1>14, <1>15,
             <1>16, <1>17, <1>18 DEF Next, ConnectionEvent

LEMMA AlwaysListed == Spec => []LInv
  BY InitLists, NextLists, PTL DEF Spec

\* With any number of connections that come, stream and go in any order, the raw
\* pointers in the two lists are exactly those of existing objects, so that no
\* broadcast, shutdown or count goes through a deleted one.
THEOREM ListsStayExact == Spec => []ListsAreExact
  <1>1. LInv => ListsAreExact
    BY DEF LInv, Lists, Settled, ListsAreExact
  <1> QED BY <1>1, AlwaysListed, PTL

\* The event loop ends in an orderly way only when everything that a stream
\* client's socket had accepted is sent, or its peer has gone.
THEOREM ExitIsGraceful == Spec => []GracefulExit
  <1>1. LInv => GracefulExit
    BY DEF LInv, Ended, Kin, GracefulExit
  <1> QED BY <1>1, AlwaysListed, PTL

-----------------------------------------------------------------------------
\* A socket that _sendData closes has been handed the whole response.
Emptied(k) == k.sendBuf = <<>> /\ k.sendDone

Whole ==
    \A c \in Conns :
        /\ conn[c].sock = "closing" /\ ~conn[c].forward
        /\ peer[c] = "open" /\ ~shuttingDown
        => Emptied(conn[c])

WInv == DInv /\ LInv /\ Whole

\* What one step does to a connection that is not forwarding: it comes to close
\* only emptied, or with its peer gone, or in a shutdown; and with its peer there
\* it stops closing only by sending all that its socket held.
LEMMA ClosingStep ==
    ASSUME WInv, [Next]_vars, NEW c \in Conns
    PROVE  \/ /\ conn'[c] = conn[c] /\ got'[c] = got[c]
              /\ peer'[c] = "open" => peer[c] = "open"
              /\ shuttingDown => shuttingDown'
           \/ /\ conn[c].sock # "closing"
              /\ conn'[c].sock = "closing" /\ peer'[c] = "open" /\ ~shuttingDown'
                   => Emptied(conn'[c])
           \/ /\ conn[c].sock = "closing" /\ conn'[c].forward = conn[c].forward
              /\ peer'[c] = peer[c] /\ shuttingDown' = shuttingDown
              /\ conn'[c].sock = "closing" /\ Emptied(conn[c]) => Emptied(conn'[c])
              /\ conn'[c].sock = "closed" => got'[c] = got[c] \o conn[c].wbuf
           \/ peer[c] = "gone" /\ peer'[c] = "gone"
           \/ conn[c].forward /\ conn'[c].forward
  <1>1. /\ conn \in [Conns -> Connection] /\ peer \in [Conns -> {"away", "open", "gone"}]
        /\ got \in [Conns -> Seq(Unit)] /\ packets \in Nat
        /\ \A d \in Conns : /\ Sound(conn[d]) /\ Kin(conn[d]) /\ Fed(conn[d])
                            /\ Right(conn[d], got[d], packets)
                            /\ conn[d] \in Connection /\ got[d] \in Seq(Unit)
                            /\ conn[d].wbuf \in Seq(Unit)
    BY DEF WInv, DInv, LInv, IInv, Good, TypeOK, AllRight, Connection
  <1> DEFINE k == conn[c]
  <1>2. ASSUME NEW d \in Conns, PeerClose(d)
        PROVE  /\ conn'[c] = k /\ got'[c] = got[c]
               /\ peer'[c] = "open" => peer[c] = "open"
               /\ shuttingDown => shuttingDown'
    BY <1>1, <1>2 DEF PeerClose, serverVars
  <1>3. CASE Signal \/ InputEnds \/ InputReopened \/ StartPosted \/ EndPosted
             \/ UNCHANGED vars
    BY <1>3 DEF Signal, InputEnds, InputReopened, StartPosted, EndPosted, vars,
                serverVars, netVars
  <1>4. ASSUME NEW d \in Conns, d # c, ConnectionEvent(d) \/ PostedEvent(d)
        PROVE  /\ conn'[c] = k /\ got'[c] = got[c]
               /\ peer'[c] = "open" => peer[c] = "open"
               /\ shuttingDown => shuttingDown'
    <2>1. ClientConnected(d) => /\ conn'[c] = k /\ got'[c] = got[c]
                                /\ peer'[c] = peer[c] /\ shuttingDown' = shuttingDown
      BY <1>1, <1>4 DEF ClientConnected, serverVars
    <2>2. ReadyRead(d) => /\ conn'[c] = k /\ got'[c] = got[c]
                          /\ peer'[c] = peer[c] /\ shuttingDown' = shuttingDown
      BY <1>1, <1>4 DEF ReadyRead, serverVars, netVars
    <2>3. BytesWritten(d) => /\ conn'[c] = k /\ got'[c] = got[c]
                             /\ peer'[c] = peer[c] /\ shuttingDown' = shuttingDown
      BY <1>1, <1>4 DEF BytesWritten, serverVars
    <2>4. PeerGoneRead(d) \/ PeerGoneWrite(d)
            => /\ conn'[c] = k /\ got'[c] = got[c]
               /\ peer'[c] = peer[c] /\ shuttingDown' = shuttingDown
      BY <1>1, <1>4 DEF PeerGoneRead, PeerGoneWrite, serverVars, netVars
    <2>5. PostedEvent(d) => /\ conn'[c] = k /\ got'[c] = got[c]
                            /\ peer'[c] = peer[c] /\ shuttingDown' = shuttingDown
      BY <1>1, <1>4 DEF PostedEvent, DeleteContext, DeleteClient, DeleteStream,
                        serverVars, netVars
    <2> QED BY <1>4, <2>1, <2>2, <2>3, <2>4, <2>5 DEF ConnectionEvent
  <1>5. CASE ClientConnected(c)
    <2>1. conn'[c] = Accepted
      BY <1>1, <1>5 DEF ClientConnected
    <2>2. Accepted.sock = "connected" /\ NoConnection.sock = "none"
      BY DEF Accepted, NoConnection
    <2>3. k.sock = "none"
      BY <1>5 DEF ClientConnected, WInv, LInv, IInv, Unopened
    <2> QED BY <2>1, <2>2, <2>3
  <1>6. CASE ReadyRead(c)
    <2>1. PICK len \in 1 .. MaxChunks : \E s \in [1 .. len -> Chunks] :
            conn' = [conn EXCEPT ![c] = ReceiveData(@, s, packets)]
      BY <1>6 DEF ReadyRead
    <2>2. PICK q \in [1 .. len -> Chunks] :
            conn' = [conn EXCEPT ![c] = ReceiveData(@, q, packets)]
      BY <2>1
    <2>3. k.sock = "connected" /\ len \in Nat \ {0} /\ q \in [1 .. len -> Chunk]
      BY <1>6, ChunksAssumption, BoundAssumption DEF ReadyRead
    <2>4. conn'[c] = ReceiveData(k, q, packets)
      BY <1>1, <2>2
    <2>5. conn'[c].sock = "closing" => conn'[c].sendBuf = <<>> /\ conn'[c].sendDone
      BY <1>1, <2>3, <2>4, ReceiveDataKin
    <2> QED BY <2>3, <2>5 DEF Emptied
  <1>7. CASE BytesWritten(c)
    <2>1. PICK n \in 1 .. Len(k.wbuf) :
            /\ got' = [got EXCEPT ![c] = @ \o SubSeq(k.wbuf, 1, n)]
            /\ conn' = [conn EXCEPT ![c] = AfterWrite(@, n)]
      BY <1>7 DEF BytesWritten
    <2>2. /\ k.sock \in Open /\ peer' = peer /\ shuttingDown' = shuttingDown
      BY <1>7 DEF BytesWritten, Open, serverVars
    <2>3. /\ conn'[c] = AfterWrite(k, n)
          /\ got'[c] = got[c] \o SubSeq(k.wbuf, 1, n)
      BY <1>1, <2>1
    <2> HIDE DEF k
    <2>4. /\ k.sock = "connected" /\ conn'[c].sock = "closing" => Emptied(conn'[c])
          /\ k.sock = "closing" /\ conn'[c].sock = "closing"
               => conn'[c].sendBuf = k.sendBuf /\ conn'[c].sendDone = k.sendDone
          /\ k.sock = "closing" /\ conn'[c].sock = "closed" => n = Len(k.wbuf)
          /\ conn'[c].forward = k.forward
      <3>1. Sound(k) /\ Fed(k) /\ Right(k, got[c], packets) /\ got[c] \in Seq(Unit)
        BY <1>1 DEF k
      <3> QED BY <2>2, <2>3, <3>1, AfterWriteMoves, AfterWriteRight DEF Emptied
    <2>5. SubSeq(k.wbuf, 1, Len(k.wbuf)) = k.wbuf
      BY <1>1, SubSeqProperties DEF k
    <2>6. k.sock = "closing" /\ conn'[c].sock = "closed"
            => got'[c] = got[c] \o k.wbuf
      BY <2>3, <2>4, <2>5
    <2>7. CASE k.sock = "closing"
      <3>1. conn'[c].sock = "closing" /\ Emptied(k) => Emptied(conn'[c])
        BY <2>4, <2>7 DEF Emptied
      <3> QED BY <2>2, <2>4, <2>6, <2>7, <3>1 DEF k
    <2>8. CASE k.sock # "closing"
      <3>1. k.sock = "connected"
        BY <2>2, <2>8 DEF Open
      <3> QED BY <2>4, <2>8, <3>1 DEF k
    <2> QED BY <2>7, <2>8
  <1>8. CASE PeerGoneRead(c) \/ PeerGoneWrite(c)
    BY <1>8 DEF PeerGoneRead, PeerGoneWrite, netVars
  <1>9. CASE ProcessInput
    <2>1. /\ conn' = [d \in Conns |-> IF d \in streamClients
                        THEN QueuePacket(conn[d], packets + 1) ELSE conn[d]]
          /\ got' = got /\ peer' = peer /\ shuttingDown' = shuttingDown
      BY <1>9 DEF ProcessInput, netVars, serverVars
    <2>2. QueuePacket(k, packets + 1).forward = k.forward
      BY <1>1, QueuePacketRight
    <2>3. CASE k.forward
      <3>1. conn'[c] \in {k, QueuePacket(k, packets + 1)}
        BY <2>1
      <3> QED BY <2>2, <2>3, <3>1
    <2>4. CASE ~k.forward
      <3>1. QueuePacket(k, packets + 1) = k
        BY <2>4 DEF QueuePacket
      <3> QED BY <2>1, <3>1
    <2> QED BY <2>3, <2>4
  <1>10. CASE ReopenFails \/ QueuedShutdown
    <2>1. Shutdown /\ got' = got /\ peer' = peer
      BY <1>10 DEF ReopenFails, QueuedShutdown, netVars
    <2>2. CASE shuttingDown
      BY <2>1, <2>2 DEF Shutdown
    <2>3. CASE ~shuttingDown
      <3>1. /\ shuttingDown' = TRUE
            /\ conn'[c] = IF c \in streamClients THEN CloseStream(k) ELSE k
        BY <2>1, <2>3 DEF Shutdown
      <3>2. k.sock = "closing" => CloseStream(k) = k
        BY DEF CloseStream, Close
      <3> QED BY <2>1, <3>1, <3>2
    <2> QED BY <2>2, <2>3
  <1>11. CASE PostedEvent(c)
    <2>1. PICK o \in Objects : Delivering(<<o, c>>)
      BY <1>11 DEF PostedEvent, DeleteContext, DeleteClient, DeleteStream, Objects
    <2>2. k.sock = "closed"
      <3>1. posted \in Seq(SUBSET Event) /\ Down(conn, posted)
        BY DEF WInv, DInv, IInv, TypeOK
      <3>2. posted # <<>> /\ <<o, c>> \in posted[1] /\ 1 \in DOMAIN posted
        BY <2>1, <3>1, LenProperties, EmptySeq, HeadTailProperties DEF Delivering
      <3> QED BY <3>1, <3>2 DEF Down
    <2>3. conn'[c] \in {ContextDestroyed(k), ClientDestroyed(k), StreamDestroyed(k)}
      BY <1>1, <1>11 DEF PostedEvent, DeleteContext, DeleteClient, DeleteStream
    <2>4. conn'[c].sock = "closed"
      BY <1>1, <2>2, <2>3, DestroyedSound
    <2> QED BY <2>2, <2>4
  <1> QED BY <1>2, <1>3, <1>4, <1>5, <1>6, <1>7, <1>8, <1>9, <1>10, <1>11
        DEF Next, ConnectionEvent

LEMMA NextWhole == WInv /\ [Next]_vars => WInv'
  <1> SUFFICES ASSUME WInv, [Next]_vars PROVE WInv'
    OBVIOUS
  <1>1. DInv' /\ LInv'
    BY NextRight, NextLists DEF WInv
  <1>2. ASSUME NEW c \in Conns, conn'[c].sock = "closing", ~conn'[c].forward,
               peer'[c] = "open", ~shuttingDown'
        PROVE  Emptied(conn'[c])
    BY <1>2, ClosingStep DEF WInv, Whole
  <1>3. Whole'
    BY <1>2 DEF Whole
  <1> QED BY <1>1, <1>3 DEF WInv

LEMMA InitWhole == Init => WInv
  <1>1. Init => Whole
    BY DEF Init, Whole, NoConnection
  <1> QED BY <1>1, InitRight, InitLists DEF WInv

\* A response of fixed length reaches a peer that stays, unless a shutdown comes
\* between, whole: header and body (httpserver.cpp:526, 549).
THEOREM ResponsesWhole == Spec => ResponseWhole
  <1>1. ASSUME WInv, [Next]_vars, NEW c \in Conns,
               conn[c].sock = "closing", conn'[c].sock = "closed",
               ~conn[c].forward, peer[c] = "open", ~shuttingDown
        PROVE  got'[c] = ResponseUnits(conn[c].response)
    <2> DEFINE k == conn[c]
    <2>1. got'[c] = got[c] \o k.wbuf
      BY <1>1, ClosingStep
    <2>2. /\ Sound(k) /\ Fed(k) /\ Right(k, got[c], packets)
          /\ k.wbuf \in Seq(Unit) /\ k.sock \in Open
      BY <1>1 DEF WInv, DInv, IInv, Good, AllRight, Sound, Connection, Open
    <2>3. k.sendBuf = <<>> /\ k.sendDone
      BY <1>1 DEF WInv, Whole, Emptied
    <2>4. k.headerSent /\ k.response # "none" /\ k.queue = <<>>
      BY <1>1, <2>2, <2>3 DEF Fed, Sound
    <2>5. got[c] \o Line(k) = ResponseUnits(k.response)
      BY <1>1, <2>2, <2>4 DEF Right, Expected
    <2>6. Line(k) = k.wbuf \o (<<>> \o <<>>)
      BY <2>3, <2>4 DEF Line, BufferHeader
    <2> HIDE DEF k
    <2> DEFINE w == k.wbuf
    <2>7. w \o (<<>> \o <<>>) = w
      <3>1. w \in Seq(Unit)
        BY <2>2
      <3> HIDE DEF w
      <3>2. <<>> \o <<>> = <<>>
        OBVIOUS
      <3>3. w \o <<>> = w
        BY <3>1, ConcatEmptySeq
      <3> QED BY <3>2, <3>3
    <2> QED BY <2>1, <2>5, <2>6, <2>7 DEF k
  <1>2. WInv /\ [Next]_vars =>
          [ \A c \in Conns :
              /\ conn[c].sock = "closing" /\ conn'[c].sock = "closed"
              /\ ~conn[c].forward /\ peer[c] = "open" /\ ~shuttingDown
              => got'[c] = ResponseUnits(conn[c].response) ]_vars
    BY <1>1
  <1> QED BY <1>2, InitWhole, NextWhole, PTL DEF Spec, ResponseWhole
=============================================================================

---------------------------- MODULE ForwardingV2 ----------------------------
(***************************************************************************)
(* From the input to the clients in a build with TS_PACKET_V2: processInput*)
(* makes a packet node of what it has read, marks a discontinuity in it    *)
(* and queues it on the clients; these make bytes of it when there is room *)
(* in their send buffers, which may be in the same call or much later.     *)
(*                                                                         *)
(* Only the clients' queues hold packet nodes, and only processInput, for  *)
(* as long as it runs, holds the bytes they have been parsed from.         *)
(***************************************************************************)
EXTENDS ConversionStore

CONSTANTS
    Packets,        \* names of the packets of the input
    FirstPackets,   \* names of the packets an idle server may read next
    ContentOf,      \* what the parser makes of each of them
    NoPcr,          \* of a packet that is not to be had
    Second,         \* a second, in units of the PCR's extension
    PrefixOf,       \* for each client, in the order of _clients, how much additional
                    \* info its generator is to put before a packet
    MaxQueue,       \* bound: the packets that wait in a queue
    MaxRoom         \* bound: the packets a send buffer takes at once

\* What matters of a packet: the length of the additional info before it, whether it
\* has been parsed without an error, its PCR, and whether bytes can be made of it,
\* with and without the Discontinuity Indicator set anew.
Content ==
    [prefix : Nat, ok : BOOLEAN, pcr : Nat \cup {NoPcr}, generates : [BOOLEAN -> BOOLEAN]]

ASSUME ForwardingV2Assumption ==
    /\ Packets \subseteq FirstPackets
    /\ ContentOf \in [FirstPackets -> Content]
    /\ NoPcr \notin Nat
    /\ PrefixOf \in Seq(Nat)
    /\ Second \in Nat \ {0}
    /\ MaxQueue \in Nat \ {0} /\ MaxRoom \in Nat

Clients == DOMAIN PrefixOf

VARIABLES
    store,          \* the conversion store
    queue,          \* _queue of each client, of ids of packet nodes
    lastPcr,        \* _lastPacketTime
    made            \* what each client has made in the last step, and of what

vars == <<store, queue, lastPcr, made>>

-----------------------------------------------------------------------------
(***************************************************************************)
(* The data of nodes.  Those of a packet node are its packet, with the     *)
(* Discontinuity Indicator that may have been set; those of a bytes node   *)
(* say of which packet they are, how much additional info they begin with, *)
(* and whether they are as they have been read or made anew.               *)
(***************************************************************************)
PacketData(p, content) == [name |-> p, content |-> content, flagged |-> FALSE]

BytesData(packet, prefix, asRead) ==
    [name |-> packet.name, flagged |-> packet.flagged, prefix |-> prefix, asRead |-> asRead]

NewId(s) == CHOOSE id \in 1 .. Cardinality(DOMAIN s.nodes) + 1 : ~Has(s, id)

Result(s, id, metadata, bytes, success) ==
    [store |-> AddEdge(AddNode(s, NewId(s), "bytes", bytes), id, NewId(s), metadata, success),
     bytes |-> bytes,
     outcome |-> IF success THEN "sent" ELSE "discarded"]

-----------------------------------------------------------------------------
(***************************************************************************)
(* PacketV2Parser::parse and PacketV2Generator::generate, between nodes.   *)
(***************************************************************************)

\* The bytes node is a new one, whence there is nothing to be found in the store.
ParseNode(s, bytesId, packet) ==
    AddEdge(AddNode(s, NewId(s), "packet", packet),
            bytesId, NewId(s), packet.content.prefix, packet.content.ok)

\* Mutant of CutOff: cut by the length asked for.
CutOffAsAsked(s, id) ==
    Result(s, id, 0, s.nodes[EdgesInBySource(s, id, "bytes")[1].from].data, TRUE)

\* Cutting off the prefix of the source, with the prefix the packet came with.
CutOff(s, id) ==
    LET source == s.nodes[EdgesInBySource(s, id, "bytes")[1].from].data
    IN  Result(s, id, 0, [source EXCEPT !.prefix = @ - s.nodes[id].data.content.prefix], TRUE)

\* Of the prefix, there is the one the packet came with.
Regenerate(s, id, prefixLength) ==
    LET packet == s.nodes[id].data
        bytes  == BytesData(packet, prefixLength, FALSE)
    IN  IF prefixLength \notin {0, packet.content.prefix}
          THEN [store |-> s, bytes |-> bytes, outcome |-> "exception"]
          ELSE Result(s, id, prefixLength, bytes, packet.content.generates[packet.flagged])

GenerateNode(s, id, prefixLength) ==
    LET found == FindOtherFormat(s, id, "bytes", prefixLength)
    IN  IF found # <<>>
          THEN [store |-> s, bytes |-> s.nodes[found[1].node].data,
                outcome |-> IF found[1].success THEN "sent" ELSE "discarded"]
        ELSE IF prefixLength = 0 /\ EdgesInBySource(s, id, "bytes") # <<>>
          THEN CutOff(s, id)
        ELSE Regenerate(s, id, prefixLength)

-----------------------------------------------------------------------------
(***************************************************************************)
(* StreamClient::handleGenerateResponseBody, repeated as bufferResponse    *)
(* does while the send buffer grows and has not reached its limit.  A      *)
(* state of it is the store, the queue, what has been made, how many more  *)
(* packets there is room for, whether the buffer has grown in this pass,   *)
(* and whether it goes on.                                                 *)
(***************************************************************************)
Made(s, id, now, prefixLength, generated) ==
    [packet |-> s.nodes[id].data, late |-> id # now, prefix |-> prefixLength,
     outcome |-> generated.outcome, bytes |-> generated.bytes]

FillState(s, q, entries, room, grew, going) ==
    [store |-> s, queue |-> q, made |-> entries, room |-> room, grew |-> grew, going |-> going]

FillStep(fill, prefixLength, now) ==
    LET id   == Head(fill.queue)
        new  == GenerateNode(fill.store, id, prefixLength)
        done(room, grew, going) ==
          FillState(new.store, Tail(fill.queue),
                    Append(fill.made, Made(fill.store, id, now, prefixLength, new)),
                    room, grew, going)
    IN  CASE fill.queue = <<>> ->
               FillState(fill.store, fill.queue, fill.made, fill.room, fill.grew, FALSE)
          [] OTHER ->
             CASE new.outcome = "discarded"     -> done(fill.room, fill.grew, fill.going)
               [] new.outcome = "exception"     -> done(fill.room, FALSE, fill.grew)
               [] new.outcome = "sent" /\ fill.room > 0 -> done(fill.room - 1, TRUE, fill.going)
               [] new.outcome = "sent" /\ fill.room = 0 ->
                    FillState(new.store, fill.queue, fill.made, fill.room, fill.grew, FALSE)

FillSteps(s, q, prefixLength, room, now) ==
    LET after[k \in 0 .. Len(q) + 1] ==
          IF k = 0 THEN FillState(s, q, <<>>, room, FALSE, TRUE)
          ELSE IF after[k - 1].going THEN FillStep(after[k - 1], prefixLength, now)
          ELSE after[k - 1]
    IN  after

Fill(s, q, prefixLength, room, now) == FillSteps(s, q, prefixLength, room, now)[Len(q) + 1]

Rooms  == 0 .. MaxRoom
Full   == MaxRoom + 1       \* the send buffer is full already, and nothing is called

\* queuePacket on one client.  A state of it is the store, the queues and what each
\* client has made.
QueueState(s, queues, entries) == [store |-> s, queues |-> queues, made |-> entries]

\* A client has made of its queue what there was room for.
Filled(c, before, fill) ==
    QueueState(fill.store, [before.queues EXCEPT ![c] = fill.queue],
               [before.made EXCEPT ![c] = fill.made])

QueueOn(c, before, id, room) ==
    LET all == Append(before.queues[c], id)
    IN  IF room = Full
          THEN QueueState(before.store, [before.queues EXCEPT ![c] = all], before.made)
          ELSE Filled(c, before, Fill(before.store, all, PrefixOf[c], room, id))

NothingMade == [c \in Clients |-> <<>>]

\* queuePacket on one client after the other.
QueueOnFirst(s, id, rooms) ==
    LET after[c \in 0 .. Len(PrefixOf)] ==
          IF c = 0 THEN QueueState(s, queue, NothingMade)
          ELSE QueueOn(c, after[c - 1], id, rooms[c])
    IN  after

QueueOnAll(s, id, rooms) == QueueOnFirst(s, id, rooms)[Len(PrefixOf)]

Queued(queues) == UNION {{queues[c][i] : i \in DOMAIN queues[c]} : c \in Clients}

-----------------------------------------------------------------------------
(***************************************************************************)
(* The steps.                                                              *)
(***************************************************************************)
Init ==
    /\ store = EmptyStore
    /\ queue = [c \in Clients |-> <<>>]
    /\ lastPcr = 0
    /\ made = NothingMade

\* What a handler leaves behind.
Becomes(state) ==
    /\ queue' = state.queues
    /\ made' = state.made
    /\ store' = Freed(state.store, Queued(state.queues))

HasPcr(packet) == packet.content.pcr # NoPcr

Discontinuous(packet) ==
    HasPcr(packet) /\ (lastPcr + Second < packet.content.pcr \/ packet.content.pcr < lastPcr)

\* The Discontinuity Indicator is set in the packet, and everything that has been
\* converted from or to it is forgotten.  The node with the flag takes its own place.
Flagged(s, id) ==
    ClearEdges(AddNode(s, id, "packet", [s.nodes[id].data EXCEPT !.flagged = TRUE]), id)

\* processInput, once the bytes are read.  It has one node for the bytes and one
\* for the packet, and leaves them when it returns.
ProcessPacket(packet) ==
    /\ \A c \in Clients : Len(queue[c]) < MaxQueue
    /\ LET bytesId  == NewId(store)
           read     == AddNode(store, bytesId, "bytes",
                               BytesData(packet, packet.content.prefix, TRUE))
           packetId == NewId(read)
           parsed   == ParseNode(read, bytesId, packet)
           ready    == IF Discontinuous(packet) THEN Flagged(parsed, packetId) ELSE parsed
       IN  \E rooms \in [Clients -> Rooms \cup {Full}] :
             Becomes(QueueOnAll(ready, packetId, rooms))
    /\ lastPcr' = IF HasPcr(packet) THEN packet.content.pcr ELSE lastPcr

ProcessInput(p) == \E content \in {ContentOf[p]} : ProcessPacket(PacketData(p, content))

\* sendData, when the socket has taken something.
BytesWritten(c) ==
    /\ \E room \in Rooms :
         Becomes(Filled(c, QueueState(store, queue, NothingMade),
                        Fill(store, queue[c], PrefixOf[c], room, 0)))
    /\ UNCHANGED lastPcr

\* handleHTTPServerContextDestroyed; another client comes in its place.
ContextDestroyed(c) ==
    /\ queue[c] # <<>>
    /\ Becomes(QueueState(store, [queue EXCEPT ![c] = <<>>], NothingMade))
    /\ UNCHANGED lastPcr

\* As at the beginning.
Idle == Queued(queue) = {} /\ lastPcr = 0 /\ made = NothingMade

\* Bound: behind one that is not of Packets no other packet is read.
Common ==
    /\ \A id \in Queued(queue) : store.nodes[id].data.name \in Packets
    /\ lastPcr \in {0} \cup {ContentOf[p].pcr : p \in Packets}

Next ==
    \/ Idle   /\ \E p \in FirstPackets : ProcessInput(p)
    \/ Common /\ \E p \in Packets : ProcessInput(p)
    \/ \E c \in Clients : BytesWritten(c) \/ ContextDestroyed(c)

Spec == Init /\ [][Next]_vars

-----------------------------------------------------------------------------
(***************************************************************************)
(* Properties.                                                             *)
(***************************************************************************)

\* The types of the variables.
TypeOK ==
    /\ \A id \in DOMAIN store.nodes :
         \/ /\ store.nodes[id].kind = "packet"
            /\ store.nodes[id].data \in [name : FirstPackets, content : Content, flagged : BOOLEAN]
         \/ /\ store.nodes[id].kind = "bytes"
            /\ store.nodes[id].data \in
                 [name : FirstPackets, flagged : BOOLEAN, prefix : Nat, asRead : BOOLEAN]
    /\ queue \in [Clients -> Seq({id \in DOMAIN store.nodes : store.nodes[id].kind = "packet"})]
    /\ \A c \in Clients : Len(queue[c]) <= MaxQueue
    /\ lastPcr \in Nat

\* Between two events the edges lead from packets to bytes that are both there, and
\* nothing is in the store but the packets that wait in some queue and what has
\* been made of them, of each of them nothing twice; so that what a queue needs is
\* kept, and the memory is bounded by the queues.
StoreExact ==
    /\ \A e \in Edges(store) :
         /\ Has(store, e.from) /\ Has(store, e.to)
         /\ store.nodes[e.from].kind = "packet" /\ store.nodes[e.to].kind = "bytes"
    /\ \A id \in DOMAIN store.nodes :
         \/ id \in Queued(queue)
         \/ \E e \in Edges(store) : e.to = id /\ e.from \in Queued(queue)
    /\ \A i, j \in DOMAIN store.edges :
         (/\ store.edges[i].from = store.edges[j].from
          /\ store.edges[i].metadata = store.edges[j].metadata) => i = j

Entries == UNION {{made[c][i] : i \in DOMAIN made[c]} : c \in Clients}
Sent    == {e \in Entries : e.outcome = "sent"}

\* Whether the packet may be had with such a prefix.
Available(e) == e.prefix \in {0, e.packet.content.prefix}

\* What is sent in the same call it has been read in, and has not been flagged,
\* is sent as it has been read, whatever is wrong with it, and stripped if that is
\* asked for (tspacketv2.cpp:750, 770).
SentAtOnceAsRead ==
    \A e \in Entries : ~e.late /\ ~e.packet.flagged /\ Available(e) =>
      e.outcome = "sent" /\ e.bytes.asRead /\ e.bytes.prefix = e.prefix

\* What the generator promises: it makes bytes of every packet that was parsed without
\* an error, with the flag and without.
SoundGenerates ==
    \A p \in FirstPackets : ContentOf[p].ok => \A f \in BOOLEAN : ContentOf[p].generates[f]

\* A sound packet is dropped by no client that may have it, however long it has
\* waited (streamclient.cpp:172).
SoundNeverDropped ==
    \A e \in Entries : e.packet.content.ok /\ Available(e) => e.outcome = "sent"

\* A packet that has been flagged has the Discontinuity Indicator for every client
\* it is sent to, now or later (streamserver.cpp:629).
FlagArrives == \A e \in Sent : e.bytes.flagged = e.packet.flagged

\* A broken packet is sent with the bytes it was read from, also if it has waited:
\* going back to the original data is always a success (conversionstore.h:283).
BrokenForwarded ==
    \A e \in Entries : ~e.packet.content.ok /\ ~e.packet.flagged /\ Available(e) => e.outcome = "sent"
=============================================================================

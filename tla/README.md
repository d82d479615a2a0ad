# Specifications of streamserver-cvn

TLA+ modules that model `streamserver-cvn-cli` (the server) and `ts-split` with
the library code they rest on, TLC configurations that check them on small
instances, and theorems about them that TLAPS proves for all instances.

    tlc -config MCStreamServer_safety.cfg MCStreamServer     # model-check
    tlapm StreamServerProofs.tla                             # check proofs

Paths and line numbers below are those of this repository; `PROJECT.json` maps
every definition to the lines it stands for and lists runs, mutants, findings,
hazards and theorems.


## 1. The system

### 1.1 Components

| Component | State | Operations | What makes it correct |
|---|---|---|---|
| **HTTP server, connection** `http/httpserver.*` | list of clients; per client socket, `_isReceiving`, `_sendBuf`, `_isBufferSendDone`, context; per context request, response, `_responseHeaderSent`, `_isGenerateResponseBody` | accept, `_receiveData`, `_sendData`, `_handleDisconnected`, destruction of context and client | a response is sent once, whole and in order; objects go away with their connection; list and objects agree |
| **Request parser** `http/httprequest_netside.*`, `httpheader_netside.*` | `_buf`, `_receiveState`, `_byteCount`, header lines held back, fields | `processChunk` | the outcome does not depend on how the request is cut into chunks |
| **Responses** `http/httpresponse.*`, `httputil.*` | status, fields, body | `toBytes` | formatting |
| **Stream client** `streamclient.*` | `_queue`, `_forwardPackets` | `queuePacket`, `handleGenerateResponseBody`, `close` | each packet goes out once, in order; sending never stalls |
| **Stream server** `streamserver.*` | `_clients`, input file and notifier, packet size, error count, time base, `_isShuttingDown` | `initInput`, `processInput`, `finalizeInput`, `shutdown`, destroyed slots | packets are found and broadcast; the brake neither stalls nor runs ahead; shutdown ends |
| **Signals** `streamserver-cvn-cli/main.cpp` | `lastSigNum` | `handleSignalShutdown`, `handleTerminate` | a signal leads to one orderly shutdown |
| **TS reader** `libmedia/tsreader.*` | `_buf`, `_tsPacketSize`, last PCR, segment | `readData`, `checkIsReady`, `drainBuffer` | packets are found at every size, behind garbage and after damage; a call returns |
| **TS splitter** `ts-split/splitter.*` | output requests, templates, results, open files | packet, discontinuity, end and error handlers | each file holds what was asked for; what is incomplete is warned about |
| **TS writer** `libmedia/tswriter.*` | `_buf` | `queueTSPacket`, `writeData` | bytes stay in order |
| **TSPacket V1** `libmedia/tspacket.*` | the bytes of a packet, its adaptation field as an object | constructor, `setDiscontinuityIndicator`, `updateAdaptationfieldBytes`, `toBasicPacketBytes` | what is parsed is what is in the bytes; what is changed gets into them and changes nothing else |
| **TSPacket V2** `libmedia/tspacketv2.*` (builds with `TS_PACKET_V2`) | a packet's fields and arrays; the generator's prefix length | parse, generate | what is parsed is what V1 finds; what is generated is what was parsed |
| **BitStream** `libmedia/tsprimitive.h` | bytes, offset, current byte, bits left, dirty | take and put of bits, bytes and arrays, `flush`, `bytes` | what is put is there and what is taken was there, at every alignment |
| **Conversion store** `libmedia/conversionstore.h` | nodes, and edges with strong and weak pointers | `addEdge`, `findOtherFormat`, `clearEdges`, release | nothing stale is found, nothing needed is freed, nothing leaks |
| **ts-split command line** `ts-split/main.cpp`, `splitter.cpp` | outputs and templates read so far | reading of descriptions, defaults, checks of `Splitter` | what runs is what was asked for, or nothing runs |
| **Numeric ranges** `libinfra/numericrange.h`, `numericconverter.h` | a range's bounds | reading, comparing, matching | inclusive, open-ended, never wrapped |
| **Log backend, human readable output, ts-dump, tests** | see `PROJECT.json` | | not modelled but for `KeyValueOption` |

### 1.2 How they interact

The server has **one thread**.  Qt's event loop dispatches socket notifications,
the input's `QSocketNotifier` and timers; slots call each other synchronously.
Two things are not synchronous: `deleteLater()` and the queued `shutdown()` post
events, which the loop delivers in order of posting before it dispatches again.
The actors that interleave are therefore the peers of each connection, the
input, the signal, and the posted events:

    peer --bytes--> QTcpSocket --readyRead--> ServerClient --> ServerContext --> RequestNetside
                                                                 | requestReady
    input FIFO --activated--> StreamServer --queuePacket--> StreamClient
                                                 |  startGenerateResponseBody
    peer <--bytes-- QTcpSocket <--_sendData-- ServerClient <-- ServerContext
                       | bytesWritten (sends the rest)
    signal --queued--> StreamServer::shutdown --close--> StreamClients

`ts-split` is a chain on one thread: device → `TS::Reader` → (packet and
discontinuity signals) → `Splitter` → a `TS::Writer` per file → device.

### 1.3 What is hard

* **Wakeups.** Once the queue stops growing only `bytesWritten` sends the rest.
* **Order through three buffers.** Queue, `_sendBuf` and socket fill at once.
* **Deferred deletion.** `_clients` lists hold raw pointers to objects that
  disappear later, in an order that depends on who posted first.
* **Shutdown** at any point between those deletions, during reopening, twice.
* **Chunking** of requests and of the TS input.
* **Detection and resync** on a stream with missing or damaged bytes.
* **Sleeping in the event loop** for a time computed from the input.
* **Two copies of a packet's adaptation field**, the object and the bytes, of
  which one is changed and the other one is sent.
* **Conversions at a distance.**  With V2, the moment at which a client has room
  decides whether a packet is sent from its original bytes or made anew.
* **Bits put back late.**  A `BitStream` writes the current byte when it moves on,
  if it notices that it does.
* **Descriptions eaten up key by key**, each key taking a different part of
  what is left.
* **Segments and counters** of the splitter, which move at different moments.


## 2. Modules

| Module | Stands for | Uses |
|---|---|---|
| `HttpConnection` | socket, `ServerClient`, `ServerContext`, `StreamClient` of one connection, as operators from a connection to the connection after a call | |
| `StreamServer` | event loop, lists, broadcast, input slot, shutdown, signal | extends `HttpConnection`, instantiates `StreamDelivery` |
| `StreamDelivery` | **abstract**: what the server promises its subscribers | |
| `MCStreamServer` | instance for TLC | |
| `StreamServerProofs` | lemmas about one connection; types and wakeups; what peers get, the queue, the refinement of `StreamDelivery`; lists, exit, whole responses | extends `StreamServer` |
| `RequestParser`, `MCRequestParser` | `processChunk` under `_receiveData` | |
| `RequestParserProofs` | chunking, fields, types | extends `RequestParser` |
| `PcrBrake` | time base and sleeping in `processInput`; to `Forwarding` an **abstract** specification | |
| `TsPacket` | `TSPacket` and its adaptation field, as operators on bytes | |
| `PacketShapes` | packets of every layout, and what they are built from | extends `TsPacket` |
| `Forwarding` | the way of a packet from the input to the send buffers | extends `PcrBrake`, `TsPacket`, implements `PcrBrake` |
| `ForwardingShapes` | forwarding of packets beside which their description is kept | extends `Forwarding`, `PacketShapes` |
| `MCForwarding` | instance for TLC | extends `ForwardingShapes` |
| `ForwardingProofs` | the brake's bounds, the refinement, packets sent as read, steps flagged, packets parsed as built | extends `ForwardingShapes` |
| `BitStream` | `TS::BitStream`, a call as an operator | |
| `BitStreamCalls`, `MCBitStream` | any sequence of calls on one | extends `BitStream` |
| `PacketV2` | V2 parser and generator | extends `BitStream` |
| `ConversionStore` | nodes, edges, what is freed | |
| `ForwardingV2` | `processInput`, clients and conversions in a V2 build | extends `ConversionStore` |
| `ForwardingV2Proofs` | the store, what is sent at once and late; sequences of calls on a bit stream | extends `ForwardingV2`, `BitStreamCalls` |
| `MCForwardingV2` | the packets, with V1 as reference | extends `ForwardingV2`, `PacketV2`, instantiates `PacketShapes` |
| `TsTapes` | inputs: where sync bytes and packets are | |
| `InputSync`, `MCInputSync` | reading, size detection, resync in `processInput` | extends `TsTapes` |
| `InputSyncProofs` | types, and that a steady stream is forwarded | extends `InputSync` |
| `TsReader`, `MCTsReader`, `TsReaderProofs` | `TS::Reader` | extends `TsTapes` |
| `TsSplitter`, `MCTsSplitter`, `TsSplitterProofs` | `ts-split` with writers and discontinuities | |
| `NumericRange` | numbers, ranges, lists of ranges | |
| `SplitOptions`, `MCSplitOptions` | descriptions of outputs and templates | extends `NumericRange` |
| `SplitOptionsProofs` | that descriptions are read as they are written, filters match what they name | extends `SplitOptions` |

### 2.1 HttpConnection and StreamServer

A *unit* is the response header, the body of an error response, or a TS packet
named by its position in the input; a chunk from the peer is named by what the
parser makes of it (module `RequestParser` shows that this depends only on the
bytes).  A connection is a record with the fields of its four objects.  A slot
of the code is an operator: `ReceiveData` is `_receiveData`, `SendData` is
`_sendData` with its loop, `Disconnected` is `_handleDisconnected`, and so on;
signals connected directly are calls inside them.  `"doomed"` is an object
whose `deleteLater()` is posted.

`StreamServer` has one action per event the loop dispatches (`ReadyRead`,
`BytesWritten`, `ProcessInput`, ...), one per kind of posted event
(`DeleteContext`, `DeleteClient`, `DeleteStream`, `QueuedShutdown`), and the
environment's `PeerClose` and `Signal`.  `loop` says whether the loop dispatches
or delivers posted events; a batch of `posted` is what one handler posted, whose
inner order is left open except where the code fixes it.  `got` (what a peer has
received) and `since` (packets broadcast before a client subscribed) are ghosts.

`StreamDelivery` is the promise: a subscriber gets from its subscription to its
cut-off each packet once and in order.  `StreamServer!ImplementsDelivery` is the
refinement, with `packets`, `conn` and `got` mapped to it.

### 2.2 RequestParser

Bytes are symbols (`GET` is a word and stands for HEAD as well, `x` any other
byte).  `Read` is one read of `_receiveData` with the byte limit, the actions
`RequestLine`, `HeaderLine`, `HeaderEnd`, `Unexpected` one pass each of
`processChunk`'s loop.  The reference is declarative: `LinesOf`, `FieldsOf`,
`Malformed` speak of positions in the bytes received so far and know nothing of
chunks, states or buffers.  `nameIndices` is the `QMultiMap` through which
`HeaderNetside` finds fields by name, a function from names to indices with the
latest first; `FieldsNamed` reads it backwards as the code does.

### 2.3 PcrBrake, Forwarding, InputSync

`processInput` in three views.  `PcrBrake` has the clock, the PCR and the four
variables of the time base; `PacketAt` is the PCR branch of the code with the
calls of `timenow()` in order, each of which may see a later clock, and an
`usleep` that at most one signal cuts short (a second signal ends the program).
`Forwarding` has the packets: `Forward` is one call of `processInput` from the
construction of the `TSPacket` to `queuePacket`, where `Continuous` and `Stepped`
are `PcrBrake`'s `PacketAt` with the PCR that is in the packet, and `Sent` is what
`handleGenerateResponseBody` takes for the send buffer.  An exception on the way
drops the packet.  `TsPacket` works on bytes, as the code: the optional fields of an adaptation
field follow each other by their flags and lengths (`Ends`), and the first one
that does not fit is an error that keeps what came before.  What the constructor
leaves uninitialized (`_iSyncByte`, for an unknown length) is any value when it
is read.

`PacketShapes` describes a packet by what it is to contain (`PacketShape`: the
bits of its header, the length its adaptation field claims, the flags, the clock
references, private data and extension of any length, what follows) and makes
its bytes from that (`Build`), claims that are not true included.
`ForwardingShapes` keeps that description beside each packet that is forwarded
(`Shapes`), and `ParsedAsBuilt` compares the object with it: which fields fit is
told by the lengths of the parts (`Needs`), and nothing in the comparison goes
through the flags and bytes as the parser does.

`InputSync` has the bytes of the stream: one action is one call of `processInput`, including
look-ahead, detection, the resync with both its passes, and reads that come
short although more is to come (the input is opened non-blocking).  Of the packets a
tape (`TsTapes`) has, beside the sync bytes, which ones have a broken adaptation
field: such a packet, too, is an error to `TSPacket` (`Parses`), counts towards the
resync and tells no size.

### 2.4 BitStream, PacketV2, ConversionStore, ForwardingV2

`config.pri` leaves `TS_PACKET_V2` off by default; these modules are the build
with it on.  `BitStream` is a stream as a record and a call as an operator; a
call that throws has an operator `Can...` beside it and leaves the stream as the
code leaves it.  `PacketV2` puts and takes the fields of a packet through it, in
the order of the code and with its checks, and has no state of its own.

`ForwardingV2` is what happens around single packets, and abstracts them to
`Content`: the prefix, whether parsing succeeded, the PCR, whether generating
succeeds.  `MCForwardingV2` computes that content with `PacketV2` from the same
bytes that `MCForwarding` gives to `TSPacket`, so that the two parsers are
compared packet by packet (`ParsedAsV1`).  The store keeps what is reachable:
`Freed` drops what neither a queue nor a source's strong edge holds; weak
pointers are edges that do not hold.  `made` is a ghost: what each client has made in the last step.

### 2.5 TsReader, TsSplitter

A byte is its position on the tape, or 0 for a byte that resync made up, so that
the properties can tell which bytes were emitted, and in which order.  `pc`
names the step of `readData`; each round of `checkIsReady` is an action because
whether the rounds end is the question `ReadReturns` asks.

`TsSplitter` takes the packets as emitted.  A request is given by its start
(offset, packet or segment), its measure and its length; a template is the set
of segments it matches; `Packet` is the whole chain from a packet's
discontinuity check through `handleSegmentStarts`, `handleTSPacketReady` for
every listed request, to the writers.  `listed` is the list of requests that
are still walked; it is a set, because their files do not share anything.  A device takes a
packet, refuses it, or later takes a part of what has been left
(`WriterReady`); it takes whole packets, whose bytes are not told apart.

### 2.6 SplitOptions, NumericRange

A text is a sequence of `Symbols`: separators (`Comma`, `Colon`, `Minus`, "="), and
words for everything between them.  `main` reads one description after the other and one field after the
other; `Splitter` checks the result.  The reference (`Meant`, `Usable`,
`Wanted`) says of a whole description what it asks for, without reading it from
the left.  What happens to the files then is `TsSplitter`.


## 3. Runs

| Run | Checks | Instance |
|---|---|---|
| `safety` | `TypeOK`, `NoLostWakeup`, `StreamIntact`, `NothingForeign`, `ListsAreExact`, `GracefulExit`, `ResponseWhole`, `QueueIsBacklog`, `ImplementsDelivery` | 2 connections, 3 packets, every kind of chunk, buffers of 1 unit; symmetric; 2.3 million states |
| `live` | `Reclaimed`, `ExitsWhenAllClosing`, `PacketsDelivered` | 2 connections, 1 packet; no symmetry; 340,000 states |
| `race` | *violates* `ExitsWhenNobodyLeft` | 1 connection |
| `unanswered` | *violates* `ResponseStarted` | 1 connection |
| `parser` | `ChunkingIrrelevant`, `FieldsComplete` | 1086 requests of up to 4 lines, every chunking; 67,000 states |
| `forwarding` | `ForwardingTypeOK`, `SleepBounded`, `NeverEarly`, `SentAsRead`, `ParsedAsBuilt`, `StepsFlagged`, `BrakeImplemented` | 858 packets, seconds of 2 ticks, clock and PCR up to 5; 39,000 states |
| `sync` | `PacketsForwarded`, `LossBounded` | 1276 tapes, with broken adaptation fields, missing bytes and damaged sync bytes, size detected or any of four given, one short read anywhere; 4.8 million states |
| `reader` | `BytesInOrder`, `PacketsIntact`, `NothingHeldBack`, `LossBounded` | 109 tapes, size given or detected, every chunking; 93,000 states |
| `reader_hang` | *violates* `ReadReturns` | 1 tape |
| `split` | `OutputsAsRequested`, `WarnedRightly`, `SegmentsOnDisk`, `OneSegmentOpen`, `SegmentsContinuous` | 77 command lines, up to 6 packets; 131,000 states |
| `v2` | `ParsedAsV1`, `DamageBounded`, `SoundNeverDropped`, `StoreExact`, `SentAtOnceAsRead`, `FlagArrives` | 913 packets, 2 clients, queues of 2; 34,000 states |
| `options` | `ReadAsWritten`, `FiltersAsWritten` | 10,373 command lines; 81,000 states |

What they show: the server neither loses, repeats nor reorders packets of a
client that reads, forgets no object and ends in an orderly way, but for the
findings below; what the brake sleeps is bounded; both packet
implementations find the same in a packet; reader and input find packets
again after damage, at a stated cost; the splitter's files hold what was asked
for; and a command line means what its descriptions say.

Every property of a passing run has a *mutant*: a changed definition (marked
"Mutant" beside the one it changes) under which the run fails.

### 3.1 The bounds and why they are enough

* *Connections.* Two: connections share only the two lists, the input and the
  shutdown, whose interesting cases (one leaves while the other is listed, one
  is the last) need two.  The theorems hold for any number.
* *Buffers.* The code's 1 KiB holds five packets.  One unit each in socket and
  send buffer makes every buffer fill up, be partly sent and back up on the one
  before with three packets.  `BufCap` and `SockCap` are parameters, and what is
  proved holds for all their values.
* *MaxPackets, MaxChunks* are bounds in the guards of `ProcessInput` and
  `ReadyRead`.  One chunk a readyRead is enough for TLC: whatever several chunks
  come to (`Parsed`), one does, so that more of them add neither states nor
  steps.  The theorems are about any number.
* *Packet sizes.* 188, 192, 204, 208 are 11, 12, 15, 16: a time code of 1,
  suffixes of 4 and 5.  No two of the sizes fall into step within the window
  that detection looks at, as with the real ones.  The limits of 16 packets are
  8 (`Detect`, `Limit`) and 4 (`ErrorLimit`); tapes are longer than these.
* *MaxShort.* One short read: what one costs is what `LossBounded` states;
  the bound of the property grows with their number.
* *Time.* Ticks of half a second: continuous, just discontinuous and far
  jumps are all there, and the clock may step between any two calls.
* *Packet layouts.* A basic packet of 20 bytes and a time code of 1 have room for
  every combination of optional fields, fields that end with the packet, and
  fields that run past it; `LengthBasic` and `TimeCodePrefix` are parameters.
  A packet of a rare layout is only the first one of an input, where the brake
  is in its initial state; common ones follow in any order.  Private data are of
  no byte here and extensions of one; `PacketsParsedAsBuilt` is about all others.
* *V2.*  Packets as in `forwarding`, some that only V2 refuses, and packets with
  private data of 0 to 7 bytes with no extension behind them or one of 0 or 1 byte
  (`PrivateShapes`), whose field ends the packet or has a payload behind it, as what a
  generated packet loses depends on which of its arrays are empty.  A client
  that strips and one that does not are all the kinds the generator knows;
  behind a packet not of `CommonPackets` nothing more is read until the server
  is idle again.  What one packet leaves to the next is the time base and the
  store, which rare ones do not treat differently.  `MaxQueue` 2 makes a
  packet wait behind another, `MaxRoom` 1 makes one be sent and the next wait.
* *Options.*  `IntMax` 3 and `LongMax` 10 put a number on each side of each
  limit.  Descriptions have up to three fields: a field depends on what was
  read before it only through which keys have been seen.
* *Split.* Each kind of start and measure, starts 1..2, lengths 0..3, over four
  packets, covers "before, at, after" for each comparison.

### 3.2 Fairness

`StreamServer!Fairness` is weak fairness of what a running event loop does
anyway: posted events are delivered (Qt sends them before it waits), a socket
with data that its peer reads reports `bytesWritten`, and a socket whose peer
has gone reports that.  Nothing is assumed of peers closing or sending, of the
input or of signals.  `PacketsDelivered` therefore assumes a peer that reads; a
peer that stops is a connection whose `BytesWritten` the kernel never reports,
and no promise is made to it.  `TsReader!FairSpec` has `WF_vars(Step)`: a
running program takes its next step.  The other modules have safety properties
only and no fairness.


## 4. What is proved

All proofs are for every value of the constants under the modules' named
assumptions (`CapAssumption`, `BoundAssumption`, `ChunksAssumption`,
`SecondAssumption`, `BrakeAssumption`, `TickAssumption`, `LengthAssumption`,
`PacketsAssumption`, `ForwardingV2Assumption`, `ByteBitsAssumption`,
`RequestsAssumption`, `LimitsAssumption`, the `SizeAssumption` and
`TapesAssumption` of `TsReader` and of `InputSync`, `LimitAssumption`,
`GivenAssumption`, `SplitAssumption`, `NumbersAssumption`, `CommandLinesAssumption`,
`TextsAssumption`, `ShapesAssumption`), which TLC evaluates in the runs; the theorems about the bit
stream assume `Typed`, that its constants have the types named, and one of
`ForwardingV2Proofs` has a premise of its own (below).  `SizeAssumption` of `TsReader` asks of the sizes only what those in the
code have in common: no suffix (0, 16, 20) is as long as the prefix (4), a packet
of every size fits into the bytes detection waits for, and the reader looks at no
fewer packets than detection does, at five at least (both are 16).

| Theorem | Statement |
|---|---|
| `StreamServerProofs!TypeCorrect` | `Spec => []TypeOK`, with the bounds of socket and send buffer |
| `StreamServerProofs!WakeupNeverLost` | `Spec => []NoLostWakeup` |
| `StreamServerProofs!StreamsIntact` | `Spec => []StreamIntact` |
| `StreamServerProofs!NobodyElsesResponse` | `Spec => []NothingForeign` |
| `StreamServerProofs!QueueOnlyBehindFullBuffers` | `Spec => QueueIsBacklog` |
| `StreamServerProofs!ServerImplementsDelivery` | `Spec => ImplementsDelivery`, a refinement |
| `StreamServerProofs!ListsStayExact` | `Spec => []ListsAreExact` |
| `StreamServerProofs!ExitIsGraceful` | `Spec => []GracefulExit` |
| `StreamServerProofs!ResponsesWhole` | `Spec => ResponseWhole` |
| `ForwardingProofs!SleepIsBounded`, `PacketsNeverEarly` | of the brake alone: `[]SleepBounded`, `[]NeverEarly` |
| `ForwardingProofs!ForwardingImplementsBrake` | `FSpec => BrakeImplemented`, a refinement; whence `ForwardingSleepIsBounded`, `ForwardedNeverEarly` |
| `ForwardingProofs!PacketsSentAsRead` | `FSpec => []SentAsRead`, for packets of any bytes |
| `ForwardingProofs!StepsAreFlagged` | `FSpec => []StepsFlagged`, for packets of any bytes; with `ForwardingTypeCorrect` |
| `ForwardingV2Proofs!StoreIsExact` | `Spec => []StoreExact`; with `ForwardingV2TypeCorrect` |
| `ForwardingV2Proofs!AtOnceIsAsRead`, `TheFlagArrives` | `Spec => []SentAtOnceAsRead`, `[]FlagArrives` for packets of any content |
| `ForwardingV2Proofs!SoundIsNeverDropped` | `SoundGenerates => (Spec => []SoundNeverDropped)` |
| `RequestParserProofs!ChunkingIsIrrelevant` | `Spec => []ChunkingIrrelevant` for requests and chunks of any length |
| `RequestParserProofs!FieldsAreComplete` | `Spec => []FieldsComplete`; with `RequestParserTypeCorrect` |
| `InputSyncProofs!PacketsAreForwarded` | `Spec => []PacketsForwarded`, for tapes, sizes and limits of any lengths, of steady streams no read of which comes short; the size given, or to be told (`SoundEnough`, `Telling`); with `InputSyncTypeCorrect` |
| `ForwardingV2Proofs!FlushesInRange`, `PutsAreKept`, `TakesAreRight` | of the bit stream: `CSpec => []FlushInRange`, `[]PutsKept`, `[]TakenRight` under any sequence of calls, on bytes of any number of bits: which byte is in which place, also where arrays move past a dirty one; with `StreamTypeCorrect` |
| `TsReaderProofs!EmittedInOrder` | `Spec => []BytesInOrder`; with `TypeCorrect` |
| `TsReaderProofs!PacketsStayIntact`, `NothingStaysBehind` | `Spec => []PacketsIntact`, `[]NothingHeldBack` for regular tapes of any length |
| `TsSplitterProofs!ContinuousSegments` | `Spec => []SegmentsContinuous` |
| `TsSplitterProofs!SegmentsOneByOne` | `Spec => []OneSegmentOpen` |
| `TsSplitterProofs!SegmentsComplete` | `Spec => []SegmentsOnDisk`; with `TypeCorrect` |
| `TsSplitterProofs!RequestsAreServed` | `Spec => []OutputsAsRequested`, for requests of every kind |
| `TsSplitterProofs!WarningsAreRight` | `Spec => []WarnedRightly` |
| `ForwardingProofs!PacketsParsedAsBuilt` | `FSpec => []ParsedAsBuilt`, for packets of any description (`PacketShape`) |
| `SplitOptionsProofs!DescriptionsAsWritten` | `Spec => []ReadAsWritten`, for any command lines, of any symbols, and any limits of the numbers |
| `SplitOptionsProofs!TemplatesAsWritten` | `Spec => []FiltersAsWritten` |

So every property of the run `safety` is also a theorem, for any number of
connections, packets and chunks and any sizes of the buffers.

*The argument for the server.*  `NoLostWakeup` is not inductive.  It holds after
`SendData` because the loop there stops only when the socket is full or nothing
is left; that takes that a stream client's `sendDone` is false and its response
header has been sent (`Good`, a predicate of one connection).  It survives
`QueuePacket` because a packet is queued only on listed clients, and it does not
matter when a connection is down (`Down` ties the objects of a closed connection
and posted events together) or has never been opened (`Unopened`).  `IInv` is
the conjunction.  `StreamServerProofs` proves operator by operator that `Good` and the type survive
the synchronous calls - these lemmas are free of time - and then has one lemma
per action that `IInv` survives it, then `Invariant`.

*The argument for delivery.*  `StreamIntact` speaks of clients that are
connected, and what a peer has got must stay right behind that, so the
invariant `DInv` states it as one equation for all connections (`Right`): what
the peer has got, followed by what is in socket, send buffer and queue (`Line`),
is what it is to get (`Expected`: header and packets since it asked, or header
and body), and a closed connection leaves a beginning of it.  That equation survives a
call because each operator moves a piece from the front of one part to the end
of the one before.  It needs three more facts: where the pieces begin (`Fed`: no
packet without the header, nothing before a response), that every open stream
is listed, since a broadcast extends `Expected` of all streams (`Streams`), and
that nobody has heard anything before it connected (`Unheard`).
`QueueIsBacklog` follows from `Fed`: between two handlers a send buffer is
empty or waits for a full socket.

*The refinement.*  The packets received by a client are a slice of the packets
sent, from `since` on; `DeliveredIsReceived` relates that to the tuple
`StreamDelivery` keeps.  `Kept` says what a step leaves to a subscriber,
`Continues` that what it receives are the packets that come next: so every
action is a broadcast, a subscription, a delivery, a cut-off or a stutter.

*The argument for the lists.*  Which objects a connection has follows from what
its socket does (`Kin`), and a step moves them on only together (`Moves`).
Between events the posted deletions are those of the objects that are doomed
(`Awaited`), whence a list forgets an object when it is destroyed and
not earlier or later (`Lists`, `Settled`).  The loop is left only when every
stream's socket is down (`Ended`), which gives `GracefulExit`.  `ResponseWhole`
needs in addition that a socket that closes by itself has been handed
everything (`Whole`).

*The argument for the brake.*  `SleepBounded` needs that a PCR that counts as
continuous is at most a second ahead of the last one, and that the last one was
not itself ahead of its clock (`NeverEarly`), but for the second that an
interrupted sleep leaves; so the two are proved from one invariant.

*The argument for forwarding.*  That it implements the brake: a packet without a
PCR stutters, one with a PCR is `PacketAt` of that PCR, which `PacketsAssumption`
puts into the brake's range.  That packets are sent as read: what matters is
that `UpdateAdaptationfieldBytes` writes over the very bytes the field was parsed
from.  A PCR needs a field whose flags lie within the packet (`PcrNeedsFlags`,
`PcrNeedsField`), the field's object is a slice of the packet's bytes but for the
flag (`MidIsSlice`, `FlagArithmetic`), so copying it back changes no other byte
(`CopiedBack`).  `SentInv` is the inductive invariant: nothing is queued, or the
packet read last but for the flag.  `StepInv` adds that the flag is in the
queued bytes exactly if it was read there or the PCR has stepped.  `FlagIn` says
where it is in the bytes, `FlagFound` that `TSPacket` finds it there,
`FlagStripped` that stripping leaves it, `FlagSet` that `Forward` puts it there:
hence `StepsFlagged`.

*The argument for the V1 parser.*  The invariant is only that the packet read is
one of the input's; the work is a theorem about one packet (`PacketParsed`), free
of time.  First, where its bytes are: `Built` puts the contents behind what
leads, `Laid` the header and the field into the contents, `FieldBuilt` each part
of the field at its place, which is what all parts before it need (`NeedsMore`).
Then, what the parser makes of them: the header's bits (`HeaderFound`), the flags
(`FlagsBuilt`), and the data of the field, which are what was put in unless the
packet ends before them (`DataFound`).  `Ends` is a recursive function over the
five optional fields: whatever function satisfies its equation at each of them is
it (`EndsFound`), and the function that says where a part ends if it fits, and
`None` if not, does (`NextEndFound`), because a part's first byte is its length
where the code looks for one (`LengthFound`).  So every part that fits is found
as a whole (`PartFound`), the 33 and 9 bits of a clock reference give the number
they were made from (`BaseDigits`, `ClockBytes`), what remains is stuffing
(`FlaggedAsBuilt`), and what follows is payload (`PayloadFound`).

*The argument for the conversion store.*  Nothing in the code says what the
store looks like; `EdgesRight` does.  Every edge leads from a packet to bytes of
its prefix and with its flag (`ResultEdge`), or, while one packet is being
queued, from the bytes read to that packet (`ParseEdge`), and a node is the
source of one edge for each prefix (`NothingTwice`).  So a search for bytes
finds those of the packet as it is now, which is `TheFlagArrives`; a client
served at once finds those that were read, because nothing else has been made
of the packet yet but copies of them (`AtOnce`): `AtOnceIsAsRead`.  When a step
is over, `Freed` has dropped what nobody holds; since only queues hold packets
and a path has a single edge, what remains is `StoreExact` (`NothingElse`).  The
recursive functions of the model, `Fill` over the packets that wait, `QueueOnFirst`
over the clients, and `Freed` over the nodes, are unfolded by an induction over
sets of numbers (`NatSetInduction`, from the library's theorem about least
elements).  That a sound packet is never dropped takes a generator that
makes bytes of whatever was parsed without an error, with the flag and without:
`SoundGenerates` is that premise about the constant `ContentOf`, and the first part
of `DamageBounded` has TLC check it for every packet of `MCForwardingV2`, which
computes that constant with `PacketV2`.

*The argument for the request parser.*  The buffer is the bytes from a position
p to n of a request that does not change, so everything is said of positions in
the whole request: where lines start and end (`IsLine`), which of them are
fields (`FieldAt`), where the next field or the end of the header stops one
(`NextStop`).  None of this depends on how much has been read; a lemma for each
part of the declarative reading (`LineRead`, `FieldStartsRead`, `HeaderEndsRead`,
`SettledText`) says that the reading of the first n bytes finds those of the
positions that lie before n.  `Place` says what the parser's state means at p:
what is held back is the last field up to p (`HeldBack`), and all fields complete
before p are good (`Checked`); `Drained` says that between two chunks no line is
left in the buffer.  Hence a request that has not been rejected is well-formed as
far as it has been read (`ReadSoFar`), and one is rejected only at a position
that the reading rejects, too: `ChunkingIsIrrelevant`.  For the fields the
invariant has in addition a sequence of positions that rises and enumerates the
fields before p (`Kept`), of which the last one may be held back, and for each
name the indices of its fields, falling (`Indexed`).  Whoever enumerates a set of
numbers in rising order has it in the order in which the reading counts
(`InOrderIs`): `FieldsAreComplete`.

*The argument for the input.*  A steady stream is one whose packets follow each other
(`Gapless`), of the size given, or of one that can be told.  Then sync bytes are
whole where the size is looked for, which it is until a packet has been parsed
(`Untold`), and there is no misleading one there (`Telling`); and of packets that
could be parsed fewer than `ErrorLimit` in a row are errors, be it for their sync byte
or for their adaptation field (`Failing`, `SoundEnough`).  The one that
reaches the limit starts a resync, which looks for a sync byte in that packet and, not
finding one, ends the server: 15 packets with broken fields and then one without a
sync byte suffice.  A stream with suffix has errors only; its size stays
unknown and is told anew by every look ahead, so that no resync comes into it.
All this is asked of the tape, and of the bytes at the places named
alone; everything else in the packets is arbitrary.  `OnTrack` is the invariant of a
stream no read of which has come short: the packets sent are the first n ones, and
what is read next is packet n + 1.  It survives a step because the length
that the look ahead tells is that packet's (`LengthTold`), or `Basic` for the very
last one, whose suffix nothing follows; and no step gives up, because the errors
counted are those of the failing packets just before (`Row`), so that the last
straw would take a row of them that `SoundEnough` excludes (`NoLastStraw`).

*The argument for the bit stream.*  An array that is put or taken right behind a
completed byte moves on without putting that byte back, and what puts it back later does
so where the array ends.  Every use of the stream for a packet does this, so the properties say
where each byte then is instead of leaving these calls out: the ghost `source` has for each place the byte of
`content` that is there, or that it is as it was opened (`Original`).  `PutsKept`
compares the bytes with that and asks for each byte that is not in its own place
that it is in a later one.  Only of a byte flushed in its middle, whose
remaining bits the stream forgets, nothing is said (`halved`).  The invariant
(`Holds`) is that what `Flushed` would give is as the sources say (`Shown`), that where
the stream has not been nothing has changed (`Ahead`), and that the byte in hand is
that of its source, whose own place has not been written, while the
place it has been carried to still holds what was put there (`InHand`).  `Sound`
says where the offset may be when a byte is at hand or dirty.

*The argument for the reader.*  `BytesInOrder` compares packets that follow
each other.  What keeps it true is `Ordered`: the buffer is rising, and all
that has been emitted is before all that is in the buffer (`Before`), which
holds for every way the rounds of `checkIsReady` drop, make up or pass on bytes.

What becomes of a regular stream is another invariant, `TrackInv`.  The buffer
always holds the bytes read last, without a gap, and either the size is not known
yet and the buffer begins with the tape or, after a resync, with the first packet
(`Searching`), or it is known, and the buffer begins behind the packets emitted
(`Running`).  It needs two counts.  A reader that
does not know the size collects at most the bytes detection looks at, so that
detection always sees the window the tape is judged by (`Telling`).  One that
knows it waits for more packets only while fewer than 60 % of those collected
have a sync byte; as at most two of the stream's packets lack theirs, these are
never more than four (`FewAreFew`), and so never too many for `checkIsReady` to
keep the size.  `PacketsIntact` follows, and at the end what has
not been emitted is what those few packets are, `NothingHeldBack`.  `Telling`
cannot be left out: which size scores best depends on how the sizes that are
tried relate, and on a stream whose size cannot be told from its first packets
another one is detected.  The tapes of the run that are regular are so with
every size and with and without garbage.

*The argument for the splitter.*  Segments are numbered without gaps and
`segment` is that of the last packet (`Counting`), `lastPcr` is the last PCR
(`LastSeen`): hence `SegmentsContinuous`.  A file of one segment has yet to
begin, is open or is closed depending on whether that segment is to come, at
hand or over (`Phase`), which gives `OneSegmentOpen`; what has been put into it
lists its packets in order (`Lists`), and a device that never refuses
leaves nothing with the writer (`Written`), which gives `SegmentsOnDisk`.  A
request counts its segments before it is compared with its length, which is
why `Phase` speaks of `done` as well.  For requests of every kind `Stages` says
what a counter decides: a request has not begun, or its file holds all packets
from the first it starts at (`Filling`), or those of them that fit into its
length (`Filled`), as a run without gaps, and `done` is the measure of that run,
where a segment counts when it is over.  Because segments rise, what has started
goes on (`BegunGoesOn`) and what fits does so with fewer packets (`FewerFit`), so
the packets asked for are a run, too (`AskedIsRun`): `OutputsAsRequested`.  That no
segment is without packets (`NoGaps`) makes the run as long as its first and last
packet say (`RunMeasured`): `WarnedRightly`.

*The argument for the command line.*  The code eats a description up from its
beginning, the reference finds its fields by the positions of the separators.
What ties the two together is a position p in the description (`LeftAt`): what is
left in `buf` is the text from p on, and p is where a field begins, or the end.
`OutputSoFar` says that the output being described has what the fields before p
say: each of them is one that is read (`FieldRead`), at most one of them is about
the start and at most one about the length (`MeantBefore`), and the field that
takes the rest is yet to come or was the last (`RestBefore`); `TemplateSoFar` says
the same of a template and its filter.  Neither speaks of the way the parser has
come.  A step moves p behind the next comma, or to the end; the lemmas about
separators show that what `takeKey` and `takeValue` cut off is the field at p, also
where a value has another "=" in it.  A step that refuses finds a field that makes the
description unreadable, so that `Usable` fails (`Ended`): this is where the order
of the code's checks must not matter.  At the end p is behind everything and
`OutputSoFar` is what `ReadAsWritten` asks (`AsWritten`).  The ranges of a filter
need one thing more: `Split` is a recursion over a text, and its parts are told
apart by an induction over positions (`Begins`).  A range that `fromString` accepts
has one symbol or none on each side of its only minus sign, so it covers what its text does,
and what `Splitter` accepts of those is not empty: `FiltersAsWritten`.

*Out of the prover's reach*: liveness under fairness and `ENABLED`, so the
properties of `live`; theorems of the library that take an operator, and what
`SelectSeq` and the folds compute from one; modules that reach a `RECURSIVE`
operator (there is none here that has theorems).  Recursive functions can be
unfolded, where the values that matter can be put as a set of numbers.

*Model-checked only* are therefore the liveness properties; and, without a proof
so far, `ParsedAsV1` and `DamageBounded`, which compare the two parsers on packets
built for it; and the two `LossBounded`, of `InputSync` and of the reader,
whose bounds hold of tapes with one slip, as those of the runs, but not of any
number of them.


## 5. Findings

Each is the counterexample of a run.

* `race` (streamserver.cpp:243, 260): `shutdown()` decides by the stream clients
  listed.  Delivered after the HTTP client of a connection is destroyed and
  before its stream client is, it waits for a client that is gone.
* `unanswered` (httpserver.cpp:451): the response to a request that does not
  parse is set and never sent.
* `reader_hang` (tsreader.cpp:510): when the buffer begins with the first of two
  related sync bytes and detection has failed, resync removes nothing and starts
  over for ever.

Others have a configuration to be run by hand, which ends in the counterexample:

* `tlc -config MCInputSync_suffix.cfg MCInputSync` (streamserver.cpp:537): reads
  16 bytes and expects 20, so that a stream whose suffix grows is not followed.
* `tlc -config MCTsSplitter_never.cfg MCTsSplitter` (splitter.cpp:555): an output
  that never started is taken for one that is finished, and not warned about.
* `tlc -config MCBitStream_puts.cfg MCBitStream` (tsprimitive.h:149): an array
  that is put or taken moves past a dirty byte, and a later flush writes that byte over
  the array's last one ("Put back previous value", tsprimitive.h:62).  With
  `MCBitStream_calls.cfg` the properties that hold are checked: nothing else goes
  wrong in these calls, and which byte ends up where is known.
* `tlc -config MCForwardingV2_late.cfg MCForwardingV2` (conversionstore.h:283,
  "Going back to original data is always a success."): a packet that cannot be
  parsed is forwarded when a client has room at once, and discarded once it
  has had to wait.
* `tlc -config MCSplitOptions_file.cfg MCSplitOptions` (splitter.h:73):
  `outputFile` is not initialized, so that an output without `fileName` may pass
  the check "Output file can't be null" (splitter.cpp:206).

Met while modelling, without a configuration of their own:

* A connection without a complete request is closed by nobody; it holds up a
  shutdown as long as its peer stays.  A POST without a body is never answered.
* A shutdown with no stream client exits at once, although an error response of
  another connection may be under way.
* `lastSigNum` is never reset: any second signal ends in `qFatal`, also one that
  comes long after.  The handler's `invokeMethod` is not async-signal-safe.
* A failed reopening of the input during a shutdown forces the exit.
* The check for unsupported methods at httpserver.cpp:274 is not reached.
* Data behind a request rejects it when it comes in the same chunk, and aborts
  the connection when it comes later.
* A write that the device refuses leaves packets with the `TS::Writer`; they are
  lost when the file is closed, and its length is the length queued.
  `Writer::errorEncountered` is connected to nothing.
* The resync of `processInput` ends with the first sync byte, related or not,
  because its loop's condition fails in the second pass (streamserver.cpp:493).
* A read or look-ahead that comes short while the size of a stream with suffix
  is unknown ends the server or settles the basic size.
* The suffix of the very last packet of a stream is not forwarded.
* `TS::Reader`'s offset does not count garbage dropped, so that an output start
  given as offset is off behind it; fewer than 16 packets yield none.
* `TSPacket` recognizes packets of 188 and 192 bytes only.  Ones of 204 or 208 are
  always errors to it, so that the brake and the flagging do not work on them;
  and stripping them, which is the default (streamserver-cvn-cli/main.cpp:213, "Strip additional info
  beyond 188 bytes basic packet size"), reads an uninitialized `_iSyncByte`.
* Packet sizes with time code *and* suffix are detected, and TSPacket throws.
* Packets queued on a client whose socket is closing are never sent, and its
  queue grows until it is destroyed; `QueueIsBacklog` is about connected ones.
* `BitStream::flush()` and `bytes()` in the middle of a byte forget the rest of
  its bits.
* With V2: a packet made anew has rows of arrays, private data up to the length of the
  extension and the rest up to the end.  Of each row that is not empty the byte
  before it ends up as the last one, whose own value is lost, and a zero is in its
  place; `DamageBounded` states that.  So a packet without private data but with stuffing or payload
  loses its last byte, and one with private data and an extension another one.
  A null packet loses its contents; a packet broken behind
  its flags has `pcrFlag` and a PCR of 0, which resets the time base; a client that does not strip and is
  created before the packet size is known gets no prefix ever
  (streamclient.cpp:95), and one created before the size changes is dropped
  every packet that has to be made anew.  `config.pri` says that "not every
  part of the code base is converted to v2, yet".
* ts-split: what `setOutputRequests` and `setOutputTemplates` throw is caught
  nowhere; a negative or zero packet size is ignored; a file format without a
  number gives every segment the same file name; keys behind `fileName` or
  `fileFormat` are taken for a part of the name.


## 6. What is left out, and why

* *Text*: log messages, addresses, the text of responses.
* *Contents of packets* outside `Forwarding` and `PacketV2`: in `InputSync` a
  packet is its length, its sync byte and whether its adaptation field can be parsed, in `TsSplitter` its PCR, in the server a
  name.  Bits of V1's packet header that nothing depends on are left out.
* *`HeaderNetside::setField`*, and the accessors of `NumericRange` that throw or
  give a default: nothing calls them.
* *`handleTerminate`*: it unwinds an uncaught exception through Qt's event loop
  and exits with an error; nothing is promised that could be checked.  The
  *options of the server* are plain assignments to members.
* *ts-dump, tests, logging, human readable output*: no state that interacts, or
  formatting.
* *QTcpSocket, QFile, the kernel*: modelled from how the code uses them, marked
  external.
* *MaxLag, queue length*: the queue of a client whose peer does not read has no
  bound in the code; `MaxPackets` bounds it in the model.


## 7. Plan

Done, in this order: the connection and the server with their abstract
specification and all their safety properties as theorems; the brake and
forwarding with theirs; the reader, the input's cutting, the splitter, the
request parser; the V2 packets with bit stream and conversion store; the command
line of `ts-split`.

All the safety properties of the server, of forwarding in both versions but for
the comparison of the two parsers, of the request parser, of the splitter and of
its command line are theorems, and so is what the input makes of a steady stream
and the reader of a regular one.  What is left is to prove:

1. `ParsedAsV1`: `PacketV2` takes the same bytes through a bit stream;
   `StreamTypeCorrect` and `PacketsParsedAsBuilt` are the two ends between which its
   fields have to be followed.  `DamageBounded`, from which `SoundGenerates`
   follows, needs the same of the generator.
2. The two `LossBounded`, with bounds that grow with the number of slips.

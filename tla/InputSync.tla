----------------------------- MODULE InputSync -----------------------------
(***************************************************************************)
(* How StreamServer::processInput cuts its input into packets: one read    *)
(* per notification, of the packet size if that is known and of the basic  *)
(* size followed by a look ahead otherwise; what is read is broadcast      *)
(* whether it is a packet or not, and after a row of errors the input is   *)
(* searched for a sync byte.  Everything processInput does is one action.  *)
(*                                                                         *)
(* A read or a look ahead may yield less than it asks for although more is *)
(* to come, as it may on the FIFO the input is opened non-blocking for.    *)
(***************************************************************************)
EXTENDS TsTapes

CONSTANTS
    Basic,          \* TSPacket::lengthBasic (188)
    Prefix,         \* length of a time code prefix (4)
    Suffix1,        \* the two lengths of an error correction suffix (16, 20)
    Suffix2,
    ErrorLimit,     \* consecutive errors before a resync (16)
    Tapes,          \* the inputs
    GivenSizes,     \* packet sizes users may give; 0: none, it is detected
    MaxShort        \* bound: reads that yield less than they ask for

\* As the literals of processInput have it.
ASSUME SizeAssumption ==
    /\ Basic \in Nat /\ Prefix \in Nat /\ Suffix1 \in Nat /\ Suffix2 \in Nat
    /\ 0 < Prefix /\ Prefix < Suffix1 /\ Suffix1 < Suffix2 /\ Suffix2 < Basic
ASSUME LimitAssumption == ErrorLimit \in Nat \ {0} /\ MaxShort \in Nat
ASSUME GivenAssumption == GivenSizes \subseteq {0} \cup Basic .. 2 * Basic
ASSUME TapesAssumption == Tapes \subseteq Tape

VARIABLES
    tape,           \* the input
    autosize,       \* _tsPacketAutosize
    taken,          \* bytes read from it
    packetSize,     \* _tsPacketSize
    errors,         \* _inputConsecutiveErrorCount
    sent,           \* what has been broadcast
    shorts,         \* reads so far that yielded less than they asked for
    resync,         \* ghost: what the last resync has found
    app             \* running, closed (input at its end) or fatal (qFatal)

vars == <<tape, autosize, taken, packetSize, errors, sent, shorts, resync, app>>

\* What a resync finds behind its packet: nothing at all, the next packet, a
\* suffix, or no sync byte where one could be.
Findings == {"none", "end", "packet", "suffix1", "suffix2", "unrelated"}

Init ==
    /\ tape \in Tapes
    /\ taken = 0
    /\ packetSize \in GivenSizes
    /\ autosize = (packetSize = 0)
    /\ errors = 0
    /\ sent = <<>>
    /\ shorts = 0
    /\ resync = "none"
    /\ app = "running"

Smaller(a, b) == IF a <= b THEN a ELSE b

Available(from) == Len(tape.sync) - from

\* How many bytes a read or a look ahead of n at position from may yield, and
\* whether it is the device that has cut it short.
Yields(from, n) ==
    LET most == Smaller(n, Available(from))
    IN  IF shorts < MaxShort THEN Smaller(1, most) .. most ELSE {most}
Cut(from, n, m) == IF m < Smaller(n, Available(from)) THEN 1 ELSE 0

Bytes(from, n)   == [i \in 1 .. n |-> from + i]
SyncAt(position) == tape.sync[position + 1]      \* positions are from 0

\* The sync byte at a position, and behind it a packet without an error: without an
\* adaptation field, or with one that ends within the packet and holds what its
\* flags say.
Sound(position) == SyncAt(position) /\ position \notin tape.broken

\* TSPacket's constructor has set no error message.
Parses(from, n) ==
    \/ n = Basic /\ Sound(from)
    \/ n = Basic + Prefix /\ Sound(from + Prefix)

-----------------------------------------------------------------------------
(***************************************************************************)
(* Resync, on the n bytes read last.                                       *)
(***************************************************************************)

\* What m bytes looked ahead at behind a packet tell.
Related(from, m) ==
    IF m = 0 THEN "end"
    ELSE IF SyncAt(from) \/ (m > Prefix /\ SyncAt(from + Prefix)) THEN "packet"
    ELSE IF m > Suffix1 /\ SyncAt(from + Suffix1) THEN "suffix1"
    ELSE IF m > Suffix2 /\ SyncAt(from + Suffix2) THEN "suffix2"
    ELSE "unrelated"

\* Where the first sync byte is, from 0, or n if there is none.
FirstSync(n) ==
    LET at == {i \in 0 .. n - 1 : SyncAt(taken + i)}
    IN  IF at = {} THEN n ELSE CHOOSE i \in at : \A j \in at : i <= j

Bigger(a, b) == IF a <= b THEN b ELSE a

\* The end of the packet the first sync byte starts; what has been read is not
\* given back.
PacketEnd(n) == Bigger(taken + n, taken + FirstSync(n) + Basic)

\* The first byte is a sync byte already: the loop is never entered.
NothingToSkip(n) ==
    /\ FirstSync(n) = 0
    /\ taken' = taken + n
    /\ UNCHANGED <<shorts, resync, app>>

\* Both passes: in the second one the sync byte is the first byte, which ends
\* the loop whatever the first pass has found behind the packet.
SkipToSync(n) ==
    /\ FirstSync(n) \in 1 .. n - 1
    /\ PacketEnd(n) <= Len(tape.sync)
    /\ \E m \in Yields(PacketEnd(n), Suffix2 + 1) :
         /\ shorts' = shorts + Cut(PacketEnd(n), Suffix2 + 1, m)
         /\ resync' = Related(PacketEnd(n), m)
    \* A suffix of twenty bytes is discarded by a read of sixteen.
    /\ taken' = PacketEnd(n) + (IF resync' \in {"suffix1", "suffix2"} THEN Suffix1 ELSE 0)
    /\ app' = IF resync' = "suffix2" THEN "fatal" ELSE "running"

\* No sync byte, or the packet it starts cannot be read in full.
NoPacketFound(n) ==
    /\ \/ FirstSync(n) = n
       \/ FirstSync(n) > 0 /\ PacketEnd(n) > Len(tape.sync)
       \/ FirstSync(n) > 0 /\ PacketEnd(n) > taken + n + 1 /\ shorts < MaxShort
    /\ app' = "fatal"
    /\ taken' = taken + n
    /\ shorts' = IF FirstSync(n) < n /\ PacketEnd(n) <= Len(tape.sync)
                 THEN shorts + 1 ELSE shorts
    /\ UNCHANGED resync

Resync(n) == NothingToSkip(n) \/ SkipToSync(n) \/ NoPacketFound(n)

-----------------------------------------------------------------------------
(***************************************************************************)
(* processInput, for the n bytes it has read.                              *)
(***************************************************************************)

\* On to the bytes behind.
GoOn(n, cut) ==
    /\ taken' = taken + n
    /\ shorts' = shorts + cut
    /\ UNCHANGED <<resync, app>>

GoodPacket(n, cut) ==
    /\ Parses(taken, n)
    /\ errors' = 0
    /\ packetSize' = IF packetSize = 0 THEN n ELSE packetSize
    /\ GoOn(n, cut)

\* Mutant: one error too many is allowed.
LastStrawLater == autosize /\ errors + 1 > ErrorLimit

LastStraw == autosize /\ errors + 1 >= ErrorLimit

\* Mutant: errors are not counted up.
BadPacketForgets(n, cut) ==
    /\ ~Parses(taken, n) /\ ~LastStraw
    /\ errors' = 0
    /\ GoOn(n, cut)
    /\ UNCHANGED packetSize

BadPacket(n, cut) ==
    /\ ~Parses(taken, n) /\ ~LastStraw
    /\ errors' = errors + 1
    /\ GoOn(n, cut)
    /\ UNCHANGED packetSize

GiveUpSize(n, cut) ==
    /\ ~Parses(taken, n) /\ LastStraw
    /\ errors' = 0
    /\ packetSize' = 0
    /\ IF packetSize > 0 THEN Resync(n) ELSE GoOn(n, cut)

\* What has been read is sent, not what a resync has made of it.  `cut' tells
\* of the look ahead that came before.
Process(n, cut) ==
    /\ GoodPacket(n, cut) \/ BadPacket(n, cut) \/ GiveUpSize(n, cut)
    /\ sent' = IF app' = "fatal" THEN sent ELSE Append(sent, Bytes(taken, n))
    /\ UNCHANGED <<tape, autosize>>

-----------------------------------------------------------------------------
(***************************************************************************)
(* processInput: what it reads.                                            *)
(***************************************************************************)

ReadSize == IF packetSize = 0 THEN Basic ELSE packetSize

Fatal ==
    /\ app' = "fatal"
    /\ UNCHANGED <<tape, autosize, taken, packetSize, errors, sent, shorts, resync>>

Skip(n, cut) ==
    /\ taken' = taken + n
    /\ shorts' = shorts + cut
    /\ UNCHANGED <<tape, autosize, packetSize, errors, sent, resync, app>>

Closed ==
    /\ Len(tape.sync) = taken
    /\ app' = "closed"
    /\ UNCHANGED <<tape, autosize, taken, packetSize, errors, sent, shorts, resync>>

\* A read that yields less: what it has yielded is dropped.
Desync ==
    \E n \in Yields(taken, ReadSize) :
      /\ n \in 1 .. ReadSize - 1
      /\ Skip(n, Cut(taken, ReadSize, n))

FullRead == ReadSize \in Yields(taken, ReadSize)

KnownSize ==
    /\ packetSize # 0
    /\ FullRead
    /\ Process(packetSize, 0)

\* Mutant: the suffix lengths are mixed up.
LengthSwapped(m) ==
    LET next == taken + Basic
    IN  IF m <= Suffix2                 THEN Basic
        ELSE IF SyncAt(next)            THEN Basic
        ELSE IF SyncAt(next + Suffix1)  THEN Basic + Suffix2
        ELSE IF SyncAt(next + Suffix2)  THEN Basic + Suffix1
        ELSE 0

\* The length of a packet with a sync byte, by m bytes looked ahead at behind
\* it; 0 if they do not tell.
Length(m) ==
    LET next == taken + Basic
    IN  IF m <= Suffix2                 THEN Basic
        ELSE IF SyncAt(next)            THEN Basic
        ELSE IF SyncAt(next + Suffix1)  THEN Basic + Suffix1
        ELSE IF SyncAt(next + Suffix2)  THEN Basic + Suffix2
        ELSE 0

\* At an unknown packet size: a sync byte first.
SyncFirst ==
    /\ packetSize = 0
    /\ FullRead
    /\ SyncAt(taken)
    /\ \E m \in Yields(taken + Basic, Basic) :
         IF Length(m) = 0 THEN Fatal ELSE Process(Length(m), Cut(taken + Basic, Basic, m))

\* At an unknown packet size: a time code first.
PrefixFirst ==
    /\ packetSize = 0
    /\ FullRead
    /\ ~SyncAt(taken)
    /\ SyncAt(taken + Prefix)
    /\ \E m \in Yields(taken + Basic, Prefix) :
         IF m = Prefix
         THEN Process(Basic + Prefix, 0)
         ELSE Skip(Basic + m, Cut(taken + Basic, Prefix, m))

SyncNowhere ==
    /\ packetSize = 0
    /\ FullRead
    /\ ~SyncAt(taken) /\ ~SyncAt(taken + Prefix)
    /\ Fatal

Next ==
    /\ app = "running"
    /\ Closed \/ Desync \/ KnownSize \/ SyncFirst \/ PrefixFirst \/ SyncNowhere

Spec == Init /\ [][Next]_vars

-----------------------------------------------------------------------------
(***************************************************************************)
(* Properties.                                                             *)
(***************************************************************************)

\* The types of the variables; only autosizing changes the packet size, only to
\* one that TSPacket takes, and it bounds the row of errors.
TypeOK ==
    /\ tape \in Tape
    /\ autosize \in BOOLEAN
    /\ taken \in 0 .. Len(tape.sync)
    /\ packetSize \in IF autosize THEN {0, Basic, Basic + Prefix} ELSE GivenSizes \ {0}
    /\ errors \in Nat /\ (autosize => errors < ErrorLimit)
    /\ sent \in Seq(Seq(1 .. Len(tape.sync)))
    /\ shorts \in 0 .. MaxShort
    /\ resync \in Findings
    /\ app \in {"running", "closed", "fatal"}

\* What of a stream's i-th packet has been sent whole.  The suffix of the very
\* last packet goes unnoticed, there being no packet behind it.
Forwarded(bytes, i) ==
    \/ bytes = PacketOf(tape, i)
    \/ /\ tape.size > Basic + Prefix /\ i = Len(tape.starts)
       /\ bytes = SubSeq(PacketOf(tape, i), 1, Basic)

SyncOffset == IF tape.size = Basic + Prefix THEN Prefix ELSE 0
Damaged(i) == ~SyncAt(tape.starts[i] + SyncOffset)
Failing(i) == ~Sound(tape.starts[i] + SyncOffset)
Lost(i)    == ~ \E k \in DOMAIN sent : Forwarded(sent[k], i)
Gaps == {i \in 2 .. Len(tape.starts) : tape.starts[i] # tape.starts[i - 1] + tape.size}

\* Packets one behind the other, and behind them at most the beginning of another one.
Gapless ==
    LET end == tape.starts[Len(tape.starts)] + tape.size
    IN  /\ tape.starts # <<>> /\ tape.starts[1] = 0 /\ Gaps = {}
        /\ \A i \in DOMAIN tape.starts : tape.starts[i] + tape.size <= Len(tape.sync)
        /\ Len(tape.sync) < end + Basic
        /\ Len(tape.sync) > end + SyncOffset => SyncAt(end + SyncOffset) \/ ~autosize

\* The size is still to be found out behind n packets: none of them could be parsed,
\* or they have a suffix, with which none ever can.
Untold(n) == tape.size > Basic + Prefix \/ \A i \in 1 .. n : Failing(i)

\* No sync byte is damaged where the size is told by it, that of the packet and that
\* of the next one; and of the packets that could be parsed fewer fail in a row, for
\* whichever reason, than make a resync.
SoundEnough ==
    \A i \in DOMAIN tape.starts :
      /\ Untold(i - 2) => ~Damaged(i)
      /\ tape.size <= Basic + Prefix =>
           \E j \in i .. i + ErrorLimit - 1 : j \in DOMAIN tape.starts => ~Failing(j)

\* No other byte is a sync byte where one is looked for to tell the size.
Telling ==
    /\ tape.size \in {Basic, Basic + Prefix, Basic + Suffix1, Basic + Suffix2}
    /\ tape.size = Basic + Prefix =>
         \A i \in DOMAIN tape.starts : Untold(i - 1) => ~SyncAt(tape.starts[i])
    /\ tape.size > Basic + Prefix =>
         \A i \in DOMAIN tape.starts :
           /\ ~SyncAt(tape.starts[i] + Basic)
           /\ tape.size = Basic + Suffix2 => ~SyncAt(tape.starts[i] + Basic + Suffix1)

\* Streams whose packets are all in their places: of the size given, whatever they
\* are made of and whichever of them are damaged or broken; or of any size to be
\* detected.
Steady == Gapless /\ IF autosize THEN SoundEnough /\ Telling ELSE tape.size = packetSize

\* As long as no read comes short, the packets of such a stream are sent one by
\* one from the first one on, whole; none is left when the input has ended, and
\* the server goes on.
PacketsForwarded ==
    shorts = 0 /\ Steady =>
      /\ app # "fatal"
      /\ Len(sent) <= Len(tape.starts)
      /\ \A k \in DOMAIN sent : Forwarded(sent[k], k)
      /\ app = "closed" => Len(sent) = Len(tape.starts)

\* Behind missing bytes, or a read that came short, the server finds the packets
\* again if it does not give up: the packets up to the resync are lost, the one
\* the resync looks at, and one more to each side of the gap.
LossBounded ==
    autosize /\ app = "closed" /\ (\A i \in DOMAIN tape.starts : ~Damaged(i)) =>
      Cardinality({i \in DOMAIN tape.starts : Lost(i)})
        <= (ErrorLimit + 3) * (Cardinality(Gaps) + shorts)

\* A resync gets over a suffix of either length ("Need to read & discard 20
\* additional bytes...", streamserver.cpp:535).
SuffixDiscarded == resync \in {"suffix1", "suffix2"} => app # "fatal"
=============================================================================

------------------------------ MODULE TsReader ------------------------------
(***************************************************************************)
(* TS::Reader of libmedia: cuts a byte stream into TS packets, detecting   *)
(* the packet size and getting back into step after corruption.  readData  *)
(* is one uninterrupted run of program steps per notification: read one    *)
(* more packet's worth, then drain packets as long as checkIsReady allows. *)
(* `pc' names the step; checkIsReady's own loop is one action per round,   *)
(* since whether it ends is a question about this code.                    *)
(*                                                                         *)
(* A byte is its position on the tape, or 0 for one that resync made up;   *)
(* all that matters of its value is whether it is the sync byte.           *)
(***************************************************************************)
EXTENDS TsTapes

CONSTANTS
    Basic,          \* PacketV2::sizeBasic, TSPacket::lengthBasic (188)
    Prefix,         \* length of a time code prefix (4)
    Suffixes,       \* lengths of an error correction suffix, as a sequence
    Detect,         \* packets to collect before the size is detected (16)
    Limit,          \* limitPacketCount (16)
    Tapes,          \* the inputs: which bytes are sync bytes, where packets are
    GivenSizes      \* packet sizes users may give; 0: none, it is detected

ASSUME SizeAssumption ==
    /\ Suffixes \in Seq(Nat)
    /\ Basic \in Nat /\ Prefix \in Nat /\ Detect \in Nat /\ Limit \in Nat
    /\ \A i \in DOMAIN Suffixes :
         Suffixes[i] # Prefix /\ Prefix + Basic + Suffixes[i] <= Detect * Basic
    /\ 0 < Prefix /\ Prefix < Basic
    /\ Detect <= Limit /\ 5 <= Limit
    /\ \A s \in GivenSizes : s = 0 \/ (s \in Nat /\ s >= Basic)

ASSUME TapesAssumption == Tapes \subseteq Tape

VARIABLES
    tape,           \* the device's content
    autosize,       \* _tsPacketAutosize
    taken,          \* bytes read from the device
    buf,            \* _buf
    packetSize,     \* _tsPacketSize
    size, prefix,   \* checkIsReady's bufPacketSize, bufPrefixLength
    emitted,        \* the packets tsPacketReady was emitted for
    pc              \* idle, read, check, drain; eof, failed

vars == <<tape, autosize, taken, buf, packetSize, size, prefix, emitted, pc>>

TypeOK ==
    /\ tape \in Tapes
    /\ autosize \in BOOLEAN
    /\ taken \in 0 .. Len(tape.sync)
    /\ buf \in Seq(0 .. taken)
    /\ packetSize \in Nat
    /\ size \in Nat /\ prefix \in {0, Prefix}
    /\ emitted \in Seq(Seq(0 .. taken))
    /\ pc \in {"idle", "read", "check", "drain", "eof", "failed"}

\* tsPacketSizeEffective, and the prefix length that goes with a packet size.
Effective(s) == IF s >= Basic THEN s ELSE Basic
PrefixOf(s)  == IF s = Prefix + Basic THEN Prefix ELSE 0

Init ==
    /\ tape \in Tapes
    /\ taken = 0
    /\ buf = <<>>
    /\ packetSize \in GivenSizes
    /\ autosize = (packetSize = 0)
    /\ size = Basic
    /\ prefix = 0
    /\ emitted = <<>>
    /\ pc = "idle"

IsSync(b) == b # 0 /\ tape.sync[b]

\* The loop of checkIsReady(size, prefix): the packets in bytes w, and those of
\* them with a sync byte where it should be.
PacketCount(w, s)  == Len(w) \div s
SyncCount(w, s, p) == Cardinality({k \in 0 .. PacketCount(w, s) - 1 : IsSync(w[k * s + p + 1])})
\* Mutants: all of them have to be, or none.
AllInSync(s, p)  == SyncCount(buf, s, p) >= PacketCount(buf, s)
NoneInSync(s, p) == SyncCount(buf, s, p) >= 0
MostlyInSync(s, p) == SyncCount(buf, s, p) * 100 >= PacketCount(buf, s) * 60

-----------------------------------------------------------------------------
(***************************************************************************)
(* readData.                                                               *)
(***************************************************************************)

\* The notifier's activated() signal.
Activated ==
    /\ pc = "idle"
    /\ pc' = "read"
    /\ UNCHANGED <<tape, autosize, taken, buf, packetSize, size, prefix,
                   emitted>>

\* The bytes missing to the next full packet.
Missing ==
    LET s == Effective(packetSize)
    IN  (Len(buf) \div s + 1) * s - Len(buf)

\* Mutant: what is read is not counted.
TakeUncounted(n) ==
    /\ buf' = buf \o [i \in 1 .. n |-> taken + i]
    /\ UNCHANGED <<tape, autosize, taken, packetSize, emitted>>

Take(n) ==
    /\ buf' = buf \o [i \in 1 .. n |-> taken + i]
    /\ taken' = taken + n
    /\ UNCHANGED <<tape, autosize, packetSize, emitted>>

\* A call of checkIsReady() begins.
EnterCheck(s) ==
    /\ pc' = "check"
    /\ size' = Effective(s)
    /\ prefix' = PrefixOf(Effective(s))

ReadFull ==
    /\ pc = "read"
    /\ taken + Missing <= Len(tape.sync)
    /\ Take(Missing)
    /\ EnterCheck(packetSize)

\* readData returns without another look at the buffer.
ReadShort ==
    /\ pc = "read"
    /\ \E n \in 1 .. Missing - 1 : taken + n <= Len(tape.sync) /\ Take(n)
    /\ pc' = "idle"
    /\ UNCHANGED <<size, prefix>>

ReadEnds ==
    /\ pc = "read"
    /\ \/ taken = Len(tape.sync) /\ pc' = "eof"
       \/ pc' = "failed"
    /\ UNCHANGED <<tape, autosize, taken, buf, packetSize, size, prefix,
                   emitted>>

-----------------------------------------------------------------------------
(***************************************************************************)
(* checkIsReady(): one round of its loop.                                  *)
(***************************************************************************)

RunsOut ==
    /\ pc = "check"
    /\ Len(buf) < size
    /\ pc' = "read"
    /\ UNCHANGED <<tape, autosize, taken, buf, packetSize, size, prefix,
                   emitted>>

\* Running at some packet size, and not for too long without packets.
KeepsSize ==
    /\ pc = "check"
    /\ Len(buf) >= size
    /\ packetSize # 0
    /\ PacketCount(buf, size) <= Limit
    /\ pc' = IF MostlyInSync(size, prefix) THEN "drain" ELSE "read"
    /\ UNCHANGED <<tape, autosize, taken, buf, packetSize, size, prefix,
                   emitted>>

LooksFurther ==
    /\ pc = "check"
    /\ Len(buf) >= size
    /\ packetSize # 0 => PacketCount(buf, size) > Limit

\* Auto-detection waits for enough bytes.
DetectLater ==
    /\ LooksFurther
    /\ autosize
    /\ Len(buf) < Detect * Basic
    /\ packetSize' = 0
    /\ pc' = "read"
    /\ UNCHANGED <<tape, autosize, taken, buf, size, prefix, emitted>>

\* The candidates in the order they are tried, as <<prefix, packet size>>.
Candidate ==
    LET n == Len(Suffixes)
    IN  [i \in 1 .. 2 * n |->
           IF i <= n THEN <<0, Basic + Suffixes[i]>>
                     ELSE <<Prefix, Prefix + Basic + Suffixes[i - n]>>]

Syncs(w, i)   == SyncCount(w, Candidate[i][2], Candidate[i][1])
Packets(w, i) == PacketCount(w, Candidate[i][2])

\* score(i) > score(j), as fractions
Beats(w, i, j) == Syncs(w, i) * Packets(w, j) > Syncs(w, j) * Packets(w, i)

\* The first candidate with the best score.
IsBest(w, i) ==
    /\ i \in DOMAIN Candidate
    /\ \A j \in DOMAIN Candidate : ~Beats(w, j, i)
    /\ \A j \in 1 .. i - 1 : Beats(w, i, j)

\* Mutant: any score will do.
AnyScore(w, i) == Syncs(w, i) >= 0

GoodEnough(w, i) == 2 * Syncs(w, i) >= Packets(w, i)

\* TSPacket (V1) knows a prefix only without a suffix; the size stays set.
DetectWinner ==
    /\ LooksFurther
    /\ autosize
    /\ Len(buf) >= Detect * Basic
    /\ \E i \in DOMAIN Candidate :
         /\ IsBest(buf, i) /\ GoodEnough(buf, i)
         /\ packetSize' = Candidate[i][2]
         /\ size' = Candidate[i][2]
         /\ prefix' = Candidate[i][1]
    /\ pc' = IF prefix' = 0 \/ size' = Prefix + Basic THEN "drain" ELSE "failed"
    /\ UNCHANGED <<tape, autosize, taken, buf, emitted>>

\* Detection that failed has still changed checkIsReady's idea of the size.
FailedDetection ==
    /\ autosize
    /\ Len(buf) >= Detect * Basic
    /\ packetSize' = 0
    /\ \E i \in DOMAIN Candidate :
         /\ IsBest(buf, i) /\ ~GoodEnough(buf, i)
         /\ IF Syncs(buf, i) > 0
              THEN size' = Candidate[i][2] /\ prefix' = Candidate[i][1]
              ELSE UNCHANGED <<size, prefix>>

NeedsResync ==
    /\ LooksFurther
    /\ \/ FailedDetection
       \/ ~autosize /\ UNCHANGED <<packetSize, size, prefix>>

\* Of bytes w, counted from 0, the i-th one is the first sync byte from `from' on.
FirstSync(w, from, i) ==
    /\ from <= i
    /\ IsSync(w[i + 1])
    /\ \A j \in from .. i - 1 : ~IsSync(w[j + 1])

\* The first sync byte, and the first one at least a packet behind it.
SyncsAt(w, first, second) == FirstSync(w, 0, first) /\ FirstSync(w, first + Basic, second)

WithSuffix == {Basic + Suffixes[i] : i \in DOMAIN Suffixes}

Drop(n) == SubSeq(buf, n + 1, Len(buf))

\* Two sync bytes a packet apart: drop what is before the first of them, or
\* make up the prefix the first packet lacks.
ResyncDrops ==
    /\ NeedsResync
    /\ \E first, second \in 0 .. Len(buf) - 1 :
         /\ SyncsAt(buf, first, second)
         /\ \/ second - first \in WithSuffix /\ buf' = Drop(first)
            \/ /\ second - first = Basic + Prefix
               /\ buf' = IF first >= Prefix THEN Drop(first - Prefix)
                         ELSE [i \in 1 .. Prefix - first |-> 0] \o buf
    /\ UNCHANGED <<tape, autosize, taken, emitted, pc>>

ResyncGivesUp ==
    /\ NeedsResync
    /\ ~ \E first, second \in 0 .. Len(buf) - 1 :
         /\ SyncsAt(buf, first, second)
         /\ second - first \in WithSuffix \cup {Basic + Prefix}
    /\ pc' = "drain"
    /\ UNCHANGED <<tape, autosize, taken, buf, emitted>>

-----------------------------------------------------------------------------
(***************************************************************************)
(* drainBuffer.                                                            *)
(***************************************************************************)

\* Mutant: the packet that is emitted stays in the buffer.
EmitOnly(s) == emitted' = Append(emitted, SubSeq(buf, 1, s)) /\ UNCHANGED buf

\* The packet at the front of the buffer is emitted and leaves it.
Emit(s) ==
    /\ emitted' = Append(emitted, SubSeq(buf, 1, s))
    /\ buf' = Drop(s)

Drain ==
    /\ pc = "drain"
    /\ LET s == Effective(packetSize)
       IN  IF Len(buf) < s
             THEN /\ pc' = "read"
                  /\ UNCHANGED <<buf, size, prefix, emitted>>
             ELSE Emit(s) /\ EnterCheck(packetSize)
    /\ UNCHANGED <<tape, autosize, taken, packetSize>>

-----------------------------------------------------------------------------
Step ==
    \/ RunsOut \/ KeepsSize \/ DetectLater \/ DetectWinner
    \/ ResyncDrops \/ ResyncGivesUp \/ Drain

Next == Activated \/ ReadFull \/ ReadShort \/ ReadEnds \/ Step

\* A program that runs takes its next step.
Spec     == Init /\ [][Next]_vars
FairSpec == Spec /\ WF_vars(Step)
-----------------------------------------------------------------------------
(***************************************************************************)
(* Properties.                                                             *)
(***************************************************************************)

\* The packets that are really on the tape.
TapePacket(i) == PacketOf(tape, i)
OnTape        == DOMAIN tape.starts
HasSync(i)    == \E b \in 1 .. tape.size : tape.sync[tape.starts[i] + b]

\* Where a packet has its sync byte.
SyncOffset   == IF tape.size = Basic + Prefix THEN Prefix ELSE 0
SyncPlace(i) == tape.starts[i] + SyncOffset + 1

\* The packets are of the size in use, if one is given.
KnownPackets == autosize \/ packetSize = tape.size

\* Packets one behind the other, behind them at most the beginning of another one.
InPlace ==
    /\ OnTape # {}
    /\ \A i \in OnTape : /\ tape.starts[i] = tape.starts[1] + (i - 1) * tape.size
                         /\ tape.starts[i] + tape.size <= Len(tape.sync)
    /\ Len(tape.sync) < tape.starts[1] + Len(tape.starts) * tape.size + Basic

\* At most two of them are damaged, and there is no sync byte but theirs.
Sound ==
    /\ \A b \in DOMAIN tape.sync : tape.sync[b] => \E i \in OnTape : b = SyncPlace(i)
    /\ Cardinality({i \in OnTape : ~tape.sync[SyncPlace(i)]}) <= 2

\* The bytes behind position o that detection looks at.
Window(o) == [b \in 1 .. Detect * Basic |-> o + b]

\* On bytes w candidate i is the first of the best, and half of the packets have
\* their sync byte.
Tells(w, i) == IsBest(w, i) /\ 2 * Syncs(w, i) >= Packets(w, i)

\* The size can be told: on the first packets it scores best, and well enough.
\* On bytes before them no size does, and a resync finds the first two packets.
Telling ==
    LET start == tape.starts[1]
        sync  == start + SyncOffset
    IN  /\ start + Detect * Basic <= Len(tape.sync)
        /\ \E i \in DOMAIN Candidate :
             /\ Candidate[i] = <<SyncOffset, tape.size>>
             /\ Tells(Window(start), i)
        /\ start > 0 =>
             /\ sync + tape.size < Detect * Basic /\ SyncsAt(Window(0), sync, sync + tape.size)
             /\ ~ \E i \in DOMAIN Candidate : Tells(Window(0), i)

Regular == InPlace /\ Sound /\ Telling

\* Whatever the chunks the device hands out, and although detecting the size,
\* waiting for sync bytes and dropping garbage all work on the same buffer: the
\* packets emitted are those on the tape, one after the other, from the first
\* one on.  A damaged sync byte costs neither the packet nor its neighbours.
PacketsIntact ==
    autosize /\ Regular =>
        \A i \in DOMAIN emitted : i \in OnTape /\ emitted[i] = TapePacket(i)

\* When the input has ended, the packets that have not been emitted are fewer
\* than checkIsReady would want to see more of (tsreader.cpp:620), so a stream
\* whose last packets are in order has been emitted whole.
NothingHeldBack ==
    pc = "eof" /\ autosize /\ Regular =>
        LET held == OnTape \ DOMAIN emitted
        IN  held # {} =>
              100 * Cardinality({i \in held : HasSync(i)}) < 60 * Cardinality(held)

\* Where bytes are missing or too many, what is emitted is out of step with the
\* tape, and the reader gets back into step within as many packets as it is
\* ready to look at (tsreader.cpp:361): no more than that are lost.
LossBounded ==
    pc = "eof" /\ KnownPackets =>
        Cardinality({i \in OnTape : \A e \in DOMAIN emitted :
                                      emitted[e] # TapePacket(i)}) <= Limit + 1

\* A byte is emitted once, and in its place: what resync drops is gone, what it
\* makes up stands in front of a packet.
BytesInOrder ==
    \A e \in DOMAIN emitted :
        /\ \A i \in 1 .. Len(emitted[e]) - 1 :
             emitted[e][i] < emitted[e][i + 1] \/ emitted[e][i + 1] = 0
        /\ e > 1 => \A i \in DOMAIN emitted[e] :
                      \/ emitted[e][i] > emitted[e - 1][Len(emitted[e - 1])]
                      \/ emitted[e][i] = 0

\* A call of readData returns: checkIsReady's rounds and the draining end, "until
\* we run out of buffer bytes" (tsreader.cpp:570).
ReadReturns == pc \in {"check", "drain"} ~> pc \notin {"check", "drain"}
=============================================================================

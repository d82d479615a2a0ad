------------------------------ MODULE PacketV2 ------------------------------
(***************************************************************************)
(* TS::PacketV2, its parser and its generator: from bytes to a packet, and *)
(* from a packet to bytes, both through a BitStream.                       *)
(*                                                                         *)
(* A packet is its fields, each a sequence of bits with the most           *)
(* significant one first, and its arrays of bytes.  As a field has as many *)
(* bits as its width says, the generator's checks of ranges cannot fail.   *)
(***************************************************************************)
EXTENDS BitStream

CONSTANT SizeBasic      \* sizeBasic (188)

ASSUME SizeAssumption == SizeBasic \in Nat \ 0 .. 5 /\ ByteBits = 8

Zero(width) == [i \in 1 .. width |-> 0]
Ones(width) == [i \in 1 .. width |-> 1]

Number(bits) ==
    LET upTo[k \in 0 .. Len(bits)] == IF k = 0 THEN 0 ELSE 2 * upTo[k - 1] + bits[k]
    IN  upTo[Len(bits)]

SyncByteFixedValue == <<0, 1, 0, 0, 0, 1, 1, 1>>
PidNullPacket      == Ones(13)
Reserved1          == [control |-> <<0, 0>>, scrambling |-> <<0, 1>>]

-----------------------------------------------------------------------------
(***************************************************************************)
(* The fields, in the order of the packet, and the packet before anything  *)
(* is parsed into it.                                                      *)
(***************************************************************************)
PidLayout ==
    <<"transportErrorIndicator", "payloadUnitStartIndicator", "transportPriority", "pid">>

ControlLayout ==
    <<"transportScramblingControl", "adaptationFieldControl", "continuityCounter">>

FlagLayout ==
    <<"discontinuityIndicator", "randomAccessIndicator", "elementaryStreamPriorityIndicator",
      "pcrFlag", "opcrFlag", "splicingPointFlag", "transportPrivateDataFlag",
      "adaptationFieldExtensionFlag">>

PcrLayout  == <<"pcrBase", "pcrReserved1", "pcrExtension">>
OpcrLayout == <<"opcrBase", "opcrReserved1", "opcrExtension">>

\* How many bits each field has.
Width ==
    [ syncByte |-> 8,
      transportErrorIndicator |-> 1, payloadUnitStartIndicator |-> 1,
      transportPriority |-> 1, pid |-> 13,
      transportScramblingControl |-> 2, adaptationFieldControl |-> 2, continuityCounter |-> 4,
      adaptationFieldLength |-> 8,
      discontinuityIndicator |-> 1, randomAccessIndicator |-> 1,
      elementaryStreamPriorityIndicator |-> 1, pcrFlag |-> 1, opcrFlag |-> 1,
      splicingPointFlag |-> 1, transportPrivateDataFlag |-> 1,
      adaptationFieldExtensionFlag |-> 1,
      pcrBase |-> 33, pcrReserved1 |-> 6, pcrExtension |-> 9,
      opcrBase |-> 33, opcrReserved1 |-> 6, opcrExtension |-> 9,
      spliceCountdown |-> 8,
      transportPrivateDataLength |-> 8, adaptationFieldExtensionLength |-> 8 ]

Default ==
    [ fields |-> [name \in DOMAIN Width |->
                    CASE name = "syncByte"                            -> SyncByteFixedValue
                      [] name \in {"pid", "pcrReserved1", "opcrReserved1"} -> Ones(Width[name])
                      [] OTHER                                        -> Zero(Width[name])],
      arrays |-> [name \in {"transportPrivateData", "adaptationFieldExtension",
                            "stuffing", "payload"} |-> <<>>] ]

IsSyncByteFixedValue(packet) == packet.fields.syncByte = SyncByteFixedValue
IsNullPacket(packet)         == packet.fields.pid = PidNullPacket
HasAdaptationField(packet)   == packet.fields.adaptationFieldControl \in {<<1, 0>>, <<1, 1>>}
HasPayload(packet)           == packet.fields.adaptationFieldControl \in {<<0, 1>>, <<1, 1>>}
IsReserved(packet) ==
    \/ packet.fields.transportScramblingControl = Reserved1.scrambling
    \/ packet.fields.adaptationFieldControl = Reserved1.control

Set(packet, flag)       == packet.fields[flag] = <<1>>
FieldLength(packet)     == Number(packet.fields.adaptationFieldLength)
PayloadLength(packet) ==
    SizeBasic - 4 - (IF HasAdaptationField(packet) THEN FieldLength(packet) + 1 ELSE 0)

-----------------------------------------------------------------------------
(***************************************************************************)
(* PacketV2Parser.  A state is the source, the packet so far and whether   *)
(* nothing has gone wrong; once something has, nothing more happens.       *)
(***************************************************************************)
BitsLeft(s) == s.left + ByteBits * BytesLeft(s)

TakeBits(source, width) ==
    LET after[k \in 0 .. width] ==
          IF k = 0 THEN [source |-> source, bits |-> <<>>]
          ELSE LET before == after[k - 1]
               IN  [source |-> TakeBit(before.source),
                    bits |-> Append(before.bits, BitTaken(before.source))]
    IN  after[width]

WithField(state, name, taken) ==
    [state EXCEPT !.source = taken.source, !.packet.fields[name] = taken.bits]

TakeField(state, name) ==
    IF ~state.ok                                 THEN state
    ELSE IF Width[name] > BitsLeft(state.source) THEN [state EXCEPT !.ok = FALSE]
    ELSE WithField(state, name, TakeBits(state.source, Width[name]))

TakeFields(state, layout) ==
    LET after[k \in 0 .. Len(layout)] ==
          IF k = 0 THEN state
          ELSE LET before == after[k - 1] IN TakeField(before, layout[k])
    IN  after[Len(layout)]

\* takeByteArrayAligned into an array of the packet.
TakeBytes(state, name, count) ==
    IF ~state.ok                              THEN state
    ELSE IF ~CanTakeArray(state.source, count) THEN [state EXCEPT !.ok = FALSE]
    ELSE [state EXCEPT !.source = TakeArray(@, count),
                       !.packet.arrays[name] = ArrayTaken(state.source, count)]

\* Which is nothing if something has gone wrong before.
TakeFieldsIf(state, flag, layout) ==
    IF Set(state.packet, flag) THEN TakeFields(state, layout) ELSE state

\* A flag's field of bytes behind its length.
TakeBehindLength(state, length, name) ==
    TakeBytes(state, name, Number(state.packet.fields[length]))

TakeCounted(state, flag, length, name) ==
    IF Set(state.packet, flag) THEN TakeBehindLength(TakeField(state, length), length, name)
    ELSE state

\* What is behind the length of an adaptation field, from a source of its own.
ParseAdaptationFieldBytes(state) ==
    LET flags    == TakeFields(state, FlagLayout)
        pcr      == TakeFieldsIf(flags, "pcrFlag", PcrLayout)
        opcr     == TakeFieldsIf(pcr, "opcrFlag", OpcrLayout)
        splicing == TakeFieldsIf(opcr, "splicingPointFlag", <<"spliceCountdown">>)
        private  == TakeCounted(splicing, "transportPrivateDataFlag",
                                "transportPrivateDataLength", "transportPrivateData")
        further  == TakeCounted(private, "adaptationFieldExtensionFlag",
                                "adaptationFieldExtensionLength", "adaptationFieldExtension")
    IN  TakeBytes(further, "stuffing", -1)

\* With what has been parsed of a source of its own, which has to be used up.
Enclosed(state, count, inner) ==
    [inner EXCEPT !.source = TakeArray(state.source, count), !.ok = @ /\ AtEnd(inner.source)]

ParseAdaptationFieldOf(state, count) ==
    IF ~state.ok \/ count = 0                  THEN state
    ELSE IF ~CanTakeArray(state.source, count) THEN [state EXCEPT !.ok = FALSE]
    ELSE Enclosed(state, count, ParseAdaptationFieldBytes(
           [state EXCEPT !.source = Opened(ArrayTaken(state.source, count))]))

ParseLength(state) == ParseAdaptationFieldOf(state, FieldLength(state.packet))

ParseAdaptationField(state) == ParseLength(TakeField(state, "adaptationFieldLength"))

\* parsePacket, up to the PID, and from there on.
WithSync(state)    == [state EXCEPT !.ok = @ /\ IsSyncByteFixedValue(state.packet)]
NotReserved(state) == [state EXCEPT !.ok = @ /\ ~IsReserved(state.packet)]
UsedUp(state)      == [state EXCEPT !.ok = @ /\ AtEnd(state.source)]

ParseBegin(bytes) ==
    LET started == [source |-> Opened(bytes), packet |-> Default, ok |-> Len(bytes) = SizeBasic]
    IN  TakeFields(WithSync(TakeField(started, "syncByte")), PidLayout)

ParsePayload(state) ==
    IF HasPayload(state.packet) THEN TakeBytes(state, "payload", PayloadLength(state.packet))
    ELSE state

ParseBody(state) ==
    ParsePayload(IF HasAdaptationField(state.packet) THEN ParseAdaptationField(state) ELSE state)

ParseRest(state) == ParseBody(NotReserved(TakeFields(state, ControlLayout)))

IsNull(state) == state.ok /\ IsNullPacket(state.packet)

\* Mutant of ParsePacket: bytes behind the adaptation field are overlooked.
ParsePacketUpTo(begun) == IF IsNull(begun) THEN begun ELSE ParseRest(begun)

\* Of a null packet the rest is not looked at.
ParsePacket(begun) == IF IsNull(begun) THEN begun ELSE UsedUp(ParseRest(begun))

Parse(bytes) == ParsePacket(ParseBegin(bytes))

-----------------------------------------------------------------------------
(***************************************************************************)
(* PacketV2Generator.  A state is the sink and whether nothing has gone    *)
(* wrong.                                                                  *)
(***************************************************************************)
PutField(state, packet, name) ==
    LET bits == packet.fields[name]
        after[k \in 0 .. Len(bits)] ==
          IF k = 0 THEN state.sink
          ELSE LET before == after[k - 1] IN PutBit(before, bits[k])
    IN  IF ~state.ok THEN state
        ELSE IF Len(bits) > BitsLeft(state.sink) THEN [state EXCEPT !.ok = FALSE]
        ELSE [state EXCEPT !.sink = after[Len(bits)]]

PutFields(state, packet, layout) ==
    LET after[k \in 0 .. Len(layout)] ==
          IF k = 0 THEN state
          ELSE LET before == after[k - 1] IN PutField(before, packet, layout[k])
    IN  after[Len(layout)]

\* putByteArrayAligned of an array that has to have a length.
PutBytes(state, packet, name, length) ==
    LET array == packet.arrays[name]
    IN  IF ~state.ok THEN state
        ELSE IF Len(array) # length \/ ~CanPutArray(state.sink, array)
          THEN [state EXCEPT !.ok = FALSE]
        ELSE [state EXCEPT !.sink = PutArray(@, array)]

PutFieldsIf(state, packet, flag, layout) ==
    IF Set(packet, flag) THEN PutFields(state, packet, layout) ELSE state

PutCounted(state, packet, flag, length, name) ==
    IF ~Set(packet, flag) THEN state
    ELSE PutBytes(PutField(state, packet, length), packet, name, Number(packet.fields[length]))

GenerateAdaptationFieldBytes(length, packet) ==
    LET flags    == PutFields(length, packet, FlagLayout)
        pcr      == PutFieldsIf(flags, packet, "pcrFlag", PcrLayout)
        opcr     == PutFieldsIf(pcr, packet, "opcrFlag", OpcrLayout)
        splicing == PutFieldsIf(opcr, packet, "splicingPointFlag", <<"spliceCountdown">>)
        private  == PutCounted(splicing, packet, "transportPrivateDataFlag",
                               "transportPrivateDataLength", "transportPrivateData")
        further  == PutCounted(private, packet, "adaptationFieldExtensionFlag",
                               "adaptationFieldExtensionLength", "adaptationFieldExtension")
    IN  PutBytes(further, packet, "stuffing", Len(packet.arrays.stuffing))

\* As many bytes have been put as the length says.
Measured(state, begin, count) ==
    [state EXCEPT !.ok = @ /\ state.sink.offset - begin = count]

GenerateBehindLength(length, packet) ==
    IF ~length.ok \/ FieldLength(packet) = 0 THEN length
    ELSE Measured(GenerateAdaptationFieldBytes(length, packet), length.sink.offset,
                  FieldLength(packet))

GenerateAdaptationField(state, packet) ==
    GenerateBehindLength(PutField(state, packet, "adaptationFieldLength"), packet)

\* generatePacket, into zero bytes; of a null packet nothing is put behind the
\* PID.
PutPayload(state, packet) ==
    IF HasPayload(packet) THEN PutBytes(state, packet, "payload", PayloadLength(packet)) ELSE state

GenerateRest(state, packet) ==
    LET control == PutFields([state EXCEPT !.ok = @ /\ ~IsReserved(packet)], packet, ControlLayout)
    IN  PutPayload(IF HasAdaptationField(packet)
                   THEN GenerateAdaptationField(control, packet) ELSE control, packet)

GenerateBehindPid(pid, packet) == IF IsNullPacket(packet) THEN pid ELSE GenerateRest(pid, packet)

GenerateInto(started, packet) ==
    GenerateBehindPid(PutFields(PutField(started, packet, "syncByte"), packet, PidLayout), packet)

\* Mutant of Complete: as much as has been put is enough.
CompleteAnyway(state, packet) == state.ok

Complete(state, packet) ==
    state.ok /\ (IsNullPacket(packet) \/ state.sink.offset + 1 = SizeBasic)

\* Mutant of Output: the last byte that has been begun is missing.
OutputUnflushed(sink) == sink.bytes

\* bytes(), which flushes.
Output(sink) == Flushed(sink).bytes

GeneratedBytes(end, packet) ==
    [ok |-> Complete(end, packet),
     bytes |-> IF Complete(end, packet) THEN Output(end.sink) ELSE <<>>]

Generate(packet) ==
    GeneratedBytes(GenerateInto([sink |-> Opened([i \in 1 .. SizeBasic |-> ZeroByte]),
                                 ok |-> IsSyncByteFixedValue(packet)], packet), packet)
=============================================================================

--------------------------- MODULE MCForwardingV2 ---------------------------
(***************************************************************************)
(* ForwardingV2 for packets of twenty bytes, with a time code of one, on a *)
(* client that wants them stripped and one that does not.                  *)
(***************************************************************************)
EXTENDS ForwardingV2, PacketV2

CONSTANTS TimeCodePrefix, PcrRatio

V1 == INSTANCE PacketShapes WITH LengthBasic <- SizeBasic

\* Common packets: with a PCR behind a time code, and one that has the flag of a PCR
\* and no room for it, which counts as a PCR of 0.
CommonShapes ==
    <<[V1!Plain(4, FALSE) EXCEPT !.lead = TimeCodePrefix],
      [V1!Plain(1, FALSE) EXCEPT !.len = 1, !.lead = TimeCodePrefix]>>

\* Others that the layouts below do not have.
RareShapes ==
    <<[V1!Plain(1, FALSE) EXCEPT !.pid = V1!PIDNullPacket],
      [V1!Plain(1, FALSE) EXCEPT !.control = 1],
      [V1!Plain(1, FALSE) EXCEPT !.control = 1, !.scrambling = 1],
      [V1!Plain(1, FALSE) EXCEPT !.tail = 2],
      [V1!Plain(1, FALSE) EXCEPT !.control = 2, !.len = SizeBasic - 5],
      [V1!Plain(4, TRUE) EXCEPT !.control = 2, !.len = SizeBasic - 5, !.flags = {1, 3, 5}],
      [V1!Plain(1, FALSE) EXCEPT !.len = 9, !.flags = {1, 5}]>>

\* With private data of up to seven bytes, and without an extension behind them or with
\* one of up to one byte; without a payload, or with one behind up to one byte of
\* stuffing.
PrivateShapes ==
    [i \in 1 .. 72 |->
       LET extended == ((i - 1) \div 8) % 3
           kind     == (i - 1) \div 24
           s == [V1!Plain(4, FALSE) EXCEPT
                   !.flags     = {1, 4} \cup (IF extended > 0 THEN {5} ELSE {}),
                   !.private   = V1!Filling((i - 1) % 8, 3),
                   !.extension = V1!Filling(extended - 1, 64)]
       IN  IF kind = 0 THEN [s EXCEPT !.control = 2, !.len = SizeBasic - 5]
           ELSE [s EXCEPT !.len = V1!Needs(s, 5) + kind - 1]]

CommonPackets  == 1 .. 2
RarePackets    == 3 .. 9
PrivatePackets == 10 .. 81
FieldPackets   == 82 .. 81 + 32 * 18
HeaderPackets  == 82 + 32 * 18 .. 337 + 32 * 18

All ==
    UNION {CommonPackets, RarePackets, PrivatePackets, FieldPackets, HeaderPackets}

Shapes ==
    [p \in All |-> CASE p \in CommonPackets  -> CommonShapes[p]
                    [] p \in RarePackets    -> RareShapes[p - 2]
                    [] p \in PrivatePackets -> PrivateShapes[p - 9]
                    [] p \in FieldPackets   -> V1!FieldShapes[p - 81]
                    [] p \in HeaderPackets  -> V1!HeaderShapes[p - 81 - 32 * 18]]

ByteOf(n)      == [i \in 1 .. 8 |-> (n \div 2^(8 - i)) % 2]
BitsOf(bytes)  == [k \in DOMAIN bytes |-> ByteOf(bytes[k])]
Numbers        == [p \in All |-> V1!Build(Shapes[p])]
Lead           == [p \in All |-> Len(Numbers[p]) - SizeBasic]
Basic          == [p \in All |-> BitsOf(SubSeq(Numbers[p], Lead[p] + 1, Len(Numbers[p])))]

OneEach == <<0, TimeCodePrefix>>
-----------------------------------------------------------------------------
(***************************************************************************)
(* What the parser makes of the packets, and the generator of that.        *)
(***************************************************************************)
WithFlag(packet, flagged) ==
    IF flagged THEN [packet EXCEPT !.fields.discontinuityIndicator = <<1>>] ELSE packet

GeneratedOf(packet) == [flagged \in BOOLEAN |-> Generate(WithFlag(packet, flagged))]

\* A packet that is broken behind its flags may have the flag of a PCR and none.
PcrOf(packet) ==
    IF ~Set(packet, "pcrFlag") THEN NoPcr
    ELSE Number(packet.fields.pcrBase) * PcrRatio + Number(packet.fields.pcrExtension)

Parsed    == [p \in All |-> Parse(Basic[p])]
Generated == [p \in All |-> GeneratedOf(Parsed[p].packet)]

ContentMade(prefix, state, generated) ==
    [prefix |-> prefix, ok |-> state.ok, pcr |-> PcrOf(state.packet),
     generates |-> [flagged \in BOOLEAN |-> generated[flagged].ok]]

Contents == [p \in All |-> ContentMade(Lead[p], Parsed[p], Generated[p])]

-----------------------------------------------------------------------------
(***************************************************************************)
(* The reference: what the default build makes of the same bytes.          *)
(***************************************************************************)
InV1 == [p \in All |-> V1!TSPacket(Numbers[p])]

NullInV1(p) == V1!HasSync(Numbers[p]) /\ Shapes[p].pid = V1!PIDNullPacket

Seen == {e.packet.name : e \in Entries}

\* The two implementations of a packet agree.  PacketV2 only refuses the reserved
\* values and bytes behind an adaptation field without payload as well; of a
\* packet that both of them take, they find the same PCR, flag, stuffing and
\* payload.
Agree(s, null, v1, v2) ==
    /\ v2.ok <=> \/ null
                 \/ /\ ~v1.error
                    /\ s.scrambling # 1 /\ s.control # 0
                    /\ s.control = 2 => s.len = SizeBasic - 5
    /\ v2.ok /\ ~null =>
         /\ v1.af.pcr = (IF PcrOf(v2.packet) = NoPcr THEN V1!None ELSE PcrOf(v2.packet))
         /\ v1.af.di <=> Set(v2.packet, "discontinuityIndicator")
         /\ BitsOf(v1.af.stuffing) = v2.packet.arrays.stuffing
         /\ BitsOf(v1.payload) = v2.packet.arrays.payload

ParsedAsV1 ==
    \A p \in Seen : Agree(Shapes[p], NullInV1(p), InV1[p], Parsed[p])

\* The rows of arrays that stand behind a byte put bit by bit, each by the place of that
\* byte and how many bytes are in it: the private data, if the length of an extension
\* follows, and whatever is at the end of the packet.
ArrayRows(packet) ==
    LET private == Len(packet.arrays.transportPrivateData)
        end     == Len(packet.arrays.adaptationFieldExtension)
                     + Len(packet.arrays.stuffing) + Len(packet.arrays.payload)
        row(n, upTo) == [place |-> upTo - n, count |-> n]
    IN  IF Set(packet, "adaptationFieldExtensionFlag")
          THEN {row(private, SizeBasic - end - 1), row(end, SizeBasic)}
          ELSE {row(private + end, SizeBasic)}

\* Bytes in which the byte before each row has been put where the row ends: what was
\* there is lost, and zeros are in its own place.
Moved(bytes, rows) ==
    LET begin(k) == \E r \in rows : r.count > 0 /\ k = r.place
        last(k)  == {r \in rows : r.count > 0 /\ k = r.place + r.count}
    IN  [k \in DOMAIN bytes |-> IF begin(k) THEN ZeroByte
                              ELSE IF last(k) = {} THEN bytes[k]
                              ELSE bytes[(CHOOSE r \in last(k) : TRUE).place]]

\* A packet made anew is the one that was read, with the flag it has been given, but
\* for the byte before each row of arrays and the last one of the row.  Of a null
\* packet nothing but the header is there.
Damaged(e, packet, new) ==
    \/ IsNullPacket(packet)
    \/ new = Moved(IF e.bytes.flagged THEN [Basic[e.packet.name] EXCEPT ![6][1] = 1]
                   ELSE Basic[e.packet.name],
                   ArrayRows(packet))

\* Bytes can be made of every sound packet, with the flag and without; only a sound
\* packet is made anew; and the damage that does is bounded (tsprimitive.h:137): of each
\* row of arrays the last byte is lost to the one before the row, which is zero then,
\* and everything else is as it was read.
DamageBounded ==
    /\ \A p \in Seen : ContentOf[p].ok => \A f \in BOOLEAN : ContentOf[p].generates[f]
    /\ \A e \in Sent : ~e.bytes.asRead =>
         /\ e.packet.content.ok
         /\ Damaged(e, Parsed[e.packet.name].packet,
                    Generated[e.packet.name][e.bytes.flagged].bytes)
=============================================================================

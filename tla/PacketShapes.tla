---------------------------- MODULE PacketShapes ----------------------------
(***************************************************************************)
(* Packets of every layout, described by what they are to contain; their   *)
(* bytes are made from that.  The ones enumerated have room for all        *)
(* optional fields in about twenty bytes.                                  *)
(***************************************************************************)
EXTENDS TsPacket

\* A clock reference: 33 bits of base, 9 of extension.
Clocks == {c \in [base : Nat, extension : 0 .. 511] : c.base \div 33554432 <= 255}

ClockOf(value)    == [base |-> value \div PcrRatio, extension |-> value % PcrRatio]
ClockValue(c) == c.base * PcrRatio + c.extension

Datas == {d \in Seq(0 .. 255) : Len(d) <= 255}

\* A packet with the bytes `lead' before and `tail' behind it; `flags' are the
\* optional fields it has, `len' is the length its adaptation field claims, `rest'
\* follows these.  No suffix is as long as a time code.
PacketShape ==
    [ lead : {0, TimeCodePrefix}, tail : Nat \ {TimeCodePrefix}, sync : BOOLEAN,
      marks : 0 .. 7, pid : 0 .. 8191, scrambling : 0 .. 3, control : 0 .. 3, counter : 0 .. 15,
      len : 0 .. 255, di : BOOLEAN, priority : 0 .. 3, flags : SUBSET Fields,
      pcr : Clocks, opcr : Clocks, splice : 0 .. 255, private : Datas, extension : Datas,
      rest : {r \in Seq(0 .. 255) : Len(r) >= LengthBasic} ]

Filling(n, byte) == [i \in 1 .. n |-> byte]

PcrBytes(c) ==
    <<c.base \div 33554432, (c.base \div 131072) % 256, (c.base \div 512) % 256,
      (c.base \div 2) % 256,
      (c.base % 2) * 128 + 126 + c.extension \div 256, c.extension % 256>>

FieldBytes(s, k) ==
    CASE k = 1 -> PcrBytes(s.pcr)
      [] k = 2 -> PcrBytes(s.opcr)
      [] k = 3 -> <<s.splice>>
      [] k = 4 -> <<Len(s.private)>> \o s.private
      [] k = 5 -> <<Len(s.extension)>> \o s.extension

\* What is there of it.
Part(s, k) == IF k \in s.flags THEN FieldBytes(s, k) ELSE <<>>

FlagByte(s) ==
    LET flag(k) == IF k \in s.flags THEN 1 ELSE 0
    IN  (IF s.di THEN 128 ELSE 0) + 32 * s.priority
          + 16 * flag(1) + 8 * flag(2) + 4 * flag(3) + 2 * flag(4) + flag(5)

Header(s) ==
    <<IF s.sync THEN SyncByte ELSE 0, 32 * s.marks + s.pid \div 256, s.pid % 256,
      64 * s.scrambling + 16 * s.control + s.counter>>

FieldPart(s) ==
    IF s.control < 2 THEN <<>>
    ELSE <<s.len, FlagByte(s)>> \o Part(s, 1) \o Part(s, 2) \o Part(s, 3) \o Part(s, 4) \o Part(s, 5)

Contents(s) == Header(s) \o FieldPart(s) \o s.rest

Build(s) ==
    Filling(s.lead, 9) \o SubSeq(Contents(s), 1, LengthBasic) \o Filling(s.tail, 8)

-----------------------------------------------------------------------------
(***************************************************************************)
(* The ones enumerated: private data of no byte, an extension of one.      *)
(***************************************************************************)
Shape(lead, tail, sync, pid, control, len, di, flags, pcr) ==
    [lead |-> lead, tail |-> tail, sync |-> sync, marks |-> 0, pid |-> pid, scrambling |-> 2,
     control |-> control, counter |-> 0, len |-> len, di |-> di, priority |-> 0, flags |-> flags,
     pcr |-> ClockOf(pcr), opcr |-> ClockOf(1), splice |-> 128, private |-> <<>>,
     extension |-> <<64>>, rest |-> Filling(LengthBasic, 255)]

\* A plain packet with a PCR and a payload.
Plain(pcr, di) == Shape(0, 0, TRUE, 256, 3, 7, di, {1}, pcr)

\* Every choice of fields, for every length the field can have and some it cannot.
FieldShapes ==
    [i \in 1 .. 32 * 18 |->
       LET chosen == (i - 1) \div 18
       IN  Shape(0, 0, TRUE, 256, 3, (i - 1) % 18, FALSE,
                 {k \in Fields : Bit(chosen, Mask[k])}, 4)]

\* With any control and any additional info, as a null packet, without a sync byte.
HeaderShapes ==
    [i \in 1 .. 256 |->
       LET b(value) == Bit(i - 1, value)
       IN  Shape(IF b(1) THEN TimeCodePrefix ELSE 0, IF b(2) THEN 2 ELSE 0, b(4),
                 IF b(8) THEN PIDNullPacket ELSE 0, ((i - 1) \div 16) % 4,
                 IF b(64) THEN 7 ELSE 0, b(128), {1}, 4)]

-----------------------------------------------------------------------------
(***************************************************************************)
(* The reference: what a packet contains, by the lengths of its parts.     *)
(***************************************************************************)
IsPacket(s) == s.tail = 0 /\ s.sync
Carries(s)  == IsPacket(s) /\ s.pid # PIDNullPacket /\ s.control \in {2, 3}

\* How long the field is up to the end of its k-th part.
Needs(s, k) ==
    LET upTo(j) == IF j <= k THEN Len(Part(s, j)) ELSE 0
    IN  1 + upTo(1) + upTo(2) + upTo(3) + upTo(4) + upTo(5)

InPacket(s) == s.len <= LengthBasic - 5
Holds(s, k) == Carries(s) /\ InPacket(s) /\ k \in s.flags /\ Needs(s, k) <= s.len
Whole(s)    == Carries(s) => InPacket(s) /\ (s.len = 0 \/ Needs(s, 5) <= s.len)
=============================================================================

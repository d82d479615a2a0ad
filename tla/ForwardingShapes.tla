-------------------------- MODULE ForwardingShapes --------------------------
(***************************************************************************)
(* Forwarding of packets that have been built from a description, beside   *)
(* which what TSPacket finds in them can be put.                           *)
(***************************************************************************)
EXTENDS Forwarding, PacketShapes

CONSTANT Shapes     \* what each of the packets has been built from

ASSUME ShapesAssumption ==
    \A p \in FirstPackets : Shapes[p] \in PacketShape /\ BytesOf[p] = Build(Shapes[p])

\* The bytes from the i-th on, up to the j-th, that have been put into a packet.
Stretch(s, i, j) == SubSeq(Contents(s), i, j)

\* How many of them the header and the adaptation field take.
Used(s) == 4 + IF Carries(s) THEN 1 + s.len ELSE 0

\* An object that has what has been put into the packet: the fields that fit, none
\* behind the first that does not, the bytes that remain as stuffing and payload, and
\* an error exactly if something does not fit or is no packet.
PacketAsBuilt(s, p) ==
    /\ p.error <=> ~(IsPacket(s) /\ Whole(s))
    /\ \A k \in Fields : p.af.fields[k] = IF Holds(s, k) THEN FieldBytes(s, k) ELSE <<>>
    /\ p.af.pcr = IF Holds(s, 1) THEN ClockValue(s.pcr) ELSE None
    /\ p.af.di <=> s.di /\ Carries(s) /\ InPacket(s) /\ s.len > 0
    /\ p.af.stuffing = IF Carries(s) /\ Whole(s) /\ s.len > 0
                       THEN Stretch(s, 5 + Needs(s, 5) + 1, 5 + s.len) ELSE <<>>
    /\ p.payload = IF IsPacket(s) /\ Whole(s) /\ s.pid # PIDNullPacket /\ s.control \in {1, 3}
                   THEN Stretch(s, Used(s) + 1, LengthBasic) ELSE <<>>

\* What TSPacket finds in a packet, whatever has been put into it, is that
\* (tspacket.cpp:210).
ParsedAsBuilt == read # Nothing => PacketAsBuilt(Shapes[read], Parsed[read])
=============================================================================

------------------------------ MODULE TsPacket ------------------------------
(***************************************************************************)
(* TSPacket, the transport stream packet as an object: what its            *)
(* constructor makes of bytes, and how a changed adaptation field gets     *)
(* back into them.  Offsets are from 0, as in the code.                    *)
(***************************************************************************)
EXTENDS Integers, Sequences

CONSTANTS
    LengthBasic,        \* lengthBasic (188)
    TimeCodePrefix,     \* AdditionalInfoLengthType::TimeCodePrefix (4)
    PcrRatio            \* extensionResolutionHz / baseResolutionHz (300)

ASSUME LengthAssumption ==
    LengthBasic \in 6 .. 188 /\ TimeCodePrefix \in Nat \ {0} /\ PcrRatio \in Nat \ {0}

SyncByte      == 71
PIDNullPacket == 8191
LengthPCR     == 6
None          == -1         \* a null pointer, or what has never been set

Bit(byte, value) == (byte \div value) % 2 = 1

At(bytes, i) == bytes[i + 1]

\* QByteArray::mid, which yields what there is.
Mid(bytes, i, n) == SubSeq(bytes, i + 1, IF i + n <= Len(bytes) THEN i + n ELSE Len(bytes))

-----------------------------------------------------------------------------
(***************************************************************************)
(* TSPacket::ProgramClockReference, its value: 33 bits of base, 6 reserved *)
(* and 9 of extension.                                                     *)
(***************************************************************************)
PcrValue(bytes) ==
    LET base == At(bytes, 0) * 33554432 + At(bytes, 1) * 131072 + At(bytes, 2) * 512
                  + At(bytes, 3) * 2 + At(bytes, 4) \div 128
        extension == (At(bytes, 4) % 2) * 256 + At(bytes, 5)
    IN  base * PcrRatio + extension

-----------------------------------------------------------------------------
(***************************************************************************)
(* TSPacket::AdaptationField.  Its optional fields in their order: PCR,    *)
(* OPCR, splice countdown, private data, extension.                        *)
(***************************************************************************)
Fields == 1 .. 5

Mask == <<16, 8, 4, 2, 1>>

Flag(data, k) == Bit(At(data, 1), Mask[k])

\* Mutant of FieldLength: the length byte does not count itself.
FieldLengthShort(data, k, start) ==
    IF k <= 2 THEN LengthPCR ELSE IF k = 3 THEN 1 ELSE At(data, start)

\* Private data and extension begin with their length.
FieldLength(data, k, start) ==
    IF k <= 2 THEN LengthPCR ELSE IF k = 3 THEN 1 ELSE 1 + At(data, start)

Fits(data, k, start) ==
    start < Len(data) /\ start + FieldLength(data, k, start) <= Len(data)

\* Where each field ends, or None from the first field on that does not fit.
Ends(data) ==
    LET end[k \in 0 .. 5] ==
          IF k = 0 THEN 2
          ELSE LET start == end[k - 1]
               IN  IF start = None \/ ~Flag(data, k) THEN start
                   ELSE IF Fits(data, k, start) THEN start + FieldLength(data, k, start)
                   ELSE None
    IN  end

\* The object for a field without flags.  PCRFlag() is never set then; it is
\* read, and makes no difference because PCR() is null.
Flagless(data, error) ==
    [bytes |-> data, error |-> error, di |-> FALSE, pcr |-> None,
     fields |-> [k \in Fields |-> <<>>], stuffing |-> <<>>]

AdaptationField(data) ==
    IF data = <<>> \/ Len(data) # 1 + At(data, 0) THEN Flagless(data, TRUE)
    ELSE IF Len(data) = 1                         THEN Flagless(data, FALSE)
    ELSE LET end == Ends(data)
             field == [k \in Fields |->
                         IF Flag(data, k) /\ end[k] # None
                         THEN Mid(data, end[k - 1], end[k] - end[k - 1]) ELSE <<>>]
         IN  [bytes |-> data,
              error |-> end[5] = None,
              di |-> Bit(At(data, 1), 128),
              pcr |-> IF field[1] = <<>> THEN None ELSE PcrValue(field[1]),
              fields |-> field,
              stuffing |-> IF end[5] = None THEN <<>>
                           ELSE Mid(data, end[5], Len(data) - end[5])]

\* Throws on a field without flags.
CanSetDiscontinuityIndicator(af) == 1 < Len(af.bytes)

SetDiscontinuityIndicator(af, discontinuity) ==
    [af EXCEPT !.bytes[2] = (@ % 128) + (IF discontinuity THEN 128 ELSE 0),
               !.di = discontinuity]

-----------------------------------------------------------------------------
(***************************************************************************)
(* TSPacket.                                                               *)
(***************************************************************************)

\* _iSyncByte, which is left unset for a length that is not recognized.
ISyncByte(bytes) ==
    IF Len(bytes) = LengthBasic                       THEN 0
    ELSE IF Len(bytes) = LengthBasic + TimeCodePrefix THEN TimeCodePrefix
    ELSE None

HasSync(bytes) == ISyncByte(bytes) # None /\ At(bytes, ISyncByte(bytes)) = SyncByte

PID(bytes) ==
    (At(bytes, ISyncByte(bytes) + 1) % 32) * 256 + At(bytes, ISyncByte(bytes) + 2)

\* AdaptationFieldControlType: the lower bit is for the payload, the higher one
\* for the adaptation field.
Control(bytes) == (At(bytes, ISyncByte(bytes) + 3) \div 16) % 4

IAdaptationField(bytes) == ISyncByte(bytes) + 4

HasHeader(bytes) == HasSync(bytes) /\ PID(bytes) # PIDNullPacket
HasAdaptationField(bytes) == HasHeader(bytes) /\ Control(bytes) \in {2, 3}

\* The field's data end with the packet, and it does not match its length then.
AdaptationFieldOf(bytes) ==
    IF HasAdaptationField(bytes)
      THEN LET i == IAdaptationField(bytes)
           IN  AdaptationField(Mid(bytes, i, 1 + At(bytes, i)))
      ELSE Flagless(<<>>, FALSE)

Validity(bytes) ==
    IF ~HasSync(bytes)                        THEN "None"
    ELSE IF ~HasHeader(bytes)                 THEN "PID"
    ELSE IF AdaptationFieldOf(bytes).error    THEN "ContinuityCounter"
    ELSE IF Control(bytes) \in {1, 3}         THEN "PayloadData"
    ELSE IF Control(bytes) = 2                THEN "AdaptationField"
    ELSE "ContinuityCounter"

\* The packet as constructed.
TSPacket(bytes) ==
    LET af == AdaptationFieldOf(bytes)
        i  == IAdaptationField(bytes) + Len(af.bytes)
    IN  [bytes |-> bytes,
         error |-> ~HasSync(bytes) \/ af.error,
         validity |-> Validity(bytes),
         af |-> af,
         payload |-> IF Validity(bytes) = "PayloadData"
                     THEN Mid(bytes, i, Len(bytes)) ELSE <<>>]

\* Throws without an adaptation field, or if it has grown too long.
CanUpdateAdaptationfieldBytes(packet) ==
    /\ HasAdaptationField(packet.bytes)
    /\ IAdaptationField(packet.bytes) + Len(packet.af.bytes) <= Len(packet.bytes)

\* The adaptation field, copied back over the bytes it has been parsed from.
UpdateAdaptationfieldBytes(packet) ==
    LET i == IAdaptationField(packet.bytes)
    IN  [packet EXCEPT !.bytes =
           [k \in DOMAIN @ |-> IF k \in i + 1 .. i + Len(packet.af.bytes)
                               THEN packet.af.bytes[k - i] ELSE @[k]]]

\* Mutant: the basic packet is taken to be what comes first.
FirstBytes(bytes) == {Mid(bytes, 0, LengthBasic)}

\* What toBasicPacketBytes may yield: with _iSyncByte unset it reads an
\* uninitialized integer, and any stretch of the packet may come out.
ToBasicPacketBytes(bytes) ==
    IF ISyncByte(bytes) # None
      THEN {Mid(bytes, ISyncByte(bytes), LengthBasic)}
      ELSE {Mid(bytes, i, LengthBasic) : i \in 0 .. Len(bytes)}
             \cup {Mid(bytes, 0, n) : n \in 0 .. LengthBasic}
=============================================================================

----------------------------- MODULE BitStream -----------------------------
(***************************************************************************)
(* TS::BitStream, a source and sink of bits over an array of bytes.  A     *)
(* call is an operator from the stream before it to the stream after it;   *)
(* where the call may throw, an operator of its own says whether it does   *)
(* not, and the stream is left as the code leaves it either way.           *)
(*                                                                         *)
(* A byte is its bits, the most significant one first.  Offsets are from   *)
(* 0, as in the code.                                                      *)
(***************************************************************************)
EXTENDS Integers, Sequences

CONSTANT ByteBits       \* bits of a byte (8)

ASSUME ByteBitsAssumption == ByteBits \in Nat \ {0}

Bits     == {0, 1}
Byte     == [1 .. ByteBits -> Bits]
ZeroByte == [i \in 1 .. ByteBits |-> 0]

Stream ==
    [ bytes  : Seq(Byte),       \* _bytes
      dirty  : BOOLEAN,         \* _isDirty: cur has bits that bytes does not
      cur    : Byte,            \* _curByte
      offset : Int,             \* _offsetBytes, of the byte in cur
      left   : 0 .. ByteBits ]  \* _bitsLeft of it

Opened(bytes) ==
    [bytes |-> bytes, dirty |-> FALSE, cur |-> ZeroByte, offset |-> -1, left |-> 0]

BytesLeft(s) == Len(s.bytes) - (s.offset + 1)
AtEnd(s)     == s.left = 0 /\ BytesLeft(s) <= 0

\* Mutant of Flushed: the byte stays dirty.
FlushedStillDirty(s) ==
    IF s.dirty THEN [s EXCEPT !.bytes[s.offset + 1] = s.cur, !.cur = ZeroByte] ELSE s

\* flush().  It also forgets the byte, however many bits of it are left.
Flushed(s) ==
    IF s.dirty
      THEN [s EXCEPT !.bytes[s.offset + 1] = s.cur, !.cur = ZeroByte, !.dirty = FALSE]
      ELSE s

\* _nextByte(), which moves on even if it then throws.
CanAdvance(s) == s.offset + 1 < Len(s.bytes)

NextByte(s) ==
    LET f == Flushed(s)
    IN  IF CanAdvance(s)
          THEN [f EXCEPT !.offset = @ + 1, !.cur = f.bytes[s.offset + 2], !.left = ByteBits]
          ELSE [f EXCEPT !.offset = @ + 1]

\* The beginning of every call about bits: there is a byte to take them from.
CanLoad(s) == s.left > 0 \/ CanAdvance(s)
Loaded(s)  == IF s.left > 0 THEN s ELSE NextByte(s)

\* The bit that is next, once a byte is loaded.
Place(s) == ByteBits - s.left + 1

-----------------------------------------------------------------------------
(***************************************************************************)
(* takeBit, putBit, takeByteAligned.                                       *)
(***************************************************************************)
BitTaken(s) == Loaded(s).cur[Place(Loaded(s))]
TakeBit(s)  == IF CanLoad(s) THEN [Loaded(s) EXCEPT !.left = @ - 1] ELSE Loaded(s)

\* Mutant of PutBit: nobody is told that the byte has changed.
PutBitClean(s, bit) ==
    LET n == Loaded(s)
    IN  IF CanLoad(s) THEN [n EXCEPT !.cur[Place(n)] = bit, !.left = @ - 1] ELSE n

PutBit(s, bit) ==
    LET n == Loaded(s)
    IN  IF CanLoad(s)
          THEN [n EXCEPT !.cur[Place(n)] = bit, !.left = @ - 1, !.dirty = TRUE]
          ELSE n

\* Mutant of CanTakeByte: at any bit.
CanTakeByteUnaligned(s) == CanLoad(s)

CanTakeByte(s) == CanLoad(s) /\ Loaded(s).left = ByteBits
ByteTaken(s)   == Loaded(s).cur
TakeByte(s) ==
    IF CanTakeByte(s) THEN [Loaded(s) EXCEPT !.left = @ - ByteBits] ELSE Loaded(s)

-----------------------------------------------------------------------------
(***************************************************************************)
(* takeByteArrayAligned (of the rest, for a negative count) and            *)
(* putByteArrayAligned.  Neither looks at whether the current byte is      *)
(* dirty.                                                                  *)
(***************************************************************************)
CanTakeArray(s, count) == s.left = 0 /\ (count < 0 \/ count <= BytesLeft(s))

\* Mutant of ArrayTaken: one byte too few.
ArrayTakenShort(s, count) ==
    SubSeq(s.bytes, s.offset + 2,
           IF count < 0 THEN Len(s.bytes) ELSE s.offset + count)

ArrayTaken(s, count) ==
    SubSeq(s.bytes, s.offset + 2,
           IF count < 0 THEN Len(s.bytes) ELSE s.offset + 1 + count)

TakeArray(s, count) ==
    IF ~CanTakeArray(s, count) THEN s
    ELSE [s EXCEPT !.offset = IF count < 0 THEN Len(s.bytes) - 1 ELSE @ + count]

\* Mutant of CanPutArray: the last byte is not for arrays.
CanPutArrayBefore(s, array) ==
    s.left = 0 /\ (array = <<>> \/ Len(array) < BytesLeft(s))

CanPutArray(s, array) ==
    s.left = 0 /\ (array = <<>> \/ Len(array) <= BytesLeft(s))

\* The bytes from place i on, replaced.
Replaced(bytes, i, array) ==
    [k \in DOMAIN bytes |-> IF k \in i .. i + Len(array) - 1 THEN array[k - i + 1]
                            ELSE bytes[k]]

PutArray(s, array) ==
    IF array = <<>> \/ ~CanPutArray(s, array) THEN s
    ELSE [s EXCEPT !.bytes = Replaced(@, s.offset + 2, array),
                   !.offset = @ + Len(array)]
=============================================================================

--------------------------- MODULE BitStreamCalls ---------------------------
(***************************************************************************)
(* A BitStream under every sequence of calls, beside what its bytes ought  *)
(* to be after them.                                                       *)
(***************************************************************************)
EXTENDS BitStream

CONSTANTS
    Buffers,        \* the bytes it may be made from
    Arrays,         \* the arrays that are put into it
    Counts,         \* the counts of bytes that are taken, -1 for the rest
    MaxBeyond       \* bound: how often calls run beyond the end

\* What a sequence of calls is about, by its type.
Typed ==
    /\ Buffers \subseteq Seq(Byte) /\ Arrays \subseteq Seq(Byte)
    /\ Counts \subseteq Int /\ MaxBeyond \in Nat

VARIABLES
    stream,
    taken,          \* what the last call has given back, a bit and an array
    opened,         \* ghost: the bytes it has been made from
    content,        \* ghost: the bytes with everything that has been put
    source,         \* ghost: which byte of content is in which place
    halved          \* ghost: places of bytes forgotten while bits of them were left

cvars == <<stream, taken, opened, content, source, halved>>

Nothing  == -1      \* no bit
Original == 0       \* the source of a place that is as it was opened

Given(bit, bytes) == [bit |-> bit, bytes |-> bytes]

CTypeOK ==
    /\ stream \in Stream
    /\ opened \in Seq(Byte) /\ Len(opened) = Len(stream.bytes)
    /\ content \in Seq(Byte) /\ Len(content) = Len(stream.bytes)
    /\ source \in [DOMAIN content -> {Original} \cup DOMAIN content]
    /\ halved \subseteq DOMAIN content
    /\ stream.offset >= -1
    /\ taken \in [bit : Bits \cup {Nothing}, bytes : Seq(Byte)]

CInit ==
    /\ opened \in Buffers
    /\ stream = Opened(opened)
    /\ content = opened
    /\ source = [k \in DOMAIN opened |-> k]
    /\ halved = {}
    /\ taken = Given(Nothing, <<>>)

Within == stream.offset < Len(stream.bytes) + MaxBeyond

CallTakeBit ==
    /\ Within
    /\ stream' = TakeBit(stream)
    /\ taken' = Given(IF CanLoad(stream) THEN BitTaken(stream) ELSE Nothing, <<>>)
    /\ UNCHANGED <<opened, content, source, halved>>

CallPutBit ==
    /\ Within
    /\ \E bit \in Bits :
         /\ stream' = PutBit(stream, bit)
         /\ content' = IF CanLoad(stream)
                         THEN [content EXCEPT ![stream'.offset + 1][ByteBits - stream'.left] = bit]
                         ELSE content
    /\ taken' = Given(Nothing, <<>>)
    /\ UNCHANGED <<opened, source, halved>>

CallTakeByte ==
    /\ Within
    /\ stream' = TakeByte(stream)
    /\ taken' = Given(Nothing, IF CanTakeByte(stream) THEN <<ByteTaken(stream)>> ELSE <<>>)
    /\ UNCHANGED <<opened, content, source, halved>>

\* The dirty byte that would be put back `at' a place is put back at place `to'
\* instead, to which a call on an array has moved on.
Carried(places, at, to) ==
    [places EXCEPT ![at] = at, ![places[at]] = Original, ![to] = places[at]]

CarriesOn ==
    source' = IF stream.dirty /\ stream'.offset # stream.offset
                THEN Carried(source, stream.offset + 1, stream'.offset + 1) ELSE source

CallTakeArray ==
    /\ \E count \in Counts :
         /\ stream' = TakeArray(stream, count)
         /\ taken' = Given(Nothing, IF CanTakeArray(stream, count)
                                    THEN ArrayTaken(stream, count) ELSE <<>>)
    /\ CarriesOn
    /\ UNCHANGED <<opened, content, halved>>

CallPutArray ==
    /\ \E array \in Arrays :
         /\ stream' = PutArray(stream, array)
         /\ content' = IF CanPutArray(stream, array)
                         THEN Replaced(content, stream.offset + 2, array) ELSE content
    /\ taken' = Given(Nothing, <<>>)
    /\ CarriesOn
    /\ UNCHANGED <<opened, halved>>

\* bytes() or flush().  In the middle of a byte it makes the stream forget the
\* bits of it.
CallBytes ==
    /\ stream' = Flushed(stream)
    /\ taken' = Given(Nothing, <<>>)
    /\ halved' = IF stream.dirty /\ stream.left > 0 THEN halved \cup {stream.offset + 1}
                 ELSE halved
    /\ UNCHANGED <<opened, content, source>>

CNext ==
    \/ CallTakeBit \/ CallPutBit \/ CallTakeByte
    \/ CallTakeArray \/ CallPutArray \/ CallBytes

CSpec == CInit /\ [][CNext]_cvars

-----------------------------------------------------------------------------
(***************************************************************************)
(* Properties.                                                             *)
(***************************************************************************)

\* flush() never finds the offset of the dirty byte out of range, whatever the
\* calls before, also those that threw (tsprimitive.h:49).
FlushInRange == stream.dirty => stream.offset \in 0 .. Len(stream.bytes) - 1

\* What bytes() would give.
View == Flushed(stream).bytes

\* Every bit and every array that has been put is in the bytes and nothing else has
\* changed: each place holds its own byte; but a byte that was completed right before
\* arrays, put or taken, is where the last of them ends, in place of what was there,
\* and its own place is as it was opened.  Of a byte that was flushed half done nothing
\* is said.
PutsKept ==
    \A k \in DOMAIN content :
      /\ source[k] = Original =>
           /\ k \notin halved => View[k] = opened[k]
           /\ \E to \in DOMAIN content : to > k /\ source[to] = k
      /\ source[k] # Original /\ source[k] \notin halved => View[k] = content[source[k]]

\* Takes give what has been put just before the new position, or has been there, whether
\* or not it has been flushed; bytes and arrays in any case, a bit unless its byte was
\* flushed half done.
TakenRight ==
    LET n == Len(taken.bytes)
    IN  /\ taken.bit # Nothing /\ stream.offset + 1 \notin halved =>
             taken.bit = content[stream.offset + 1][ByteBits - stream.left]
        /\ \A i \in 1 .. n : taken.bytes[i] = content[stream.offset + 1 - n + i]

\* Without the restriction: what is put is there ("Put back previous value. It
\* seems to have been changed...", tsprimitive.h:62).
PutsThere == View = content
=============================================================================

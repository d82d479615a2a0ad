----------------------------- MODULE MCBitStream -----------------------------
(***************************************************************************)
(* Streams of up to three bytes of two bits.                               *)
(***************************************************************************)
EXTENDS BitStreamCalls, SequencesExt

AllBuffers == {<<>>, <<ZeroByte>>} \cup TupleOf(Byte, 3)
SomeArrays == {<<>>} \cup TupleOf(Byte, 1) \cup {<<ZeroByte, [i \in 1 .. ByteBits |-> 1]>>}
AllCounts  == -1 .. 2
=============================================================================

----------------------------- MODULE MCTsReader -----------------------------
(***************************************************************************)
(* TsReader on tapes of a few packets of eleven bytes, with a time code of *)
(* one byte and error correction suffixes of four and five: in proportion  *)
(* to each other, and no two candidate sizes fall in step with each other  *)
(* within the detection window, as 188, 4, 16 and 20 do not.               *)
(***************************************************************************)
EXTENDS TsReader

MCSuffixes == <<0, 4, 5>>

Kinds == {<<11, 0>>, <<15, 0>>, <<16, 0>>, <<12, 1>>}

CleanTapes   == {Recorded(k[1], k[2], n, {}, 0, t) : k \in Kinds, n \in {8, 11}, t \in {0, 5}}
DamagedTapes == {Recorded(11, 0, 11, bad, 0, 0) :
                   bad \in {b \in SUBSET (1 .. 11) : Cardinality(b) <= 2}}
GarbageTapes == {Recorded(k[1], k[2], 12, {}, g, t) :
                   k \in {<<11, 0>>, <<12, 1>>}, g \in {3, 14}, t \in {0, 4}}

\* m packets, c bytes of another one, n packets.
Slipped(m, c, n) == Spliced(Clean(11, 0, m), Recorded(11, 0, n, {}, c, 0))
SlippedTapes     == {Slipped(m, c, 12) : m \in {8, 11}, c \in {1, 4, 7, 10}}

\* A slip before the size has been detected.
StumbledTapes == {Slipped(2, 7, 9)}

\* A stream of packets with a time code, from which the first byte is missing.
HeadlessTapes == {[r EXCEPT !.sync = Tail(@),
                            !.starts = [i \in 1 .. Len(@) - 1 |-> i * r.size - 1]] : r \in {Clean(12, 1, n) : n \in {9, 11}}}

\* Garbage with a byte like a sync byte in it; nothing but garbage.
LuringTapes == {[Recorded(11, 0, 16, {}, g, 0) EXCEPT !.sync[d] = TRUE] :
                  g \in {14, 25}, d \in {1, 2, 7}}
BlankTapes  == {Recorded(11, 0, 0, {}, g, 0) : g \in {88, 120}}

\* Packets with both a time code and a suffix, which TSPacket cannot hold.
ForeignTapes == {Clean(16, 1, 9)}

EveryTape == CleanTapes \cup DamagedTapes \cup GarbageTapes \cup SlippedTapes
               \cup HeadlessTapes \cup LuringTapes \cup BlankTapes \cup ForeignTapes
=============================================================================

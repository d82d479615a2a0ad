---------------------------- MODULE MCInputSync ----------------------------
(***************************************************************************)
(* InputSync on tapes of packets of eleven bytes, with a time code of one  *)
(* byte and suffixes of four and five, and four errors to a resync.        *)
(***************************************************************************)
EXTENDS InputSync

Kinds == {<<11, 0>>, <<15, 0>>, <<16, 0>>, <<12, 1>>}

\* Streams of each size, the last packet cut off or not.
CleanTapes == {Recorded(k[1], k[2], n, {}, 0, t) : k \in Kinds, n \in 1 .. 9, t \in {0, 5}}

\* Streams with any packets damaged.
DamagedTapes == {Recorded(k[1], k[2], 9, bad, 0, 0) :
                   k \in {<<11, 0>>, <<12, 1>>}, bad \in SUBSET (1 .. 8)}

\* Streams with any of the first packets broken, one behind them damaged or none.
BrokenTapes == {Broken(Recorded(k[1], k[2], 9, late, 0, 0), k[2], bad) :
                  k \in Kinds, late \in {{}, {5}}, bad \in SUBSET (1 .. 6)}

\* m packets, c bytes of another one, n packets.
Slipped(k, m, c, n) == Spliced(Clean(k[1], k[2], m), Recorded(k[1], k[2], n, {}, c, 0))
SlippedTapes == {Slipped(k, m, c, 12) : k \in Kinds, m \in 2 .. 4, c \in 1 .. 10}

\* The same with packets broken: the first ones, those at the slip, those behind, all.
BrokenSlippedTapes == {Broken(Slipped(k, 3, c, 12), k[2], bad) :
                         k \in Kinds, c \in {1, 4, 7, 10},
                         bad \in {1 .. 2, 3 .. 4, 4 .. 7, 1 .. 15}}

\* Streams long enough to go on behind a resync.
LongTapes == {Clean(k[1], k[2], 14) : k \in Kinds}

EveryTape == CleanTapes \cup DamagedTapes \cup BrokenTapes
               \cup SlippedTapes \cup BrokenSlippedTapes \cup LongTapes

\* A stream of packets without a suffix that goes on in packets with one.
SuffixedTapes == {Spliced(Clean(11, 0, 3), Recorded(16, 0, 8, {}, g, 0)) : g \in 1 .. 10}
=============================================================================

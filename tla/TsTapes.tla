------------------------------ MODULE TsTapes ------------------------------
(***************************************************************************)
(* Tapes: inputs of TS packets for model checking.  Of each byte a tape    *)
(* tells whether it is the sync byte and, if it is, whether what follows   *)
(* it can be parsed; beside that it tells what a reader has to find out,   *)
(* where the packets are and how long they are.                            *)
(***************************************************************************)
EXTENDS Integers, Sequences, FiniteSets

\* Where a packet starts is counted from 0, and so are the sync bytes in `broken',
\* behind which a packet has an adaptation field that makes no sense.
Tape == [sync : Seq(BOOLEAN), broken : SUBSET Nat, starts : Seq(Nat), size : Nat]

\* The bytes of the tape's i-th packet, as positions counted from 1.
PacketOf(tape, i) == [b \in 1 .. tape.size |-> tape.starts[i] + b]

\* n packets of s bytes, the sync byte after the first p of them except in the
\* packets `bad', behind g bytes of garbage and before t more bytes.
Recorded(s, p, n, bad, g, t) ==
    [ sync   |-> [b \in 1 .. g + n * s + t |->
                    /\ b > g
                    /\ (b - g - 1) % s = p
                    /\ (b - g - 1) \div s + 1 \notin bad],
      broken |-> {},
      starts |-> [i \in 1 .. n |-> g + (i - 1) * s],
      size   |-> s ]

Clean(s, p, n) == Recorded(s, p, n, {}, 0, 0)

\* The tape, its sync bytes behind p others, with the adaptation fields of the packets
\* `bad' broken.
Broken(tape, p, bad) == [tape EXCEPT !.broken = {tape.starts[i] + p : i \in bad}]

\* Two recordings of packets of one size, one behind the other.
Spliced(a, b) ==
    [ sync   |-> a.sync \o b.sync,
      broken |-> a.broken \cup {Len(a.sync) + at : at \in b.broken},
      starts |-> a.starts \o [i \in DOMAIN b.starts |-> Len(a.sync) + b.starts[i]],
      size   |-> a.size ]
=============================================================================

---------------------------- MODULE MCTsSplitter ----------------------------
(***************************************************************************)
(* TsSplitter with single requests of every kind, and with templates.      *)
(***************************************************************************)
EXTENDS TsSplitter

\* A request of every kind that a few packets can start and finish, beside a
\* template that makes a file of every segment.
OneRequest ==
    {[ given |-> <<[start |-> s, at |-> a, measure |-> m, len |-> n]>>,
       templates |-> <<1 .. 9>>, faulty |-> FALSE, packets |-> 4 ] :
        s \in Kind, a \in 1 .. 2, m \in Measure, n \in 0 .. 3}

\* Requests that overlap, one of which may never be finished, and devices that
\* refuse to write at times.
TwoRequests ==
    {[ given |-> <<[start |-> "packet", at |-> 2, measure |-> "packets", len |-> 2],
                   [start |-> s, at |-> 1, measure |-> "segments", len |-> n]>>,
       templates |-> <<1 .. 9>>, faulty |-> TRUE, packets |-> 3 ] :
        s \in {"offset", "segment"}, n \in 1 .. 2}

\* Two templates over up to six segments.
TwoTemplates ==
    {[ given |-> <<>>, templates |-> <<1 .. 9, {2, 4}>>, faulty |-> FALSE,
       packets |-> 6 ]}

EveryCase == OneRequest \cup TwoRequests \cup TwoTemplates

NeverBegun ==
    {[ given |-> <<[start |-> "packet", at |-> 9, measure |-> "packets", len |-> 1]>>,
       templates |-> <<>>, faulty |-> FALSE, packets |-> 4 ]}
=============================================================================

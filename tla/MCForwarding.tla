---------------------------- MODULE MCForwarding ----------------------------
(***************************************************************************)
(* Forwarding for packets of twenty bytes, with a time code of one, and a  *)
(* PCR whose base counts three ticks.                                      *)
(***************************************************************************)
EXTENDS ForwardingShapes

\* With each PCR: plain, its discontinuity already flagged, behind a time code,
\* and with private data and an extension that do not fit behind the PCR.
PcrShapes ==
    LET each(shape(_)) == [i \in 1 .. MaxPcr + 1 |-> shape(i - 1)]
    IN  each(LAMBDA t : Plain(t, FALSE))
          \o each(LAMBDA t : Plain(t, TRUE))
          \o each(LAMBDA t : [Plain(t, FALSE) EXCEPT !.lead = TimeCodePrefix])
          \o each(LAMBDA t : [Plain(t, FALSE) EXCEPT !.flags = {1, 4, 5}])

\* Payload only, and with a suffix.
OtherShapes ==
    <<Shape(0, 0, TRUE, 256, 1, 0, FALSE, {}, 0), [Plain(2, FALSE) EXCEPT !.tail = 2]>>

\* Packets are named by their numbers.
Every  == PcrShapes \o OtherShapes \o FieldShapes \o HeaderShapes
All    == DOMAIN Every
Common == 1 .. Len(PcrShapes \o OtherShapes)
Built  == [p \in All |-> Build(Every[p])]
=============================================================================

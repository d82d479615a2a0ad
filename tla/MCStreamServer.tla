--------------------------- MODULE MCStreamServer ---------------------------
(***************************************************************************)
(* StreamServer on small instances: the connections are model values, any  *)
(* two of which are interchangeable.                                       *)
(***************************************************************************)
EXTENDS StreamServer, TLC

ConnSymmetry == Permutations(Conns)
=============================================================================

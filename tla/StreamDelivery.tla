--------------------------- MODULE StreamDelivery ---------------------------
(***************************************************************************)
(* What the stream server promises: one source of numbered packets, and    *)
(* subscribers each of which gets, from the moment it subscribes until it  *)
(* is cut off, every packet once and in order - late, perhaps, but never   *)
(* ahead of the source.  Buffers, sockets, requests, the event loop and    *)
(* the destruction of objects are how StreamServer keeps this promise.     *)
(***************************************************************************)
EXTENDS Integers, Sequences

CONSTANT Subscribers

VARIABLES
    produced,       \* packets produced so far
    phase,          \* each subscriber: not yet subscribed, on, cut off
    since,          \* packets that were produced before it subscribed
    delivered       \* the packets it has received

vars == <<produced, phase, since, delivered>>

Init ==
    /\ produced = 0
    /\ phase = [s \in Subscribers |-> "idle"]
    /\ since = [s \in Subscribers |-> 0]
    /\ delivered = [s \in Subscribers |-> <<>>]

Produce ==
    /\ produced' = produced + 1
    /\ UNCHANGED <<phase, since, delivered>>

Subscribe(s) ==
    /\ phase[s] = "idle"
    /\ phase' = [phase EXCEPT ![s] = "on"]
    /\ since' = [since EXCEPT ![s] = produced]
    /\ UNCHANGED <<produced, delivered>>

\* The next n packets after those s has already received.
Following(s, n) == [i \in 1 .. n |-> since[s] + Len(delivered[s]) + i]

\* The delivery may be the last one before s is cut off.
Deliver(s) ==
    /\ phase[s] = "on"
    /\ \E n \in 0 .. produced - since[s] - Len(delivered[s]) :
         delivered' = [delivered EXCEPT ![s] = @ \o Following(s, n)]
    /\ \E p \in {"on", "off"} : phase' = [phase EXCEPT ![s] = p]
    /\ UNCHANGED <<produced, since>>

CutOff(S) ==
    /\ \A s \in S : phase[s] = "on"
    /\ phase' = [s \in Subscribers |-> IF s \in S THEN "off" ELSE phase[s]]
    /\ UNCHANGED <<produced, since, delivered>>

Next ==
    \/ Produce
    \/ \E s \in Subscribers : Subscribe(s) \/ Deliver(s)
    \/ \E S \in SUBSET Subscribers : CutOff(S)

Spec == Init /\ [][Next]_vars
=============================================================================

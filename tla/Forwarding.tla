----------------------------- MODULE Forwarding -----------------------------
(***************************************************************************)
(* From the input to the clients: StreamServer::processInput makes a       *)
(* TSPacket of what it has read, lets the brake see its PCR, marks a       *)
(* discontinuity in its adaptation field and queues it on the clients,     *)
(* which send it as it is or stripped to the basic packet.                 *)
(*                                                                         *)
(* The brake is that of PcrBrake, whose variables this module shares; its  *)
(* PCRs are those that are in the packets.                                 *)
(***************************************************************************)
EXTENDS PcrBrake, TsPacket

CONSTANTS
    Packets,        \* names of the packets of the input
    FirstPackets,   \* names of the packets it may begin with
    BytesOf,        \* the bytes of each
    Nothing         \* no packet

ASSUME PacketsAssumption ==
    /\ Nothing \notin FirstPackets
    /\ \A p \in FirstPackets : BytesOf[p] \in Seq(0 .. 255)
    /\ Packets \subseteq FirstPackets /\ FirstPackets \subseteq DOMAIN BytesOf
    /\ \A p \in FirstPackets :
         AdaptationFieldOf(BytesOf[p]).pcr \in {None} \cup 0 .. MaxPcr

VARIABLES
    read,           \* the packet read last, or Nothing
    queued,         \* its bytes as queued on the clients; <<>> if it was dropped
    seen,           \* ghost: the last PCR that clients have been sent
    stepped         \* ghost: whether it has stepped from the one before

fvars == <<vars, read, queued, seen, stepped>>

FInit ==
    /\ Init
    /\ read = Nothing
    /\ queued = <<>>
    /\ seen = 0
    /\ stepped = FALSE

\* What TSPacket finds in the packets.
Parsed == [p \in FirstPackets |-> TSPacket(BytesOf[p])]

\* Mutant: the bytes are left as they were.
ModifiedObjectOnly(packet) ==
    [packet EXCEPT !.af = SetDiscontinuityIndicator(@, TRUE)]

\* The packet with the Discontinuity Indicator set, in its object and its bytes.
Modified(packet) ==
    UpdateAdaptationfieldBytes(
        [packet EXCEPT !.af = SetDiscontinuityIndicator(@, TRUE)])

\* Otherwise an exception drops the packet.
CanModify(packet) ==
    CanSetDiscontinuityIndicator(packet.af) /\ CanUpdateAdaptationfieldBytes(packet)

HasPcr(packet) == packet.af.pcr # None

\* A packet with errors is queued like any other.
Queue(packet) ==
    /\ queued' = packet.bytes
    /\ seen' = IF HasPcr(packet) THEN packet.af.pcr ELSE seen
    /\ stepped' = (seen' < seen \/ seen' > seen + Second)

\* Mutant: a packet without a PCR counts as one at zero.
WithoutPcrResets(p) ==
    /\ ~HasPcr(Parsed[p])
    /\ lastPacketTime' = 0
    /\ UNCHANGED <<clock, openValid, openRealTime, lastRealTime, interrupted, asked>>
    /\ Queue(Parsed[p])

\* processInput, for a packet without a PCR: the brake is not concerned.
WithoutPcr(p) ==
    /\ ~HasPcr(Parsed[p])
    /\ UNCHANGED vars
    /\ Queue(Parsed[p])

\* With a PCR that goes on from the last one.
Continuous(p, t) ==
    /\ HasPcr(Parsed[p])
    /\ ~Discontinuous(Parsed[p].af.pcr)
    /\ PacketAt(Parsed[p].af.pcr, t)
    /\ Queue(Parsed[p])

\* With a PCR that steps.
Stepped(p, t) ==
    /\ HasPcr(Parsed[p])
    /\ Discontinuous(Parsed[p].af.pcr)
    /\ PacketAt(Parsed[p].af.pcr, t)
    /\ IF CanModify(Parsed[p])
         THEN Queue(Modified(Parsed[p]))
         ELSE queued' = <<>> /\ UNCHANGED <<seen, stepped>>

Forward ==
    /\ clock < MaxClock
    /\ \E p \in IF read = Nothing THEN FirstPackets ELSE Packets, lag \in Lag :
         /\ read' = p
         /\ \/ WithoutPcr(p)
            \/ Continuous(p, clock + lag)
            \/ Stepped(p, clock + lag)

Meanwhile ==
    /\ Reopen \/ Wait
    /\ UNCHANGED <<read, queued, seen, stepped>>

FNext == Forward \/ Meanwhile

FSpec == FInit /\ [][FNext]_fvars

\* What may go into a client's send buffer for the packet.
Sent(strip) == IF strip THEN ToBasicPacketBytes(queued) ELSE {queued}
-----------------------------------------------------------------------------
(***************************************************************************)
(* Properties.                                                             *)
(***************************************************************************)

\* The types of the variables, those of the brake included; the clients have
\* been sent the PCR the brake remembers.
ForwardingTypeOK ==
    /\ TypeOK
    /\ read \in FirstPackets \cup {Nothing}
    /\ queued \in Seq(0 .. 255)
    /\ seen = lastPacketTime

\* The same bytes, but for a Discontinuity Indicator that may be set.
EqualButFlag(out, in) ==
    /\ Len(out) = Len(in)
    /\ \A k \in DOMAIN in :
         \/ out[k] = in[k]
         \/ k = IAdaptationField(in) + 2 /\ out[k] = in[k] + 128

Recognized(bytes) == ISyncByte(bytes) # None

\* Whatever is wrong with a packet, the clients get it as it was read, but for
\* the Discontinuity Indicator; and if additional info is stripped they get the
\* part behind it, of a packet whose length TSPacket recognizes.
SentAsRead ==
    read # Nothing =>
      LET in == BytesOf[read]
      IN  /\ Sent(FALSE) = {queued} /\ EqualButFlag(queued, in)
          /\ Recognized(in) =>
               \A out \in Sent(TRUE) :
                 EqualButFlag(out, Mid(in, Len(in) - LengthBasic, LengthBasic))

\* A client that parses what it is sent, stripped or not, finds the Discontinuity
\* Indicator where the PCR steps from the last one it has been sent, where it was
\* set in the input, and nowhere else (streamserver.cpp:581-596, 624).
StepsFlagged ==
    read # Nothing /\ Recognized(queued) =>
      \A strip \in BOOLEAN : \A out \in Sent(strip) :
        AdaptationFieldOf(out).di <=> Parsed[read].af.di \/ stepped

\* To the brake, forwarding packets is nothing but their PCRs: a packet that has
\* none, or that is broken before it, changes nothing (streamserver.cpp:565).
BrakeImplemented == Spec
=============================================================================

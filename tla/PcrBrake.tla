------------------------------ MODULE PcrBrake ------------------------------
(***************************************************************************)
(* The brake of StreamServer::processInput: it paces an input that can be  *)
(* read faster than real time by its program clock references (PCRs).  The *)
(* brake sleeps in the event loop's only thread, so how long it may sleep  *)
(* bounds how long every connection waits.                                 *)
(*                                                                         *)
(* Times are in ticks.  timenow() is a monotonic clock that may advance    *)
(* between two calls; usleep() sleeps at least as long as asked, unless a  *)
(* signal interrupts it, and a second signal ends the program.             *)
(***************************************************************************)
EXTENDS Integers

CONSTANTS
    Second,         \* ticks per second
    PCRSleep,       \* _brakeType is PCRSleep (and not None)
    MaxPcr,         \* bound: PCRs of the input
    MaxClock,       \* bound: the clock
    MaxLag          \* bound: ticks between two calls of timenow()

ASSUME SecondAssumption == Second \in Nat \ {0}
ASSUME BrakeAssumption == PCRSleep \in BOOLEAN
ASSUME TickAssumption == MaxPcr \in Nat /\ MaxClock \in Nat /\ MaxLag \in Nat

VARIABLES
    clock,          \* timenow()
    openValid,      \* _openRealTimeValid
    openRealTime,   \* _openRealTime: the clock when the stream was at PCR 0
    lastPacketTime, \* _lastPacketTime
    lastRealTime,   \* _lastRealTime
    interrupted,    \* a signal has interrupted a sleep
    asked           \* ghost: the last sleep asked of usleep()

vars == <<clock, openValid, openRealTime, lastPacketTime, lastRealTime,
          interrupted, asked>>

TypeOK ==
    /\ clock \in Nat
    /\ openValid \in BOOLEAN
    /\ openRealTime \in Int
    /\ lastPacketTime \in Nat
    /\ lastRealTime \in Int
    /\ interrupted \in BOOLEAN
    /\ asked \in Nat

Init ==
    /\ clock \in 0 .. MaxClock
    /\ openValid = FALSE
    /\ openRealTime = 0
    /\ lastPacketTime = 0
    /\ lastRealTime = 0
    /\ interrupted = FALSE
    /\ asked = 0

Lag == 0 .. MaxLag

\* Mutant of Discontinuous: only a step back is one.
JumpsBackOnly(pcr) == pcr < lastPacketTime

\* Whether the PCR has stepped back, or forward by more than a second.
Discontinuous(pcr) == lastPacketTime + Second < pcr \/ pcr < lastPacketTime

Gaining(pcr, now) == pcr - lastPacketTime > now - lastRealTime

\* Whether the stream is ahead of the clock and gaining on it.
Ahead(pcr, now) == Gaining(pcr, now) /\ pcr >= now

\* Mutant of Remember: a discontinuity keeps the old zero.
RememberOldBase(pcr, open, t) ==
    /\ openValid' = TRUE
    /\ openRealTime' = IF openValid THEN openRealTime ELSE open
    /\ lastPacketTime' = pcr
    /\ lastRealTime' = t - openRealTime'
    /\ clock' = t

\* The end of the block, at clock t and with the stream's zero at open.
Remember(pcr, open, t) ==
    /\ openValid' = TRUE
    /\ openRealTime' = open
    /\ lastPacketTime' = pcr
    /\ lastRealTime' = t - open
    /\ clock' = t

\* A packet with a PCR, read at clock t.
PacketAt(pcr, t) ==
    LET open == IF openValid THEN openRealTime ELSE t - pcr
    IN  \E lag \in Lag :
          LET now == t + lag - open
          IN  IF Discontinuous(pcr)
                THEN /\ \E more \in Lag : Remember(pcr, t + lag - pcr, t + lag + more)
                     /\ UNCHANGED <<interrupted, asked>>
              ELSE IF PCRSleep /\ Ahead(pcr, now)
                THEN /\ asked' = pcr - now
                     /\ \/ /\ \E more \in Lag : Remember(pcr, open, t + lag + asked' + more)
                           /\ UNCHANGED interrupted
                        \/ /\ ~interrupted
                           /\ interrupted' = TRUE
                           /\ \E slept \in 0 .. asked' :
                                Remember(pcr, open, t + lag + slept)
              ELSE /\ \E more \in Lag : Remember(pcr, open, t + lag + more)
                   /\ UNCHANGED <<interrupted, asked>>

Packet ==
    /\ clock < MaxClock
    /\ \E pcr \in 0 .. MaxPcr, lag \in Lag : PacketAt(pcr, clock + lag)

\* finalizeInput and, later, initInput: the stream's zero is forgotten, the
\* last packet's times are not.
Reopen ==
    /\ openValid' = FALSE
    /\ openRealTime' = 0
    /\ UNCHANGED <<clock, lastPacketTime, lastRealTime, interrupted, asked>>

\* Time passes between two packets, in other handlers or waiting for input.
Wait ==
    /\ clock < MaxClock
    /\ clock' = clock + 1
    /\ UNCHANGED <<openValid, openRealTime, lastPacketTime, lastRealTime,
                   interrupted, asked>>

Next == Packet \/ Reopen \/ Wait

Spec == Init /\ [][Next]_vars
-----------------------------------------------------------------------------
\* The brake never holds up the event loop for longer than the step that still
\* counts as continuous: one second, or two once a signal has cut a sleep short
\* (streamserver.cpp:581, 606) - so a PCR in the input can neither stall the
\* server nor overflow usleep's argument.
SleepBounded == asked <= IF interrupted THEN 2 * Second ELSE Second

\* With the brake on, no packet is passed on before its time: since the stream's
\* zero at least as much time has gone by as its PCR says.  An interrupted sleep
\* lets the stream run ahead by at most a second, and never by more later on.
NeverEarly ==
    PCRSleep /\ openValid =>
        lastPacketTime <= lastRealTime + (IF interrupted THEN Second ELSE 0)
=============================================================================

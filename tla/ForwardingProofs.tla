-------------------------- MODULE ForwardingProofs --------------------------
(***************************************************************************)
(* The brake's bounds, for any second, any PCRs and any clock; and that    *)
(* the server that forwards packets implements the brake, whatever the     *)
(* packets are, and so keeps them; that packets are sent as read; that     *)
(* the Discontinuity Indicator tells a client where the PCR steps; and     *)
(* that the parser finds in a packet what has been put into it.            *)
(***************************************************************************)
EXTENDS ForwardingShapes, SequenceTheorems, TLAPS

(***************************************************************************)
(* The brake.                                                              *)
(***************************************************************************)

\* How far the stream may be ahead of the clock.
Slack == IF interrupted THEN Second ELSE 0

\* NeverEarly needs that the clock, counted from the stream's zero, is past
\* the reading taken at the last packet; SleepBounded follows from both.
IInv ==
    /\ TypeOK
    /\ SleepBounded
    /\ PCRSleep /\ openValid => lastPacketTime <= lastRealTime + Slack
    /\ openValid => lastRealTime <= clock - openRealTime

\* The brake starts without a stream and without having slept.
LEMMA InitInvariant == Init => IInv
  <1> SUFFICES ASSUME Init PROVE IInv
    OBVIOUS
  <1>1. TypeOK
    <2>1. clock \in Nat
      BY TickAssumption DEF Init
    <2>2. openValid \in BOOLEAN /\ interrupted \in BOOLEAN
      BY Zenon DEF Init
    <2>3. 0 \in Nat /\ 0 \in Int
      OBVIOUS
    <2> QED BY <2>1, <2>2, <2>3, Zenon DEF Init, TypeOK
  <1>2. SleepBounded
    BY SecondAssumption DEF Init, SleepBounded
  <1> QED BY <1>1, <1>2 DEF Init, IInv

\* A packet's discontinuity, sleep or pass keeps the invariant.
LEMMA PacketInvariant ==
    ASSUME IInv, NEW pcr \in Nat, NEW t \in Nat, clock <= t, PacketAt(pcr, t)
    PROVE  IInv'
  <1> DEFINE open == IF openValid THEN openRealTime ELSE t - pcr
  <1>1. /\ clock \in Nat /\ openRealTime \in Int /\ lastPacketTime \in Nat
        /\ lastRealTime \in Int /\ Second \in Nat /\ open \in Int
        /\ interrupted \in BOOLEAN /\ asked \in Nat /\ Lag \subseteq Nat
    BY SecondAssumption, TickAssumption DEF IInv, TypeOK, Lag
  <1>2. openValid => lastRealTime <= t - open
    BY <1>1 DEF IInv
  <1>3. ~openValid => t - open = pcr
    BY <1>1
  <1> HIDE DEF open
  <1>4. PICK lag \in Lag :
          LET now == t + lag - open
          IN  IF Discontinuous(pcr)
                THEN /\ \E more \in Lag : Remember(pcr, t + lag - pcr, t + lag + more)
                     /\ UNCHANGED <<interrupted, asked>>
              ELSE IF PCRSleep /\ Ahead(pcr, now)
                THEN /\ asked' = pcr - now
                     /\ \/ /\ \E more \in Lag : Remember(pcr, open, t + lag + asked' + more)
                           /\ UNCHANGED interrupted
                        \/ /\ ~interrupted
                           /\ interrupted' = TRUE
                           /\ \E slept \in 0 .. asked' :
                                Remember(pcr, open, t + lag + slept)
              ELSE /\ \E more \in Lag : Remember(pcr, open, t + lag + more)
                   /\ UNCHANGED <<interrupted, asked>>
    BY DEF PacketAt, open
  <1> DEFINE now == t + lag - open
  <1>5. lag \in Nat /\ now \in Int /\ now >= t - open
    BY <1>1
  <1>6. CASE Discontinuous(pcr)
    <2>1. PICK more \in Lag : Remember(pcr, t + lag - pcr, t + lag + more)
      BY <1>4, <1>6
    <2>2. UNCHANGED <<interrupted, asked>>
      BY <1>4, <1>6
    <2> QED BY <1>1, <1>5, <2>1, <2>2
          DEF IInv, TypeOK, SleepBounded, Slack, Remember
  <1>7. CASE ~Discontinuous(pcr) /\ PCRSleep /\ Ahead(pcr, now)
    <2>1. asked' = pcr - now /\ asked' \in Nat
      BY <1>1, <1>4, <1>5, <1>7 DEF Ahead
    <2>2. asked' <= Second + Slack
      <3>1. CASE openValid
        <4>1. /\ lastPacketTime <= lastRealTime + Slack
              /\ pcr <= lastPacketTime + Second
              /\ lastRealTime <= now
          BY <1>1, <1>2, <1>5, <1>7, <3>1 DEF IInv, Discontinuous
        <4> QED BY <1>1, <1>5, <2>1, <4>1 DEF Slack
      <3>2. CASE ~openValid
        BY <1>1, <1>3, <1>5, <2>1, <3>2 DEF Slack
      <3> QED BY <3>1, <3>2
    <2>3. CASE UNCHANGED interrupted
      <3>2. \/ \E m \in Lag : Remember(pcr, open, t + lag + asked' + m)
            \/ ~interrupted /\ interrupted'
        BY <1>4, <1>7
      <3>3. PICK m \in Lag : Remember(pcr, open, t + lag + asked' + m)
        BY <2>3, <3>2, <1>1
      <3>4. lastRealTime' >= pcr
        BY <1>1, <1>5, <2>1, <3>3 DEF Remember
      <3> QED BY <1>1, <1>5, <2>1, <2>2, <2>3, <3>3, <3>4
            DEF IInv, TypeOK, SleepBounded, Slack, Remember
    <2>4. CASE ~interrupted /\ interrupted' = TRUE
      <3>1. PICK d \in Nat : Remember(pcr, open, t + lag + d)
        <4>1. CASE \E m \in Lag : Remember(pcr, open, t + lag + asked' + m)
          <5>1. PICK m \in Lag : Remember(pcr, open, t + lag + asked' + m)
            BY <4>1
          <5>2. asked' + m \in Nat /\ t + lag + asked' + m = t + lag + (asked' + m)
            BY <1>1, <1>5, <2>1
          <5> QED BY <5>1, <5>2
        <4>2. CASE \E slept \in 0 .. asked' : Remember(pcr, open, t + lag + slept)
          BY <2>1, <4>2
        <4> QED BY <1>4, <1>7, <4>1, <4>2
      <3>2. lastRealTime' >= now
        BY <1>1, <1>5, <3>1 DEF Remember
      <3>3. pcr <= now + Second
        BY <1>1, <1>5, <2>1, <2>2, <2>4 DEF Slack
      <3>4. pcr <= lastRealTime' + Second
        BY <1>1, <1>5, <3>1, <3>2, <3>3 DEF Remember
      <3> QED BY <1>1, <1>5, <2>1, <2>2, <2>4, <3>1, <3>4
            DEF IInv, TypeOK, SleepBounded, Slack, Remember
    <2> QED BY <1>4, <1>7, <2>3, <2>4
  <1>8. CASE ~Discontinuous(pcr) /\ ~(PCRSleep /\ Ahead(pcr, now))
    <2>1. PICK more \in Lag : Remember(pcr, open, t + lag + more)
      BY <1>4, <1>8
    <2>2. UNCHANGED <<interrupted, asked>>
      BY <1>4, <1>8
    <2>3. more \in Nat /\ lastRealTime' >= now
      BY <1>1, <1>5, <2>1 DEF Remember
    <2>4. PCRSleep => pcr <= now + Slack
      <3>1. CASE openValid
        <4>1. PCRSleep => lastPacketTime <= lastRealTime + Slack
          BY <3>1 DEF IInv
        <4>2. PCRSleep => pcr - lastPacketTime <= now - lastRealTime \/ pcr < now
          BY <1>1, <1>5, <1>8 DEF Ahead, Gaining
        <4> QED BY <1>1, <1>5, <4>1, <4>2 DEF Slack
      <3>2. CASE ~openValid
        BY <1>1, <1>3, <1>5, <3>2 DEF Slack
      <3> QED BY <3>1, <3>2
    <2> QED BY <1>1, <1>5, <2>1, <2>2, <2>3, <2>4
          DEF IInv, TypeOK, SleepBounded, Slack, Remember
  <1> QED BY <1>6, <1>7, <1>8

\* Every step of the brake keeps the invariant.
LEMMA NextInvariant == IInv /\ [Next]_vars => IInv'
  <1> SUFFICES ASSUME IInv, [Next]_vars PROVE IInv'
    OBVIOUS
  <1>1. CASE Packet
    <2>1. PICK pcr \in 0 .. MaxPcr, lag \in Lag : PacketAt(pcr, clock + lag)
      BY <1>1 DEF Packet
    <2>2. /\ pcr \in Nat /\ clock + lag \in Nat /\ clock <= clock + lag
      BY TickAssumption DEF IInv, TypeOK, Lag
    <2> QED BY <2>1, <2>2, PacketInvariant
  <1>2. CASE Reopen
    <2>1. openValid' = FALSE /\ openRealTime' = 0 /\ 0 \in Int
      BY <1>2 DEF Reopen
    <2>2. UNCHANGED <<clock, lastPacketTime, lastRealTime, interrupted, asked>>
      BY <1>2 DEF Reopen
    <2>3. TypeOK' /\ SleepBounded'
      BY <2>1, <2>2, Zenon DEF IInv, TypeOK, SleepBounded
    <2> QED BY <2>1, <2>3, Zenon DEF IInv
  <1>3. CASE Wait
    <2>1. TypeOK'
      BY <1>3 DEF Wait, IInv, TypeOK
    <2>2. SleepBounded'
      BY <1>3 DEF Wait, IInv, SleepBounded
    <2>3. openValid => lastRealTime <= clock + 1 - openRealTime
      BY DEF IInv, TypeOK
    <2>4a. clock' = clock + 1 /\ openRealTime' = openRealTime /\ lastRealTime' = lastRealTime
      BY <1>3 DEF Wait
    <2>4b. /\ openValid' = openValid /\ interrupted' = interrupted
           /\ lastPacketTime' = lastPacketTime /\ lastRealTime' = lastRealTime
      BY <1>3 DEF Wait
    <2>5. openValid' => lastRealTime' <= clock' - openRealTime'
      <3> SUFFICES ASSUME openValid' PROVE lastRealTime' <= clock' - openRealTime'
        OBVIOUS
      <3>1. openValid
        BY <2>4b, Zenon
      <3>2. lastRealTime <= clock + 1 - openRealTime
        BY <2>3, <3>1
      <3>3. clock \in Int /\ openRealTime \in Int /\ lastRealTime \in Int
        BY DEF IInv, TypeOK
      <3> QED BY <2>4a, <3>2, <3>3
    <2>6. Slack' = Slack
      BY <2>4b, Zenon DEF Slack
    <2>7. PCRSleep /\ openValid' => lastPacketTime' <= lastRealTime' + Slack'
      BY <2>4b, <2>6, Zenon DEF IInv
    <2> QED BY <2>1, <2>2, <2>5, <2>7, Zenon DEF IInv
  <1>4. CASE UNCHANGED vars
    BY <1>4 DEF vars, IInv, TypeOK, SleepBounded, Slack
  <1> QED BY <1>1, <1>2, <1>3, <1>4 DEF Next

\* The brake's two bounds, whatever the PCRs of the input are: no sleep in the
\* event loop is longer than a second, or two once a signal has interrupted
\* one (streamserver.cpp:606-614).
THEOREM SleepIsBounded == Spec => []SleepBounded
  <1>1. IInv => SleepBounded
    BY DEF IInv
  <1> QED BY <1>1, InitInvariant, NextInvariant, PTL DEF Spec

\* With the brake on, no packet is passed on before its time
\* (streamserver.cpp:606-622).
THEOREM PacketsNeverEarly == Spec => []NeverEarly
  <1>1. IInv => NeverEarly
    BY DEF IInv, NeverEarly, Slack
  <1> QED BY <1>1, InitInvariant, NextInvariant, PTL DEF Spec

-----------------------------------------------------------------------------
(***************************************************************************)
(* Forwarding.                                                             *)
(***************************************************************************)

\* A PCR that TSPacket finds in a packet is one the brake may see.
LEMMA PcrInRange ==
    ASSUME NEW p \in FirstPackets, HasPcr(Parsed[p])
    PROVE  Parsed[p].af.pcr \in 0 .. MaxPcr
  <1>1. Parsed[p].af = AdaptationFieldOf(BytesOf[p])
    BY Zenon DEF Parsed, TSPacket
  <1>2. AdaptationFieldOf(BytesOf[p]).pcr \in {None} \cup 0 .. MaxPcr
    BY PacketsAssumption, Zenon
  <1>3. Parsed[p].af.pcr # None
    BY Zenon DEF HasPcr
  <1> QED BY <1>1, <1>2, <1>3, Zenon

\* Forwarding a packet is a step of the brake or leaves it alone.
LEMMA ForwardIsPacket == Forward => [Next]_vars
  <1> SUFFICES ASSUME Forward PROVE [Next]_vars
    OBVIOUS
  <1>1. PICK p \in IF read = Nothing THEN FirstPackets ELSE Packets, lag \in Lag :
          WithoutPcr(p) \/ Continuous(p, clock + lag) \/ Stepped(p, clock + lag)
    BY Zenon DEF Forward
  <1>2. p \in FirstPackets
    BY PacketsAssumption, Zenon
  <1>3. clock < MaxClock
    BY Zenon DEF Forward
  <1>4. CASE WithoutPcr(p)
    BY <1>4, Zenon DEF WithoutPcr
  <1>5. CASE Continuous(p, clock + lag) \/ Stepped(p, clock + lag)
    <2>1. HasPcr(Parsed[p]) /\ PacketAt(Parsed[p].af.pcr, clock + lag)
      BY <1>5, Zenon DEF Continuous, Stepped
    <2>2. Parsed[p].af.pcr \in 0 .. MaxPcr
      BY <1>2, <2>1, PcrInRange, Zenon
    <2>3. Packet
      BY <1>3, <2>1, <2>2, Zenon DEF Packet
    <2> QED BY <2>3, Zenon DEF Next
  <1> QED BY <1>1, <1>4, <1>5, Zenon

\* For packets of any bytes: to the brake the server's forwarding is nothing but
\* the PCRs of those packets that have one, and reopening and waiting.
THEOREM ForwardingImplementsBrake == FSpec => BrakeImplemented
  <1>1. FInit => Init
    BY Zenon DEF FInit
  <1>2. [FNext]_fvars => [Next]_vars
    <2>1. Forward => [Next]_vars
      BY ForwardIsPacket
    <2>2. Meanwhile => [Next]_vars
      BY Zenon DEF Meanwhile, Next
    <2>3. UNCHANGED fvars => UNCHANGED vars
      BY Zenon DEF fvars
    <2> QED BY <2>1, <2>2, <2>3, Zenon DEF FNext
  <1> QED BY <1>1, <1>2, PTL DEF FSpec, BrakeImplemented, Spec

\* For packets of any bytes: no packet makes the server sleep for longer than a
\* second, or two once a signal has cut a sleep short (streamserver.cpp:614).
THEOREM ForwardingSleepIsBounded == FSpec => []SleepBounded
  BY ForwardingImplementsBrake, SleepIsBounded, PTL DEF BrakeImplemented

\* For packets of any bytes: none is passed on before its time, but for what an
\* interrupted sleep leaves.
THEOREM ForwardedNeverEarly == FSpec => []NeverEarly
  BY ForwardingImplementsBrake, PacketsNeverEarly, PTL DEF BrakeImplemented
-----------------------------------------------------------------------------
(***************************************************************************)
(* What happens to the bytes.                                              *)
(***************************************************************************)

\* The indicator's bit, set in a byte.
LEMMA FlagArithmetic ==
    ASSUME NEW b \in 0 .. 255
    PROVE  /\ (b % 128) + 128 \in 0 .. 255
           /\ (b % 128) + 128 = b \/ (b % 128) + 128 = b + 128
  <1>1. CASE b < 128
    BY <1>1
  <1>2. CASE 128 <= b
    <2>1. b % 128 = b - 128
      BY <1>2
    <2> QED BY <1>2, <2>1
  <1> QED BY <1>1, <1>2

\* A byte of a sequence of bytes, and a length, are numbers.
LEMMA ByteAt ==
    ASSUME NEW bytes \in Seq(0 .. 255), NEW i \in Nat, i < Len(bytes)
    PROVE  At(bytes, i) \in 0 .. 255 /\ 1 + At(bytes, i) \in Nat /\ i \in 0 .. Len(bytes)
  <1>1. i + 1 \in 1 .. Len(bytes) /\ i \in 0 .. Len(bytes)
    OBVIOUS
  <1>2. bytes[i + 1] \in 0 .. 255
    BY <1>1, ElementOfSeq, Zenon
  <1>3. At(bytes, i) = bytes[i + 1]
    BY Zenon DEF At
  <1>4. \A b \in 0 .. 255 : 1 + b \in Nat
    OBVIOUS
  <1> QED BY <1>1, <1>2, <1>3, <1>4, Zenon

LEMMA NotShort == ASSUME NEW n \in Nat, n # 0, n # 1 PROVE 2 <= n
  OBVIOUS

LEMMA FunctionIsSequence ==
    \A S : \A n \in Nat : \A f \in [1 .. n -> S] : f \in Seq(S) /\ Len(f) = n
  OBVIOUS

\* What Mid yields from a place within the bytes.
LEMMA MidIsSlice ==
    ASSUME NEW S, NEW bytes \in Seq(S), NEW i \in 0 .. Len(bytes), NEW n \in Nat
    PROVE  /\ Mid(bytes, i, n) \in Seq(S)
           /\ Len(Mid(bytes, i, n)) = IF i + n <= Len(bytes) THEN n ELSE Len(bytes) - i
           /\ \A k \in 1 .. Len(Mid(bytes, i, n)) : Mid(bytes, i, n)[k] = bytes[i + k]
  <1> DEFINE last == IF i + n <= Len(bytes) THEN i + n ELSE Len(bytes)
  <1>1. /\ last \in Nat /\ i <= last /\ last <= Len(bytes) /\ Len(bytes) \in Nat
        /\ last - i = IF i + n <= Len(bytes) THEN n ELSE Len(bytes) - i
    OBVIOUS
  <1>2. Mid(bytes, i, n) = SubSeq(bytes, i + 1, last)
    BY DEF Mid
  <1> HIDE DEF last
  <1>3. /\ SubSeq(bytes, i + 1, last) \in Seq(S)
        /\ Len(SubSeq(bytes, i + 1, last)) = last - i
        /\ \A k \in 1 .. last - i : SubSeq(bytes, i + 1, last)[k] = bytes[i + k]
    BY <1>1
  <1> QED BY <1>1, <1>2, <1>3

\* An adaptation field with a PCR has flags, and its bytes are those it was
\* parsed from, as many as it says.
LEMMA PcrNeedsFlags ==
    ASSUME NEW data \in Seq(0 .. 255), AdaptationField(data).pcr # None
    PROVE  /\ AdaptationField(data).bytes = data /\ 2 <= Len(data)
           /\ Len(data) = 1 + At(data, 0)
  <1>1. Flagless(data, TRUE).pcr = None /\ Flagless(data, FALSE).pcr = None
    BY Zenon DEF Flagless
  <1>2. data # <<>> /\ Len(data) # 1
    BY <1>1, Zenon DEF AdaptationField
  <1>3. 2 <= Len(data)
    <2>1. Len(data) \in Nat /\ Len(data) # 0
      BY <1>2, EmptySeq
    <2> QED BY <1>2, <2>1, NotShort, Zenon
  <1>4. Len(data) = 1 + At(data, 0)
    BY <1>1, Zenon DEF AdaptationField
  <1>5. AdaptationField(data).bytes = data
    BY <1>2, <1>4, Zenon DEF AdaptationField
  <1> QED BY <1>3, <1>4, <1>5

\* A packet with a PCR has an adaptation field, which lies within its bytes and
\* has flags.
LEMMA PcrNeedsField ==
    ASSUME NEW bytes \in Seq(0 .. 255), HasPcr(TSPacket(bytes))
    PROVE  LET i == IAdaptationField(bytes)
               data == TSPacket(bytes).af.bytes
           IN  /\ HasAdaptationField(bytes)
               /\ i \in Nat /\ data \in Seq(0 .. 255)
               /\ 2 <= Len(data) /\ i + Len(data) <= Len(bytes)
               /\ \A k \in 1 .. Len(data) : data[k] = bytes[i + k]
               /\ Len(data) = 1 + At(bytes, i)
  <1> DEFINE i == IAdaptationField(bytes)
             data == Mid(bytes, i, 1 + At(bytes, i))
  <1>1. AdaptationFieldOf(bytes).pcr # None
    BY Zenon DEF HasPcr, TSPacket
  <1>2. HasAdaptationField(bytes)
    BY <1>1, Zenon DEF AdaptationFieldOf, Flagless
  <1>3. ISyncByte(bytes) # None
    BY <1>2, Zenon DEF HasAdaptationField, HasHeader, HasSync
  <1>4. /\ i \in Nat /\ i < Len(bytes)
    BY <1>3, LengthAssumption DEF ISyncByte, IAdaptationField
  <1>5. AdaptationFieldOf(bytes) = AdaptationField(data)
    BY <1>2, Zenon DEF AdaptationFieldOf
  <1> HIDE DEF i
  <1>6. 1 + At(bytes, i) \in Nat /\ i \in 0 .. Len(bytes)
    BY <1>4, ByteAt, Zenon
  <1>7. /\ data \in Seq(0 .. 255)
        /\ i + Len(data) <= Len(bytes)
        /\ \A k \in 1 .. Len(data) : data[k] = bytes[i + k]
    <2>1. Len(bytes) \in Nat
      OBVIOUS
    <2>2. /\ data \in Seq(0 .. 255)
          /\ Len(data) = IF i + (1 + At(bytes, i)) <= Len(bytes)
                         THEN 1 + At(bytes, i) ELSE Len(bytes) - i
          /\ \A k \in 1 .. Len(data) : data[k] = bytes[i + k]
      BY <1>6, MidIsSlice, Zenon
    <2> QED BY <1>4, <1>6, <2>1, <2>2
  <1> HIDE DEF data
  <1>8. /\ AdaptationField(data).bytes = data /\ 2 <= Len(data)
        /\ Len(data) = 1 + At(data, 0)
    BY <1>1, <1>5, <1>7, PcrNeedsFlags
  <1>9. TSPacket(bytes).af.bytes = data
    BY <1>5, <1>8, Zenon DEF TSPacket
  <1>10. At(data, 0) = At(bytes, i)
    BY <1>4, <1>7, <1>8 DEF At
  <1>11. Len(data) = 1 + At(bytes, i)
    BY <1>8, <1>10, Zenon
  <1> QED BY <1>2, <1>4, <1>7, <1>8, <1>9, <1>11, Zenon DEF i

\* An adaptation field's bytes with the indicator set, and bytes with those of
\* the field copied over them.
WithFlag(data) == [data EXCEPT ![2] = (@ % 128) + 128]
Overlaid(bytes, i, data) ==
    [k \in DOMAIN bytes |-> IF k \in i + 1 .. i + Len(data) THEN data[k - i] ELSE bytes[k]]

\* Copied back to where it was parsed from, a field with the indicator set
\* changes nothing else.
LEMMA CopiedBack ==
    ASSUME NEW bytes \in Seq(0 .. 255), NEW i \in Nat, NEW data \in Seq(0 .. 255),
           2 <= Len(data), i + Len(data) <= Len(bytes),
           \A k \in 1 .. Len(data) : data[k] = bytes[i + k]
    PROVE  LET out == Overlaid(bytes, i, WithFlag(data))
           IN  /\ out \in Seq(0 .. 255) /\ Len(out) = Len(bytes)
               /\ \A k \in DOMAIN bytes :
                    out[k] = bytes[k] \/ (k = i + 2 /\ out[k] = bytes[k] + 128)
  <1> DEFINE set == WithFlag(data)
             out == Overlaid(bytes, i, set)
  <1>1. /\ Len(set) = Len(data) /\ set[2] = (data[2] % 128) + 128
        /\ \A k \in 1 .. Len(data) : k # 2 => set[k] = data[k]
    BY DEF WithFlag
  <1> HIDE DEF set
  <1>2. DOMAIN bytes = 1 .. Len(bytes) /\ Len(bytes) \in Nat /\ Len(data) \in Nat
    OBVIOUS
  <1>3. ASSUME NEW k \in 1 .. Len(bytes)
        PROVE  /\ out[k] = bytes[k] \/ (k = i + 2 /\ out[k] = bytes[k] + 128)
               /\ out[k] \in 0 .. 255
    <2>1. bytes[k] \in 0 .. 255
      BY ElementOfSeq, Zenon
    <2>2. CASE k \notin i + 1 .. i + Len(set)
      BY <1>2, <2>1, <2>2 DEF Overlaid
    <2>3. CASE k \in i + 1 .. i + Len(set)
      <3>1. out[k] = set[k - i] /\ k - i \in 1 .. Len(data) /\ i + (k - i) = k
        BY <1>1, <1>2, <2>3 DEF Overlaid
      <3>2. data[k - i] = bytes[k]
        BY <3>1
      <3>3. CASE k - i # 2
        BY <1>1, <2>1, <3>1, <3>2, <3>3
      <3>4. CASE k - i = 2
        <4>1. out[k] = (bytes[k] % 128) + 128
          BY <1>1, <3>1, <3>2, <3>4, Zenon
        <4>2. k = i + 2
          BY <3>1, <3>4
        <4> HIDE DEF out
        <4> QED BY <2>1, <4>1, <4>2, FlagArithmetic, Zenon
      <3> QED BY <3>3, <3>4
    <2> QED BY <2>2, <2>3
  <1>4. out = [k \in 1 .. Len(bytes) |-> out[k]]
    BY <1>2 DEF Overlaid
  <1> HIDE DEF out
  <1>5. out \in [1 .. Len(bytes) -> 0 .. 255]
    BY <1>3, <1>4, Zenon
  <1>6. out \in Seq(0 .. 255) /\ Len(out) = Len(bytes)
    <2>1. \A n \in Nat : \A f \in [1 .. n -> 0 .. 255] : f \in Seq(0 .. 255) /\ Len(f) = n
      BY FunctionIsSequence, Zenon
    <2> HIDE DEF set
    <2> QED BY <1>2, <1>5, <2>1
  <1> QED BY <1>2, <1>3, <1>6, Zenon DEF out, set

\* The indicator can be set in every packet with a PCR, and nothing else changes.
LEMMA ModifiedButFlag ==
    ASSUME NEW bytes \in Seq(0 .. 255), HasPcr(TSPacket(bytes))
    PROVE  /\ CanModify(TSPacket(bytes))
           /\ Modified(TSPacket(bytes)).bytes \in Seq(0 .. 255)
           /\ EqualButFlag(Modified(TSPacket(bytes)).bytes, bytes)
  <1> DEFINE packet == TSPacket(bytes)
             i == IAdaptationField(bytes)
             data == packet.af.bytes
             out == Overlaid(bytes, i, WithFlag(data))
  <1>1. /\ HasAdaptationField(bytes)
        /\ i \in Nat /\ data \in Seq(0 .. 255)
        /\ 2 <= Len(data) /\ i + Len(data) <= Len(bytes)
        /\ \A k \in 1 .. Len(data) : data[k] = bytes[i + k]
    BY PcrNeedsField, Zenon
  <1>2. packet.bytes = bytes
    BY Zenon DEF TSPacket
  <1>3. CanModify(packet)
    <2>1. 1 < Len(data)
      BY <1>1
    <2> QED BY <1>1, <1>2, <2>1, Zenon DEF CanModify, CanSetDiscontinuityIndicator,
              CanUpdateAdaptationfieldBytes
  <1>4. Modified(packet).bytes = out
    <2>1. SetDiscontinuityIndicator(packet.af, TRUE).bytes = WithFlag(data)
      BY DEF SetDiscontinuityIndicator, WithFlag, TSPacket, AdaptationFieldOf
    <2> QED BY <1>2, <2>1 DEF Modified, UpdateAdaptationfieldBytes, TSPacket, Overlaid
  <1>5. /\ out \in Seq(0 .. 255) /\ Len(out) = Len(bytes)
        /\ \A k \in DOMAIN bytes :
             out[k] = bytes[k] \/ (k = i + 2 /\ out[k] = bytes[k] + 128)
    <2> HIDE DEF packet, i, data
    <2> QED BY <1>1, CopiedBack
  <1> HIDE DEF out
  <1>6. EqualButFlag(out, bytes)
    BY <1>5, Zenon DEF EqualButFlag
  <1> QED BY <1>3, <1>4, <1>5, <1>6, Zenon

\* A packet from a place on that leaves room for just the basic packet.
LEMMA CoreOf ==
    ASSUME NEW bytes \in Seq(0 .. 255), NEW i \in Nat, LengthBasic \in Nat,
           Len(bytes) = i + LengthBasic
    PROVE  /\ Mid(bytes, i, LengthBasic) \in Seq(0 .. 255)
           /\ Len(Mid(bytes, i, LengthBasic)) = LengthBasic
           /\ \A k \in 1 .. LengthBasic : Mid(bytes, i, LengthBasic)[k] = bytes[i + k]
  <1> DEFINE core == Mid(bytes, i, LengthBasic)
  <1>1. i \in 0 .. Len(bytes) /\ i + LengthBasic <= Len(bytes)
    OBVIOUS
  <1>2. /\ core \in Seq(0 .. 255)
        /\ Len(core) = IF i + LengthBasic <= Len(bytes) THEN LengthBasic ELSE Len(bytes) - i
        /\ \A k \in 1 .. Len(core) : core[k] = bytes[i + k]
    BY <1>1, MidIsSlice
  <1> HIDE DEF core
  <1>3. Len(core) = LengthBasic
    BY <1>1, <1>2, Zenon
  <1>4. \A k \in 1 .. LengthBasic : core[k] = bytes[i + k]
    BY <1>2, <1>3, Zenon
  <1> QED BY <1>2, <1>3, <1>4, Zenon DEF core

\* What differs from a packet in the flag at most, does so when both are stripped.
LEMMA StrippedButFlag ==
    ASSUME NEW in \in Seq(0 .. 255), NEW sent \in Seq(0 .. 255),
           EqualButFlag(sent, in), Recognized(in),
           NEW out \in ToBasicPacketBytes(sent)
    PROVE  EqualButFlag(out, Mid(in, Len(in) - LengthBasic, LengthBasic))
  <1> DEFINE i == ISyncByte(in)
             core == Mid(in, i, LengthBasic)
  <1>1. /\ i \in Nat /\ Len(in) = i + LengthBasic /\ LengthBasic \in Nat
        /\ i \in 0 .. Len(in)
    BY LengthAssumption DEF Recognized, ISyncByte, None
  <1>2. /\ Len(sent) = Len(in) /\ DOMAIN in = 1 .. Len(in)
        /\ \A k \in 1 .. Len(in) :
             sent[k] = in[k] \/ (k = (i + 4) + 2 /\ sent[k] = in[k] + 128)
    BY DEF EqualButFlag, IAdaptationField
  <1>3. ISyncByte(sent) = i
    BY <1>2, Zenon DEF ISyncByte
  <1>4. out = Mid(sent, i, LengthBasic)
    BY <1>3, Zenon DEF ToBasicPacketBytes, Recognized
  <1>5. Len(in) - LengthBasic = i
    BY <1>1
  <1> HIDE DEF i
  <1>6. /\ core \in Seq(0 .. 255) /\ Len(core) = LengthBasic
        /\ \A k \in 1 .. LengthBasic : core[k] = in[i + k]
    BY <1>1, CoreOf, Zenon
  <1>7. /\ out \in Seq(0 .. 255) /\ Len(out) = LengthBasic
        /\ \A k \in 1 .. LengthBasic : out[k] = sent[i + k]
    <2>1. Len(sent) = i + LengthBasic
      BY <1>1, <1>2, Zenon
    <2>2. /\ Mid(sent, i, LengthBasic) \in Seq(0 .. 255)
          /\ Len(Mid(sent, i, LengthBasic)) = LengthBasic
          /\ \A k \in 1 .. LengthBasic : Mid(sent, i, LengthBasic)[k] = sent[i + k]
      BY <1>1, <2>1, CoreOf
    <2> QED BY <1>4, <2>2, Zenon
  <1>8. IAdaptationField(core) = 4
    BY <1>6 DEF IAdaptationField, ISyncByte
  <1>9. DOMAIN core = 1 .. LengthBasic
    BY <1>6, LenProperties, Zenon
  <1> HIDE DEF core
  <1>10. ASSUME NEW k \in 1 .. LengthBasic
         PROVE  out[k] = core[k] \/ (k = 4 + 2 /\ out[k] = core[k] + 128)
    <2>1. i + k \in 1 .. Len(in) /\ (i + k = (i + 4) + 2 => k = 4 + 2)
      BY <1>1
    <2>2. out[k] = sent[i + k] /\ core[k] = in[i + k]
      BY <1>6, <1>7, Zenon
    <2> QED BY <1>2, <2>1, <2>2, Zenon
  <1>11. EqualButFlag(out, core)
    BY <1>6, <1>7, <1>8, <1>9, <1>10, Zenon DEF EqualButFlag
  <1> QED BY <1>5, <1>11, Zenon DEF core

\* The inductive form of SentAsRead.
SentInv ==
    read # Nothing =>
      /\ read \in FirstPackets
      /\ queued \in Seq(0 .. 255)
      /\ EqualButFlag(queued, BytesOf[read])

LEMMA SentInvImplies == SentInv => SentAsRead
  <1> SUFFICES ASSUME SentInv, read # Nothing
               PROVE  /\ Sent(FALSE) = {queued}
                      /\ EqualButFlag(queued, BytesOf[read])
                      /\ Recognized(BytesOf[read]) =>
                           \A out \in Sent(TRUE) :
                             EqualButFlag(out, Mid(BytesOf[read],
                                                   Len(BytesOf[read]) - LengthBasic,
                                                   LengthBasic))
    BY Zenon DEF SentAsRead
  <1>1. /\ BytesOf[read] \in Seq(0 .. 255) /\ queued \in Seq(0 .. 255)
        /\ EqualButFlag(queued, BytesOf[read])
    BY PacketsAssumption, Zenon DEF SentInv
  <1>2. Sent(FALSE) = {queued} /\ Sent(TRUE) = ToBasicPacketBytes(queued)
    BY Zenon DEF Sent
  <1> QED BY <1>1, <1>2, StrippedButFlag, Zenon

\* A packet is queued as it is, or with the indicator set.
LEMMA ForwardSends == Forward => SentInv'
  <1> SUFFICES ASSUME Forward PROVE SentInv'
    OBVIOUS
  <1>1. PICK p \in IF read = Nothing THEN FirstPackets ELSE Packets, lag \in Lag :
          /\ read' = p
          /\ WithoutPcr(p) \/ Continuous(p, clock + lag) \/ Stepped(p, clock + lag)
    BY Zenon DEF Forward
  <1>2. p \in FirstPackets /\ BytesOf[p] \in Seq(0 .. 255)
    BY PacketsAssumption, Zenon
  <1>3. Parsed[p] = TSPacket(BytesOf[p])
    BY <1>2, Zenon DEF Parsed
  <1>4. queued' \in Seq(0 .. 255) /\ EqualButFlag(queued', BytesOf[p])
    <2>1. CASE WithoutPcr(p) \/ Continuous(p, clock + lag)
      <3>1. queued' = TSPacket(BytesOf[p]).bytes
        BY <1>3, <2>1, Zenon DEF WithoutPcr, Continuous, Queue
      <3>2. queued' = BytesOf[p]
        BY <3>1, Zenon DEF TSPacket
      <3> QED BY <1>2, <3>2, Zenon DEF EqualButFlag
    <2>2. CASE Stepped(p, clock + lag)
      <3>1. HasPcr(TSPacket(BytesOf[p]))
        BY <1>3, <2>2, Zenon DEF Stepped
      <3>2. /\ CanModify(TSPacket(BytesOf[p]))
            /\ Modified(TSPacket(BytesOf[p])).bytes \in Seq(0 .. 255)
            /\ EqualButFlag(Modified(TSPacket(BytesOf[p])).bytes, BytesOf[p])
        BY <1>2, <3>1, ModifiedButFlag, Zenon
      <3>3. queued' = Modified(TSPacket(BytesOf[p])).bytes
        BY <1>3, <2>2, <3>2, Zenon DEF Stepped, Queue
      <3> QED BY <3>2, <3>3, Zenon
    <2> QED BY <1>1, <2>1, <2>2, Zenon
  <1> QED BY <1>1, <1>2, <1>4, Zenon DEF SentInv

\* For packets of any bytes: what clients are sent is what was read but for the
\* Discontinuity Indicator, stripped of additional info or not, and no packet is
\* dropped for an exception while it is set (streamserver.cpp:562-646).
THEOREM PacketsSentAsRead == FSpec => []SentAsRead
  <1>1. FInit => SentInv
    BY Zenon DEF FInit, SentInv
  <1>2. SentInv /\ [FNext]_fvars => SentInv'
    <2>1. SentInv /\ Forward => SentInv'
      BY ForwardSends
    <2>2. SentInv /\ Meanwhile => SentInv'
      BY Zenon DEF SentInv, Meanwhile, EqualButFlag, IAdaptationField
    <2>3. SentInv /\ UNCHANGED fvars => SentInv'
      BY Zenon DEF SentInv, fvars, EqualButFlag, IAdaptationField
    <2> QED BY <2>1, <2>2, <2>3, Zenon DEF FNext
  <1> QED BY <1>1, <1>2, SentInvImplies, PTL DEF FSpec
-----------------------------------------------------------------------------
(***************************************************************************)
(* Where the Discontinuity Indicator is.                                   *)
(***************************************************************************)

\* Whether a packet has an adaptation field with flags within its bytes, and the
\* indicator is set there.
FlagIn(bytes) ==
    LET i == IAdaptationField(bytes)
    IN  /\ HasAdaptationField(bytes)
        /\ 1 <= At(bytes, i)
        /\ i + 1 + At(bytes, i) <= Len(bytes)
        /\ Bit(At(bytes, i + 1), 128)

\* With an adaptation field, its length is in the packet.
LEMMA FieldInPacket ==
    ASSUME NEW bytes \in Seq(0 .. 255), HasAdaptationField(bytes)
    PROVE  LET i == IAdaptationField(bytes)
           IN  /\ i \in Nat /\ i + 1 < Len(bytes) /\ Len(bytes) \in Nat
               /\ At(bytes, i) \in 0 .. 255 /\ At(bytes, i + 1) \in 0 .. 255
  <1> DEFINE i == IAdaptationField(bytes)
  <1>1. ISyncByte(bytes) # None
    BY Zenon DEF HasAdaptationField, HasHeader, HasSync
  <1>2. /\ i \in Nat /\ i + 1 \in Nat /\ i + 1 < Len(bytes) /\ i < Len(bytes)
        /\ Len(bytes) \in Nat
    BY <1>1, LengthAssumption DEF ISyncByte, IAdaptationField
  <1> HIDE DEF i
  <1>3. At(bytes, i) \in 0 .. 255 /\ At(bytes, i + 1) \in 0 .. 255
    BY <1>2, ByteAt, Zenon
  <1> QED BY <1>2, <1>3, Zenon DEF i

\* TSPacket finds the indicator where it is (tspacket.cpp:236).
LEMMA FlagFound ==
    ASSUME NEW bytes \in Seq(0 .. 255)
    PROVE  AdaptationFieldOf(bytes).di <=> FlagIn(bytes)
  <1>1. Flagless(<<>>, FALSE).di = FALSE
    BY Zenon DEF Flagless
  <1>2. CASE ~HasAdaptationField(bytes)
    BY <1>1, <1>2, Zenon DEF AdaptationFieldOf, FlagIn
  <1>3. CASE HasAdaptationField(bytes)
    <2> DEFINE i == IAdaptationField(bytes)
               n == At(bytes, i)
               data == Mid(bytes, i, 1 + n)
    <2>1. AdaptationFieldOf(bytes) = AdaptationField(data)
      BY <1>3, Zenon DEF AdaptationFieldOf
    <2>2. /\ i \in Nat /\ i + 1 < Len(bytes) /\ Len(bytes) \in Nat
          /\ n \in 0 .. 255
      BY <1>3, FieldInPacket, Zenon
    <2>3. FlagIn(bytes) <=> /\ 1 <= n /\ i + 1 + n <= Len(bytes)
                            /\ Bit(At(bytes, i + 1), 128)
      BY <1>3, Zenon DEF FlagIn
    <2> HIDE DEF i, n
    <2>4. /\ data \in Seq(0 .. 255)
          /\ Len(data) = IF i + (1 + n) <= Len(bytes) THEN 1 + n ELSE Len(bytes) - i
          /\ \A k \in 1 .. Len(data) : data[k] = bytes[i + k]
      <3>1. i \in 0 .. Len(bytes) /\ 1 + n \in Nat
        BY <2>2
      <3> QED BY <3>1, MidIsSlice, Zenon
    <2> HIDE DEF data
    <2>5. data # <<>> /\ 1 <= Len(data)
      BY <2>2, <2>4
    <2>6. At(data, 0) = n
      BY <2>2, <2>4, <2>5 DEF At, n
    <2>7. CASE ~(i + 1 + n <= Len(bytes))
      <3>1. Len(data) # 1 + n
        BY <2>2, <2>4, <2>7
      <3>2. AdaptationField(data) = Flagless(data, TRUE)
        BY <2>6, <3>1, Zenon DEF AdaptationField
      <3>3. Flagless(data, TRUE).di = FALSE
        BY Zenon DEF Flagless
      <3> QED BY <2>1, <2>3, <2>7, <3>2, <3>3, Zenon
    <2>8. CASE i + 1 + n <= Len(bytes)
      <3>1. Len(data) = 1 + n
        BY <2>2, <2>4, <2>8
      <3>2. CASE ~(1 <= n)
        <4>1. Len(data) = 1
          BY <2>2, <3>1, <3>2
        <4>2. AdaptationField(data) = Flagless(data, FALSE)
          BY <2>5, <2>6, <3>1, <4>1, Zenon DEF AdaptationField
        <4>3. Flagless(data, FALSE).di = FALSE
          BY Zenon DEF Flagless
        <4> QED BY <2>1, <2>3, <3>2, <4>2, <4>3, Zenon
      <3>3. CASE 1 <= n
        <4>1. Len(data) # 1
          BY <2>2, <3>1, <3>3
        <4>2. AdaptationField(data).di = Bit(At(data, 1), 128)
          BY <2>5, <2>6, <3>1, <4>1, Zenon DEF AdaptationField
        <4>3. At(data, 1) = At(bytes, i + 1)
          BY <2>2, <2>4, <3>1, <3>3 DEF At
        <4> QED BY <2>1, <2>3, <2>8, <3>3, <4>2, <4>3, Zenon
      <3> QED BY <3>2, <3>3, Zenon
    <2> QED BY <2>7, <2>8, Zenon
  <1> QED BY <1>2, <1>3, Zenon

\* Two packets with the same header, the one perhaps stripped of what is before
\* it, are found to have an adaptation field together.
LEMMA SameHeader ==
    ASSUME NEW a, NEW b, ISyncByte(a) # None, ISyncByte(b) # None,
           At(a, ISyncByte(a)) = At(b, ISyncByte(b)),
           At(a, ISyncByte(a) + 1) = At(b, ISyncByte(b) + 1),
           At(a, ISyncByte(a) + 2) = At(b, ISyncByte(b) + 2),
           At(a, ISyncByte(a) + 3) = At(b, ISyncByte(b) + 3)
    PROVE  HasAdaptationField(a) <=> HasAdaptationField(b)
  <1>1. HasSync(a) <=> HasSync(b)
    BY Zenon DEF HasSync
  <1>2. PID(a) = PID(b) /\ Control(a) = Control(b)
    BY Zenon DEF PID, Control
  <1> QED BY <1>1, <1>2, Zenon DEF HasAdaptationField, HasHeader

\* Stripping leaves the indicator as it is (tspacket.cpp:208).
LEMMA FlagStripped ==
    ASSUME NEW bytes \in Seq(0 .. 255), Recognized(bytes),
           NEW out \in ToBasicPacketBytes(bytes)
    PROVE  out \in Seq(0 .. 255) /\ (FlagIn(out) <=> FlagIn(bytes))
  <1> DEFINE s == ISyncByte(bytes)
  <1>1. /\ s \in Nat /\ Len(bytes) = s + LengthBasic /\ LengthBasic \in Nat
        /\ LengthBasic >= 6
    BY LengthAssumption DEF Recognized, ISyncByte, None
  <1>2. out = Mid(bytes, s, LengthBasic)
    BY Zenon DEF ToBasicPacketBytes, Recognized
  <1>3. s # None /\ IAdaptationField(bytes) = s + 4
    BY Zenon DEF Recognized, IAdaptationField
  <1> HIDE DEF s
  <1>4. /\ out \in Seq(0 .. 255) /\ Len(out) = LengthBasic
        /\ \A k \in 1 .. LengthBasic : out[k] = bytes[s + k]
    BY <1>1, <1>2, CoreOf, Zenon
  <1>5. ISyncByte(out) = 0 /\ IAdaptationField(out) = 4 /\ 0 # None
    BY <1>4 DEF ISyncByte, IAdaptationField, None
  <1>6. \A j \in 0 .. 5 : At(out, j) = At(bytes, s + j)
    BY <1>1, <1>4 DEF At
  <1>7. /\ At(out, 0) = At(bytes, s) /\ At(out, 0 + 1) = At(bytes, s + 1)
        /\ At(out, 0 + 2) = At(bytes, s + 2) /\ At(out, 0 + 3) = At(bytes, s + 3)
        /\ At(out, 4) = At(bytes, s + 4) /\ At(out, 4 + 1) = At(bytes, (s + 4) + 1)
    BY <1>1, <1>6
  <1>8. HasAdaptationField(out) <=> HasAdaptationField(bytes)
    BY <1>3, <1>5, <1>7, SameHeader, Zenon DEF s
  <1>9. CASE ~HasAdaptationField(bytes)
    BY <1>4, <1>8, <1>9, Zenon DEF FlagIn
  <1>10. CASE HasAdaptationField(bytes)
    <2> DEFINE n == At(bytes, s + 4)
    <2>1. n \in 0 .. 255
      BY <1>3, <1>10, FieldInPacket, Zenon
    <2> HIDE DEF n
    <2>2. 4 + 1 + n <= LengthBasic <=> (s + 4) + 1 + n <= s + LengthBasic
      BY <1>1, <2>1
    <2>3. FlagIn(out) <=> /\ 1 <= n /\ 4 + 1 + n <= LengthBasic
                          /\ Bit(At(bytes, (s + 4) + 1), 128)
      BY <1>4, <1>5, <1>7, <1>8, <1>10, Zenon DEF FlagIn, n
    <2>4. FlagIn(bytes) <=> /\ 1 <= n /\ (s + 4) + 1 + n <= s + LengthBasic
                            /\ Bit(At(bytes, (s + 4) + 1), 128)
      BY <1>1, <1>3, <1>10, Zenon DEF FlagIn, n
    <2> QED BY <1>4, <2>2, <2>3, <2>4, Zenon
  <1> QED BY <1>9, <1>10, Zenon

\* The bit that is set is the one that is looked for.
LEMMA FlagBit == ASSUME NEW b \in 0 .. 255 PROVE Bit((b % 128) + 128, 128)
  <1>1. b % 128 \in 0 .. 127
    OBVIOUS
  <1> DEFINE r == b % 128
  <1> HIDE DEF r
  <1>2. r \in 0 .. 127 => ((r + 128) \div 128) % 2 = 1
    OBVIOUS
  <1> QED BY <1>1, <1>2 DEF Bit, r

\* Once it has been set, it is found.
LEMMA FlagSet ==
    ASSUME NEW bytes \in Seq(0 .. 255), HasPcr(TSPacket(bytes))
    PROVE  FlagIn(Modified(TSPacket(bytes)).bytes)
  <1> DEFINE packet == TSPacket(bytes)
             s == ISyncByte(bytes)
             i == IAdaptationField(bytes)
             data == packet.af.bytes
             out == Overlaid(bytes, i, WithFlag(data))
  <1>1. /\ HasAdaptationField(bytes)
        /\ i \in Nat /\ data \in Seq(0 .. 255)
        /\ 2 <= Len(data) /\ i + Len(data) <= Len(bytes)
        /\ \A k \in 1 .. Len(data) : data[k] = bytes[i + k]
        /\ Len(data) = 1 + At(bytes, i)
    BY PcrNeedsField, Zenon
  <1>2. packet.bytes = bytes
    BY Zenon DEF TSPacket
  <1>3. Modified(packet).bytes = out
    <2>1. SetDiscontinuityIndicator(packet.af, TRUE).bytes = WithFlag(data)
      BY DEF SetDiscontinuityIndicator, WithFlag, TSPacket, AdaptationFieldOf
    <2> QED BY <1>2, <2>1 DEF Modified, UpdateAdaptationfieldBytes, TSPacket, Overlaid
  <1>4. /\ i \in Nat /\ i + 1 < Len(bytes) /\ Len(bytes) \in Nat
        /\ At(bytes, i) \in 0 .. 255 /\ At(bytes, i + 1) \in 0 .. 255
    BY <1>1, FieldInPacket, Zenon
  <1>5. s # None /\ i = s + 4 /\ s \in Nat
    <2>1. s # None
      BY <1>1, Zenon DEF HasAdaptationField, HasHeader, HasSync
    <2> QED BY <2>1, LengthAssumption DEF ISyncByte, IAdaptationField
  <1>6. /\ out \in Seq(0 .. 255) /\ Len(out) = Len(bytes)
        /\ \A k \in 1 .. Len(bytes) : k # i + 2 => out[k] = bytes[k]
    <2>1. /\ out \in Seq(0 .. 255) /\ Len(out) = Len(bytes)
          /\ \A k \in DOMAIN bytes :
               out[k] = bytes[k] \/ (k = i + 2 /\ out[k] = bytes[k] + 128)
      <3>1. /\ i \in Nat /\ data \in Seq(0 .. 255)
            /\ 2 <= Len(data) /\ i + Len(data) <= Len(bytes)
            /\ \A k \in 1 .. Len(data) : data[k] = bytes[i + k]
        BY <1>1, Zenon
      <3> HIDE DEF packet, i, data
      <3> QED BY <3>1, CopiedBack
    <2>2. DOMAIN bytes = 1 .. Len(bytes)
      OBVIOUS
    <2> HIDE DEF out, i
    <2> QED BY <2>1, <2>2, Zenon
  <1>7. out[i + 2] = (bytes[i + 2] % 128) + 128
    <2>1. i + 2 \in DOMAIN bytes /\ (i + 2) - i = 2 /\ 2 \in 1 .. Len(data)
      BY <1>1, <1>4
    <2>2. /\ Len(WithFlag(data)) = Len(data)
          /\ WithFlag(data)[2] = (data[2] % 128) + 128
      <3> HIDE DEF data
      <3> QED BY <1>1 DEF WithFlag
    <2>3. i + 2 \in i + 1 .. i + Len(WithFlag(data))
      <3> HIDE DEF data, i
      <3> QED BY <1>1, <2>2
    <2>4. out[i + 2] = WithFlag(data)[2]
      BY <2>1, <2>3, Zenon DEF Overlaid
    <2>5. data[2] = bytes[i + 2]
      BY <1>1, <2>1, Zenon
    <2> QED BY <2>2, <2>4, <2>5, Zenon
  <1>8. ISyncByte(out) = s /\ IAdaptationField(out) = i
    BY <1>6, Zenon DEF ISyncByte, IAdaptationField
  <1> HIDE DEF out, data, s, i
  <1>9. \A j \in 0 .. 4 : At(out, s + j) = At(bytes, s + j)
    BY <1>4, <1>5, <1>6 DEF At
  <1>10. /\ At(out, s) = At(bytes, s) /\ At(out, s + 1) = At(bytes, s + 1)
         /\ At(out, s + 2) = At(bytes, s + 2) /\ At(out, s + 3) = At(bytes, s + 3)
         /\ At(out, i) = At(bytes, i)
    BY <1>5, <1>9
  <1>11. HasAdaptationField(out)
    BY <1>1, <1>5, <1>8, <1>10, SameHeader, Zenon DEF s
  <1>12. 1 <= At(bytes, i) /\ i + 1 + At(bytes, i) <= Len(bytes)
    <2>1. ASSUME NEW n \in 0 .. 255, NEW l, l = 1 + n, 2 <= l, i + l <= Len(bytes)
          PROVE  1 <= n /\ i + 1 + n <= Len(bytes)
      BY <1>4, <2>1
    <2> QED BY <1>1, <1>4, <2>1, Zenon
  <1>13. Bit(At(out, i + 1), 128)
    <2>1. At(out, i + 1) = (At(bytes, i + 1) % 128) + 128
      BY <1>4, <1>7 DEF At
    <2> QED BY <1>4, <2>1, FlagBit, Zenon
  <1> QED BY <1>3, <1>6, <1>8, <1>10, <1>11, <1>12, <1>13, Zenon DEF FlagIn

\* What clients have been sent last is what the brake remembers, and the flag is
\* in what is queued exactly if it was read there or the PCR has stepped.
StepInv ==
    /\ read \in FirstPackets \cup {Nothing}
    /\ queued \in Seq(0 .. 255)
    /\ seen = lastPacketTime /\ seen \in Nat
    /\ read # Nothing => (FlagIn(queued) <=> Parsed[read].af.di \/ stepped)

\* What is in the bytes is what a client's parser finds.
LEMMA StepInvImplies == StepInv => StepsFlagged
  <1> SUFFICES ASSUME StepInv, read # Nothing, Recognized(queued),
                      NEW strip \in BOOLEAN, NEW out \in Sent(strip)
               PROVE  AdaptationFieldOf(out).di <=> Parsed[read].af.di \/ stepped
    BY Zenon DEF StepsFlagged
  <1>1. /\ queued \in Seq(0 .. 255)
        /\ FlagIn(queued) <=> Parsed[read].af.di \/ stepped
    BY Zenon DEF StepInv
  <1>2. out \in Seq(0 .. 255) /\ (FlagIn(out) <=> FlagIn(queued))
    <2>1. CASE strip
      <3>1. out \in ToBasicPacketBytes(queued)
        BY <2>1, Zenon DEF Sent
      <3> QED BY <1>1, <3>1, FlagStripped, Zenon
    <2>2. CASE ~strip
      <3>1. out = queued
        BY <2>2, Zenon DEF Sent
      <3> QED BY <1>1, <3>1, Zenon
    <2> QED BY <2>1, <2>2, Zenon
  <1>3. AdaptationFieldOf(out).di <=> FlagIn(out)
    BY <1>2, FlagFound, Zenon
  <1> QED BY <1>1, <1>2, <1>3, Zenon

\* The brake remembers the PCR of every packet that has one.
LEMMA Remembered ==
    ASSUME NEW pcr, NEW t, PacketAt(pcr, t)
    PROVE  lastPacketTime' = pcr
  BY Zenon DEF PacketAt, Remember

\* A step is one for the clients as for the brake.
LEMMA StepSeen ==
    ASSUME NEW pcr, seen = lastPacketTime
    PROVE  pcr < seen \/ pcr > seen + Second <=> Discontinuous(pcr)
  BY Zenon DEF Discontinuous

\* A packet is queued with the flag it came with, or with it set at a step.
LEMMA ForwardSteps == StepInv /\ Forward => StepInv'
  <1> SUFFICES ASSUME StepInv, Forward PROVE StepInv'
    OBVIOUS
  <1>1. PICK p \in IF read = Nothing THEN FirstPackets ELSE Packets, lag \in Lag :
          /\ read' = p
          /\ WithoutPcr(p) \/ Continuous(p, clock + lag) \/ Stepped(p, clock + lag)
    BY Zenon DEF Forward
  <1>2. p \in FirstPackets /\ BytesOf[p] \in Seq(0 .. 255)
    BY PacketsAssumption, Zenon
  <1> DEFINE packet == TSPacket(BytesOf[p])
  <1>3. /\ Parsed[p] = packet /\ Parsed' = Parsed
        /\ packet.bytes = BytesOf[p] /\ packet.af = AdaptationFieldOf(BytesOf[p])
    BY <1>2, Zenon DEF Parsed, TSPacket
  <1>4. packet.af.di <=> FlagIn(BytesOf[p])
    BY <1>2, <1>3, FlagFound, Zenon
  <1>5. HasPcr(packet) => packet.af.pcr \in Nat
    <2>1. HasPcr(packet) => packet.af.pcr \in 0 .. MaxPcr
      BY <1>2, <1>3, PcrInRange, Zenon
    <2>2. \A x \in 0 .. MaxPcr : x \in Nat
      BY TickAssumption
    <2> QED BY <2>1, <2>2, Zenon
  <1> HIDE DEF packet
  <1>6. CASE WithoutPcr(p)
    <2>1. /\ ~HasPcr(packet) /\ queued' = BytesOf[p] /\ seen' = seen
          /\ stepped' = (seen < seen \/ seen > seen + Second)
          /\ lastPacketTime' = lastPacketTime
      BY <1>3, <1>6, Zenon DEF WithoutPcr, Queue, vars
    <2>2. ~(seen < seen \/ seen > seen + Second)
      BY SecondAssumption DEF StepInv
    <2>3. FlagIn(queued') <=> packet.af.di \/ stepped'
      BY <1>4, <2>1, <2>2, Zenon
    <2> QED BY <1>1, <1>2, <1>3, <2>1, <2>3, Zenon DEF StepInv
  <1>7. CASE Continuous(p, clock + lag)
    <2>1. /\ HasPcr(packet) /\ ~Discontinuous(packet.af.pcr)
          /\ queued' = BytesOf[p] /\ seen' = packet.af.pcr
          /\ stepped' = (packet.af.pcr < seen \/ packet.af.pcr > seen + Second)
          /\ PacketAt(packet.af.pcr, clock + lag)
      BY <1>3, <1>7, Zenon DEF Continuous, Queue
    <2>2. lastPacketTime' = packet.af.pcr
      BY <2>1, Remembered, Zenon
    <2>3. ~stepped'
      BY <2>1, StepSeen, Zenon DEF StepInv
    <2>4. FlagIn(queued') <=> packet.af.di \/ stepped'
      BY <1>4, <2>1, <2>3, Zenon
    <2> QED BY <1>1, <1>2, <1>3, <1>5, <2>1, <2>2, <2>4, Zenon DEF StepInv
  <1>8. CASE Stepped(p, clock + lag)
    <2>1. /\ HasPcr(packet) /\ Discontinuous(packet.af.pcr)
          /\ PacketAt(packet.af.pcr, clock + lag)
      BY <1>3, <1>8, Zenon DEF Stepped
    <2>2. CanModify(packet) /\ Modified(packet).bytes \in Seq(0 .. 255)
      BY <1>2, <2>1, ModifiedButFlag, Zenon DEF packet
    <2>3. Queue(Modified(packet))
      BY <1>3, <1>8, <2>2, Zenon DEF Stepped
    <2>4. Modified(packet).af.pcr = packet.af.pcr
      <3>1. /\ DOMAIN packet = {"bytes", "error", "validity", "af", "payload"}
            /\ "pcr" \in DOMAIN packet.af
        <4>1. DOMAIN packet = {"bytes", "error", "validity", "af", "payload"}
          BY DEF packet, TSPacket
        <4>2. "pcr" \in DOMAIN packet.af
          BY <1>3 DEF AdaptationFieldOf, AdaptationField, Flagless
        <4> QED BY <4>1, <4>2
      <3> QED BY <3>1 DEF Modified, UpdateAdaptationfieldBytes, SetDiscontinuityIndicator
    <2>5. /\ queued' = Modified(packet).bytes /\ seen' = packet.af.pcr
          /\ stepped' = (packet.af.pcr < seen \/ packet.af.pcr > seen + Second)
      BY <2>1, <2>3, <2>4, Zenon DEF Queue, HasPcr
    <2>6. lastPacketTime' = packet.af.pcr
      BY <2>1, Remembered, Zenon
    <2>7. stepped'
      BY <2>1, <2>5, StepSeen, Zenon DEF StepInv
    <2>8. FlagIn(queued')
      BY <1>2, <2>1, <2>5, FlagSet, Zenon DEF packet
    <2> QED BY <1>1, <1>2, <1>3, <1>5, <2>1, <2>2, <2>5, <2>6, <2>7, <2>8, Zenon DEF StepInv
  <1> QED BY <1>1, <1>6, <1>7, <1>8, Zenon

\* The invariant holds throughout.
LEMMA AlwaysStepping == FSpec => []StepInv
  <1>1. FInit => StepInv
    BY DEF FInit, StepInv, Init
  <1>2. StepInv /\ [FNext]_fvars => StepInv'
    <2>1. Meanwhile \/ UNCHANGED fvars =>
            /\ read' = read /\ queued' = queued /\ seen' = seen
            /\ stepped' = stepped /\ lastPacketTime' = lastPacketTime
      BY Zenon DEF Meanwhile, Reopen, Wait, fvars, vars
    <2>2. StepInv /\ (Meanwhile \/ UNCHANGED fvars) => StepInv'
      <3> SUFFICES ASSUME StepInv, Meanwhile \/ UNCHANGED fvars PROVE StepInv'
        OBVIOUS
      <3>1. /\ read' = read /\ queued' = queued /\ seen' = seen
            /\ stepped' = stepped /\ lastPacketTime' = lastPacketTime
        BY <2>1
      <3>2. Parsed' = Parsed
        BY Zenon DEF Parsed
      <3>3. FlagIn(queued') <=> FlagIn(queued)
        BY <3>1, Zenon
      <3>4. Parsed[read'].af.di \/ stepped' <=> Parsed[read].af.di \/ stepped
        BY <3>1
      <3> QED BY <3>1, <3>2, <3>3, <3>4, Zenon DEF StepInv
    <2> QED BY <2>1, <2>2, ForwardSteps, Zenon DEF FNext
  <1> QED BY <1>1, <1>2, PTL DEF FSpec

\* For packets of any bytes: a client that parses what it is sent, stripped or
\* not, finds the Discontinuity Indicator where the PCR steps or where it was set
\* in the input, and nowhere else (streamserver.cpp:581, 624).
THEOREM StepsAreFlagged == FSpec => []StepsFlagged
  BY AlwaysStepping, StepInvImplies, PTL

\* For packets of any bytes every variable keeps its type, and the brake
\* remembers the PCR that clients have been sent last.
THEOREM ForwardingTypeCorrect == FSpec => []ForwardingTypeOK
  <1>1. Spec => []TypeOK
    <2>1. IInv => TypeOK
      BY DEF IInv
    <2> QED BY <2>1, InitInvariant, NextInvariant, PTL DEF Spec
  <1>2. StepInv /\ TypeOK => ForwardingTypeOK
    BY Zenon DEF StepInv, ForwardingTypeOK
  <1> QED BY <1>1, <1>2, AlwaysStepping, ForwardingImplementsBrake, PTL DEF BrakeImplemented

-----------------------------------------------------------------------------
(***************************************************************************)
(* The parser: where the bytes of a packet's parts are, and that they are  *)
(* found there.                                                            *)
(***************************************************************************)

\* The types of what describes a packet.
LEMMA ShapeParts ==
    ASSUME NEW s \in PacketShape
    PROVE  /\ s.lead \in {0, TimeCodePrefix} /\ s.tail \in Nat /\ s.tail # TimeCodePrefix
           /\ s.sync \in BOOLEAN /\ s.di \in BOOLEAN
           /\ s.marks \in 0 .. 7 /\ s.pid \in 0 .. 8191
           /\ s.scrambling \in 0 .. 3 /\ s.control \in 0 .. 3 /\ s.counter \in 0 .. 15
           /\ s.len \in 0 .. 255 /\ s.priority \in 0 .. 3
           /\ s.pcr \in Clocks /\ s.opcr \in Clocks
           /\ s.splice \in 0 .. 255 /\ s.private \in Datas /\ s.extension \in Datas
           /\ s.rest \in Seq(0 .. 255) /\ Len(s.rest) >= LengthBasic
  BY DEF PacketShape

\* The digits of a number of 33 bits, which are all of it.
LEMMA BaseDigits ==
    ASSUME NEW base \in Nat, base \div 33554432 <= 255
    PROVE  /\ base \div 33554432 \in 0 .. 255 /\ (base \div 131072) % 256 \in 0 .. 255
           /\ (base \div 512) % 256 \in 0 .. 255 /\ (base \div 2) % 256 \in 0 .. 255
           /\ base % 2 \in 0 .. 1
           /\ (base \div 33554432) * 33554432 + ((base \div 131072) % 256) * 131072
                + ((base \div 512) % 256) * 512 + ((base \div 2) % 256) * 2 + (base % 2) = base
  <1> DEFINE q1 == base \div 2  q2 == q1 \div 256  q3 == q2 \div 256  q4 == q3 \div 256
  <1>1. base = q1 * 2 + (base % 2) /\ base % 2 \in 0 .. 1 /\ q1 \in Nat
    BY SMT
  <1>2. base \div 512 = q2
    BY SMT
  <1>3. base \div 131072 = q3
    BY SMT
  <1>4. base \div 33554432 = q4
    BY SMT
  <1> HIDE DEF q1
  <1>5. q1 = q2 * 256 + (q1 % 256) /\ q1 % 256 \in 0 .. 255 /\ q2 \in Nat
    BY <1>1, SMT
  <1> HIDE DEF q2
  <1>6. q2 = q3 * 256 + (q2 % 256) /\ q2 % 256 \in 0 .. 255 /\ q3 \in Nat
    BY <1>5, SMT
  <1> HIDE DEF q3
  <1>7. q3 = q4 * 256 + (q3 % 256) /\ q3 % 256 \in 0 .. 255 /\ q4 \in Nat
    BY <1>6, SMT
  <1> HIDE DEF q4
  <1>8. base \div 2 = q1
    BY SMT DEF q1
  <1>9. q4 * 33554432 + (q3 % 256) * 131072 + (q2 % 256) * 512 + (q1 % 256) * 2 + (base % 2) = base
    BY <1>1, <1>5, <1>6, <1>7, SMT
  <1> QED BY <1>1, <1>2, <1>3, <1>4, <1>5, <1>6, <1>7, <1>8, <1>9, SMT

\* The bytes of a clock reference are bytes, and their value is what they are made from.
LEMMA ClockBytes ==
    ASSUME NEW c \in Clocks
    PROVE  /\ PcrBytes(c) \in Seq(0 .. 255) /\ Len(PcrBytes(c)) = 6
           /\ PcrValue(PcrBytes(c)) = ClockValue(c)
  <1> DEFINE low == (c.base % 2) * 128 + 126 + c.extension \div 256
             last == c.extension % 256
             n == c.base
  <1>1. n \in Nat /\ n \div 33554432 <= 255 /\ c.extension \in 0 .. 511
    BY SMT DEF Clocks
  <1>2. /\ n \div 33554432 \in 0 .. 255 /\ (n \div 131072) % 256 \in 0 .. 255
        /\ (n \div 512) % 256 \in 0 .. 255 /\ (n \div 2) % 256 \in 0 .. 255
        /\ n % 2 \in 0 .. 1
        /\ (n \div 33554432) * 33554432 + ((n \div 131072) % 256) * 131072
             + ((n \div 512) % 256) * 512 + ((n \div 2) % 256) * 2 + (n % 2) = n
    <2> HIDE DEF n
    <2> QED BY <1>1, BaseDigits, SMT
  <1>3. /\ low \in 0 .. 255 /\ last \in 0 .. 255
        /\ low \div 128 = n % 2 /\ (low % 2) * 256 + last = c.extension
    <2> DEFINE bit == n % 2
               e == c.extension
    <2>1. bit \in 0 .. 1 /\ e \in 0 .. 511
      BY <1>1, <1>2
    <2> HIDE DEF bit, e
    <2>2. e \div 256 \in 0 .. 1 /\ e % 256 \in 0 .. 255 /\ (e \div 256) * 256 + (e % 256) = e
      BY <2>1
    <2>3. low = bit * 128 + 126 + e \div 256 /\ last = e % 256
      BY DEF bit, e
    <2>4. \A x \in 0 .. 1, y \in 0 .. 1 :
            LET z == x * 128 + 126 + y
            IN  z \in 0 .. 255 /\ z \div 128 = x /\ z % 2 = y
      OBVIOUS
    <2> HIDE DEF low, last
    <2>5. low \in 0 .. 255 /\ low \div 128 = bit /\ low % 2 = e \div 256
      BY <2>1, <2>2, <2>3, <2>4
    <2> QED BY <2>2, <2>3, <2>5 DEF bit, e
  <1>4. PcrBytes(c) = <<n \div 33554432, (n \div 131072) % 256, (n \div 512) % 256,
                        (n \div 2) % 256, low, last>>
    BY SMT DEF PcrBytes
  <1> DEFINE a1 == n \div 33554432  a2 == (n \div 131072) % 256
             a3 == (n \div 512) % 256  a4 == (n \div 2) % 256  bit == n % 2
  <1>5. /\ a1 \in 0 .. 255 /\ a2 \in 0 .. 255 /\ a3 \in 0 .. 255 /\ a4 \in 0 .. 255
        /\ bit \in 0 .. 1 /\ a1 * 33554432 + a2 * 131072 + a3 * 512 + a4 * 2 + bit = n
        /\ PcrBytes(c) = <<a1, a2, a3, a4, low, last>>
        /\ low \in 0 .. 255 /\ last \in 0 .. 255 /\ low \div 128 = bit
    BY <1>2, <1>3, <1>4, SMT
  <1> HIDE DEF a1, a2, a3, a4, low, last, bit
  <1> DEFINE b == PcrBytes(c)
  <1>6. /\ b \in Seq(0 .. 255) /\ Len(b) = 6
        /\ At(b, 0) = a1 /\ At(b, 1) = a2 /\ At(b, 2) = a3 /\ At(b, 3) = a4
        /\ At(b, 4) = low /\ At(b, 5) = last
    <2>1. /\ a1 \in 0 .. 255 /\ a2 \in 0 .. 255 /\ a3 \in 0 .. 255 /\ a4 \in 0 .. 255
          /\ low \in 0 .. 255 /\ last \in 0 .. 255
          /\ b = <<a1, a2, a3, a4, low, last>>
      BY <1>5, SMT
    <2>2. LET t == <<a1, a2, a3, a4, low, last>>
          IN  /\ t \in Seq(0 .. 255) /\ Len(t) = 6
              /\ At(t, 0) = a1 /\ At(t, 1) = a2 /\ At(t, 2) = a3 /\ At(t, 3) = a4
              /\ At(t, 4) = low /\ At(t, 5) = last
      BY <2>1, SMT DEF At
    <2> HIDE DEF b
    <2> QED BY <2>1, <2>2, Zenon
  <1>7. PcrValue(b) = (a1 * 33554432 + a2 * 131072 + a3 * 512 + a4 * 2 + low \div 128) * PcrRatio
                        + ((low % 2) * 256 + last)
    BY <1>6, SMT DEF PcrValue
  <1>8. a1 * 33554432 + a2 * 131072 + a3 * 512 + a4 * 2 + low \div 128 = n
    BY <1>5, SMT
  <1>9. PcrValue(b) = n * PcrRatio + c.extension
    BY <1>3, <1>7, <1>8, SMT
  <1> QED BY <1>6, <1>9, SMT DEF ClockValue

\* What is there of an optional field: bytes, as many as it takes.
LEMMA PartBytes ==
    ASSUME NEW s \in PacketShape, NEW k \in Fields
    PROVE  /\ FieldBytes(s, k) \in Seq(0 .. 255) /\ Part(s, k) \in Seq(0 .. 255)
           /\ Len(FieldBytes(s, k)) = (IF k <= 2 THEN 6 ELSE IF k = 3 THEN 1
                                        ELSE 1 + FieldBytes(s, k)[1])
           /\ Len(Part(s, k)) = IF k \in s.flags THEN Len(FieldBytes(s, k)) ELSE 0
  <1>1. /\ s.pcr \in Clocks /\ s.opcr \in Clocks /\ s.splice \in 0 .. 255
        /\ s.private \in Datas /\ s.extension \in Datas
    BY ShapeParts
  <1>2. ASSUME NEW d \in Datas, NEW f, f = <<Len(d)>> \o d
        PROVE  f \in Seq(0 .. 255) /\ Len(f) = 1 + f[1]
    <2>1. d \in Seq(0 .. 255) /\ Len(d) <= 255
      BY Zenon DEF Datas
    <2> DEFINE n == Len(d)
    <2>2. n \in 0 .. 255
      <3>1. n \in Nat /\ n <= 255
        BY <2>1, LenProperties
      <3> HIDE DEF n
      <3> QED BY <3>1
    <2> HIDE DEF n
    <2>3. <<n>> \in Seq(0 .. 255) /\ Len(<<n>>) = 1 /\ <<n>>[1] = n
      BY <2>2
    <2>4. f = <<n>> \o d
      BY <1>2 DEF n
    <2>5. f \in Seq(0 .. 255) /\ Len(f) = 1 + n
      <3>1. f \in Seq(0 .. 255) /\ Len(f) = Len(<<n>>) + Len(d)
        BY <2>1, <2>3, <2>4, ConcatProperties
      <3> QED BY <2>3, <3>1 DEF n
    <2>6. f[1] = n
      BY <2>1, <2>3, <2>4
    <2> QED BY <2>5, <2>6
  <1>3. /\ FieldBytes(s, k) \in Seq(0 .. 255)
        /\ Len(FieldBytes(s, k)) = (IF k <= 2 THEN 6 ELSE IF k = 3 THEN 1
                                     ELSE 1 + FieldBytes(s, k)[1])
    <2>1. CASE k = 1
      <3>1. FieldBytes(s, k) = PcrBytes(s.pcr)
        BY <2>1 DEF FieldBytes
      <3> QED BY <1>1, <2>1, <3>1, ClockBytes
    <2>2. CASE k = 2
      <3>1. FieldBytes(s, k) = PcrBytes(s.opcr)
        BY <2>2 DEF FieldBytes
      <3> QED BY <1>1, <2>2, <3>1, ClockBytes
    <2>3. CASE k = 3
      <3>1. FieldBytes(s, k) = <<s.splice>>
        BY <2>3 DEF FieldBytes
      <3>2. <<s.splice>> \in Seq(0 .. 255) /\ Len(<<s.splice>>) = 1
        BY <1>1
      <3>3. (IF k <= 2 THEN 6 ELSE IF k = 3 THEN 1 ELSE 1 + FieldBytes(s, k)[1]) = 1
        BY <2>3
      <3> QED BY <3>1, <3>2, <3>3, Zenon
    <2>4. CASE k = 4
      <3>1. FieldBytes(s, k) = <<Len(s.private)>> \o s.private
        BY <2>4 DEF FieldBytes
      <3>2. FieldBytes(s, k) \in Seq(0 .. 255) /\ Len(FieldBytes(s, k)) = 1 + FieldBytes(s, k)[1]
        BY <1>1, <1>2, <3>1, Zenon
      <3> QED BY <2>4, <3>2
    <2>5. CASE k = 5
      <3>1. FieldBytes(s, k) = <<Len(s.extension)>> \o s.extension
        BY <2>5 DEF FieldBytes
      <3>2. FieldBytes(s, k) \in Seq(0 .. 255) /\ Len(FieldBytes(s, k)) = 1 + FieldBytes(s, k)[1]
        BY <1>1, <1>2, <3>1, Zenon
      <3> QED BY <2>5, <3>2
    <2> QED BY <2>1, <2>2, <2>3, <2>4, <2>5 DEF Fields
  <1>4. /\ Part(s, k) \in Seq(0 .. 255)
        /\ Len(Part(s, k)) = IF k \in s.flags THEN Len(FieldBytes(s, k)) ELSE 0
    <2>1. CASE k \in s.flags
      <3>1. Part(s, k) = FieldBytes(s, k)
        BY <2>1, Zenon DEF Part
      <3> QED BY <1>3, <2>1, <3>1
    <2>2. CASE k \notin s.flags
      <3>1. Part(s, k) = <<>> /\ Len(<<>>) = 0 /\ <<>> \in Seq(0 .. 255)
        BY <2>2 DEF Part
      <3> QED BY <2>2, <3>1
    <2> QED BY <2>1, <2>2
  <1> QED BY <1>3, <1>4

\* Each part adds to what a field needs.
LEMMA NeedsMore ==
    ASSUME NEW s \in PacketShape
    PROVE  /\ Needs(s, 0) = 1
           /\ \A k \in 0 .. 5 : Needs(s, k) \in Nat \ {0}
           /\ \A k \in Fields : Needs(s, k) = Needs(s, k - 1) + Len(Part(s, k))
  <1> DEFINE n(k) == Len(Part(s, k))
  <1>1. n(1) \in Nat /\ n(2) \in Nat /\ n(3) \in Nat /\ n(4) \in Nat /\ n(5) \in Nat
    <2>1. \A k \in Fields : Part(s, k) \in Seq(0 .. 255)
      BY PartBytes
    <2> QED BY <2>1 DEF Fields
  <1>2. \A k : Needs(s, k) = 1 + (IF 1 <= k THEN n(1) ELSE 0) + (IF 2 <= k THEN n(2) ELSE 0)
                  + (IF 3 <= k THEN n(3) ELSE 0) + (IF 4 <= k THEN n(4) ELSE 0)
                  + (IF 5 <= k THEN n(5) ELSE 0)
    BY Zenon DEF Needs
  <1>3. \A k \in Fields : Len(Part(s, k)) = n(k)
    OBVIOUS
  <1> HIDE DEF n
  <1>4. Needs(s, 0) = 1
    BY <1>1, <1>2
  <1>5. /\ Needs(s, 1) = 1 + n(1) /\ Needs(s, 2) = 1 + n(1) + n(2)
        /\ Needs(s, 3) = 1 + n(1) + n(2) + n(3) /\ Needs(s, 4) = 1 + n(1) + n(2) + n(3) + n(4)
        /\ Needs(s, 5) = 1 + n(1) + n(2) + n(3) + n(4) + n(5)
    BY <1>1, <1>2
  <1>6. ASSUME NEW k \in Fields PROVE Needs(s, k) = Needs(s, k - 1) + n(k)
    <2>1. k = 1 \/ k = 2 \/ k = 3 \/ k = 4 \/ k = 5
      BY DEF Fields
    <2> QED BY <1>1, <1>4, <1>5, <2>1
  <1>7. ASSUME NEW k \in 0 .. 5 PROVE Needs(s, k) \in Nat \ {0}
    <2>1. k = 0 \/ k = 1 \/ k = 2 \/ k = 3 \/ k = 4 \/ k = 5
      OBVIOUS
    <2> QED BY <1>1, <1>4, <1>5, <2>1
  <1> QED BY <1>3, <1>4, <1>6, <1>7

\* A sequence that begins with another one.
Begins(b, a) == Len(a) <= Len(b) /\ \A i \in 1 .. Len(a) : b[i] = a[i]

\* A concatenation begins with its first part and goes on with the second.
LEMMA Joined ==
    ASSUME NEW a \in Seq(0 .. 255), NEW b \in Seq(0 .. 255)
    PROVE  /\ a \o b \in Seq(0 .. 255) /\ Len(a \o b) = Len(a) + Len(b)
           /\ Begins(a \o b, a)
           /\ \A i \in 1 .. Len(b) : (a \o b)[Len(a) + i] = b[i]
  BY ConcatProperties DEF Begins

\* What begins with something begins with its beginning.
LEMMA BeginsOn ==
    ASSUME NEW a \in Seq(0 .. 255), NEW b \in Seq(0 .. 255), NEW c \in Seq(0 .. 255),
           Begins(b, a), Begins(c, b)
    PROVE  Begins(c, a)
  BY DEF Begins

\* The bits of a byte that is made of them.
LEMMA ByteOfBits ==
    ASSUME NEW d \in {0, 128}, NEW p \in 0 .. 3, NEW f1 \in 0 .. 1, NEW f2 \in 0 .. 1,
           NEW f3 \in 0 .. 1, NEW f4 \in 0 .. 1, NEW f5 \in 0 .. 1,
           NEW b, b = d + 32 * p + 16 * f1 + 8 * f2 + 4 * f3 + 2 * f4 + f5
    PROVE  /\ b \in 0 .. 255 /\ (Bit(b, 128) <=> d = 128)
           /\ (Bit(b, 16) <=> f1 = 1) /\ (Bit(b, 8) <=> f2 = 1) /\ (Bit(b, 4) <=> f3 = 1)
           /\ (Bit(b, 2) <=> f4 = 1) /\ (Bit(b, 1) <=> f5 = 1)
  BY SMTT(30) DEF Bit

\* The byte of the flags has the flags that are to be there.
LEMMA FlagsBuilt ==
    ASSUME NEW s \in PacketShape
    PROVE  /\ FlagByte(s) \in 0 .. 255
           /\ Bit(FlagByte(s), 128) <=> s.di
           /\ \A k \in Fields : Bit(FlagByte(s), Mask[k]) <=> k \in s.flags
  <1> DEFINE flag(k) == IF k \in s.flags THEN 1 ELSE 0
             d == IF s.di THEN 128 ELSE 0
             b == d + 32 * s.priority + 16 * flag(1) + 8 * flag(2) + 4 * flag(3) + 2 * flag(4) + flag(5)
  <1>1. FlagByte(s) = b
    BY Zenon DEF FlagByte
  <1>2. \A k : flag(k) \in 0 .. 1 /\ (flag(k) = 1 <=> k \in s.flags)
    OBVIOUS
  <1>3. d \in {0, 128} /\ (d = 128 <=> s.di) /\ s.priority \in 0 .. 3
    BY ShapeParts
  <1> HIDE DEF d, flag
  <1>4. /\ b \in 0 .. 255 /\ (Bit(b, 128) <=> d = 128)
        /\ (Bit(b, 16) <=> flag(1) = 1) /\ (Bit(b, 8) <=> flag(2) = 1)
        /\ (Bit(b, 4) <=> flag(3) = 1) /\ (Bit(b, 2) <=> flag(4) = 1) /\ (Bit(b, 1) <=> flag(5) = 1)
    BY <1>2, <1>3, ByteOfBits
  <1> HIDE DEF b
  <1>5. ASSUME NEW k \in Fields PROVE Bit(b, Mask[k]) <=> flag(k) = 1
    <2>1. Mask[1] = 16 /\ Mask[2] = 8 /\ Mask[3] = 4 /\ Mask[4] = 2 /\ Mask[5] = 1
      BY DEF Mask
    <2>2. k = 1 \/ k = 2 \/ k = 3 \/ k = 4 \/ k = 5
      BY DEF Fields
    <2>3. CASE k = 1  BY <1>4, <2>1, <2>3, Zenon
    <2>4. CASE k = 2  BY <1>4, <2>1, <2>4, Zenon
    <2>5. CASE k = 3  BY <1>4, <2>1, <2>5, Zenon
    <2>6. CASE k = 4  BY <1>4, <2>1, <2>6, Zenon
    <2>7. CASE k = 5  BY <1>4, <2>1, <2>7, Zenon
    <2> QED BY <2>2, <2>3, <2>4, <2>5, <2>6, <2>7
  <1> QED BY <1>1, <1>2, <1>3, <1>4, <1>5, Zenon

\* The bytes of a header, and what is in them.
LEMMA HeaderBuilt ==
    ASSUME NEW s \in PacketShape
    PROVE  /\ Header(s) \in Seq(0 .. 255) /\ Len(Header(s)) = 4
           /\ Header(s)[1] = SyncByte <=> s.sync
           /\ (Header(s)[2] % 32) * 256 + Header(s)[3] = s.pid
           /\ (Header(s)[4] \div 16) % 4 = s.control
  <1> DEFINE a == IF s.sync THEN SyncByte ELSE 0
             b == 32 * s.marks + s.pid \div 256
             c == s.pid % 256
             d == 64 * s.scrambling + 16 * s.control + s.counter
  <1>1. /\ s.sync \in BOOLEAN /\ s.marks \in 0 .. 7 /\ s.pid \in 0 .. 8191
        /\ s.scrambling \in 0 .. 3 /\ s.control \in 0 .. 3 /\ s.counter \in 0 .. 15
    BY ShapeParts
  <1>2. a \in 0 .. 255 /\ (a = SyncByte <=> s.sync)
    BY <1>1 DEF SyncByte
  <1>3. b \in 0 .. 255 /\ c \in 0 .. 255 /\ (b % 32) * 256 + c = s.pid
    <2> DEFINE m == s.marks  p == s.pid  h == s.pid \div 256
    <2>1. m \in 0 .. 7 /\ p \in 0 .. 8191 /\ h = p \div 256 /\ b = 32 * m + h /\ c = p % 256
      BY <1>1
    <2> HIDE DEF m, p, h, b, c
    <2>2. h \in 0 .. 31 /\ h * 256 + c = p /\ c \in 0 .. 255
      BY <2>1
    <2>3. b \in 0 .. 255 /\ b % 32 = h
      BY <2>1, <2>2
    <2>4. b \in 0 .. 255 /\ c \in 0 .. 255 /\ (b % 32) * 256 + c = p
      BY <2>2, <2>3
    <2> QED BY <2>4, Zenon DEF p
  <1>4. d \in 0 .. 255 /\ (d \div 16) % 4 = s.control
    <2> DEFINE x == s.scrambling  y == s.control  z == s.counter
    <2>1. x \in 0 .. 3 /\ y \in 0 .. 3 /\ z \in 0 .. 15 /\ d = 64 * x + 16 * y + z
      BY <1>1
    <2> HIDE DEF x, y, z, d
    <2>2. d \in 0 .. 255 /\ d \div 16 = 4 * x + y
      BY <2>1
    <2>3. (4 * x + y) % 4 = y
      BY <2>1
    <2>4. d \in 0 .. 255 /\ (d \div 16) % 4 = y
      BY <2>2, <2>3
    <2> QED BY <2>4, Zenon DEF y
  <1>5. Header(s) = <<a, b, c, d>>
    BY Zenon DEF Header
  <1> HIDE DEF a, b, c, d
  <1>6. /\ <<a, b, c, d>> \in Seq(0 .. 255) /\ Len(<<a, b, c, d>>) = 4
        /\ <<a, b, c, d>>[1] = a /\ <<a, b, c, d>>[2] = b
        /\ <<a, b, c, d>>[3] = c /\ <<a, b, c, d>>[4] = d
    BY <1>2, <1>3, <1>4
  <1> DEFINE h == Header(s)
  <1>7. h \in Seq(0 .. 255) /\ Len(h) = 4 /\ h[1] = a /\ h[2] = b /\ h[3] = c /\ h[4] = d
    BY <1>5, <1>6, Zenon
  <1> QED BY <1>2, <1>3, <1>4, <1>7, Zenon

\* A part of a field that is joined to what precedes it is found behind that, and
\* stays there however the field goes on.
LEMMA PartJoined ==
    ASSUME NEW a \in Seq(0 .. 255), NEW p \in Seq(0 .. 255), NEW c \in Seq(0 .. 255),
           Begins(c, a \o p)
    PROVE  /\ Begins(c, a)
           /\ \A j \in 1 .. Len(p) : Len(a) + j <= Len(c) /\ c[Len(a) + j] = p[j]
  <1> DEFINE b == a \o p
  <1>1. /\ b \in Seq(0 .. 255) /\ Len(b) = Len(a) + Len(p) /\ Begins(b, a)
        /\ \A i \in 1 .. Len(p) : b[Len(a) + i] = p[i]
    BY Joined
  <1>2. Begins(c, b)
    OBVIOUS
  <1> HIDE DEF b
  <1>3. Begins(c, a)
    BY <1>1, <1>2, BeginsOn
  <1>4. ASSUME NEW j \in 1 .. Len(p)
        PROVE  Len(a) + j <= Len(c) /\ c[Len(a) + j] = p[j]
    <2>1. Len(a) \in Nat /\ Len(b) \in Nat /\ Len(c) \in Nat
      OBVIOUS
    <2>2. Len(a) + j \in 1 .. Len(b)
      BY <1>1, <2>1
    <2>3. c[Len(a) + j] = b[Len(a) + j] /\ Len(b) <= Len(c)
      BY <1>2, <2>2 DEF Begins
    <2> QED BY <1>1, <2>1, <2>2, <2>3
  <1> QED BY <1>3, <1>4

\* The same where the length of what precedes is known.
LEMMA JoinedAt ==
    ASSUME NEW a \in Seq(0 .. 255), NEW p \in Seq(0 .. 255), NEW n \in Nat, NEW m \in Nat,
           Len(a) = 1 + n, m = n + Len(p)
    PROVE  a \o p \in Seq(0 .. 255) /\ Len(a \o p) = 1 + m
  <1>1. a \o p \in Seq(0 .. 255) /\ Len(a \o p) = Len(a) + Len(p)
    BY Joined
  <1>2. Len(p) \in Nat
    OBVIOUS
  <1> QED BY <1>1, <1>2

\* A sequence that has a part behind its first 1 + n bytes.
HasAt(c, n, p) == \A j \in 1 .. Len(p) : 1 + n + j <= Len(c) /\ c[1 + n + j] = p[j]

LEMMA PartAt ==
    ASSUME NEW a \in Seq(0 .. 255), NEW p \in Seq(0 .. 255), NEW c \in Seq(0 .. 255), NEW n \in Nat,
           Len(a) = 1 + n, Begins(c, a \o p)
    PROVE  Begins(c, a) /\ HasAt(c, n, p)
  <1>1. /\ Begins(c, a)
        /\ \A j \in 1 .. Len(p) : Len(a) + j <= Len(c) /\ c[Len(a) + j] = p[j]
    BY PartJoined
  <1> QED BY <1>1, Zenon DEF HasAt

\* Where the parts of an adaptation field are.
LEMMA FieldBuilt ==
    ASSUME NEW s \in PacketShape, s.control \in 2 .. 3
    PROVE  /\ FieldPart(s) \in Seq(0 .. 255) /\ Len(FieldPart(s)) = 1 + Needs(s, 5)
           /\ FieldPart(s)[1] = s.len /\ FieldPart(s)[2] = FlagByte(s)
           /\ \A k \in Fields : \A j \in 1 .. Len(Part(s, k)) :
                /\ 1 + Needs(s, k - 1) + j <= Len(FieldPart(s))
                /\ FieldPart(s)[1 + Needs(s, k - 1) + j] = Part(s, k)[j]
  <1> DEFINE p1 == Part(s, 1)  p2 == Part(s, 2)  p3 == Part(s, 3)  p4 == Part(s, 4)  p5 == Part(s, 5)
             x == s.len  y == FlagByte(s)  c0 == <<x, y>>
             c1 == c0 \o p1  c2 == c1 \o p2  c3 == c2 \o p3  c4 == c3 \o p4  c5 == c4 \o p5
  <1>1. FieldPart(s) = c5
    <2>1. ~(s.control < 2)
      OBVIOUS
    <2> QED BY <2>1, Zenon DEF FieldPart
  <1>2. x \in 0 .. 255 /\ y \in 0 .. 255
    BY ShapeParts, FlagsBuilt
  <1>3. /\ p1 \in Seq(0 .. 255) /\ p2 \in Seq(0 .. 255) /\ p3 \in Seq(0 .. 255)
        /\ p4 \in Seq(0 .. 255) /\ p5 \in Seq(0 .. 255)
    BY PartBytes DEF Fields
  <1>4. /\ Needs(s, 0) = 1 /\ Needs(s, 1) = 1 + Len(p1) /\ Needs(s, 2) = Needs(s, 1) + Len(p2)
        /\ Needs(s, 3) = Needs(s, 2) + Len(p3) /\ Needs(s, 4) = Needs(s, 3) + Len(p4)
        /\ Needs(s, 5) = Needs(s, 4) + Len(p5)
        /\ Needs(s, 0) \in Nat /\ Needs(s, 1) \in Nat /\ Needs(s, 2) \in Nat /\ Needs(s, 3) \in Nat
        /\ Needs(s, 4) \in Nat /\ Needs(s, 5) \in Nat
    <2>1. /\ Needs(s, 0) = 1
          /\ \A k \in 0 .. 5 : Needs(s, k) \in Nat
          /\ \A k \in 1 .. 5 : Needs(s, k) = Needs(s, k - 1) + Len(Part(s, k))
      BY NeedsMore DEF Fields
    <2>2. /\ 1 - 1 = 0 /\ 2 - 1 = 1 /\ 3 - 1 = 2 /\ 4 - 1 = 3 /\ 5 - 1 = 4
          /\ 1 \in 1 .. 5 /\ 2 \in 1 .. 5 /\ 3 \in 1 .. 5 /\ 4 \in 1 .. 5 /\ 5 \in 1 .. 5
          /\ 0 \in 0 .. 5 /\ 1 \in 0 .. 5 /\ 2 \in 0 .. 5 /\ 3 \in 0 .. 5 /\ 4 \in 0 .. 5 /\ 5 \in 0 .. 5
      OBVIOUS
    <2> QED BY <2>1, <2>2, Zenon
  <1> HIDE DEF p1, p2, p3, p4, p5, x, y
  <1>5. c0 \in Seq(0 .. 255) /\ Len(c0) = 1 + Needs(s, 0) /\ c0[1] = x /\ c0[2] = y
    BY <1>2, <1>4
  <1> HIDE DEF c0
  <1>6. c1 \in Seq(0 .. 255) /\ Len(c1) = 1 + Needs(s, 1)
    <2>1. /\ c0 \in Seq(0 .. 255) /\ p1 \in Seq(0 .. 255)
          /\ Needs(s, 0) \in Nat /\ Needs(s, 1) \in Nat
          /\ Len(c0) = 1 + Needs(s, 0) /\ Needs(s, 1) = Needs(s, 0) + Len(p1)
      BY <1>3, <1>4, <1>5
    <2> QED BY <2>1, JoinedAt
  <1> HIDE DEF c1
  <1>7. c2 \in Seq(0 .. 255) /\ Len(c2) = 1 + Needs(s, 2)
    <2>1. /\ c1 \in Seq(0 .. 255) /\ p2 \in Seq(0 .. 255)
          /\ Needs(s, 1) \in Nat /\ Needs(s, 2) \in Nat
          /\ Len(c1) = 1 + Needs(s, 1) /\ Needs(s, 2) = Needs(s, 1) + Len(p2)
      BY <1>3, <1>4, <1>6, Zenon
    <2> QED BY <2>1, JoinedAt
  <1> HIDE DEF c2
  <1>8. c3 \in Seq(0 .. 255) /\ Len(c3) = 1 + Needs(s, 3)
    <2>1. /\ c2 \in Seq(0 .. 255) /\ p3 \in Seq(0 .. 255)
          /\ Needs(s, 2) \in Nat /\ Needs(s, 3) \in Nat
          /\ Len(c2) = 1 + Needs(s, 2) /\ Needs(s, 3) = Needs(s, 2) + Len(p3)
      BY <1>3, <1>4, <1>7, Zenon
    <2> QED BY <2>1, JoinedAt
  <1> HIDE DEF c3
  <1>9. c4 \in Seq(0 .. 255) /\ Len(c4) = 1 + Needs(s, 4)
    <2>1. /\ c3 \in Seq(0 .. 255) /\ p4 \in Seq(0 .. 255)
          /\ Needs(s, 3) \in Nat /\ Needs(s, 4) \in Nat
          /\ Len(c3) = 1 + Needs(s, 3) /\ Needs(s, 4) = Needs(s, 3) + Len(p4)
      BY <1>3, <1>4, <1>8, Zenon
    <2> QED BY <2>1, JoinedAt
  <1> HIDE DEF c4
  <1>10. c5 \in Seq(0 .. 255) /\ Len(c5) = 1 + Needs(s, 5)
    <2>1. /\ c4 \in Seq(0 .. 255) /\ p5 \in Seq(0 .. 255)
          /\ Needs(s, 4) \in Nat /\ Needs(s, 5) \in Nat
          /\ Len(c4) = 1 + Needs(s, 4) /\ Needs(s, 5) = Needs(s, 4) + Len(p5)
      BY <1>3, <1>4, <1>9, Zenon
    <2> QED BY <2>1, JoinedAt
  <1> DEFINE c == c5
             Here(k, p) == HasAt(c, Needs(s, k), p)
  <1> HIDE DEF c5
  <1>11. Begins(c, c4 \o p5)
    BY <1>10 DEF c5, Begins
  <1>12. Begins(c, c3 \o p4) /\ Here(4, p5)
    <2>1. /\ c4 \in Seq(0 .. 255) /\ p5 \in Seq(0 .. 255) /\ c \in Seq(0 .. 255)
          /\ Needs(s, 4) \in Nat /\ Len(c4) = 1 + Needs(s, 4) /\ Begins(c, c4 \o p5)
      BY <1>3, <1>4, <1>9, <1>10, <1>11, Zenon
    <2>2. Begins(c, c4) /\ Here(4, p5)
      BY <2>1, PartAt, Zenon
    <2> QED BY <2>2, Zenon DEF c4
  <1>13. Begins(c, c2 \o p3) /\ Here(3, p4)
    <2>1. /\ c3 \in Seq(0 .. 255) /\ p4 \in Seq(0 .. 255) /\ c \in Seq(0 .. 255)
          /\ Needs(s, 3) \in Nat /\ Len(c3) = 1 + Needs(s, 3) /\ Begins(c, c3 \o p4)
      BY <1>3, <1>4, <1>8, <1>10, <1>12, Zenon
    <2>2. Begins(c, c3) /\ Here(3, p4)
      BY <2>1, PartAt, Zenon
    <2> QED BY <2>2, Zenon DEF c3
  <1>14. Begins(c, c1 \o p2) /\ Here(2, p3)
    <2>1. /\ c2 \in Seq(0 .. 255) /\ p3 \in Seq(0 .. 255) /\ c \in Seq(0 .. 255)
          /\ Needs(s, 2) \in Nat /\ Len(c2) = 1 + Needs(s, 2) /\ Begins(c, c2 \o p3)
      BY <1>3, <1>4, <1>7, <1>10, <1>13, Zenon
    <2>2. Begins(c, c2) /\ Here(2, p3)
      BY <2>1, PartAt, Zenon
    <2> QED BY <2>2, Zenon DEF c2
  <1>15. Begins(c, c0 \o p1) /\ Here(1, p2)
    <2>1. /\ c1 \in Seq(0 .. 255) /\ p2 \in Seq(0 .. 255) /\ c \in Seq(0 .. 255)
          /\ Needs(s, 1) \in Nat /\ Len(c1) = 1 + Needs(s, 1) /\ Begins(c, c1 \o p2)
      BY <1>3, <1>4, <1>6, <1>10, <1>14, Zenon
    <2>2. Begins(c, c1) /\ Here(1, p2)
      BY <2>1, PartAt, Zenon
    <2> QED BY <2>2, Zenon DEF c1
  <1>16. Begins(c, c0) /\ Here(0, p1)
    <2>1. /\ c0 \in Seq(0 .. 255) /\ p1 \in Seq(0 .. 255) /\ c \in Seq(0 .. 255)
          /\ Needs(s, 0) \in Nat /\ Len(c0) = 1 + Needs(s, 0) /\ Begins(c, c0 \o p1)
      BY <1>3, <1>4, <1>5, <1>10, <1>15, Zenon
    <2>2. Begins(c, c0) /\ Here(0, p1)
      BY <2>1, PartAt, Zenon
    <2> QED BY <2>2, Zenon
  <1>17. c[1] = x /\ c[2] = y
    <2>1. 1 \in 1 .. Len(c0) /\ 2 \in 1 .. Len(c0)
      <3>1. Len(c0) = 2
        BY <1>4, <1>5
      <3> QED BY <3>1
    <2> QED BY <1>5, <1>16, <2>1, Zenon DEF Begins
  <1>18. ASSUME NEW k \in Fields PROVE Here(k - 1, Part(s, k))
    <2> HIDE DEF Here
    <2>1. k = 1 \/ k = 2 \/ k = 3 \/ k = 4 \/ k = 5
      BY DEF Fields
    <2>2. 1 - 1 = 0 /\ 2 - 1 = 1 /\ 3 - 1 = 2 /\ 4 - 1 = 3 /\ 5 - 1 = 4
      OBVIOUS
    <2> QED BY <1>12, <1>13, <1>14, <1>15, <1>16, <2>1, <2>2, Zenon DEF p1, p2, p3, p4, p5
  <1> QED BY <1>1, <1>10, <1>17, <1>18, Zenon DEF x, y, HasAt

\* Where everything is in a packet.
LEMMA Laid ==
    ASSUME NEW s \in PacketShape
    PROVE  LET c == Contents(s)
           IN  /\ c \in Seq(0 .. 255) /\ LengthBasic <= Len(c) /\ 4 <= Len(c)
               /\ \A i \in 1 .. 4 : c[i] = Header(s)[i]
               /\ s.control \in 2 .. 3 =>
                    /\ c[5] = s.len /\ c[6] = FlagByte(s) /\ 5 + Needs(s, 5) <= Len(c)
                    /\ \A k \in Fields : \A j \in 1 .. Len(Part(s, k)) :
                         c[5 + Needs(s, k - 1) + j] = Part(s, k)[j]
  <1> DEFINE h == Header(s)  f == FieldPart(s)  r == s.rest  a == h \o f  c == a \o r
             control == s.control
  <1>1. h \in Seq(0 .. 255) /\ Len(h) = 4
    BY HeaderBuilt
  <1>2. r \in Seq(0 .. 255) /\ Len(r) >= LengthBasic /\ LengthBasic \in Nat /\ Len(r) \in Nat
        /\ control \in 0 .. 3
    BY ShapeParts, LengthAssumption
  <1>3. f \in Seq(0 .. 255)
    <2>1. CASE control < 2
      BY <2>1 DEF FieldPart
    <2>2. CASE control \in 2 .. 3
      BY <2>2, FieldBuilt
    <2> HIDE DEF control
    <2> QED BY <1>2, <2>1, <2>2
  <1>4. Contents(s) = c
    BY Zenon DEF Contents
  <1>5. control \in 2 .. 3 =>
          /\ Len(f) = 1 + Needs(s, 5) /\ f[1] = s.len /\ f[2] = FlagByte(s)
          /\ \A k \in Fields : \A j \in 1 .. Len(Part(s, k)) :
               1 + Needs(s, k - 1) + j <= Len(f) /\ f[1 + Needs(s, k - 1) + j] = Part(s, k)[j]
    BY FieldBuilt
  <1> HIDE DEF h, f, r, control
  <1>6. /\ a \in Seq(0 .. 255) /\ Len(a) = 4 + Len(f) /\ Begins(a, h)
        /\ \A i \in 1 .. Len(f) : a[4 + i] = f[i]
    <2>1. /\ a \in Seq(0 .. 255) /\ Len(a) = Len(h) + Len(f) /\ Begins(a, h)
          /\ \A i \in 1 .. Len(f) : a[Len(h) + i] = f[i]
      BY <1>1, <1>3, Joined, Zenon
    <2> QED BY <1>1, <2>1, Zenon
  <1> HIDE DEF a
  <1>7. c \in Seq(0 .. 255) /\ Len(c) = Len(a) + Len(r) /\ Begins(c, a)
    BY <1>2, <1>6, Joined
  <1> HIDE DEF c
  <1>8. Len(f) \in Nat /\ Len(a) \in Nat /\ Len(c) \in Nat
    BY <1>3, <1>6, <1>7
  <1>9. /\ LengthBasic <= Len(c) /\ 4 <= Len(c) /\ 4 + Len(f) <= Len(c)
    BY <1>2, <1>6, <1>7, <1>8
  <1>10. ASSUME NEW i \in 1 .. 4 PROVE c[i] = h[i]
    BY <1>1, <1>6, <1>7, <1>8 DEF Begins
  <1>11. ASSUME NEW i \in 1 .. Len(f) PROVE c[4 + i] = f[i]
    <2>1. 4 + i \in 1 .. Len(a)
      BY <1>6, <1>8
    <2> QED BY <1>6, <1>7, <2>1 DEF Begins
  <1>12. ASSUME control \in 2 .. 3
         PROVE  /\ c[5] = s.len /\ c[6] = FlagByte(s) /\ 5 + Needs(s, 5) <= Len(c)
                /\ \A k \in Fields : \A j \in 1 .. Len(Part(s, k)) :
                     c[5 + Needs(s, k - 1) + j] = Part(s, k)[j]
    <2>1. Needs(s, 5) \in Nat \ {0} /\ \A k \in Fields : Needs(s, k - 1) \in Nat \ {0}
      BY NeedsMore DEF Fields
    <2>2. c[4 + 1] = f[1] /\ c[4 + 2] = f[2]
      BY <1>5, <1>11, <1>12, <2>1
    <2>3. c[5] = s.len /\ c[6] = FlagByte(s) /\ 5 + Needs(s, 5) <= Len(c)
      BY <1>5, <1>9, <1>12, <2>1, <2>2
    <2>4. ASSUME NEW k \in Fields, NEW j \in 1 .. Len(Part(s, k))
          PROVE  c[5 + Needs(s, k - 1) + j] = Part(s, k)[j]
      <3> DEFINE n == Needs(s, k - 1)
      <3>1. n \in Nat
        BY <2>1
      <3>2. 1 + n + j <= Len(f) /\ f[1 + n + j] = Part(s, k)[j]
        BY <1>5, <1>12
      <3> HIDE DEF n
      <3>3. 1 + n + j \in 1 .. Len(f) /\ 4 + (1 + n + j) = 5 + n + j
        BY <1>8, <3>1, <3>2
      <3>4. c[4 + (1 + n + j)] = f[1 + n + j]
        BY <1>11, <3>3
      <3> QED BY <3>2, <3>3, <3>4, Zenon DEF n
    <2> QED BY <2>3, <2>4
  <1> QED BY <1>4, <1>7, <1>9, <1>10, <1>12, Zenon DEF h, control

\* What is cut out of bytes.
IsCut(x, c, i, j) ==
    /\ x \in Seq(0 .. 255) /\ Len(x) = (IF i <= j THEN j - i + 1 ELSE 0)
    /\ \A k \in 1 .. j - i + 1 : x[k] = c[i + k - 1]

LEMMA CutOut ==
    ASSUME NEW c \in Seq(0 .. 255), NEW i \in Nat, 0 < i, NEW j \in Nat, j <= Len(c)
    PROVE  IsCut(SubSeq(c, i, j), c, i, j)
  <1> DEFINE S == 0 .. 255
  <1>1. c \in Seq(S) /\ i \in Int /\ j \in Int
    OBVIOUS
  <1>2. \A k \in 1 .. Len(c) : c[k] \in S
    BY <1>1, ElementOfSeq, Zenon
  <1>3. Len(c) \in Nat
    OBVIOUS
  <1> HIDE DEF S
  <1>4. \A k \in i .. j : c[k] \in S
    BY <1>2, <1>3
  <1>5. /\ SubSeq(c, i, j) \in Seq(S)
        /\ Len(SubSeq(c, i, j)) = (IF i <= j THEN j - i + 1 ELSE 0)
        /\ \A k \in 1 .. j - i + 1 : SubSeq(c, i, j)[k] = c[i + k - 1]
    BY <1>1, <1>4, SubSeqProperties
  <1> QED BY <1>5, Zenon DEF S, IsCut

\* A stretch of what one sequence has of another one, further behind.
LEMMA Shifted ==
    ASSUME NEW b \in Seq(0 .. 255), NEW c \in Seq(0 .. 255), NEW l \in Nat, NEW n \in Nat,
           n <= Len(c), l + n <= Len(b), \A i \in 1 .. n : b[l + i] = c[i],
           NEW i \in Nat \ {0}, NEW j \in Nat, j <= n
    PROVE  SubSeq(b, l + i, l + j) = SubSeq(c, i, j)
  <1> DEFINE x == SubSeq(b, l + i, l + j)  y == SubSeq(c, i, j)
  <1>1. Len(b) \in Nat /\ Len(c) \in Nat
    OBVIOUS
  <1>2. /\ x \in Seq(0 .. 255) /\ Len(x) = (IF l + i <= l + j THEN l + j - (l + i) + 1 ELSE 0)
        /\ \A k \in 1 .. l + j - (l + i) + 1 : x[k] = b[l + i + k - 1]
    <2>1. l + i \in Nat /\ 0 < l + i /\ l + j \in Nat /\ l + j <= Len(b)
      BY <1>1
    <2>2. IsCut(SubSeq(b, l + i, l + j), b, l + i, l + j)
      BY <2>1, CutOut
    <2> QED BY <2>2 DEF IsCut
  <1>3. /\ y \in Seq(0 .. 255) /\ Len(y) = (IF i <= j THEN j - i + 1 ELSE 0)
        /\ \A k \in 1 .. j - i + 1 : y[k] = c[i + k - 1]
    <2>1. i \in Nat /\ 0 < i /\ j <= Len(c)
      BY <1>1
    <2>2. IsCut(SubSeq(c, i, j), c, i, j)
      BY <2>1, CutOut
    <2> QED BY <2>2 DEF IsCut
  <1> HIDE DEF x, y
  <1>4. Len(x) = Len(y)
    BY <1>2, <1>3
  <1>5. ASSUME NEW k \in 1 .. Len(x) PROVE x[k] = y[k]
    <2>1. k \in 1 .. j - i + 1 /\ k \in 1 .. l + j - (l + i) + 1
      BY <1>2
    <2>2. i + k - 1 \in 1 .. n /\ l + i + k - 1 = l + (i + k - 1)
      BY <2>1
    <2>3. b[l + (i + k - 1)] = c[i + k - 1]
      BY <2>2
    <2>4. x[k] = b[l + i + k - 1] /\ y[k] = c[i + k - 1]
      BY <1>2, <1>3, <2>1
    <2> QED BY <2>2, <2>3, <2>4, Zenon
  <1>6. x = y
    BY <1>2, <1>3, <1>4, <1>5, SeqEqual, Zenon
  <1> QED BY <1>6 DEF x, y

\* A filling is as long as it is to be.
LEMMA FillingBytes ==
    ASSUME NEW n \in Nat, NEW byte \in 0 .. 255
    PROVE  Filling(n, byte) \in Seq(0 .. 255) /\ Len(Filling(n, byte)) = n
  BY DEF Filling

\* A packet as built: as long as its parts are, with the contents behind what leads.
LEMMA Built ==
    ASSUME NEW s \in PacketShape
    PROVE  LET b == Build(s)  c == Contents(s)
           IN  /\ s.lead \in Nat /\ s.tail \in Nat
               /\ b \in Seq(0 .. 255) /\ Len(b) = s.lead + LengthBasic + s.tail
               /\ \A i \in 1 .. LengthBasic : b[s.lead + i] = c[i]
  <1> DEFINE l == s.lead  t == s.tail  c == Contents(s)
             x == Filling(l, 9)  y == SubSeq(c, 1, LengthBasic)  z == Filling(t, 8)
             xy == x \o y  b == xy \o z  n == LengthBasic
  <1>1. l \in Nat /\ t \in Nat
    BY ShapeParts, LengthAssumption
  <1>2. c \in Seq(0 .. 255) /\ n <= Len(c) /\ n \in Nat \ {0} /\ Len(c) \in Nat
    <2>1. c \in Seq(0 .. 255) /\ LengthBasic <= Len(c)
      BY Laid, Zenon
    <2> HIDE DEF c
    <2> QED BY <2>1, LengthAssumption
  <1>3. Build(s) = b
    BY Zenon DEF Build
  <1> HIDE DEF l, t, c, n
  <1>4. /\ x \in Seq(0 .. 255) /\ Len(x) = l
        /\ z \in Seq(0 .. 255) /\ Len(z) = t
    <2>1. 9 \in 0 .. 255 /\ 8 \in 0 .. 255
      OBVIOUS
    <2> QED BY <1>1, <2>1, FillingBytes, Zenon
  <1>5. y \in Seq(0 .. 255) /\ Len(y) = n /\ \A i \in 1 .. n : y[i] = c[i]
    <2> DEFINE yy == SubSeq(c, 1, n)
    <2>1. yy = y
      BY DEF n
    <2>3. /\ yy \in Seq(0 .. 255) /\ Len(yy) = (IF 1 <= n THEN n - 1 + 1 ELSE 0)
          /\ \A i \in 1 .. n - 1 + 1 : yy[i] = c[1 + i - 1]
      <3>1. 1 \in Nat /\ 0 < 1 /\ n \in Nat
        BY <1>2
      <3>2. IsCut(SubSeq(c, 1, n), c, 1, n)
        BY <1>2, <3>1, CutOut
      <3> QED BY <3>2 DEF IsCut
    <2> HIDE DEF yy, y
    <2>4. yy \in Seq(0 .. 255) /\ Len(yy) = n /\ \A i \in 1 .. n : yy[i] = c[i]
      BY <1>2, <2>3
    <2> QED BY <2>1, <2>4, Zenon
  <1> HIDE DEF x, y, z
  <1>6. /\ xy \in Seq(0 .. 255) /\ Len(xy) = l + n
        /\ \A i \in 1 .. n : xy[l + i] = y[i]
    <2>1. /\ xy \in Seq(0 .. 255) /\ Len(xy) = Len(x) + Len(y)
          /\ \A i \in 1 .. Len(y) : xy[Len(x) + i] = y[i]
      BY <1>4, <1>5, Joined, Zenon
    <2> QED BY <1>4, <1>5, <2>1, Zenon
  <1> HIDE DEF xy
  <1>7. /\ b \in Seq(0 .. 255) /\ Len(b) = Len(xy) + Len(z) /\ Begins(b, xy)
    BY <1>4, <1>6, Joined, Zenon
  <1> HIDE DEF b
  <1>8. Len(b) = l + n + t
    BY <1>4, <1>6, <1>7, Zenon
  <1>9. ASSUME NEW i \in 1 .. n PROVE b[l + i] = c[i]
    <2>1. l + i \in 1 .. Len(xy)
      BY <1>1, <1>2, <1>6
    <2> QED BY <1>5, <1>6, <1>7, <2>1, Zenon DEF Begins
  <1> QED BY <1>1, <1>3, <1>7, <1>8, <1>9, Zenon DEF l, t, c, n

\* The header of a packet says what it has been built for.
LEMMA HeaderFound ==
    ASSUME NEW s \in PacketShape
    PROVE  LET b == Build(s)
           IN  /\ ISyncByte(b) = IF s.tail = 0 THEN s.lead ELSE None
               /\ HasSync(b) <=> IsPacket(s)
               /\ IsPacket(s) => PID(b) = s.pid /\ Control(b) = s.control
               /\ HasHeader(b) <=> IsPacket(s) /\ s.pid # PIDNullPacket
               /\ HasAdaptationField(b) <=> Carries(s)
  <1> DEFINE b == Build(s)  l == s.lead  t == s.tail  h == Header(s)
  <1>1. /\ l \in Nat /\ t \in Nat /\ b \in Seq(0 .. 255) /\ Len(b) = l + LengthBasic + t
        /\ \A i \in 1 .. 4 : b[l + i] = h[i]
    <2>1. \A i \in 1 .. 4 : i \in 1 .. LengthBasic
      BY LengthAssumption
    <2>2. \A i \in 1 .. 4 : Contents(s)[i] = h[i]
      BY Laid, Zenon
    <2> QED BY <2>1, <2>2, Built, Zenon
  <1>2. l \in {0, TimeCodePrefix} /\ t # TimeCodePrefix /\ s.control \in 0 .. 3
    BY ShapeParts
  <1>3. /\ h[1] = SyncByte <=> s.sync
        /\ (h[2] % 32) * 256 + h[3] = s.pid
        /\ (h[4] \div 16) % 4 = s.control
    BY HeaderBuilt, Zenon
  <1> HIDE DEF b, l, t, h
  <1>4. ISyncByte(b) = IF t = 0 THEN l ELSE None
    <2>1. LengthBasic \in Nat /\ TimeCodePrefix \in Nat \ {0}
      BY LengthAssumption
    <2>2. CASE t = 0
      BY <1>1, <1>2, <2>1, <2>2 DEF ISyncByte
    <2>3. CASE t # 0
      BY <1>1, <1>2, <2>1, <2>3 DEF ISyncByte
    <2> QED BY <2>2, <2>3
  <1>5. HasSync(b) <=> t = 0 /\ s.sync
    <2>1. l # None
      BY <1>1 DEF None
    <2>2. b[l + 1] = h[1]
      <3>1. 1 \in 1 .. 4
        OBVIOUS
      <3> QED BY <1>1, <3>1, Zenon
    <2> QED BY <1>3, <1>4, <2>1, <2>2, Zenon DEF HasSync, At
  <1>6. t = 0 => PID(b) = s.pid /\ Control(b) = s.control
    <2>1. b[l + 2] = h[2] /\ b[l + 3] = h[3] /\ b[l + 4] = h[4]
      <3>1. 2 \in 1 .. 4 /\ 3 \in 1 .. 4 /\ 4 \in 1 .. 4
        OBVIOUS
      <3> QED BY <1>1, <3>1, Zenon
    <2>2. l + 1 + 1 = l + 2 /\ l + 2 + 1 = l + 3 /\ l + 3 + 1 = l + 4
      BY <1>1
    <2>3. ASSUME t = 0 PROVE PID(b) = s.pid /\ Control(b) = s.control
      <3>1. ISyncByte(b) = l
        BY <1>4, <2>3
      <3>2. At(b, l + 1) = h[2] /\ At(b, l + 2) = h[3] /\ At(b, l + 3) = h[4]
        BY <2>1, <2>2, Zenon DEF At
      <3>3. /\ PID(b) = (At(b, l + 1) % 32) * 256 + At(b, l + 2)
            /\ Control(b) = (At(b, l + 3) \div 16) % 4
        BY <3>1, Zenon DEF PID, Control
      <3> QED BY <1>3, <3>2, <3>3, Zenon
    <2> QED BY <2>3
  <1>7. IsPacket(s) <=> t = 0 /\ s.sync
    BY Zenon DEF IsPacket, t
  <1> QED BY <1>4, <1>5, <1>6, <1>7, Zenon DEF HasHeader, HasAdaptationField, Carries, b, l, t

\* The step of Ends, from where the previous field ends.
NextEnd(data, k, start) ==
    IF start = None \/ ~Flag(data, k) THEN start
    ELSE IF Fits(data, k, start) THEN start + FieldLength(data, k, start)
    ELSE None

StepsOf(data, e) == [k \in 0 .. 5 |-> IF k = 0 THEN 2 ELSE NextEnd(data, k, e[k - 1])]

\* What follows these steps is what Ends yields.
LEMMA EndsFound ==
    ASSUME NEW data, NEW e, e = StepsOf(data, e)
    PROVE  Ends(data) = e
  <1> DEFINE f == Ends(data)
  <1>1. f = CHOOSE g : g = StepsOf(data, g)
    BY DEF Ends, StepsOf, NextEnd
  <1>2. f = StepsOf(data, f)
    <2> HIDE DEF f
    <2> QED BY <1>1
  <1> HIDE DEF f
  <1>3. ASSUME NEW g, g = StepsOf(data, g)
        PROVE  /\ g[0] = 2 /\ g[1] = NextEnd(data, 1, g[0]) /\ g[2] = NextEnd(data, 2, g[1])
               /\ g[3] = NextEnd(data, 3, g[2]) /\ g[4] = NextEnd(data, 4, g[3])
               /\ g[5] = NextEnd(data, 5, g[4])
               /\ g = [k \in 0 .. 5 |-> g[k]]
    <2> DEFINE body(k) == IF k = 0 THEN 2 ELSE NextEnd(data, k, g[k - 1])
    <2>1. g = [k \in 0 .. 5 |-> body(k)]
      BY <1>3, Zenon DEF StepsOf
    <2>2. /\ body(0) = 2 /\ body(1) = NextEnd(data, 1, g[0]) /\ body(2) = NextEnd(data, 2, g[1])
          /\ body(3) = NextEnd(data, 3, g[2]) /\ body(4) = NextEnd(data, 4, g[3])
          /\ body(5) = NextEnd(data, 5, g[4])
      <3>1. 1 - 1 = 0 /\ 2 - 1 = 1 /\ 3 - 1 = 2 /\ 4 - 1 = 3 /\ 5 - 1 = 4
            /\ 1 # 0 /\ 2 # 0 /\ 3 # 0 /\ 4 # 0 /\ 5 # 0
        OBVIOUS
      <3> QED BY <3>1, Zenon
    <2> HIDE DEF body
    <2>3. \A k \in 0 .. 5 : g[k] = body(k)
      BY <2>1
    <2>4. 0 \in 0 .. 5 /\ 1 \in 0 .. 5 /\ 2 \in 0 .. 5 /\ 3 \in 0 .. 5 /\ 4 \in 0 .. 5 /\ 5 \in 0 .. 5
      OBVIOUS
    <2>5. g = [k \in 0 .. 5 |-> g[k]]
      BY <2>1
    <2> QED BY <2>2, <2>3, <2>4, <2>5, Zenon
  <1>4. /\ f[0] = 2 /\ f[1] = NextEnd(data, 1, f[0]) /\ f[2] = NextEnd(data, 2, f[1])
        /\ f[3] = NextEnd(data, 3, f[2]) /\ f[4] = NextEnd(data, 4, f[3])
        /\ f[5] = NextEnd(data, 5, f[4]) /\ f = [k \in 0 .. 5 |-> f[k]]
    BY <1>2, <1>3, Zenon
  <1>5. /\ e[0] = 2 /\ e[1] = NextEnd(data, 1, e[0]) /\ e[2] = NextEnd(data, 2, e[1])
        /\ e[3] = NextEnd(data, 3, e[2]) /\ e[4] = NextEnd(data, 4, e[3])
        /\ e[5] = NextEnd(data, 5, e[4]) /\ e = [k \in 0 .. 5 |-> e[k]]
    BY <1>3, Zenon
  <1>6. f[0] = e[0] /\ f[1] = e[1] /\ f[2] = e[2] /\ f[3] = e[3] /\ f[4] = e[4] /\ f[5] = e[5]
    <2>1. f[0] = e[0]  BY <1>4, <1>5, Zenon
    <2>2. f[1] = e[1]  BY <1>4, <1>5, <2>1, Zenon
    <2>3. f[2] = e[2]  BY <1>4, <1>5, <2>2, Zenon
    <2>4. f[3] = e[3]  BY <1>4, <1>5, <2>3, Zenon
    <2>5. f[4] = e[4]  BY <1>4, <1>5, <2>4, Zenon
    <2>6. f[5] = e[5]  BY <1>4, <1>5, <2>5, Zenon
    <2> QED BY <2>1, <2>2, <2>3, <2>4, <2>5, <2>6
  <1>7. ASSUME NEW k \in 0 .. 5 PROVE f[k] = e[k]
    <2>1. k = 0 \/ k = 1 \/ k = 2 \/ k = 3 \/ k = 4 \/ k = 5
      OBVIOUS
    <2> QED BY <1>6, <2>1, Zenon
  <1>8. [k \in 0 .. 5 |-> f[k]] = [k \in 0 .. 5 |-> e[k]]
    BY <1>7, Zenon
  <1>9. f = e
    BY <1>4, <1>5, <1>8, Zenon
  <1> QED BY <1>9 DEF f

\* The data of an adaptation field are what has been put into the packet, up to
\* its end.
LEMMA DataFound ==
    ASSUME NEW s \in PacketShape, Carries(s)
    PROVE  LET b == Build(s)
               i == IAdaptationField(b)
               d == Mid(b, i, 1 + At(b, i))
           IN  /\ i = s.lead + 4 /\ At(b, i) = s.len
               /\ d \in Seq(0 .. 255) /\ 1 <= Len(d) /\ Len(d) <= LengthBasic - 4
               /\ InPacket(s) <=> Len(d) = 1 + s.len
               /\ \A j \in 1 .. Len(d) : d[j] = Contents(s)[4 + j]
               /\ At(d, 0) = s.len
  <1> DEFINE b == Build(s)  l == s.lead  c == Contents(s)  n == LengthBasic  len == s.len
             i == IAdaptationField(b)  d == Mid(b, i, 1 + At(b, i))
  <1>1. s.tail = 0 /\ s.control \in 2 .. 3
    <2>1. s.control \in {2, 3} /\ s.tail = 0
      BY Zenon DEF Carries, IsPacket
    <2> QED BY <2>1
  <1>2. /\ l \in Nat /\ b \in Seq(0 .. 255) /\ Len(b) = l + n + s.tail
        /\ \A k \in 1 .. n : b[l + k] = c[k]
    BY Built, Zenon
  <1>3. n \in 6 .. 188 /\ len \in 0 .. 255
    BY LengthAssumption, ShapeParts
  <1>4. c[5] = len
    BY <1>1, Laid, Zenon
  <1>5. i = l + 4
    <2>1. ISyncByte(b) = l
      BY <1>1, HeaderFound, Zenon
    <2> QED BY <2>1, Zenon DEF IAdaptationField
  <1> HIDE DEF b, l, c, n, len, i
  <1>6. Len(b) = l + n
    BY <1>1, <1>2, <1>3
  <1>7. At(b, i) = len
    <2>1. 5 \in 1 .. n /\ l + 4 + 1 = l + 5
      BY <1>2, <1>3
    <2>2. b[l + 5] = len
      BY <1>2, <1>4, <2>1, Zenon
    <2> QED BY <1>5, <2>1, <2>2, Zenon DEF At
  <1>8. /\ d \in Seq(0 .. 255)
        /\ Len(d) = (IF i + (1 + len) <= Len(b) THEN 1 + len ELSE Len(b) - i)
        /\ \A k \in 1 .. Len(d) : d[k] = b[i + k]
    <2> DEFINE m == 1 + len
    <2>1. i \in 0 .. Len(b) /\ m \in Nat
      BY <1>2, <1>3, <1>5, <1>6
    <2> HIDE DEF m
    <2>2. /\ Mid(b, i, m) \in Seq(0 .. 255)
          /\ Len(Mid(b, i, m)) = (IF i + m <= Len(b) THEN m ELSE Len(b) - i)
          /\ \A k \in 1 .. Len(Mid(b, i, m)) : Mid(b, i, m)[k] = b[i + k]
      <3>1. b \in Seq(0 .. 255)
        BY <1>2
      <3> QED BY <2>1, <3>1, MidIsSlice
    <2>3. d = Mid(b, i, m)
      BY <1>7, Zenon DEF m
    <2> HIDE DEF d
    <2> QED BY <2>2, <2>3, Zenon DEF m
  <1> HIDE DEF d
  <1>9. /\ 1 <= Len(d) /\ Len(d) <= n - 4 /\ (len <= n - 5 <=> Len(d) = 1 + len)
    BY <1>2, <1>3, <1>5, <1>6, <1>8
  <1>10. ASSUME NEW j \in 1 .. Len(d) PROVE d[j] = c[4 + j]
    <2>1. 4 + j \in 1 .. n /\ i + j = l + (4 + j)
      <3>1. Len(d) \in Nat
        BY <1>8
      <3> QED BY <1>2, <1>3, <1>5, <1>9, <3>1
    <2> QED BY <1>2, <1>8, <2>1, Zenon
  <1>11. At(d, 0) = len
    <2>1. 1 \in 1 .. Len(d) /\ 4 + 1 = 5 /\ 0 + 1 = 1
      <3>1. Len(d) \in Nat
        BY <1>8
      <3> QED BY <1>9, <3>1
    <2> QED BY <1>4, <1>10, <2>1, Zenon DEF At
  <1>12. InPacket(s) <=> len <= n - 5
    BY Zenon DEF InPacket, len, n
  <1> QED BY <1>5, <1>7, <1>8, <1>9, <1>10, <1>11, <1>12, Zenon DEF b, l, c, n, len, i, d

\* No optional field is empty.
LEMMA SomeBytes ==
    ASSUME NEW s \in PacketShape, NEW k \in Fields
    PROVE  Len(FieldBytes(s, k)) # 0
  <1> DEFINE f == FieldBytes(s, k)
  <1>1. ASSUME NEW d \in Datas PROVE Len(<<Len(d)>> \o d) # 0
    <2> DEFINE n == Len(d)
    <2>1. d \in Seq(0 .. 255) /\ n \in Nat /\ n <= 255
      <3>1. d \in Seq(0 .. 255) /\ n <= 255
        BY Zenon DEF Datas
      <3> QED BY <3>1, LenProperties
    <2> HIDE DEF n
    <2>2. <<n>> \in Seq(0 .. 255) /\ Len(<<n>>) = 1
      BY <2>1
    <2>3. Len(<<n>> \o d) = Len(<<n>>) + Len(d)
      BY <2>1, <2>2, ConcatProperties, Zenon
    <2>4. 1 + n # 0
      BY <2>1
    <2> QED BY <2>2, <2>3, <2>4, Zenon DEF n
  <1>2. s.private \in Datas /\ s.extension \in Datas
    BY ShapeParts
  <1>3. Len(f) = (IF k <= 2 THEN 6 ELSE IF k = 3 THEN 1 ELSE 1 + f[1])
    BY PartBytes, Zenon
  <1>4. CASE k = 4
    <2>1. f = <<Len(s.private)>> \o s.private
      BY <1>4 DEF FieldBytes
    <2> QED BY <1>1, <1>2, <2>1, Zenon
  <1>5. CASE k = 5
    <2>1. f = <<Len(s.extension)>> \o s.extension
      BY <1>5 DEF FieldBytes
    <2> QED BY <1>1, <1>2, <2>1, Zenon
  <1>6. CASE k \in 1 .. 3
    <2> HIDE DEF f
    <2>1. Len(f) # 0
      BY <1>3, <1>6
    <2> QED BY <2>1 DEF f
  <1>7. k = 4 \/ k = 5 \/ k \in 1 .. 3
    BY DEF Fields
  <1> QED BY <1>4, <1>5, <1>6, <1>7, Zenon DEF f

\* How long an optional field is, read from the data, where it is there.
LEMMA LengthFound ==
    ASSUME NEW s \in PacketShape, NEW d \in Seq(0 .. 255), NEW k \in Fields, k \in s.flags,
           \A j \in 1 .. Len(Part(s, k)) :
             Needs(s, k - 1) + 1 + j <= Len(d) => d[Needs(s, k - 1) + 1 + j] = Part(s, k)[j],
           1 + Needs(s, k - 1) < Len(d)
    PROVE  FieldLength(d, k, 1 + Needs(s, k - 1)) = Len(Part(s, k))
  <1> DEFINE n == Needs(s, k - 1)  f == FieldBytes(s, k)
  <1>1. n \in Nat
    <2>1. k - 1 \in 0 .. 5
      BY DEF Fields
    <2>2. n \in Nat \ {0}
      BY <2>1, NeedsMore, Zenon
    <2> HIDE DEF n
    <2> QED BY <2>2
  <1>2. /\ Part(s, k) = f /\ f \in Seq(0 .. 255)
        /\ Len(f) = (IF k <= 2 THEN 6 ELSE IF k = 3 THEN 1 ELSE 1 + f[1])
    BY PartBytes, Zenon DEF Part
  <1> HIDE DEF f
  <1>3. CASE k <= 2
    <2>1. FieldLength(d, k, 1 + n) = 6
      BY <1>3, Zenon DEF FieldLength, LengthPCR
    <2> QED BY <1>2, <1>3, <2>1, Zenon
  <1>4. CASE k = 3
    <2>1. ~(k <= 2)
      BY <1>4
    <2>2. FieldLength(d, k, 1 + n) = 1
      BY <1>4, <2>1, Zenon DEF FieldLength
    <2> QED BY <1>2, <1>4, <2>1, <2>2, Zenon
  <1>5. CASE ~(k <= 2) /\ k # 3
    <2>1. FieldLength(d, k, 1 + n) = 1 + At(d, 1 + n)
      BY <1>5, Zenon DEF FieldLength
    <2>2. Len(f) = 1 + f[1] /\ Len(f) \in Nat
      BY <1>2, <1>5
    <2>3. Len(f) # 0
      BY SomeBytes, Zenon DEF f
    <2>4. 1 \in 1 .. Len(f)
      BY <2>2, <2>3
    <2>5. n + 1 + 1 <= Len(d) /\ n + 1 + 1 = 1 + n + 1
      <3>1. 1 + n < Len(d) /\ Len(d) \in Nat
        OBVIOUS
      <3> HIDE DEF n
      <3> QED BY <1>1, <3>1
    <2>6. d[n + 1 + 1] = f[1]
      BY <1>2, <2>4, <2>5, Zenon
    <2>7. At(d, 1 + n) = f[1]
      BY <2>5, <2>6, Zenon DEF At
    <2> QED BY <1>2, <2>1, <2>2, <2>7, Zenon
  <1> QED BY <1>3, <1>4, <1>5

\* Where the k-th field ends, or that it does not fit.
EndOf(s, k) == IF Needs(s, k) <= s.len THEN 1 + Needs(s, k) ELSE None

\* One step finds the end of the field that has been put there.
LEMMA NextEndFound ==
    ASSUME NEW s \in PacketShape, NEW d \in Seq(0 .. 255), NEW k \in Fields,
           Len(d) = 1 + s.len, Flag(d, k) <=> k \in s.flags,
           \A j \in 1 .. Len(Part(s, k)) :
             Needs(s, k - 1) + 1 + j <= Len(d) => d[Needs(s, k - 1) + 1 + j] = Part(s, k)[j]
    PROVE  NextEnd(d, k, EndOf(s, k - 1)) = EndOf(s, k)
  <1> DEFINE n == Needs(s, k - 1)  m == Needs(s, k)  p == Len(Part(s, k))  len == s.len
             start == EndOf(s, k - 1)
  <1>1. n \in Nat /\ m = n + p /\ p \in Nat /\ m \in Nat
    <2>1. k - 1 \in 0 .. 5
      BY DEF Fields
    <2>2. n \in Nat \ {0} /\ m = n + p
      BY <2>1, NeedsMore, Zenon
    <2>3. p \in Nat
      <3>1. Part(s, k) \in Seq(0 .. 255)
        BY PartBytes, Zenon
      <3> QED BY <3>1
    <2> HIDE DEF n, m, p
    <2> QED BY <2>2, <2>3
  <1>2. len \in 0 .. 255 /\ Len(d) = 1 + len
    BY ShapeParts
  <1>3. start = (IF n <= len THEN 1 + n ELSE None)
    BY Zenon DEF EndOf
  <1>4. EndOf(s, k) = (IF m <= len THEN 1 + m ELSE None)
    BY Zenon DEF EndOf
  <1>5. k \notin s.flags => p = 0
    BY PartBytes, Zenon
  <1>6. k \in s.flags => p # 0
    BY SomeBytes, Zenon DEF Part
  <1> HIDE DEF n, m, p, len, start
  <1>7. CASE len < n
    <2>1. start = None
      BY <1>1, <1>2, <1>3, <1>7
    <2>2. ~(m <= len)
      BY <1>1, <1>2, <1>7
    <2> QED BY <1>4, <2>1, <2>2, Zenon DEF NextEnd, start
  <1>8. CASE n <= len /\ k \notin s.flags
    <2>1. m = n
      BY <1>1, <1>5, <1>8
    <2>2. start = EndOf(s, k)
      BY <1>3, <1>4, <2>1, Zenon
    <2>3. NextEnd(d, k, start) = start
      BY <1>8, Zenon DEF NextEnd
    <2> QED BY <2>2, <2>3 DEF start
  <1>9. CASE n <= len /\ k \in s.flags
    <2>1. start = 1 + n /\ start # None
      BY <1>1, <1>3, <1>9 DEF None
    <2>2. NextEnd(d, k, start) =
            IF Fits(d, k, start) THEN start + FieldLength(d, k, start) ELSE None
      BY <1>9, <2>1, Zenon DEF NextEnd
    <2>3. CASE start < Len(d)
      <3>1. FieldLength(d, k, 1 + n) = p
        <4>1. 1 + n < Len(d)
          BY <2>1, <2>3
        <4> QED BY <1>9, <4>1, LengthFound, Zenon DEF p, n
      <3>2. Fits(d, k, start) <=> 1 + n + p <= Len(d)
        BY <2>1, <2>3, <3>1, Zenon DEF Fits
      <3>3. (1 + n + p <= Len(d) <=> m <= len) /\ 1 + n + p = 1 + m
        BY <1>1, <1>2
      <3>4. FieldLength(d, k, start) = p /\ start + p = 1 + m
        BY <2>1, <3>1, <3>3, Zenon
      <3>5. NextEnd(d, k, start) = (IF m <= len THEN 1 + m ELSE None)
        BY <2>2, <3>2, <3>3, <3>4, Zenon
      <3> QED BY <1>4, <3>5, Zenon DEF start
    <2>4. CASE ~(start < Len(d))
      <3>1. ~Fits(d, k, start)
        BY <2>4, Zenon DEF Fits
      <3>2. ~(m <= len)
        BY <1>1, <1>2, <1>6, <1>9, <2>1, <2>4
      <3> QED BY <1>4, <2>2, <3>1, <3>2, Zenon DEF start
    <2> QED BY <2>3, <2>4
  <1> QED BY <1>1, <1>2, <1>7, <1>8, <1>9

\* The data that are parsed as the packet's adaptation field.
DataOf(s) ==
    LET b == Build(s)
    IN  Mid(b, IAdaptationField(b), 1 + At(b, IAdaptationField(b)))

\* In these data are the flags and the parts that have been put there.
LEMMA PartsFound ==
    ASSUME NEW s \in PacketShape, Carries(s), InPacket(s), s.len # 0
    PROVE  LET d == DataOf(s)
           IN  /\ d \in Seq(0 .. 255) /\ Len(d) = 1 + s.len /\ 2 <= Len(d)
               /\ Bit(At(d, 1), 128) <=> s.di
               /\ \A k \in Fields : Flag(d, k) <=> k \in s.flags
               /\ \A k \in Fields : \A j \in 1 .. Len(Part(s, k)) :
                    Needs(s, k - 1) + 1 + j <= Len(d)
                      => d[Needs(s, k - 1) + 1 + j] = Part(s, k)[j]
  <1> DEFINE d == DataOf(s)  c == Contents(s)  len == s.len
  <1>1. s.control \in 2 .. 3 /\ len \in 1 .. 255
    <2>1. s.control \in {2, 3}
      BY Zenon DEF Carries
    <2>2. len \in 0 .. 255
      BY ShapeParts
    <2> QED BY <2>1, <2>2
  <1>2. /\ d \in Seq(0 .. 255) /\ Len(d) = 1 + len
        /\ \A j \in 1 .. Len(d) : d[j] = c[4 + j]
    BY DataFound, Zenon DEF DataOf
  <1>3. /\ c[6] = FlagByte(s)
        /\ \A k \in Fields : \A j \in 1 .. Len(Part(s, k)) :
             c[5 + Needs(s, k - 1) + j] = Part(s, k)[j]
    BY <1>1, Laid, Zenon
  <1> HIDE DEF d, c, len
  <1>4. At(d, 1) = FlagByte(s)
    <2>1. 2 \in 1 .. Len(d) /\ 4 + 2 = 6 /\ 1 + 1 = 2
      <3>1. 4 + 2 = 6 /\ 1 + 1 = 2 /\ \A x \in 1 .. 255 : 2 \in 1 .. 1 + x
        OBVIOUS
      <3> QED BY <1>1, <1>2, <3>1, Zenon
    <2> QED BY <1>2, <1>3, <2>1, Zenon DEF At
  <1>5. Bit(At(d, 1), 128) <=> s.di
    BY <1>4, FlagsBuilt, Zenon
  <1>6. \A k \in Fields : Flag(d, k) <=> k \in s.flags
    BY <1>4, FlagsBuilt, Zenon DEF Flag
  <1>7. ASSUME NEW k \in Fields, NEW j \in 1 .. Len(Part(s, k)),
               Needs(s, k - 1) + 1 + j <= Len(d)
        PROVE  d[Needs(s, k - 1) + 1 + j] = Part(s, k)[j]
    <2> DEFINE n == Needs(s, k - 1)
    <2>1. n \in Nat
      <3>1. k - 1 \in 0 .. 5
        BY DEF Fields
      <3>2. n \in Nat \ {0}
        BY <3>1, NeedsMore, Zenon
      <3> HIDE DEF n
      <3> QED BY <3>2
    <2>2. c[5 + n + j] = Part(s, k)[j] /\ n + 1 + j <= Len(d)
      BY <1>3, <1>7, Zenon
    <2> HIDE DEF n
    <2>3. n + 1 + j \in 1 .. Len(d) /\ 4 + (n + 1 + j) = 5 + n + j
      <3>1. Len(d) \in Nat /\ j \in Nat
        BY <1>2
      <3> QED BY <2>1, <2>2, <3>1
    <2>4. d[n + 1 + j] = c[4 + (n + 1 + j)]
      BY <1>2, <2>3, Zenon
    <2> QED BY <2>2, <2>3, <2>4, Zenon DEF n
  <1>8. 2 <= Len(d)
    <2>1. \A x \in 1 .. 255 : 2 <= 1 + x
      OBVIOUS
    <2> QED BY <1>1, <1>2, <2>1, Zenon
  <1> QED BY <1>2, <1>5, <1>6, <1>7, <1>8, Zenon DEF d, len

\* Every field's end is found.
LEMMA EndsBuilt ==
    ASSUME NEW s \in PacketShape, Carries(s), InPacket(s), s.len # 0
    PROVE  Ends(DataOf(s)) = [k \in 0 .. 5 |-> EndOf(s, k)]
  <1> DEFINE d == DataOf(s)  e == [k \in 0 .. 5 |-> EndOf(s, k)]
  <1>1. /\ d \in Seq(0 .. 255) /\ Len(d) = 1 + s.len
        /\ \A k \in Fields : Flag(d, k) <=> k \in s.flags
        /\ \A k \in Fields : \A j \in 1 .. Len(Part(s, k)) :
             Needs(s, k - 1) + 1 + j <= Len(d)
               => d[Needs(s, k - 1) + 1 + j] = Part(s, k)[j]
    BY PartsFound, Zenon
  <1> HIDE DEF d
  <1>2. \A k \in Fields : NextEnd(d, k, EndOf(s, k - 1)) = EndOf(s, k)
    BY <1>1, NextEndFound, Zenon
  <1>3. EndOf(s, 0) = 2
    <2>1. Needs(s, 0) = 1
      BY NeedsMore, Zenon
    <2>2. s.len \in 0 .. 255
      BY ShapeParts
    <2> QED BY <2>1, <2>2 DEF EndOf
  <1>4. ASSUME NEW k \in 0 .. 5
        PROVE  EndOf(s, k) = IF k = 0 THEN 2 ELSE NextEnd(d, k, e[k - 1])
    <2>1. CASE k = 0
      BY <1>3, <2>1
    <2>2. CASE k # 0
      <3>1. k \in Fields /\ k - 1 \in 0 .. 5
        BY <2>2 DEF Fields
      <3>2. e[k - 1] = EndOf(s, k - 1)
        BY <3>1, Zenon
      <3> HIDE DEF e
      <3> QED BY <1>2, <2>2, <3>1, <3>2, Zenon
    <2> QED BY <2>1, <2>2
  <1>5. e = StepsOf(d, e)
    <2> DEFINE f(k) == IF k = 0 THEN 2 ELSE NextEnd(d, k, e[k - 1])
    <2>1. \A k \in 0 .. 5 : EndOf(s, k) = f(k)
      BY <1>4, Zenon
    <2>2. StepsOf(d, e) = [k \in 0 .. 5 |-> f(k)]
      BY Zenon DEF StepsOf
    <2> HIDE DEF f
    <2> QED BY <2>1, <2>2, Zenon
  <1> HIDE DEF e
  <1>6. Ends(d) = e
    BY <1>5, EndsFound, Zenon
  <1> QED BY <1>6, Zenon DEF d, e

\* A part that fits is found as a whole.
LEMMA PartFound ==
    ASSUME NEW s \in PacketShape, Carries(s), InPacket(s), s.len # 0, NEW k \in Fields,
           Needs(s, k) <= s.len
    PROVE  /\ EndOf(s, k - 1) # None /\ EndOf(s, k) # None
           /\ Mid(DataOf(s), EndOf(s, k - 1), EndOf(s, k) - EndOf(s, k - 1)) = Part(s, k)
  <1> DEFINE d == DataOf(s)  n == Needs(s, k - 1)  m == Needs(s, k)  p == Part(s, k)  l == Len(p)
             x == Mid(d, 1 + n, l)
  <1>1. /\ d \in Seq(0 .. 255) /\ Len(d) = 1 + s.len /\ s.len \in 0 .. 255
        /\ \A j \in 1 .. Len(Part(s, k)) :
             Needs(s, k - 1) + 1 + j <= Len(d) => d[Needs(s, k - 1) + 1 + j] = Part(s, k)[j]
    <2>1. s.len \in 0 .. 255
      BY ShapeParts
    <2> QED BY <2>1, PartsFound, Zenon
  <1>2. p \in Seq(0 .. 255)
    BY PartBytes, Zenon
  <1>3. n \in Nat /\ m = n + l /\ l \in Nat /\ m <= s.len
    <2>1. k - 1 \in 0 .. 5
      BY DEF Fields
    <2>2. n \in Nat \ {0} /\ m = n + l
      BY <2>1, NeedsMore, Zenon
    <2>3. l \in Nat
      BY <1>2
    <2> HIDE DEF n, m, l
    <2> QED BY <2>2, <2>3 DEF m
  <1>4. EndOf(s, k - 1) = (IF n <= s.len THEN 1 + n ELSE None)
        /\ EndOf(s, k) = (IF m <= s.len THEN 1 + m ELSE None)
    BY Zenon DEF EndOf
  <1>5. \A j \in 1 .. l : n + 1 + j <= Len(d) => d[n + 1 + j] = p[j]
    BY <1>1, Zenon
  <1> DEFINE len == s.len
  <1>6. len \in 0 .. 255 /\ Len(d) = 1 + len /\ m <= len
    BY <1>1, <1>3
  <1> HIDE DEF d, n, m, p, l, len
  <1>7. n <= len /\ 1 + n # None /\ 1 + m # None /\ 1 + m - (1 + n) = l
    BY <1>3, <1>6 DEF None
  <1>8. EndOf(s, k - 1) = 1 + n /\ EndOf(s, k) = 1 + m
    BY <1>4, <1>6, <1>7, Zenon DEF len
  <1>9. /\ x \in Seq(0 .. 255) /\ Len(x) = l
        /\ \A j \in 1 .. Len(x) : x[j] = d[1 + n + j]
    <2>1. 1 + n \in 0 .. Len(d) /\ 1 + n + l <= Len(d)
      BY <1>3, <1>6
    <2>2. /\ x \in Seq(0 .. 255)
          /\ Len(x) = IF 1 + n + l <= Len(d) THEN l ELSE Len(d) - (1 + n)
          /\ \A j \in 1 .. Len(x) : x[j] = d[1 + n + j]
      BY <1>1, <1>3, <2>1, MidIsSlice DEF d
    <2> QED BY <2>1, <2>2, Zenon
  <1> HIDE DEF x
  <1>10. ASSUME NEW j \in 1 .. Len(x) PROVE x[j] = p[j]
    <2>1. n + 1 + j <= Len(d) /\ n + 1 + j = 1 + n + j /\ j \in 1 .. l
      BY <1>3, <1>6, <1>9
    <2> QED BY <1>5, <1>9, <2>1, Zenon
  <1>11. x = p
    <2>1. Len(x) = Len(p)
      BY <1>9, Zenon DEF l
    <2> QED BY <1>2, <1>9, <1>10, <2>1, SeqEqual, Zenon
  <1>12. Mid(d, EndOf(s, k - 1), EndOf(s, k) - EndOf(s, k - 1)) = Mid(d, 1 + n, l)
    <2> DEFINE from == EndOf(s, k - 1)  to == EndOf(s, k)
    <2>1. from = 1 + n /\ to = 1 + m
      BY <1>8
    <2> HIDE DEF from, to
    <2>2. to - from = l
      BY <1>3, <1>6, <1>7, <2>1
    <2>3. Mid(d, from, to - from) = Mid(d, 1 + n, l)
      BY <2>1, <2>2, Zenon
    <2> QED BY <2>3 DEF from, to
  <1>13. Mid(d, EndOf(s, k - 1), EndOf(s, k) - EndOf(s, k - 1)) = p
    BY <1>11, <1>12, Zenon DEF x
  <1>14. EndOf(s, k - 1) # None /\ EndOf(s, k) # None
    BY <1>7, <1>8, Zenon
  <1> QED BY <1>13, <1>14, Zenon DEF d, p

\* What is found in a packet's adaptation field is what has been put there.
FieldAsBuilt(s, af) ==
    /\ af.bytes = DataOf(s)
    /\ af.error <=> ~Whole(s)
    /\ \A k \in Fields : af.fields[k] = IF Holds(s, k) THEN FieldBytes(s, k) ELSE <<>>
    /\ af.pcr = IF Holds(s, 1) THEN ClockValue(s.pcr) ELSE None
    /\ af.di <=> s.di /\ Carries(s) /\ InPacket(s) /\ s.len > 0
    /\ af.stuffing = IF Carries(s) /\ Whole(s) /\ s.len > 0
                     THEN Stretch(s, 5 + Needs(s, 5) + 1, 5 + s.len) ELSE <<>>

\* A field that goes beyond the packet, or has no flags.
LEMMA FlaglessAsBuilt ==
    ASSUME NEW s \in PacketShape, Carries(s), ~InPacket(s) \/ s.len = 0
    PROVE  FieldAsBuilt(s, AdaptationField(DataOf(s)))
  <1> DEFINE d == DataOf(s)  af == AdaptationField(d)
  <1>1. /\ d \in Seq(0 .. 255) /\ 1 <= Len(d) /\ At(d, 0) = s.len
        /\ InPacket(s) <=> Len(d) = 1 + s.len
    BY DataFound, Zenon DEF DataOf
  <1>2. d # <<>>
    <2>1. Len(<<>>) = 0 /\ ~(1 <= 0)
      OBVIOUS
    <2> HIDE DEF d
    <2> QED BY <1>1, <2>1, Zenon
  <1> HIDE DEF d
  <1>3. ASSUME NEW k \in Fields PROVE ~Holds(s, k)
    <2>1. CASE ~InPacket(s)
      BY <2>1, Zenon DEF Holds
    <2>2. CASE s.len = 0
      <3>1. Needs(s, k) \in Nat \ {0}
        <4>1. k \in 0 .. 5
          BY DEF Fields
        <4> QED BY <4>1, NeedsMore, Zenon
      <3>2. ~(Needs(s, k) <= s.len)
        BY <2>2, <3>1
      <3> QED BY <3>2, Zenon DEF Holds
    <2> QED BY <2>1, <2>2
  <1>4. Whole(s) <=> InPacket(s)
    BY Zenon DEF Whole
  <1>5. ~(s.len > 0) \/ ~InPacket(s)
    BY ShapeParts
  <1>6. 1 \in Fields
    BY DEF Fields
  <1>7. \A error \in BOOLEAN :
          LET x == Flagless(d, error)
          IN  /\ x.bytes = d /\ x.error = error /\ x.di = FALSE /\ x.pcr = None
              /\ x.stuffing = <<>> /\ \A k \in Fields : x.fields[k] = <<>>
    BY Zenon DEF Flagless
  <1>8. CASE ~InPacket(s)
    <2>1. af = Flagless(d, TRUE)
      BY <1>1, <1>8, Zenon DEF AdaptationField
    <2> HIDE DEF af
    <2>2. /\ af.bytes = d /\ af.error = TRUE /\ af.di = FALSE /\ af.pcr = None
          /\ af.stuffing = <<>> /\ \A k \in Fields : af.fields[k] = <<>>
      BY <1>7, <2>1, Zenon
    <2>3. FieldAsBuilt(s, af)
      BY <1>3, <1>4, <1>6, <1>8, <2>2, Zenon DEF FieldAsBuilt, d
    <2> QED BY <2>3 DEF af, d
  <1>9. CASE InPacket(s)
    <2>1. s.len = 0 /\ Len(d) = 1
      <3>1. s.len = 0 /\ Len(d) = 1 + s.len /\ 1 + 0 = 1
        BY <1>1, <1>9
      <3> QED BY <3>1, Zenon
    <2>2. af = Flagless(d, FALSE)
      BY <1>1, <1>2, <1>9, <2>1, Zenon DEF AdaptationField
    <2> HIDE DEF af
    <2>3. /\ af.bytes = d /\ af.error = FALSE /\ af.di = FALSE /\ af.pcr = None
          /\ af.stuffing = <<>> /\ \A k \in Fields : af.fields[k] = <<>>
      BY <1>7, <2>2, Zenon
    <2>4. FieldAsBuilt(s, af)
      BY <1>3, <1>4, <1>5, <1>6, <1>9, <2>3, Zenon DEF FieldAsBuilt, d
    <2> QED BY <2>4 DEF af, d
  <1> QED BY <1>8, <1>9

\* The optional fields, as AdaptationField takes them from the data.
FieldsOf(data, end) ==
    [k \in Fields |->
       IF Flag(data, k) /\ end[k] # None
       THEN Mid(data, end[k - 1], end[k] - end[k - 1]) ELSE <<>>]

\* A field with flags.
LEMMA FlaggedAsBuilt ==
    ASSUME NEW s \in PacketShape, Carries(s), InPacket(s), s.len # 0
    PROVE  FieldAsBuilt(s, AdaptationField(DataOf(s)))
  <1> DEFINE d == DataOf(s)  af == AdaptationField(d)  end == Ends(d)  f == FieldsOf(d, end)
             c == Contents(s)  n == Needs(s, 5)  len == s.len
  <1>1. /\ d \in Seq(0 .. 255) /\ 1 <= Len(d) /\ At(d, 0) = s.len /\ Len(d) = 1 + s.len
        /\ Len(d) <= LengthBasic - 4 /\ \A j \in 1 .. Len(d) : d[j] = c[4 + j]
    BY DataFound, Zenon DEF DataOf
  <1>2. /\ 2 <= Len(d)
        /\ Bit(At(d, 1), 128) <=> s.di
        /\ \A k \in Fields : Flag(d, k) <=> k \in s.flags
    BY PartsFound, Zenon
  <1>3. len \in 1 .. 255
    <2>1. len \in 0 .. 255
      BY ShapeParts
    <2> QED BY <2>1
  <1>4. \A k \in 0 .. 5 : end[k] = EndOf(s, k)
    BY EndsBuilt
  <1>5. c \in Seq(0 .. 255) /\ LengthBasic <= Len(c)
    BY Laid, Zenon
  <1> HIDE DEF d, end, c, len
  <1>6. /\ af.bytes = d /\ (af.error <=> end[5] = None) /\ (af.di <=> Bit(At(d, 1), 128))
        /\ af.pcr = (IF f[1] = <<>> THEN None ELSE PcrValue(f[1]))
        /\ af.fields = f
        /\ af.stuffing = IF end[5] = None THEN <<>> ELSE Mid(d, end[5], Len(d) - end[5])
    <2>1. d # <<>> /\ Len(d) # 1
      <3>1. Len(<<>>) = 0 /\ ~(2 <= 0) /\ ~(2 <= 1)
        OBVIOUS
      <3> QED BY <1>2, <3>1, Zenon
    <2>2. Len(d) = 1 + At(d, 0)
      BY <1>1, Zenon
    <2> DEFINE x == [bytes |-> d,
                     error |-> end[5] = None,
                     di |-> Bit(At(d, 1), 128),
                     pcr |-> IF f[1] = <<>> THEN None ELSE PcrValue(f[1]),
                     fields |-> f,
                     stuffing |-> IF end[5] = None THEN <<>>
                                  ELSE Mid(d, end[5], Len(d) - end[5])]
    <2>3. af = x
      BY <2>1, <2>2, Zenon DEF AdaptationField, FieldsOf, end
    <2> HIDE DEF af, f
    <2> QED BY <2>3, Zenon
  <1> HIDE DEF af
  <1>7. ASSUME NEW k \in Fields
        PROVE  /\ f[k] = IF Holds(s, k) THEN FieldBytes(s, k) ELSE <<>>
               /\ Holds(s, k) <=> k \in s.flags /\ Needs(s, k) <= len
    <2>1. k \in 0 .. 5 /\ k - 1 \in 0 .. 5
      BY DEF Fields
    <2>2. Holds(s, k) <=> k \in s.flags /\ Needs(s, k) <= len
      BY Zenon DEF Holds, len
    <2>3. f[k] = IF k \in s.flags /\ EndOf(s, k) # None
                 THEN Mid(d, EndOf(s, k - 1), EndOf(s, k) - EndOf(s, k - 1)) ELSE <<>>
      BY <1>2, <1>4, <2>1, Zenon DEF FieldsOf
    <2> HIDE DEF f
    <2>4. CASE Needs(s, k) <= len
      <3>1. /\ EndOf(s, k) # None
            /\ Mid(d, EndOf(s, k - 1), EndOf(s, k) - EndOf(s, k - 1)) = Part(s, k)
        BY <2>4, PartFound, Zenon DEF d, len
      <3>2. k \in s.flags => Part(s, k) = FieldBytes(s, k)
        BY Zenon DEF Part
      <3> QED BY <2>2, <2>3, <2>4, <3>1, <3>2, Zenon
    <2>5. CASE ~(Needs(s, k) <= len)
      <3>1. EndOf(s, k) = None
        BY <2>5, Zenon DEF EndOf, len
      <3> QED BY <2>2, <2>3, <2>5, <3>1, Zenon
    <2> QED BY <2>4, <2>5
  <1>8. af.pcr = IF Holds(s, 1) THEN ClockValue(s.pcr) ELSE None
    <2>1. 1 \in Fields
      BY DEF Fields
    <2>2. FieldBytes(s, 1) = PcrBytes(s.pcr)
      BY DEF FieldBytes
    <2>3. FieldBytes(s, 1) # <<>> /\ PcrValue(PcrBytes(s.pcr)) = ClockValue(s.pcr)
      <3>1. Len(PcrBytes(s.pcr)) = 6 /\ PcrValue(PcrBytes(s.pcr)) = ClockValue(s.pcr)
        BY ShapeParts, ClockBytes, SMT
      <3>2. Len(<<>>) = 0 /\ 6 # 0
        OBVIOUS
      <3> QED BY <2>2, <3>1, <3>2, Zenon
    <2>4. f[1] = IF Holds(s, 1) THEN FieldBytes(s, 1) ELSE <<>>
      BY <1>7, <2>1, Zenon
    <2> HIDE DEF f
    <2> QED BY <1>6, <2>2, <2>3, <2>4, Zenon
  <1>9. n \in Nat \ {0}
    <2>1. 5 \in 0 .. 5
      OBVIOUS
    <2> QED BY <2>1, NeedsMore, Zenon
  <1>10. end[5] = IF n <= len THEN 1 + n ELSE None
    <2>1. 5 \in 0 .. 5
      OBVIOUS
    <2> QED BY <1>4, <2>1, Zenon DEF EndOf, len
  <1> HIDE DEF f
  <1>11. Whole(s) <=> n <= len
    BY <1>3, Zenon DEF Whole, len
  <1> HIDE DEF n
  <1>12. end[5] = None <=> ~(n <= len)
    BY <1>9, <1>10 DEF None
  <1>13. ASSUME n <= len
         PROVE  Mid(d, end[5], Len(d) - end[5]) = SubSeq(c, 5 + n + 1, 5 + len)
    <2>1. end[5] = 1 + n /\ Len(d) = 1 + len
      BY <1>1, <1>10, <1>13 DEF len
    <2>2. Mid(d, end[5], Len(d) - end[5]) = SubSeq(d, 2 + n, Len(d))
      <3> DEFINE from == end[5]  to == Len(d)  x == from + (to - from)
      <3>1. from + 1 = 2 + n /\ from \in Nat /\ to \in Nat
        BY <1>3, <1>9, <2>1
      <3> HIDE DEF from, to
      <3>2. x = to
        BY <3>1
      <3>3. Mid(d, from, to - from) = SubSeq(d, from + 1, IF x <= Len(d) THEN x ELSE Len(d))
        BY Zenon DEF Mid
      <3> HIDE DEF x
      <3>4. Mid(d, from, to - from) = SubSeq(d, 2 + n, to)
        BY <3>1, <3>2, <3>3, Zenon DEF to
      <3> QED BY <3>4 DEF from, to
    <2>3. SubSeq(c, 4 + (2 + n), 4 + Len(d)) = SubSeq(d, 2 + n, Len(d))
      <3> DEFINE m == Len(d)  i == 2 + n
      <3>1. /\ m \in Nat /\ m <= Len(d) /\ 4 + m <= Len(c) /\ i \in Nat \ {0} /\ m <= m /\ 4 \in Nat
            /\ \A j \in 1 .. m : c[4 + j] = d[j]
        <4>1. LengthBasic \in Nat /\ Len(c) \in Nat
          BY <1>5, LengthAssumption
        <4> QED BY <1>1, <1>5, <1>9, <4>1
      <3>2. c \in Seq(0 .. 255) /\ d \in Seq(0 .. 255)
        BY <1>1, <1>5
      <3> HIDE DEF m, i
      <3>3. SubSeq(c, 4 + i, 4 + m) = SubSeq(d, i, m)
        BY <3>1, <3>2, Shifted
      <3> QED BY <3>3 DEF m, i
    <2>4. 4 + (2 + n) = 5 + n + 1 /\ 4 + Len(d) = 5 + len
      BY <1>3, <1>9, <2>1
    <2> QED BY <2>2, <2>3, <2>4, Zenon
  <1>14. Stretch(s, 5 + n + 1, 5 + len) = SubSeq(c, 5 + n + 1, 5 + len)
    BY Zenon DEF Stretch, c
  <1>15. len > 0
    BY <1>3
  <1>16. af.stuffing = IF Carries(s) /\ Whole(s) /\ len > 0
                       THEN Stretch(s, 5 + n + 1, 5 + len) ELSE <<>>
    BY <1>6, <1>11, <1>12, <1>13, <1>14, <1>15, Zenon
  <1>17. FieldAsBuilt(s, af)
    <2>1. af.error <=> ~Whole(s)
      BY <1>6, <1>11, <1>12, Zenon
    <2>2. af.di <=> s.di /\ Carries(s) /\ InPacket(s) /\ s.len > 0
      BY <1>2, <1>6, <1>15, Zenon DEF len
    <2>3. \A k \in Fields : af.fields[k] = IF Holds(s, k) THEN FieldBytes(s, k) ELSE <<>>
      BY <1>6, <1>7, Zenon
    <2> QED BY <1>6, <1>8, <1>16, <2>1, <2>2, <2>3, Zenon DEF FieldAsBuilt, d, n, len
  <1> QED BY <1>17 DEF af, d

\* What is found in a packet's adaptation field, or that it has none.
LEMMA FieldParsed ==
    ASSUME NEW s \in PacketShape
    PROVE  LET af == AdaptationFieldOf(Build(s))
           IN  /\ Carries(s) => FieldAsBuilt(s, af)
               /\ ~Carries(s) => af = Flagless(<<>>, FALSE)
  <1> DEFINE b == Build(s)
  <1>1. HasAdaptationField(b) <=> Carries(s)
    BY HeaderFound, Zenon
  <1>2. Carries(s) => AdaptationFieldOf(b) = AdaptationField(DataOf(s))
    BY <1>1, Zenon DEF AdaptationFieldOf, DataOf
  <1>3. ~Carries(s) => AdaptationFieldOf(b) = Flagless(<<>>, FALSE)
    BY <1>1, Zenon DEF AdaptationFieldOf
  <1>4. Carries(s) => FieldAsBuilt(s, AdaptationField(DataOf(s)))
    BY FlaglessAsBuilt, FlaggedAsBuilt, Zenon
  <1> QED BY <1>2, <1>3, <1>4, Zenon

\* The payload is what follows the adaptation field.
LEMMA PayloadFound ==
    ASSUME NEW s \in PacketShape, s.tail = 0, NEW used \in Nat, 4 <= used, used <= LengthBasic
    PROVE  Mid(Build(s), s.lead + used, Len(Build(s))) = SubSeq(Contents(s), used + 1, LengthBasic)
  <1> DEFINE b == Build(s)  l == s.lead  c == Contents(s)  n == LengthBasic  m == Len(b)
  <1>1. /\ l \in Nat /\ b \in Seq(0 .. 255) /\ m = l + n + s.tail
        /\ \A k \in 1 .. n : b[l + k] = c[k]
    BY Built, Zenon
  <1>2. n \in 6 .. 188
    BY LengthAssumption
  <1>3. c \in Seq(0 .. 255) /\ n <= Len(c)
    BY Laid, Zenon
  <1> HIDE DEF l, c, n, m
  <1>4. m = l + n
    BY <1>1, <1>2
  <1>5. used <= n
    BY DEF n
  <1> HIDE DEF b
  <1>6. Mid(b, l + used, m) = SubSeq(b, l + used + 1, m)
    <2>1. ~(l + used + m <= m) /\ m = Len(b)
      BY <1>1, <1>2, <1>4 DEF m
    <2> QED BY <2>1, Zenon DEF Mid
  <1>7. SubSeq(b, l + (used + 1), l + n) = SubSeq(c, used + 1, n)
    <2> DEFINE i == used + 1
    <2>1. /\ i \in Nat \ {0} /\ n \in Nat /\ n <= n /\ l + n <= Len(b) /\ n <= Len(c)
          /\ l \in Nat /\ \A k \in 1 .. n : b[l + k] = c[k]
      BY <1>1, <1>2, <1>3, <1>4 DEF m
    <2>2. b \in Seq(0 .. 255) /\ c \in Seq(0 .. 255)
      BY <1>1, <1>3
    <2> HIDE DEF i
    <2>3. SubSeq(b, l + i, l + n) = SubSeq(c, i, n)
      BY <2>1, <2>2, Shifted
    <2> QED BY <2>3 DEF i
  <1>8. l + used + 1 = l + (used + 1)
    BY <1>1
  <1>9. Mid(b, l + used, m) = SubSeq(c, used + 1, n)
    BY <1>4, <1>6, <1>7, <1>8, Zenon
  <1> QED BY <1>9, Zenon DEF b, l, c, n, m

\* What TSPacket finds in a packet is what has been put into it.
LEMMA PacketParsed ==
    ASSUME NEW s \in PacketShape
    PROVE  PacketAsBuilt(s, TSPacket(Build(s)))
  <1> DEFINE b == Build(s)  p == TSPacket(b)  af == AdaptationFieldOf(b)
             i == IAdaptationField(b) + Len(af.bytes)  full == Validity(b) = "PayloadData"
  <1>1. /\ ISyncByte(b) = IF s.tail = 0 THEN s.lead ELSE None
        /\ HasSync(b) <=> IsPacket(s)
        /\ IsPacket(s) => Control(b) = s.control
        /\ HasHeader(b) <=> IsPacket(s) /\ s.pid # PIDNullPacket
    BY HeaderFound, Zenon
  <1>2. /\ Carries(s) => FieldAsBuilt(s, af)
        /\ ~Carries(s) => af = Flagless(<<>>, FALSE)
    BY FieldParsed, Zenon
  <1>3. p = [bytes |-> b, error |-> ~HasSync(b) \/ af.error, validity |-> Validity(b), af |-> af,
             payload |-> IF full THEN Mid(b, i, Len(b)) ELSE <<>>]
    BY Zenon DEF TSPacket
  <1>4. /\ (p.error <=> ~HasSync(b) \/ af.error) /\ p.af = af
        /\ p.payload = IF full THEN Mid(b, i, Len(b)) ELSE <<>>
    <2> HIDE DEF p, af, i, full
    <2> QED BY <1>3, Zenon
  <1>5. ~Carries(s) => Whole(s) /\ \A k : ~Holds(s, k)
    BY Zenon DEF Whole, Holds
  <1>6. ~Carries(s) => /\ af.bytes = <<>> /\ ~af.error /\ ~af.di /\ af.pcr = None
                       /\ af.stuffing = <<>> /\ \A k \in Fields : af.fields[k] = <<>>
    <2> DEFINE x == Flagless(<<>>, FALSE)
    <2>1. /\ x.bytes = <<>> /\ ~x.error /\ ~x.di /\ x.pcr = None
          /\ x.stuffing = <<>> /\ \A k \in Fields : x.fields[k] = <<>>
      BY Zenon DEF Flagless
    <2>2. ~Carries(s) => af = x
      BY <1>2, Zenon
    <2> HIDE DEF af, x
    <2> QED BY <2>1, <2>2, Zenon
  <1>7. af.error <=> ~Whole(s)
    <2> HIDE DEF af
    <2> QED BY <1>2, <1>5, <1>6, Zenon DEF FieldAsBuilt
  <1>8. /\ \A k \in Fields : af.fields[k] = IF Holds(s, k) THEN FieldBytes(s, k) ELSE <<>>
        /\ af.pcr = IF Holds(s, 1) THEN ClockValue(s.pcr) ELSE None
        /\ af.di <=> s.di /\ Carries(s) /\ InPacket(s) /\ s.len > 0
        /\ af.stuffing = IF Carries(s) /\ Whole(s) /\ s.len > 0
                         THEN Stretch(s, 5 + Needs(s, 5) + 1, 5 + s.len) ELSE <<>>
    <2> HIDE DEF af
    <2>1. CASE Carries(s)
      BY <1>2, <2>1, Zenon DEF FieldAsBuilt
    <2>2. CASE ~Carries(s)
      BY <1>5, <1>6, <2>2, Zenon
    <2> QED BY <2>1, <2>2
  <1>9. full <=> IsPacket(s) /\ Whole(s) /\ s.pid # PIDNullPacket /\ s.control \in {1, 3}
    <2>1. full <=> HasSync(b) /\ HasHeader(b) /\ ~af.error /\ Control(b) \in {1, 3}
      <3> DEFINE x == HasSync(b)  y == HasHeader(b)  z == af.error
                 u == Control(b) \in {1, 3}  v == Control(b) = 2
                 w == IF ~x THEN "None" ELSE IF ~y THEN "PID" ELSE IF z THEN "ContinuityCounter"
                      ELSE IF u THEN "PayloadData" ELSE IF v THEN "AdaptationField"
                      ELSE "ContinuityCounter"
      <3>1. Validity(b) = w
        BY Zenon DEF Validity
      <3>2. w = "PayloadData" <=> x /\ y /\ ~z /\ u
        <4> HIDE DEF x, y, z, u, v
        <4>1. /\ "None" # "PayloadData" /\ "PID" # "PayloadData"
              /\ "ContinuityCounter" # "PayloadData" /\ "AdaptationField" # "PayloadData"
          OBVIOUS
        <4> QED BY <4>1, Zenon
      <3> QED BY <3>1, <3>2, Zenon
    <2> HIDE DEF full, af
    <2> QED BY <1>1, <1>7, <2>1, Zenon
  <1>10. ASSUME IsPacket(s), Whole(s), s.pid # PIDNullPacket, s.control \in {1, 3}
         PROVE  Mid(b, i, Len(b)) = Stretch(s, Used(s) + 1, LengthBasic)
    <2>1. s.tail = 0
      BY <1>10, Zenon DEF IsPacket
    <2>2. IAdaptationField(b) = s.lead + 4 /\ s.lead \in Nat /\ s.len \in 0 .. 255
      <3>1. IAdaptationField(b) = s.lead + 4
        BY <1>1, <2>1, Zenon DEF IAdaptationField
      <3>2. s.lead \in Nat /\ s.len \in 0 .. 255
        BY ShapeParts, LengthAssumption
      <3> QED BY <3>1, <3>2
    <2>3. LengthBasic \in 6 .. 188
      BY LengthAssumption
    <2>4. /\ Used(s) \in Nat /\ 4 <= Used(s) /\ Used(s) <= LengthBasic
          /\ i = s.lead + Used(s)
      <3>1. CASE Carries(s)
        <4>1. InPacket(s)
          BY <1>10, <3>1, Zenon DEF Whole
        <4>2. Len(DataOf(s)) = 1 + s.len
          BY <3>1, <4>1, DataFound, Zenon DEF DataOf
        <4>3. i = s.lead + 4 + (1 + s.len)
          <5> HIDE DEF b
          <5>1. Len(af.bytes) = 1 + s.len
            BY <1>2, <3>1, <4>2, Zenon DEF FieldAsBuilt
          <5> HIDE DEF af
          <5> QED BY <2>2, <5>1, Zenon
        <4>4. Used(s) = 4 + (1 + s.len) /\ s.len <= LengthBasic - 5
          BY <3>1, <4>1, Zenon DEF Used, InPacket
        <4> HIDE DEF i
        <4> QED BY <2>2, <2>3, <4>3, <4>4
      <3>2. CASE ~Carries(s)
        <4>1. Len(af.bytes) = 0
          <5>1. Len(<<>>) = 0
            OBVIOUS
          <5> HIDE DEF af
          <5> QED BY <1>6, <3>2, <5>1, Zenon
        <4>2. i = s.lead + 4 + 0
          <5> HIDE DEF b, af
          <5> QED BY <2>2, <4>1, Zenon
        <4>3. Used(s) = 4 + 0
          BY <3>2, Zenon DEF Used
        <4> HIDE DEF i
        <4> QED BY <2>2, <2>3, <4>2, <4>3
      <3> QED BY <3>1, <3>2
    <2> HIDE DEF i
    <2> QED BY <2>1, <2>4, PayloadFound, Zenon DEF Stretch
  <1> HIDE DEF p, af, i, full
  <1>11. p.payload = IF IsPacket(s) /\ Whole(s) /\ s.pid # PIDNullPacket /\ s.control \in {1, 3}
                     THEN Stretch(s, Used(s) + 1, LengthBasic) ELSE <<>>
    BY <1>4, <1>9, <1>10, Zenon
  <1>12. p.error <=> ~(IsPacket(s) /\ Whole(s))
    BY <1>1, <1>4, <1>7, Zenon
  <1>13. PacketAsBuilt(s, p)
    BY <1>4, <1>8, <1>11, <1>12, Zenon DEF PacketAsBuilt
  <1> QED BY <1>13, Zenon DEF p, b

\* Whatever has been put into the packets, of any length, any fields and any claims
\* about them: what TSPacket finds is that, and an error exactly where it must.
THEOREM PacketsParsedAsBuilt == FSpec => []ParsedAsBuilt
  <1>1. ASSUME read \in FirstPackets \cup {Nothing} PROVE ParsedAsBuilt
    <2> SUFFICES ASSUME read # Nothing PROVE PacketAsBuilt(Shapes[read], Parsed[read])
      BY Zenon DEF ParsedAsBuilt
    <2>1. read \in FirstPackets
      BY <1>1
    <2>2. Shapes[read] \in PacketShape /\ BytesOf[read] = Build(Shapes[read])
      BY <2>1, ShapesAssumption, Zenon
    <2>3. Parsed[read] = TSPacket(Build(Shapes[read]))
      BY <2>1, <2>2, Zenon DEF Parsed
    <2> QED BY <2>2, <2>3, PacketParsed, Zenon
  <1>2. FSpec => []ForwardingTypeOK
    BY ForwardingTypeCorrect
  <1>3. ForwardingTypeOK => read \in FirstPackets \cup {Nothing}
    BY Zenon DEF ForwardingTypeOK
  <1> QED BY <1>1, <1>2, <1>3, PTL
=============================================================================

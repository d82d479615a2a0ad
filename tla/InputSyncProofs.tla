-------------------------- MODULE InputSyncProofs --------------------------
(***************************************************************************)
(* What processInput makes of a stream whose packets are in their places,  *)
(* for any tape, any packet size and any limits: it forwards all of them,  *)
(* whole and in order, whatever size it has to find out first.             *)
(***************************************************************************)
EXTENDS InputSync, SequenceTheorems, WellFoundedInduction, TLAPS

\* What is known of the size behind n packets of a steady stream.
SizeTold(n) ==
    autosize => packetSize = IF Untold(n) THEN 0 ELSE tape.size

\* The errors counted are the packets of late, which were damaged or broken.
Row(n) ==
    autosize /\ tape.size <= Basic + Prefix =>
      errors <= n /\ \A i \in n - errors + 1 .. n : Failing(i)

\* The n packets sent are the first ones, and the next one has not been touched.
OnTrack ==
    LET n == Len(sent) IN
    /\ app # "fatal" /\ n <= Len(tape.starts)
    /\ \A k \in 1 .. n : Forwarded(sent[k], k)
    /\ IF n < Len(tape.starts)
       THEN /\ app = "running" /\ taken = tape.starts[n + 1]
            /\ SizeTold(n) /\ Row(n)
       ELSE Len(tape.sync) - taken < Basic

\* The inductive invariant.
Inv == TypeOK /\ (shorts = 0 /\ Steady => OnTrack)

-----------------------------------------------------------------------------
(***************************************************************************)
(* Types.                                                                  *)
(***************************************************************************)

\* The lengths are numbers, one greater than the other.
LEMMA Sizes ==
    /\ Basic \in Nat /\ Prefix \in Nat /\ Suffix1 \in Nat /\ Suffix2 \in Nat
    /\ 0 < Prefix /\ Prefix < Suffix1 /\ Suffix1 < Suffix2 /\ Suffix2 < Basic
    /\ ErrorLimit \in Nat /\ 0 < ErrorLimit /\ MaxShort \in Nat
    /\ \A s \in GivenSizes : s = 0 \/ (s \in Nat /\ Basic <= s)
  BY SizeAssumption, LimitAssumption, GivenAssumption

\* What is known of the state of a reader.
LEMMA Known ==
  ASSUME TypeOK
  PROVE  /\ tape \in Tape /\ Len(tape.sync) \in Nat /\ tape.sync \in Seq(BOOLEAN)
         /\ taken \in Nat /\ taken <= Len(tape.sync)
         /\ packetSize \in Nat /\ (packetSize = 0 \/ Basic <= packetSize)
         /\ ~autosize => packetSize # 0
         /\ errors \in Nat /\ shorts \in Nat /\ shorts <= MaxShort
         /\ ReadSize \in Nat /\ Basic <= ReadSize
<1>1. tape \in Tape /\ tape.sync \in Seq(BOOLEAN)
  BY DEF TypeOK, Tape
<1>2. Len(tape.sync) \in Nat
  BY <1>1, LenProperties
<1>3. packetSize \in Nat /\ (packetSize = 0 \/ Basic <= packetSize) /\ (~autosize => packetSize # 0)
  <2>1. CASE autosize
    BY <2>1, Sizes DEF TypeOK
  <2>2. CASE ~autosize
    BY <2>2, Sizes DEF TypeOK
  <2> QED BY <2>1, <2>2
<1>4. ReadSize \in Nat /\ Basic <= ReadSize
  BY <1>3, Sizes DEF ReadSize
<1>5. taken \in Nat /\ taken <= Len(tape.sync) /\ errors \in Nat /\ shorts \in Nat /\ shorts <= MaxShort
  BY <1>2, Sizes DEF TypeOK
<1> QED BY <1>1, <1>2, <1>3, <1>4, <1>5

\* What a read may yield, and if nothing has cut it short, that is all there is.
LEMMA Yielded ==
  ASSUME TypeOK, NEW from \in Nat, from <= Len(tape.sync), NEW n \in Nat,
         NEW m \in Yields(from, n)
  PROVE  /\ m \in Nat /\ m <= n /\ from + m <= Len(tape.sync)
         /\ Cut(from, n, m) \in {0, 1} /\ shorts + Cut(from, n, m) \in 0 .. MaxShort
         /\ Cut(from, n, m) = 0 => m = n \/ from + m = Len(tape.sync)
<1>1. Len(tape.sync) \in Nat /\ shorts \in Nat /\ shorts <= MaxShort /\ MaxShort \in Nat
  BY Known, Sizes
<1> DEFINE most == Smaller(n, Available(from))
<1>2. /\ most \in Nat /\ most <= n /\ from + most <= Len(tape.sync)
      /\ most = n \/ from + most = Len(tape.sync)
  BY <1>1 DEF Smaller, Available
<1>3. /\ m \in IF shorts < MaxShort THEN Smaller(1, most) .. most ELSE {most}
      /\ Cut(from, n, m) = IF m < most THEN 1 ELSE 0
  BY DEF Yields, Cut
<1>4. Smaller(1, most) \in Nat
  BY <1>2 DEF Smaller
<1> HIDE DEF most
<1>5. CASE shorts < MaxShort
  BY <1>1, <1>2, <1>3, <1>4, <1>5
<1>6. CASE ~(shorts < MaxShort)
  BY <1>1, <1>2, <1>3, <1>6
<1> QED BY <1>5, <1>6

\* What is read in full is on the tape.
LEMMA ReadInFull ==
  ASSUME TypeOK, FullRead
  PROVE  taken + ReadSize <= Len(tape.sync)
  BY Known, Yielded DEF FullRead

\* The length of a packet to be told by what follows it.
LEMMA Lengths ==
  ASSUME TypeOK, NEW m \in Nat, taken + Basic + m <= Len(tape.sync)
  PROVE  /\ Length(m) \in {0, Basic, Basic + Suffix1, Basic + Suffix2}
         /\ Length(m) \in Nat /\ taken + Length(m) <= Len(tape.sync)
<1>1. /\ m <= Suffix2 => Length(m) = Basic
      /\ Length(m) \in {0, Basic, Basic + Suffix1, Basic + Suffix2}
  BY DEF Length
<1>2. taken \in Nat /\ Len(tape.sync) \in Nat
  BY Known
<1> QED BY <1>1, <1>2, Sizes

\* Bytes of the tape.
LEMMA BytesTyped ==
  ASSUME TypeOK, NEW n \in Nat, taken + n <= Len(tape.sync)
  PROVE  Bytes(taken, n) \in Seq(1 .. Len(tape.sync))
<1>1. taken \in Nat /\ Len(tape.sync) \in Nat
  BY Known
<1>2. \A i \in 1 .. n : taken + i \in 1 .. Len(tape.sync)
  BY <1>1
<1>3. Bytes(taken, n) \in [1 .. n -> 1 .. Len(tape.sync)]
  BY <1>2 DEF Bytes
<1> QED BY <1>3, SeqDef

\* The first sync byte, if there is one.
LEMMA FirstSyncType ==
  ASSUME NEW n \in Nat
  PROVE  FirstSync(n) \in 0 .. n
<1> DEFINE at == {i \in 0 .. n - 1 : SyncAt(taken + i)}
           Less == {pair \in Nat \X Nat : pair[1] < pair[2]}
<1>1. at \subseteq 0 .. n - 1 /\ at \subseteq Nat
  OBVIOUS
<1>2. FirstSync(n) = IF at = {} THEN n ELSE CHOOSE i \in at : \A j \in at : i <= j
  BY DEF FirstSync
<1>3. IsWellFoundedOn(Less, Nat)
  <2>1. Less = OpToRel(<, Nat)
    BY DEF OpToRel
  <2> QED BY <2>1, NatLessThanWellFounded
<1> HIDE DEF at
<1>4. ASSUME at # {} PROVE \E i \in at : \A j \in at : i <= j
  <2>1. PICK i \in at : \A j \in at : <<j, i>> \notin Less
    BY <1>1, <1>3, <1>4, WFMin
  <2>2. ASSUME NEW j \in at, ~(i <= j) PROVE FALSE
    <3>1. i \in Nat /\ j \in Nat /\ j < i
      BY <1>1, <2>2
    <3>2. <<j, i>> \in Less
      BY <3>1
    <3> QED BY <2>1, <3>2
  <2> QED BY <2>2
<1> DEFINE least == CHOOSE i \in at : \A j \in at : i <= j
<1>5. at # {} => least \in at
  BY <1>4
<1>6. FirstSync(n) = IF at = {} THEN n ELSE least
  BY <1>2
<1> HIDE DEF least
<1>7. CASE at = {}
  <2>1. FirstSync(n) = n
    BY <1>6, <1>7, Zenon
  <2> QED BY <2>1
<1>8. CASE at # {}
  <2>1. FirstSync(n) = least /\ least \in 0 .. n - 1
    BY <1>1, <1>5, <1>6, <1>8, Zenon
  <2> QED BY <2>1
<1> QED BY <1>7, <1>8

\* A resync goes no further than the tape.
LEMMA ResyncTyped ==
  ASSUME TypeOK, NEW n \in Nat, taken + n <= Len(tape.sync), Resync(n), app = "running"
  PROVE  /\ taken' \in 0 .. Len(tape.sync) /\ shorts' \in 0 .. MaxShort
         /\ resync' \in Findings /\ app' \in {"running", "closed", "fatal"}
<1>0. /\ taken \in Nat /\ Len(tape.sync) \in Nat /\ shorts \in Nat /\ shorts <= MaxShort
      /\ resync \in Findings
  BY Known DEF TypeOK
<1>1. CASE NothingToSkip(n)
  BY <1>0, <1>1, Sizes DEF NothingToSkip
<1>2. CASE SkipToSync(n)
  <2> DEFINE end == PacketEnd(n)
             extra == IF resync' \in {"suffix1", "suffix2"} THEN Suffix1 ELSE 0
  <2>1. PICK m \in Yields(end, Suffix2 + 1) :
          shorts' = shorts + Cut(end, Suffix2 + 1, m) /\ resync' = Related(end, m)
    BY <1>2 DEF SkipToSync
  <2>2. /\ FirstSync(n) \in 1 .. n - 1 /\ end <= Len(tape.sync)
        /\ taken' = end + extra /\ app' \in {"running", "fatal"}
    BY <1>2 DEF SkipToSync
  <2>3. end \in Nat
    BY <1>0, <2>2, Sizes DEF PacketEnd, Bigger
  <2> HIDE DEF end
  <2>4. /\ m \in Nat /\ end + m <= Len(tape.sync)
        /\ shorts + Cut(end, Suffix2 + 1, m) \in 0 .. MaxShort
    <3>1. Suffix2 + 1 \in Nat
      BY Sizes
    <3> QED BY <2>2, <2>3, <3>1, Yielded
  <2>5. Related(end, m) \in Findings /\ (Related(end, m) \in {"suffix1", "suffix2"} => m > Suffix1)
    BY <2>4, Sizes DEF Related, Findings
  <2>6. taken' \in 0 .. Len(tape.sync)
    <3>1. extra = 0 \/ (extra = Suffix1 /\ Suffix1 < m)
      BY <2>1, <2>5
    <3>2. Suffix1 \in Nat /\ taken' = end + extra
      BY <2>2, Sizes
    <3> QED BY <1>0, <2>2, <2>3, <2>4, <3>1, <3>2
  <2> QED BY <2>1, <2>2, <2>4, <2>5, <2>6
<1>3. CASE NoPacketFound(n)
  <2>1. taken' = taken + n /\ resync' = resync /\ app' = "fatal"
    BY <1>3 DEF NoPacketFound
  <2>2. shorts' = shorts \/ (shorts' = shorts + 1 /\ shorts < MaxShort)
    <3>1. CASE FirstSync(n) < n /\ PacketEnd(n) <= Len(tape.sync)
      <4>1. FirstSync(n) # n /\ FirstSync(n) \in Nat
        BY <3>1, FirstSyncType
      <4>2. PacketEnd(n) \in Nat /\ ~(PacketEnd(n) > Len(tape.sync))
        BY <1>0, <3>1, <4>1, Sizes DEF PacketEnd, Bigger
      <4> QED BY <1>3, <3>1, <4>1, <4>2 DEF NoPacketFound
    <3>2. CASE ~(FirstSync(n) < n /\ PacketEnd(n) <= Len(tape.sync))
      BY <1>3, <3>2 DEF NoPacketFound
    <3> QED BY <3>1, <3>2
  <2> QED BY <1>0, <2>1, <2>2, Sizes
<1> QED BY <1>1, <1>2, <1>3 DEF Resync

\* What has been processed leaves the types as they are.
LEMMA ProcessTyped ==
  ASSUME TypeOK, app = "running", NEW n \in Nat, taken + n <= Len(tape.sync), NEW cut,
         shorts + cut \in 0 .. MaxShort, packetSize # 0 => n = packetSize, Process(n, cut)
  PROVE  TypeOK'
<1>0. /\ taken \in Nat /\ Len(tape.sync) \in Nat /\ errors \in Nat
      /\ packetSize = 0 => autosize
  BY Known
<1>1. /\ tape' = tape /\ autosize' = autosize
      /\ sent' = sent \/ sent' = Append(sent, Bytes(taken, n))
  BY DEF Process
<1>2. sent' \in Seq(Seq(1 .. Len(tape.sync)))
  <2>1. sent \in Seq(Seq(1 .. Len(tape.sync)))
    BY DEF TypeOK
  <2>2. Bytes(taken, n) \in Seq(1 .. Len(tape.sync))
    BY BytesTyped
  <2> DEFINE S == Seq(1 .. Len(tape.sync))
             bytes == Bytes(taken, n)
  <2> HIDE DEF S, bytes
  <2>3. sent \in Seq(S) /\ bytes \in S
    BY <2>1, <2>2 DEF S, bytes
  <2>4. sent' = sent \/ sent' = Append(sent, bytes)
    BY <1>1 DEF bytes
  <2>5. sent' \in Seq(S)
    BY <2>3, <2>4, AppendProperties
  <2> QED BY <2>5 DEF S
<1>3. ASSUME GoOn(n, cut)
      PROVE  /\ taken' \in 0 .. Len(tape.sync) /\ shorts' \in 0 .. MaxShort
             /\ resync' \in Findings /\ app' \in {"running", "closed", "fatal"}
  BY <1>0, <1>3 DEF GoOn, TypeOK
<1>4. CASE GoodPacket(n, cut)
  <2>1. packetSize' \in IF autosize THEN {0, Basic, Basic + Prefix} ELSE GivenSizes \ {0}
    <3>1. n = Basic \/ n = Basic + Prefix
      BY <1>4 DEF GoodPacket, Parses
    <3>2. packetSize' = IF packetSize = 0 THEN n ELSE packetSize
      BY <1>4 DEF GoodPacket
    <3> QED BY <1>0, <3>1, <3>2 DEF TypeOK
  <2>2. errors' = 0 /\ GoOn(n, cut)
    BY <1>4 DEF GoodPacket
  <2> QED BY <1>1, <1>2, <1>3, <2>1, <2>2, Sizes DEF TypeOK
<1>5. CASE BadPacket(n, cut)
  <2>1. errors' = errors + 1 /\ packetSize' = packetSize /\ GoOn(n, cut) /\ ~LastStraw
    BY <1>5 DEF BadPacket
  <2>2. errors' \in Nat /\ (autosize => errors' < ErrorLimit)
    BY <1>0, <2>1, Sizes DEF LastStraw
  <2> QED BY <1>1, <1>2, <1>3, <2>1, <2>2 DEF TypeOK
<1>6. CASE GiveUpSize(n, cut)
  <2>1. errors' = 0 /\ packetSize' = 0 /\ autosize
    BY <1>6 DEF GiveUpSize, LastStraw
  <2>2. /\ taken' \in 0 .. Len(tape.sync) /\ shorts' \in 0 .. MaxShort
        /\ resync' \in Findings /\ app' \in {"running", "closed", "fatal"}
    BY <1>3, <1>6, ResyncTyped DEF GiveUpSize
  <2> QED BY <1>1, <1>2, <2>1, <2>2, Sizes DEF TypeOK
<1> QED BY <1>4, <1>5, <1>6 DEF Process

\* What is dropped does as well.
LEMMA SkipTyped ==
  ASSUME TypeOK, NEW n \in Nat, taken + n <= Len(tape.sync), NEW cut,
         shorts + cut \in 0 .. MaxShort, Skip(n, cut)
  PROVE  TypeOK'
<1>1. taken \in Nat /\ Len(tape.sync) \in Nat
  BY Known
<1>2. taken' \in 0 .. Len(tape.sync) /\ shorts' \in 0 .. MaxShort
  BY <1>1 DEF Skip
<1>3. UNCHANGED <<tape, autosize, packetSize, errors, sent, resync, app>>
  BY DEF Skip
<1> QED BY <1>2, <1>3 DEF TypeOK

\* What is looked ahead at is on the tape.
LEMMA LookAhead ==
  ASSUME TypeOK, packetSize = 0, FullRead, NEW n \in Nat, NEW m \in Yields(taken + Basic, n)
  PROVE  /\ taken + Basic <= Len(tape.sync) /\ taken \in Nat /\ Len(tape.sync) \in Nat
         /\ m \in Nat /\ m <= n /\ taken + Basic + m <= Len(tape.sync)
         /\ Cut(taken + Basic, n, m) \in {0, 1}
         /\ shorts + Cut(taken + Basic, n, m) \in 0 .. MaxShort
         /\ Cut(taken + Basic, n, m) = 0 => m = n \/ taken + Basic + m = Len(tape.sync)
<1>1. taken + Basic <= Len(tape.sync) /\ taken \in Nat /\ Len(tape.sync) \in Nat
  BY Known, ReadInFull DEF ReadSize
<1>2. taken + Basic \in Nat
  BY <1>1, Sizes
<1> QED BY <1>1, <1>2, Yielded

\* The types are kept.
LEMMA TypesKept ==
  ASSUME TypeOK, [Next]_vars
  PROVE  TypeOK'
<1>0. /\ taken \in Nat /\ Len(tape.sync) \in Nat /\ shorts \in 0 .. MaxShort
      /\ packetSize \in Nat /\ ReadSize \in Nat
  BY Known, Sizes
<1>1. CASE UNCHANGED vars
  BY <1>1 DEF vars, TypeOK
<1>2. CASE Closed \/ Fatal
  BY <1>2 DEF Closed, Fatal, TypeOK
<1>3. CASE Desync
  <2>1. PICK n \in Yields(taken, ReadSize) : Skip(n, Cut(taken, ReadSize, n))
    BY <1>3 DEF Desync
  <2>2. /\ n \in Nat /\ taken + n <= Len(tape.sync)
        /\ shorts + Cut(taken, ReadSize, n) \in 0 .. MaxShort
    BY Known, Yielded
  <2> QED BY <2>1, <2>2, SkipTyped
<1>4. CASE app = "running" /\ KnownSize
  <2>1. packetSize # 0 /\ FullRead /\ Process(packetSize, 0)
    BY <1>4 DEF KnownSize
  <2>2. taken + packetSize <= Len(tape.sync)
    BY <2>1, ReadInFull DEF ReadSize
  <2>3. shorts + 0 \in 0 .. MaxShort
    BY <1>0
  <2> QED BY <1>0, <1>4, <2>1, <2>2, <2>3, ProcessTyped
<1>5. CASE app = "running" /\ SyncFirst
  <2>1. packetSize = 0 /\ FullRead
    BY <1>5 DEF SyncFirst
  <2>2. PICK m \in Yields(taken + Basic, Basic) :
          IF Length(m) = 0 THEN Fatal ELSE Process(Length(m), Cut(taken + Basic, Basic, m))
    BY <1>5 DEF SyncFirst
  <2>3. /\ m \in Nat /\ taken + Basic + m <= Len(tape.sync)
        /\ shorts + Cut(taken + Basic, Basic, m) \in 0 .. MaxShort
    BY <2>1, LookAhead, Sizes
  <2>4. Length(m) \in Nat /\ taken + Length(m) <= Len(tape.sync)
    BY <2>3, Lengths
  <2>5. CASE Fatal
    BY <1>2, <2>5
  <2>6. CASE Process(Length(m), Cut(taken + Basic, Basic, m))
    BY <1>5, <2>1, <2>3, <2>4, <2>6, ProcessTyped
  <2> QED BY <2>2, <2>5, <2>6
<1>6. CASE app = "running" /\ PrefixFirst
  <2>1. packetSize = 0 /\ FullRead
    BY <1>6 DEF PrefixFirst
  <2>2. PICK m \in Yields(taken + Basic, Prefix) :
          IF m = Prefix THEN Process(Basic + Prefix, 0)
          ELSE Skip(Basic + m, Cut(taken + Basic, Prefix, m))
    BY <1>6 DEF PrefixFirst
  <2>3. /\ m \in Nat /\ taken + Basic + m <= Len(tape.sync)
        /\ shorts + Cut(taken + Basic, Prefix, m) \in 0 .. MaxShort
    BY <2>1, LookAhead, Sizes
  <2>4. Basic + m \in Nat /\ taken + (Basic + m) <= Len(tape.sync) /\ shorts + 0 \in 0 .. MaxShort
    BY <1>0, <2>3, Sizes
  <2>5. CASE m = Prefix
    BY <1>6, <2>1, <2>2, <2>4, <2>5, ProcessTyped
  <2>6. CASE m # Prefix
    BY <2>2, <2>3, <2>4, <2>6, SkipTyped
  <2> QED BY <2>5, <2>6
<1>7. CASE SyncNowhere
  BY <1>2, <1>7 DEF SyncNowhere
<1> QED BY <1>1, <1>2, <1>3, <1>4, <1>5, <1>6, <1>7 DEF Next

\* At the beginning the types are right.
LEMMA TypesInit == Init => TypeOK
<1> SUFFICES ASSUME Init PROVE TypeOK
  OBVIOUS
<1>1. /\ tape \in Tape /\ taken = 0 /\ packetSize \in GivenSizes /\ autosize = (packetSize = 0)
      /\ errors = 0 /\ sent = <<>> /\ shorts = 0 /\ resync = "none" /\ app = "running"
  BY TapesAssumption DEF Init
<1>2. Len(tape.sync) \in Nat
  BY <1>1, LenProperties DEF Tape
<1>3. autosize \in BOOLEAN
  BY <1>1
<1>4. packetSize \in IF autosize THEN {0, Basic, Basic + Prefix} ELSE GivenSizes \ {0}
  BY <1>1
<1>5. sent \in Seq(Seq(1 .. Len(tape.sync)))
  BY <1>1, EmptySeq
<1> QED BY <1>1, <1>2, <1>3, <1>4, <1>5, Sizes DEF TypeOK, Findings

-----------------------------------------------------------------------------
(***************************************************************************)
(* The packets of a steady stream.                                         *)
(***************************************************************************)

\* Where a packet is and what is behind it, n packets having been sent.
LEMMA Places ==
  ASSUME TypeOK, Gapless, NEW n \in Nat, n < Len(tape.starts)
  PROVE  /\ tape.starts[n + 1] \in Nat /\ tape.size \in Nat
         /\ Len(tape.starts) \in Nat /\ n + 1 \in DOMAIN tape.starts
         /\ tape.starts[n + 1] + tape.size <= Len(tape.sync)
         /\ n = 0 => tape.starts[n + 1] = 0
         /\ n + 1 < Len(tape.starts) =>
              /\ n + 2 \in DOMAIN tape.starts
              /\ tape.starts[n + 2] = tape.starts[n + 1] + tape.size
              /\ tape.starts[n + 1] + tape.size + tape.size <= Len(tape.sync)
         /\ n + 1 = Len(tape.starts) =>
              LET end == tape.starts[n + 1] + tape.size
              IN  /\ Len(tape.sync) < end + Basic
                  /\ Len(tape.sync) > end + SyncOffset => SyncAt(end + SyncOffset) \/ ~autosize
<1> DEFINE starts == tape.starts
<1>1. starts \in Seq(Nat) /\ tape.size \in Nat
  BY DEF TypeOK, Tape
<1>2. /\ Len(starts) \in Nat /\ DOMAIN starts = 1 .. Len(starts)
      /\ \A i \in 1 .. Len(starts) : starts[i] \in Nat
  BY <1>1, LenProperties, ElementOfSeq
<1>3. /\ \A i \in DOMAIN starts : starts[i] + tape.size <= Len(tape.sync)
      /\ starts[1] = 0
      /\ \A i \in 2 .. Len(starts) : starts[i] = starts[i - 1] + tape.size
      /\ Len(tape.sync) < starts[Len(starts)] + tape.size + Basic
  BY DEF Gapless, Gaps
<1>4. LET end == starts[Len(starts)] + tape.size
      IN  Len(tape.sync) > end + SyncOffset => SyncAt(end + SyncOffset) \/ ~autosize
  BY DEF Gapless
<1> HIDE DEF starts
<1>5. n + 1 \in 1 .. Len(starts) /\ n < Len(starts)
  BY <1>2 DEF starts
<1>6. starts[n + 1] \in Nat /\ starts[n + 1] + tape.size <= Len(tape.sync)
  BY <1>2, <1>3, <1>5
<1>7. n = 0 => starts[n + 1] = 0
  BY <1>3
<1>8. ASSUME n + 1 < Len(starts)
      PROVE  /\ n + 2 \in DOMAIN starts /\ starts[n + 2] = starts[n + 1] + tape.size
             /\ starts[n + 1] + tape.size + tape.size <= Len(tape.sync)
  <2>1. n + 2 \in 2 .. Len(starts) /\ n + 2 \in 1 .. Len(starts) /\ (n + 2) - 1 = n + 1
    BY <1>2, <1>8
  <2>2. starts[n + 2] = starts[n + 1] + tape.size
    BY <1>3, <2>1
  <2>3. n + 2 \in DOMAIN starts /\ starts[n + 2] + tape.size <= Len(tape.sync)
    BY <1>2, <1>3, <2>1
  <2> QED BY <2>2, <2>3
<1>9. ASSUME n + 1 = Len(starts)
      PROVE  LET end == starts[n + 1] + tape.size
             IN  /\ Len(tape.sync) < end + Basic
                 /\ Len(tape.sync) > end + SyncOffset => SyncAt(end + SyncOffset) \/ ~autosize
  <2>1. Len(tape.sync) < starts[n + 1] + tape.size + Basic
    BY <1>3, <1>9
  <2> QED BY <1>4, <1>9, <2>1
<1> QED BY <1>1, <1>2, <1>5, <1>6, <1>7, <1>8, <1>9 DEF starts

\* In the middle of a steady stream: the n + 1st packet is to be sent next.
Midway(n) ==
    /\ TypeOK /\ Steady /\ shorts = 0
    /\ n = Len(sent) /\ n \in Nat /\ n < Len(tape.starts)
    /\ app = "running" /\ taken = tape.starts[n + 1]
    /\ \A k \in 1 .. n : Forwarded(sent[k], k)
    /\ SizeTold(n) /\ Row(n)

\* The sizes of a steady stream.
LEMMA SteadySize ==
  ASSUME NEW n, Midway(n)
  PROVE  /\ tape.size \in Nat /\ Basic <= tape.size
         /\ packetSize # 0 => packetSize = tape.size
         /\ ReadSize \in Nat /\ Basic <= ReadSize /\ ReadSize <= tape.size
         /\ autosize => tape.size \in {Basic, Basic + Prefix, Basic + Suffix1, Basic + Suffix2}
         /\ packetSize = 0 => autosize /\ Untold(n)
<1>1. /\ TypeOK /\ n \in Nat /\ tape.size \in Nat /\ SizeTold(n)
      /\ IF autosize THEN Telling ELSE tape.size = packetSize
  BY Places DEF Midway, Steady
<1>2. /\ packetSize \in Nat /\ (packetSize = 0 \/ Basic <= packetSize)
      /\ ~autosize => packetSize # 0
      /\ ReadSize \in Nat /\ Basic <= ReadSize
  BY <1>1, Known
<1>3. CASE autosize
  <2>1. tape.size \in {Basic, Basic + Prefix, Basic + Suffix1, Basic + Suffix2}
    BY <1>1, <1>3 DEF Telling
  <2>2. Basic <= tape.size
    BY <2>1, Sizes
  <2>3. packetSize = IF Untold(n) THEN 0 ELSE tape.size
    BY <1>1, <1>3 DEF SizeTold
  <2>4. ReadSize <= tape.size
    BY <1>1, <2>2, <2>3, Sizes DEF ReadSize
  <2>5. tape.size # 0
    BY <1>1, <2>2, Sizes
  <2>6. CASE Untold(n)
    <3>1. packetSize = 0
      BY <2>3, <2>6, Zenon
    <3> QED BY <1>1, <1>2, <1>3, <2>1, <2>2, <2>4, <2>6, <3>1, Zenon
  <2>7. CASE ~Untold(n)
    <3>1. packetSize = tape.size
      BY <2>3, <2>7, Zenon
    <3> QED BY <1>1, <1>2, <1>3, <2>1, <2>2, <2>4, <2>5, <3>1, Zenon
  <2> QED BY <2>6, <2>7
<1>4. CASE ~autosize
  <2>1. tape.size = packetSize /\ packetSize # 0 /\ Basic <= packetSize
    BY <1>1, <1>2, <1>4
  <2> QED BY <1>1, <1>2, <1>4, <2>1 DEF ReadSize
<1> QED BY <1>3, <1>4

\* No error is the last straw where it would start a resync.
LEMMA NoLastStraw ==
  ASSUME NEW n, Midway(n), tape.size <= Basic + Prefix, Failing(n + 1)
  PROVE  ~LastStraw
<1> SUFFICES ASSUME LastStraw PROVE FALSE
  OBVIOUS
<1>1. autosize /\ errors + 1 >= ErrorLimit
  BY DEF LastStraw
<1>2. /\ n \in Nat /\ errors \in Nat /\ errors < ErrorLimit
      /\ Len(tape.starts) \in Nat /\ n < Len(tape.starts)
  BY <1>1, Places DEF Midway, TypeOK, Steady
<1>3. errors + 1 = ErrorLimit
  BY <1>1, <1>2, Sizes
<1>4. errors <= n /\ \A i \in n - errors + 1 .. n : Failing(i)
  BY <1>1 DEF Midway, Row
<1>5. DOMAIN tape.starts = 1 .. Len(tape.starts)
  BY LenProperties DEF Midway, TypeOK, Tape
<1> DEFINE first == n - errors + 1
<1>6. first \in DOMAIN tape.starts /\ first + ErrorLimit - 1 = n + 1
  BY <1>2, <1>3, <1>4, <1>5
<1>7. PICK j \in first .. first + ErrorLimit - 1 : j \in DOMAIN tape.starts => ~Failing(j)
  BY <1>1, <1>6 DEF Midway, Steady, SoundEnough
<1>8. j \in 1 .. Len(tape.starts)
  BY <1>2, <1>4, <1>6, <1>7
<1>9. ~Failing(j)
  BY <1>5, <1>7, <1>8
<1>10. j = n + 1 \/ j \in n - errors + 1 .. n
  BY <1>2, <1>4, <1>6, <1>7
<1> QED BY <1>4, <1>9, <1>10

\* What is read of the packet to be sent next: all of it, or of the very last one
\* all but the suffix.
Whole(n, len) ==
    \/ len = tape.size
    \/ /\ len = Basic /\ tape.size > Basic + Prefix /\ n + 1 = Len(tape.starts)
       /\ Len(tape.sync) - (taken + len) < Basic

\* That is the packet.
LEMMA BytesForwarded ==
  ASSUME NEW n, Midway(n), NEW len, Whole(n, len)
  PROVE  Forwarded(Bytes(taken, len), n + 1)
<1>1. /\ n \in Nat /\ tape.size \in Nat /\ taken = tape.starts[n + 1] /\ taken \in Nat
  BY Places DEF Midway, Steady
<1>2. CASE len = tape.size
  <2>1. Bytes(taken, len) = PacketOf(tape, n + 1)
    BY <1>1, <1>2 DEF Bytes, PacketOf
  <2> QED BY <2>1 DEF Forwarded
<1>3. CASE len # tape.size
  <2>1. len = Basic /\ tape.size > Basic + Prefix /\ n + 1 = Len(tape.starts)
    BY <1>3 DEF Whole
  <2>2. Bytes(taken, len) = [b \in 1 .. Basic |-> tape.starts[n + 1] + b]
    BY <1>1, <2>1 DEF Bytes
  <2>3. SubSeq(PacketOf(tape, n + 1), 1, Basic) = [b \in 1 .. Basic |-> tape.starts[n + 1] + b]
    <3> DEFINE packet == PacketOf(tape, n + 1)
    <3>1. packet \in Seq(Nat) /\ Len(packet) = tape.size
      <4>1. \A b \in 1 .. tape.size : tape.starts[n + 1] + b \in Nat
        BY <1>1
      <4>2. packet \in [1 .. tape.size -> Nat]
        BY <4>1 DEF PacketOf
      <4> QED BY <1>1, <4>2, SeqDef, LenProperties DEF PacketOf
    <3>2. Basic \in Nat /\ Basic <= tape.size
      BY <1>1, <2>1, Sizes
    <3>3. SubSeq(packet, 1, Basic) = [b \in 1 .. Basic |-> packet[1 + b - 1]]
      BY <3>1, <3>2
    <3>4. \A b \in 1 .. Basic : packet[1 + b - 1] = tape.starts[n + 1] + b
      BY <1>1, <3>2 DEF PacketOf
    <3> HIDE DEF packet
    <3>5. SubSeq(packet, 1, Basic) = [b \in 1 .. Basic |-> tape.starts[n + 1] + b]
      BY <3>3, <3>4
    <3> QED BY <3>5 DEF packet
  <2> QED BY <2>1, <2>2, <2>3 DEF Forwarded
<1> QED BY <1>2, <1>3

\* A packet without a suffix is parsed unless it is damaged or broken.
LEMMA SoundParses ==
  ASSUME NEW n, Midway(n), autosize, tape.size <= Basic + Prefix
  PROVE  Parses(taken, tape.size) <=> ~Failing(n + 1)
<1>1. /\ taken = tape.starts[n + 1] /\ Telling
      /\ n \in Nat /\ n + 1 \in DOMAIN tape.starts /\ taken \in Nat
  BY Places DEF Midway, Steady
<1>2. tape.size = Basic \/ tape.size = Basic + Prefix
  BY <1>1, Sizes DEF Telling
<1>3. CASE tape.size = Basic
  <2>1. SyncOffset = 0 /\ taken + SyncOffset = taken /\ Basic # Basic + Prefix
    BY <1>1, <1>3, Sizes DEF SyncOffset
  <2> QED BY <1>1, <1>3, <2>1 DEF Failing, Parses
<1>4. CASE tape.size = Basic + Prefix
  <2>1. SyncOffset = Prefix /\ Basic # Basic + Prefix
    BY <1>4, Sizes DEF SyncOffset
  <2> QED BY <1>1, <1>4, <2>1 DEF Failing, Parses
<1> QED BY <1>2, <1>3, <1>4

\* One more packet leaves the size to be found out if it could not be parsed either.
LEMMA UntoldNext ==
  ASSUME NEW n \in Nat, tape.size <= Basic + Prefix, tape.size \in Nat
  PROVE  Untold(n + 1) <=> Untold(n) /\ Failing(n + 1)
<1>1. ~(tape.size > Basic + Prefix)
  BY Sizes
<1>2. \A i : i \in 1 .. n + 1 <=> i \in 1 .. n \/ i = n + 1
  OBVIOUS
<1> QED BY <1>1, <1>2 DEF Untold

\* What is known of the size and of the errors once the packet has been processed.
LEMMA ToldNext ==
  ASSUME NEW n, Midway(n), NEW len, Whole(n, len), Process(len, 0),
         packetSize # 0 => len = packetSize
  PROVE  /\ GoOn(len, 0)
         /\ ~autosize => packetSize' = packetSize
         /\ autosize /\ n + 1 < Len(tape.starts) =>
              packetSize' = IF Untold(n + 1) THEN 0 ELSE tape.size
         /\ autosize /\ tape.size <= Basic + Prefix =>
              \/ errors' = 0
              \/ errors' = errors + 1 /\ Failing(n + 1)
<1>0. /\ n \in Nat /\ tape.size \in Nat /\ Basic <= tape.size /\ SizeTold(n)
      /\ packetSize # 0 => packetSize = tape.size
      /\ packetSize \in Nat /\ errors \in Nat
  BY SteadySize, Known DEF Midway
<1>1. ASSUME n + 1 < Len(tape.starts) PROVE len = tape.size
  BY <1>0, <1>1 DEF Whole, Midway
<1>2. autosize => packetSize = IF Untold(n) THEN 0 ELSE tape.size
  BY <1>0 DEF SizeTold
<1>3. ASSUME tape.size <= Basic + Prefix PROVE len = tape.size
  BY <1>0, <1>3, Sizes DEF Whole
<1>4. CASE GoodPacket(len, 0)
  <2>1. Parses(taken, len) /\ errors' = 0 /\ GoOn(len, 0)
        /\ packetSize' = IF packetSize = 0 THEN len ELSE packetSize
    BY <1>4 DEF GoodPacket
  <2>2. len = Basic \/ len = Basic + Prefix
    BY <2>1 DEF Parses
  <2>3. ASSUME autosize, n + 1 < Len(tape.starts)
        PROVE  packetSize' = tape.size /\ tape.size <= Basic + Prefix
    BY <1>0, <1>1, <2>1, <2>2, <2>3, Sizes
  <2>4. ~autosize => packetSize' = packetSize
    BY SteadySize, <2>1
  <2>5. ASSUME autosize, n + 1 < Len(tape.starts)
        PROVE  packetSize' = IF Untold(n + 1) THEN 0 ELSE tape.size
    <3>1. packetSize' = tape.size /\ tape.size <= Basic + Prefix
      BY <2>3, <2>5
    <3>2. ~Failing(n + 1)
      BY <1>1, <2>1, <2>5, <3>1, SoundParses
    <3>3. ~Untold(n + 1)
      BY <1>0, <3>1, <3>2, UntoldNext
    <3> QED BY <3>1, <3>3
  <2> QED BY <2>1, <2>4, <2>5
<1>5. CASE BadPacket(len, 0)
  <2>1. /\ ~Parses(taken, len) /\ errors' = errors + 1 /\ GoOn(len, 0)
        /\ packetSize' = packetSize
    BY <1>5 DEF BadPacket
  <2>2. autosize /\ tape.size <= Basic + Prefix => Failing(n + 1)
    BY <1>3, <2>1, SoundParses
  <2>3. ASSUME autosize
        PROVE  packetSize' = IF Untold(n + 1) THEN 0 ELSE tape.size
    <3>1. Untold(n + 1) <=> Untold(n)
      <4>1. CASE tape.size > Basic + Prefix
        BY <4>1 DEF Untold
      <4>2. CASE tape.size <= Basic + Prefix
        BY <1>0, <2>2, <2>3, <4>2, UntoldNext
      <4> QED BY <1>0, <4>1, <4>2, Sizes
    <3> QED BY <1>2, <2>1, <2>3, <3>1, Zenon
  <2> QED BY <2>1, <2>2, <2>3
<1>6. CASE GiveUpSize(len, 0)
  <2>1. /\ ~Parses(taken, len) /\ LastStraw /\ errors' = 0 /\ packetSize' = 0 /\ autosize
        /\ IF packetSize > 0 THEN Resync(len) ELSE GoOn(len, 0)
    BY <1>6 DEF GiveUpSize, LastStraw
  <2>2. tape.size > Basic + Prefix
    <3>1. SUFFICES ASSUME tape.size <= Basic + Prefix PROVE FALSE
      BY <1>0, Sizes
    <3>2. Failing(n + 1)
      BY <1>3, <2>1, <3>1, SoundParses
    <3> QED BY <2>1, <3>1, <3>2, NoLastStraw
  <2>5. Untold(n) /\ Untold(n + 1)
    BY <2>2 DEF Untold
  <2>3. packetSize = 0
    BY <1>2, <2>1, <2>5, Zenon
  <2>4. GoOn(len, 0)
    BY <2>1, <2>3
  <2> QED BY <2>1, <2>2, <2>4, <2>5
<1> QED BY <1>4, <1>5, <1>6 DEF Process

\* What has been processed is the packet, and the next one is what follows.
LEMMA Proceed ==
  ASSUME NEW n, Midway(n), NEW len \in Nat, Whole(n, len), Process(len, 0),
         packetSize # 0 => len = packetSize
  PROVE  OnTrack'
<1>0. /\ n \in Nat /\ n = Len(sent) /\ n < Len(tape.starts) /\ Len(tape.starts) \in Nat
      /\ taken = tape.starts[n + 1] /\ taken \in Nat /\ Len(tape.sync) \in Nat
      /\ errors \in Nat /\ tape.size \in Nat /\ Basic <= tape.size
  BY SteadySize, Places, Known DEF Midway, Steady
<1>1. /\ GoOn(len, 0)
      /\ autosize /\ n + 1 < Len(tape.starts) =>
           packetSize' = IF Untold(n + 1) THEN 0 ELSE tape.size
      /\ autosize /\ tape.size <= Basic + Prefix =>
           errors' = 0 \/ (errors' = errors + 1 /\ Failing(n + 1))
  BY ToldNext
<1>2. taken' = taken + len /\ app' = "running" /\ tape' = tape /\ autosize' = autosize
  BY <1>1 DEF GoOn, Process, Midway
<1>3. sent' = Append(sent, Bytes(taken, len))
  BY <1>2 DEF Process
<1>4. sent \in Seq(Seq(1 .. Len(tape.sync)))
  BY DEF Midway, TypeOK
<1>5. /\ Len(sent') = n + 1 /\ sent'[n + 1] = Bytes(taken, len)
      /\ \A k \in 1 .. n : sent'[k] = sent[k]
  <2> DEFINE S == Seq(1 .. Len(tape.sync))
             bytes == Bytes(taken, len)
  <2>1. bytes \in S
    <3>1. taken + len <= Len(tape.sync)
      <4>1. tape.starts[n + 1] + tape.size <= Len(tape.sync)
        BY Places DEF Midway, Steady
      <4>2. len <= tape.size
        BY <1>0, Sizes DEF Whole
      <4>3. taken + tape.size <= Len(tape.sync)
        BY <1>0, <4>1
      <4>4. taken \in Nat /\ tape.size \in Nat /\ Len(tape.sync) \in Nat
        BY <1>0
      <4> QED BY <4>2, <4>3, <4>4
    <3> QED BY <3>1, BytesTyped DEF Midway
  <2> HIDE DEF S, bytes
  <2>2. sent \in Seq(S) /\ sent' = Append(sent, bytes)
    BY <1>3, <1>4 DEF S, bytes
  <2>3. /\ Len(sent') = n + 1 /\ sent'[n + 1] = bytes
        /\ \A k \in 1 .. n : sent'[k] = sent[k]
    BY <1>0, <2>1, <2>2, AppendProperties
  <2> QED BY <2>3 DEF bytes
<1>6. \A k \in 1 .. n + 1 : Forwarded(sent[k], k)'
  <2>1. SUFFICES ASSUME NEW k \in 1 .. n + 1 PROVE Forwarded(sent'[k], k)
    BY <1>2 DEF Forwarded
  <2>2. CASE k = n + 1
    BY <1>5, <2>2, BytesForwarded
  <2>3. CASE k # n + 1
    <3>1. k \in 1 .. n
      BY <1>0, <2>3
    <3> QED BY <1>5, <3>1 DEF Midway
  <2> QED BY <2>2, <2>3
<1>7. CASE n + 1 < Len(tape.starts)
  <2>1. len = tape.size
    BY <1>0, <1>7 DEF Whole
  <2>2. taken' = tape.starts[n + 2]
    BY <1>0, <1>2, <1>7, <2>1, Places DEF Midway, Steady
  <2>6. \A i : Failing(i)' <=> Failing(i)
    BY <1>2 DEF Failing, Sound, SyncOffset, SyncAt
  <2>3. SizeTold(n + 1)'
    <3>1. autosize => packetSize' = IF Untold(n + 1) THEN 0 ELSE tape.size
      BY <1>1, <1>7
    <3>2. Untold(n + 1)' <=> Untold(n + 1)
      BY <1>2, <2>6 DEF Untold
    <3> QED BY <1>2, <3>1, <3>2 DEF SizeTold
  <2>4. Row(n + 1)'
    <3>0. \A i \in Int : Failing(i)' <=> Failing(i)
      BY <2>6
    <3>1. ASSUME (autosize /\ tape.size <= Basic + Prefix)'
          PROVE  (errors <= n + 1 /\ \A i \in (n + 1) - errors + 1 .. n + 1 : Failing(i))'
      <4>0. autosize /\ tape.size <= Basic + Prefix
        BY <1>2, <3>1
      <4>1. errors <= n /\ \A i \in n - errors + 1 .. n : Failing(i)
        BY <4>0 DEF Midway, Row
      <4>2. CASE errors' = 0
        <5>1. errors' <= n + 1 /\ (n + 1) - errors' + 1 .. n + 1 = {}
          BY <1>0, <4>2
        <5> QED BY <5>1
      <4>3. CASE errors' = errors + 1 /\ Failing(n + 1)
        <5>1. errors' <= n + 1
          BY <1>0, <4>1, <4>3
        <5>2. ASSUME NEW i \in (n + 1) - errors' + 1 .. n + 1 PROVE Failing(i)'
          <6>1. i \in Int /\ (i = n + 1 \/ i \in n - errors + 1 .. n)
            BY <1>0, <4>3
          <6> QED BY <3>0, <4>1, <4>3, <6>1
        <5> QED BY <5>1, <5>2
      <4> QED BY <1>1, <4>0, <4>2, <4>3
    <3> QED BY <3>1 DEF Row
  <2>5. n + 1 + 1 = n + 2 /\ n + 1 <= Len(tape.starts)
    BY <1>0
  <2> QED BY <1>2, <1>5, <1>6, <1>7, <2>2, <2>3, <2>4, <2>5 DEF OnTrack
<1>8. CASE ~(n + 1 < Len(tape.starts))
  <2>1. n + 1 = Len(tape.starts)
    BY <1>0, <1>8
  <2>2. Len(tape.sync) - taken' < Basic
    <3>1. CASE len = tape.size
      <4>1. Len(tape.sync) < tape.starts[n + 1] + tape.size + Basic
        BY <2>1, Places DEF Midway, Steady
      <4> QED BY <1>0, <1>2, <3>1, <4>1, Sizes
    <3>2. CASE len # tape.size
      BY <1>2, <3>2 DEF Whole
    <3> QED BY <3>1, <3>2
  <2>3. n + 1 <= Len(tape.starts) /\ ~(n + 1 < Len(tape.starts))
    BY <1>0, <2>1
  <2> QED BY <1>2, <1>5, <1>6, <2>2, <2>3 DEF OnTrack
<1> QED BY <1>7, <1>8

-----------------------------------------------------------------------------
(***************************************************************************)
(* What is read of a steady stream.                                        *)
(***************************************************************************)

\* A read comes short once more, or not.
LEMMA ShortsGrow ==
  ASSUME TypeOK, [Next]_vars, shorts' = 0
  PROVE  shorts = 0
<1>0. shorts \in Nat
  BY Known
<1>1. ASSUME NEW n, NEW cut \in {0, 1}, Process(n, cut) PROVE shorts = 0
  <2>1. CASE GoOn(n, cut)
    BY <1>0, <2>1 DEF GoOn
  <2>2. CASE Resync(n)
    <3>1. CASE NothingToSkip(n)
      BY <3>1 DEF NothingToSkip
    <3>2. CASE SkipToSync(n)
      BY <1>0, <3>2 DEF SkipToSync, Cut
    <3>3. CASE NoPacketFound(n)
      BY <1>0, <3>3 DEF NoPacketFound
    <3> QED BY <2>2, <3>1, <3>2, <3>3 DEF Resync
  <2> QED BY <1>1, <2>1, <2>2 DEF Process, GoodPacket, BadPacket, GiveUpSize
<1>2. ASSUME NEW n, NEW cut \in {0, 1}, Skip(n, cut) PROVE shorts = 0
  BY <1>0, <1>2 DEF Skip
<1>3. \A from, n, m : Cut(from, n, m) \in {0, 1}
  BY DEF Cut
<1>4. CASE UNCHANGED vars
  BY <1>4 DEF vars
<1>5. CASE Closed \/ Fatal \/ SyncNowhere
  BY <1>5 DEF Closed, Fatal, SyncNowhere
<1>6. CASE Desync
  BY <1>2, <1>3, <1>6 DEF Desync
<1>7. CASE KnownSize
  BY <1>1, <1>7 DEF KnownSize
<1>8. CASE SyncFirst
  <2>1. PICK m : IF Length(m) = 0 THEN Fatal
                 ELSE Process(Length(m), Cut(taken + Basic, Basic, m))
    BY <1>8 DEF SyncFirst
  <2> QED BY <1>1, <1>3, <1>5, <2>1
<1>9. CASE PrefixFirst
  <2>1. PICK m : IF m = Prefix THEN Process(Basic + Prefix, 0)
                 ELSE Skip(Basic + m, Cut(taken + Basic, Prefix, m))
    BY <1>9 DEF PrefixFirst
  <2> QED BY <1>1, <1>2, <1>3, <2>1
<1> QED BY <1>4, <1>5, <1>6, <1>7, <1>8, <1>9 DEF Next

\* A steady stream has been one before.
LEMMA SteadyBefore ==
  ASSUME TypeOK, [Next]_vars, Steady'
  PROVE  Steady
<1>1. tape' = tape /\ autosize' = autosize
  BY DEF Next, vars, Closed, Desync, Skip, KnownSize, Process, SyncFirst, Fatal, PrefixFirst,
         SyncNowhere
<1>2. ~autosize => packetSize' = packetSize
  <2> SUFFICES ASSUME ~autosize PROVE packetSize' = packetSize
    OBVIOUS
  <2>0. packetSize # 0
    BY Known
  <2>1. ASSUME NEW n, NEW cut, Process(n, cut) PROVE packetSize' = packetSize
    BY <2>0, <2>1 DEF Process, GoodPacket, BadPacket, GiveUpSize, LastStraw
  <2> QED
    BY <2>0, <2>1 DEF Next, vars, Closed, Desync, Skip, KnownSize, SyncFirst, PrefixFirst, SyncNowhere
<1>3. Gapless' = Gapless
  BY <1>1 DEF Gapless, Gaps, SyncOffset, SyncAt
<1>4. SoundEnough' = SoundEnough
  BY <1>1 DEF SoundEnough, Untold, Failing, Sound, Damaged, SyncOffset, SyncAt
<1>5. Telling' = Telling
  BY <1>1 DEF Telling, Untold, Failing, Sound, SyncOffset, SyncAt
<1>6. CASE autosize
  BY <1>1, <1>3, <1>4, <1>5, <1>6 DEF Steady
<1>7. CASE ~autosize
  BY <1>1, <1>2, <1>3, <1>7 DEF Steady
<1> QED BY <1>6, <1>7

\* There is more on the tape than is read, and nothing cuts it short.
LEMMA ReadWhole ==
  ASSUME NEW n, Midway(n), shorts' = 0
  PROVE  ~Closed /\ ~Desync
<1>0. /\ TypeOK /\ taken \in Nat /\ Len(tape.sync) \in Nat /\ shorts = 0
      /\ ReadSize \in Nat /\ 0 < ReadSize /\ ReadSize <= tape.size /\ tape.size \in Nat
      /\ taken + tape.size <= Len(tape.sync)
  <2>1. /\ TypeOK /\ Gapless /\ n \in Nat /\ n < Len(tape.starts) /\ taken = tape.starts[n + 1]
        /\ shorts = 0
    BY DEF Midway, Steady
  <2>2. taken + tape.size <= Len(tape.sync) /\ taken \in Nat /\ tape.size \in Nat
    BY <2>1, Places
  <2>3. ReadSize \in Nat /\ Basic <= ReadSize /\ ReadSize <= tape.size
    BY SteadySize
  <2>4. 0 < ReadSize
    BY <2>3, Sizes
  <2> QED BY <2>1, <2>2, <2>3, <2>4, Known
<1>1. ~Closed
  BY <1>0 DEF Closed
<1>2. ASSUME Desync PROVE FALSE
  <2>1. PICK m \in Yields(taken, ReadSize) :
          m \in 1 .. ReadSize - 1 /\ shorts' = shorts + Cut(taken, ReadSize, m)
    BY <1>2 DEF Desync, Skip
  <2>2. Cut(taken, ReadSize, m) \in {0, 1}
        /\ (Cut(taken, ReadSize, m) = 0 => m = ReadSize \/ taken + m = Len(tape.sync))
    BY <1>0, Yielded
  <2>3. Cut(taken, ReadSize, m) = 0
    BY <1>0, <2>1, <2>2
  <2> QED BY <1>0, <2>1, <2>2, <2>3
<1> QED BY <1>1, <1>2

\* A packet the size is told of has its sync byte.
LEMMA FirstSound ==
  ASSUME NEW n, Midway(n), packetSize = 0
  PROVE  /\ autosize /\ Untold(n) /\ Telling
         /\ SyncAt(taken + SyncOffset)
         /\ n + 1 < Len(tape.starts) => SyncAt(tape.starts[n + 2] + SyncOffset)
<1>1. /\ autosize /\ Untold(n) /\ Telling /\ SoundEnough
      /\ n \in Nat /\ taken = tape.starts[n + 1] /\ n + 1 \in DOMAIN tape.starts
      /\ n + 1 < Len(tape.starts) => n + 2 \in DOMAIN tape.starts
  BY SteadySize, Places DEF Midway, Steady
<1>2. ~Damaged(n + 1)
  <2>1. 1 .. n + 1 - 2 \subseteq 1 .. n
    BY <1>1
  <2>2. Untold(n + 1 - 2)
    BY <1>1, <2>1 DEF Untold
  <2> QED BY <1>1, <2>2 DEF SoundEnough
<1>3. n + 1 < Len(tape.starts) => ~Damaged(n + 2)
  <2>1. n + 2 - 2 = n
    BY <1>1
  <2> QED BY <1>1, <2>1 DEF SoundEnough
<1> QED BY <1>1, <1>2, <1>3 DEF Damaged

\* The length that is told is that of the packet.
LEMMA LengthTold ==
  ASSUME NEW n, Midway(n), packetSize = 0, SyncAt(taken),
         NEW m \in Nat, taken + Basic + m <= Len(tape.sync),
         m > Suffix2 \/ taken + Basic + m = Len(tape.sync)
  PROVE  Whole(n, Length(m)) /\ Length(m) # 0
<1>0. /\ n \in Nat /\ taken = tape.starts[n + 1] /\ taken \in Nat /\ tape.size \in Nat
      /\ Len(tape.starts) \in Nat /\ n < Len(tape.starts)
      /\ Len(tape.sync) \in Nat /\ taken + tape.size <= Len(tape.sync)
      /\ n = 0 => taken = 0
      /\ autosize /\ Untold(n) /\ Telling
  BY FirstSound, Places, Known DEF Midway, Steady
<1>a. /\ taken \in Nat /\ tape.size \in Nat /\ Len(tape.sync) \in Nat
      /\ Basic \in Nat /\ Prefix \in Nat /\ Suffix1 \in Nat /\ Suffix2 \in Nat
      /\ 0 < Prefix /\ Prefix < Suffix1 /\ Suffix1 < Suffix2 /\ Suffix2 < Basic
  BY <1>0, Sizes
<1>1. ASSUME n + 1 < Len(tape.starts)
      PROVE  /\ SyncAt(taken + tape.size + SyncOffset)
             /\ taken + tape.size + tape.size <= Len(tape.sync)
  BY <1>0, <1>1, FirstSound, Places DEF Midway, Steady
<1>2. ASSUME n + 1 = Len(tape.starts)
      PROVE  /\ Len(tape.sync) < taken + tape.size + Basic
             /\ Len(tape.sync) > taken + tape.size + SyncOffset =>
                  SyncAt(taken + tape.size + SyncOffset)
  BY <1>0, <1>2, Places DEF Midway, Steady
<1>3. CASE tape.size = Basic
  <2>1. SyncOffset = 0
    BY <1>3, Sizes DEF SyncOffset
  <2>2. ASSUME m > Suffix2 PROVE SyncAt(taken + Basic)
    <3>1. Len(tape.sync) > taken + tape.size + SyncOffset
      BY <1>0, <1>3, <2>1, <2>2, Sizes
    <3>2. SyncAt(taken + tape.size + SyncOffset)
      BY <1>0, <1>1, <1>2, <3>1
    <3>3. taken + tape.size + SyncOffset = taken + Basic
      BY <1>0, <1>3, <2>1, Sizes
    <3> QED BY <3>2, <3>3
  <2>3. Length(m) = Basic
    BY <2>2, Sizes DEF Length
  <2> QED BY <1>3, <2>3, Sizes DEF Whole
<1>4. CASE tape.size = Basic + Prefix
  <2>1. n + 1 \in DOMAIN tape.starts /\ n + 1 - 1 = n
    BY <1>0, Places DEF Midway, Steady
  <2>2. ~SyncAt(tape.starts[n + 1])
    BY <1>0, <1>4, <2>1 DEF Telling
  <2> QED BY <1>0, <2>2
<1>5. CASE tape.size = Basic + Suffix1 \/ tape.size = Basic + Suffix2
  <2>0. SyncOffset = 0 /\ tape.size > Basic + Prefix /\ taken + tape.size + SyncOffset = taken + tape.size
    <3>1. tape.size > Basic + Prefix /\ tape.size # Basic + Prefix
      BY <1>a, <1>5
    <3>2. SyncOffset = 0
      BY <3>1 DEF SyncOffset
    <3> QED BY <1>0, <3>1, <3>2
  <2>a. Basic + Suffix1 <= tape.size /\ tape.size <= Basic + Suffix2
    BY <1>a, <1>5
  <2>1. CASE m <= Suffix2
    <3>1. Length(m) = Basic
      BY <2>1 DEF Length
    <3>2. Len(tape.sync) = taken + Basic + m
      BY <2>1, Sizes
    <3>3. n + 1 = Len(tape.starts)
      <4>1. m < Basic
        BY <2>1, Sizes
      <4>2. ~(taken + tape.size + tape.size <= Len(tape.sync))
        BY <1>a, <2>a, <3>2, <4>1
      <4> QED BY <1>0, <1>1, <4>2
    <3>4. Len(tape.sync) - (taken + Basic) < Basic
      BY <1>a, <2>1, <3>2
    <3> QED BY <2>0, <3>1, <3>3, <3>4, Sizes DEF Whole
  <2>2. CASE m > Suffix2
    <3>1. ~SyncAt(taken + Basic) /\ (tape.size = Basic + Suffix2 => ~SyncAt(taken + Basic + Suffix1))
      <4>1. n + 1 \in DOMAIN tape.starts
        BY Places DEF Midway, Steady
      <4> QED BY <1>0, <2>0, <4>1 DEF Telling
    <3>2. SyncAt(taken + tape.size)
      <4>1. Len(tape.sync) > taken + tape.size
        <5>1. taken + Basic + Suffix2 < Len(tape.sync)
          BY <1>a, <2>2
        <5> QED BY <1>a, <2>a, <5>1
      <4>2. n + 1 < Len(tape.starts) \/ n + 1 = Len(tape.starts)
        BY <1>0
      <4> QED BY <1>1, <1>2, <2>0, <4>1, <4>2
    <3>3. Length(m) = tape.size
      <4>1. ~(m <= Suffix2)
        BY <2>2, Sizes
      <4>2. CASE tape.size = Basic + Suffix1
        <5>1. taken + tape.size = taken + Basic + Suffix1
          BY <1>0, <4>2, Sizes
        <5> QED BY <3>1, <3>2, <4>1, <4>2, <5>1 DEF Length
      <4>3. CASE tape.size = Basic + Suffix2
        <5>1. taken + tape.size = taken + Basic + Suffix2
          BY <1>0, <4>3, Sizes
        <5> QED BY <3>1, <3>2, <4>1, <4>3, <5>1 DEF Length
      <4> QED BY <1>5, <4>2, <4>3
    <3> QED BY <1>0, <2>0, <3>3, Sizes DEF Whole
  <2> QED BY <2>1, <2>2, Sizes
<1> QED BY <1>0, <1>3, <1>4, <1>5 DEF Telling

-----------------------------------------------------------------------------
(***************************************************************************)
(* The invariant.                                                          *)
(***************************************************************************)

\* In the middle of a stream, whatever is done is to send the next packet.
LEMMA MidwayOn ==
  ASSUME NEW n, Midway(n), Next, shorts' = 0
  PROVE  OnTrack'
<1>0. /\ TypeOK /\ taken \in Nat /\ Len(tape.sync) \in Nat /\ shorts = 0 /\ tape.size \in Nat
      /\ taken = tape.starts[n + 1] /\ taken + tape.size <= Len(tape.sync)
  BY Places, Known DEF Midway, Steady
<1>1. CASE Closed \/ Desync
  BY <1>1, ReadWhole
<1>2. CASE KnownSize
  <2>1. packetSize # 0 /\ packetSize = tape.size /\ packetSize \in Nat /\ Process(packetSize, 0)
    BY <1>0, <1>2, SteadySize DEF KnownSize
  <2>2. Whole(n, packetSize)
    BY <2>1 DEF Whole
  <2> QED BY <2>1, <2>2, Proceed
<1>3. CASE SyncFirst
  <2>1. packetSize = 0 /\ FullRead /\ SyncAt(taken)
    BY <1>3 DEF SyncFirst
  <2>2. PICK m \in Yields(taken + Basic, Basic) :
          IF Length(m) = 0 THEN Fatal ELSE Process(Length(m), Cut(taken + Basic, Basic, m))
    BY <1>3 DEF SyncFirst
  <2> DEFINE cut == Cut(taken + Basic, Basic, m)
             len == Length(m)
  <2>3. /\ m \in Nat /\ taken + Basic + m <= Len(tape.sync)
        /\ cut \in {0, 1} /\ (cut = 0 => m = Basic \/ taken + Basic + m = Len(tape.sync))
    BY <1>0, <2>1, LookAhead, Sizes
  <2>4. len \in Nat
    BY <1>0, <2>3, Lengths
  <2>5. m > Suffix2 \/ len = Basic
    BY <2>3, Sizes DEF Length
  <2>6. m > Suffix2 \/ taken + Basic + m = Len(tape.sync) => Whole(n, len) /\ len # 0
    BY <2>1, <2>3, LengthTold
  <2> HIDE DEF cut, len
  <2>7. IF len = 0 THEN Fatal ELSE Process(len, cut)
    BY <2>2 DEF cut, len
  <2>8. len # 0
    BY <2>5, <2>6, Sizes
  <2>9. Process(len, cut) /\ shorts' = shorts + cut
    BY <2>1, <2>7, <2>8 DEF Process, GoodPacket, BadPacket, GiveUpSize, GoOn
  <2>10. cut = 0
    BY <1>0, <2>3, <2>9
  <2>11. Whole(n, len)
    BY <2>3, <2>6, <2>10, Sizes
  <2> QED BY <2>1, <2>4, <2>9, <2>10, <2>11, Proceed
<1>4. CASE PrefixFirst
  <2>1. packetSize = 0 /\ FullRead /\ ~SyncAt(taken)
    BY <1>4 DEF PrefixFirst
  <2>2. PICK m \in Yields(taken + Basic, Prefix) :
          IF m = Prefix THEN Process(Basic + Prefix, 0)
          ELSE Skip(Basic + m, Cut(taken + Basic, Prefix, m))
    BY <1>4 DEF PrefixFirst
  <2> DEFINE cut == Cut(taken + Basic, Prefix, m)
  <2>3. /\ m \in Nat /\ m <= Prefix /\ cut \in {0, 1}
        /\ cut = 0 => m = Prefix \/ taken + Basic + m = Len(tape.sync)
    BY <1>0, <2>1, LookAhead, Sizes
  <2>4. tape.size = Basic + Prefix
    <3>1. SUFFICES ASSUME tape.size # Basic + Prefix PROVE FALSE
      OBVIOUS
    <3>2. SyncOffset = 0 /\ taken + SyncOffset = taken
      BY <1>0, <3>1 DEF SyncOffset
    <3> QED BY <2>1, <3>2, FirstSound
  <2> HIDE DEF cut
  <2>5. m = Prefix
    <3>1. SUFFICES ASSUME m # Prefix PROVE FALSE
      OBVIOUS
    <3>2. shorts' = shorts + cut
      BY <2>2, <3>1 DEF cut, Skip
    <3>3. cut = 0
      BY <1>0, <2>3, <3>2
    <3>4. m < Prefix /\ taken + Basic + m = Len(tape.sync)
      BY <2>3, <3>1, <3>3, Sizes
    <3> QED BY <1>0, <2>3, <2>4, <3>4, Sizes
  <2>6. Process(Basic + Prefix, 0) /\ Basic + Prefix \in Nat /\ Whole(n, Basic + Prefix)
    BY <2>2, <2>4, <2>5, Sizes DEF Whole
  <2> QED BY <2>1, <2>6, Proceed
<1>5. CASE SyncNowhere
  <2>1. packetSize = 0 /\ ~SyncAt(taken) /\ ~SyncAt(taken + Prefix)
    BY <1>5 DEF SyncNowhere
  <2>2. SyncAt(taken + SyncOffset)
    BY <2>1, FirstSound
  <2>3. taken + SyncOffset = taken \/ taken + SyncOffset = taken + Prefix
    BY <1>0 DEF SyncOffset
  <2> QED BY <2>1, <2>2, <2>3
<1> QED BY <1>1, <1>2, <1>3, <1>4, <1>5 DEF Next

\* At the end of a stream nothing is sent.
LEMMA EndOn ==
  ASSUME TypeOK, OnTrack, Steady, Len(sent) = Len(tape.starts), Next, Len(tape.starts) \in Nat
  PROVE  OnTrack'
<1>1. /\ Len(tape.sync) - taken < Basic /\ taken \in Nat /\ Len(tape.sync) \in Nat
      /\ app # "fatal" /\ \A k \in 1 .. Len(sent) : Forwarded(sent[k], k)
  BY Known DEF OnTrack
<1>2. ~FullRead
  BY <1>1, ReadInFull, Known, Sizes
<1>3. ASSUME tape' = tape, sent' = sent, app' # "fatal", Len(tape.sync) - taken' < Basic
      PROVE  OnTrack'
  <2>1. \A k \in 1 .. Len(sent) : Forwarded(sent[k], k)'
    BY <1>1, <1>3 DEF Forwarded
  <2> QED BY <1>3, <2>1 DEF OnTrack
<1>4. CASE Closed
  BY <1>1, <1>3, <1>4 DEF Closed
<1>5. CASE Desync
  <2>1. PICK m \in 1 .. ReadSize - 1 : Skip(m, Cut(taken, ReadSize, m))
    BY <1>5 DEF Desync
  <2>2. /\ taken' = taken + m /\ tape' = tape /\ sent' = sent /\ app' = app /\ m \in Nat
        /\ Basic \in Nat
    BY <2>1, Known, Sizes DEF Skip
  <2>3. Len(tape.sync) - taken' < Basic
    BY <1>1, <2>2
  <2> QED BY <1>1, <1>3, <2>2, <2>3
<1> QED BY <1>2, <1>4, <1>5 DEF Next, KnownSize, SyncFirst, PrefixFirst, SyncNowhere

\* The invariant holds at the beginning.
LEMMA InvInit == Init => Inv
<1> SUFFICES ASSUME Init PROVE Inv
  OBVIOUS
<1>1. TypeOK
  BY TypesInit
<1>2. ASSUME Steady PROVE OnTrack
  <2>1. /\ sent = <<>> /\ Len(sent) = 0 /\ app = "running" /\ errors = 0 /\ taken = 0
        /\ autosize => packetSize = 0
    BY DEF Init
  <2>2. tape.starts \in Seq(Nat) /\ tape.starts # <<>> /\ tape.starts[1] = 0
    BY <1>1, <1>2 DEF TypeOK, Tape, Steady, Gapless
  <2>3. Len(tape.starts) \in Nat /\ 0 < Len(tape.starts)
    BY <2>2, EmptySeq, LenProperties
  <2>6. Untold(0)
    BY DEF Untold
  <2>4. SizeTold(0) /\ Row(0)
    <3>1. 0 - errors + 1 .. 0 = {} /\ errors <= 0
      BY <2>1
    <3>2. Row(0)
      BY <3>1 DEF Row
    <3> QED BY <2>1, <2>6, <3>2 DEF SizeTold
  <2>5. 1 .. 0 = {}
    OBVIOUS
  <2> QED BY <2>1, <2>2, <2>3, <2>4, <2>5 DEF OnTrack
<1> QED BY <1>1, <1>2 DEF Inv

\* The invariant is kept.
LEMMA InvKept == Inv /\ [Next]_vars => Inv'
<1> SUFFICES ASSUME Inv, [Next]_vars PROVE Inv'
  OBVIOUS
<1>1. TypeOK /\ TypeOK'
  BY TypesKept DEF Inv
<1>2. ASSUME (shorts = 0 /\ Steady)' PROVE OnTrack'
  <2>1. shorts = 0 /\ Steady
    BY <1>1, <1>2, ShortsGrow, SteadyBefore
  <2>2. OnTrack
    BY <2>1 DEF Inv
  <2>3. CASE UNCHANGED vars
    BY <2>2, <2>3 DEF vars, OnTrack, SizeTold, Row, Untold, Forwarded, Failing, Sound,
             SyncOffset, SyncAt
  <2>4. CASE Next
    <3> DEFINE n == Len(sent)
    <3>1. n \in Nat /\ Len(tape.starts) \in Nat /\ n <= Len(tape.starts)
      BY <1>1, <2>2, LenProperties DEF TypeOK, Tape, OnTrack
    <3>2. CASE n < Len(tape.starts)
      <4>1. Midway(n)
        BY <1>1, <2>1, <2>2, <3>1, <3>2 DEF OnTrack, Midway
      <4> QED BY <1>2, <2>4, <4>1, MidwayOn
    <3>3. CASE n = Len(tape.starts)
      BY <1>1, <2>1, <2>2, <2>4, <3>1, <3>3, EndOn
    <3> QED BY <3>1, <3>2, <3>3
  <2> QED BY <2>3, <2>4
<1> QED BY <1>1, <1>2 DEF Inv

\* The invariant always holds.
LEMMA Invariance == Spec => []Inv
  BY InvInit, InvKept, PTL DEF Spec

-----------------------------------------------------------------------------
(***************************************************************************)
(* The theorems.                                                           *)
(***************************************************************************)

\* processInput never goes beyond what is there to be read, only autosizing changes
\* the packet size, and it bounds the row of errors.
THEOREM InputSyncTypeCorrect == Spec => []TypeOK
<1>1. Inv => TypeOK
  BY DEF Inv
<1> QED BY <1>1, Invariance, PTL

\* As long as no read comes short, processInput forwards the packets of a steady
\* stream one by one, whole and from the first to the last one, whatever size they
\* have, given or to be found out, and whatever they are made of: where the size is
\* to be found out, as long as fewer of them fail in a row, by their sync bytes or
\* their adaptation fields, than make a resync.
THEOREM PacketsAreForwarded == Spec => []PacketsForwarded
<1>1. Inv => PacketsForwarded
  <2> SUFFICES ASSUME Inv, shorts = 0, Steady
               PROVE  /\ app # "fatal"
                      /\ Len(sent) <= Len(tape.starts)
                      /\ \A k \in DOMAIN sent : Forwarded(sent[k], k)
                      /\ app = "closed" => Len(sent) = Len(tape.starts)
    BY DEF PacketsForwarded
  <2>1. OnTrack /\ sent \in Seq(Seq(1 .. Len(tape.sync))) /\ tape.starts \in Seq(Nat)
    BY DEF Inv, TypeOK, Tape
  <2>2. DOMAIN sent = 1 .. Len(sent) /\ Len(sent) \in Nat /\ Len(tape.starts) \in Nat
    BY <2>1, LenProperties
  <2>3. app = "closed" => Len(sent) = Len(tape.starts)
    BY <2>1, <2>2 DEF OnTrack
  <2> QED BY <2>1, <2>2, <2>3 DEF OnTrack
<1> QED BY <1>1, Invariance, PTL
=============================================================================

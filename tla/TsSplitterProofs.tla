-------------------------- MODULE TsSplitterProofs --------------------------
(***************************************************************************)
(* For any requests, templates, devices and inputs: segments are           *)
(* continuous, one file of them is open at a time, and each holds its      *)
(* packets once and no others; and every request of whatever kind gets     *)
(* what it asks for, or is warned about.                                   *)
(***************************************************************************)
EXTENDS TsSplitter, SequenceTheorems, FiniteSetTheorems, TLAPS

\* What has been put into a file.
Contents(k) == k.written \o k.pending

\* Sequence w lists the packets of segment s in packets `all', in order, each once.
Lists(w, s, all) ==
    /\ w \in Seq(DOMAIN all)
    /\ \A i, j \in DOMAIN w : i < j => w[i] < w[j]
    /\ \A i \in DOMAIN w : all[w[i]].segment = s
    /\ \A p \in DOMAIN all : all[p].segment = s => \E i \in DOMAIN w : w[i] = p

\* Segments follow each other; the segment at hand is that of the last packet.
Counting ==
    /\ segment > 0
    /\ \A p \in DOMAIN input : input[p].segment <= segment
    /\ \A p, q \in DOMAIN input : p <= q => input[p].segment <= input[q].segment
    /\ input # <<>> => input[Len(input)].segment = segment
    /\ input = <<>> => segment = 1 /\ lastPcr = NoPcr

\* _discontLastPCR is the PCR of the last packet with one.
LastSeen ==
    \A p \in DOMAIN input :
        /\ input[p].pcr # NoPcr
        /\ \A m \in p + 1 .. Len(input) : input[m].pcr = NoPcr
        => lastPcr = input[p].pcr

IsSegment(r) ==
    r.start = "segment" /\ r.measure = "segments" /\ r.len = 1 /\ r.at > 0

\* How far a file of segment s is when segment seg is at hand: it has yet to
\* begin, is being written to, or is done with.
Phase(k, s, wanted, seg, begun) ==
    /\ s > seg \/ ~begun => k.state = "absent" /\ k.done = 0 /\ wanted
    /\ s = seg /\ begun => k.state = "open" /\ k.done = 0 /\ wanted
    /\ s < seg => k.state = "closed" /\ k.done > 0

\* Single segments are counted from 1, and their files hold what they should.
Files ==
    \A f \in DOMAIN file :
        LET r == requests[f]
        IN  /\ r.start = "segment" => r.at > 0
            /\ f \in SegmentFiles =>
                 /\ Lists(Contents(file[f]), r.at, input)
                 /\ app # "exited" => Phase(file[f], r.at, f \in listed, segment, input # <<>>)
                 /\ app = "exited" => file[f].state # "open"

\* A device that never refuses leaves nothing with the writer.
Written == ~case.faulty => \A f \in DOMAIN file : file[f].pending = <<>>

IInv ==
    /\ TypeOK
    /\ Counting
    /\ LastSeen
    /\ SegmentsContinuous
    /\ Files
    /\ Written

-----------------------------------------------------------------------------
\* handleSegmentStarts asks for single segments only.
LEMMA SegmentRequestsType ==
    ASSUME case \in Cases, NEW seg \in Nat
    PROVE  /\ SegmentRequests(seg) \in Seq(Request)
           /\ \A i \in DOMAIN SegmentRequests(seg) :
                SegmentRequests(seg)[i] =
                  [start |-> "segment", at |-> seg, measure |-> "segments", len |-> 1]
  <1> DEFINE wanted == {t \in DOMAIN case.templates : seg \in case.templates[t]}
             r == [start |-> "segment", at |-> seg, measure |-> "segments", len |-> 1]
  <1>1. case.templates \in Seq(SUBSET Nat)
    <2>1. case \in Case
      BY SplitAssumption
    <2> QED BY <2>1, Zenon DEF Case
  <1>2. IsFiniteSet(wanted) /\ Cardinality(wanted) \in Nat
    <2>1. DOMAIN case.templates = 1 .. Len(case.templates) /\ Len(case.templates) \in Nat
      BY <1>1
    <2>2. IsFiniteSet(1 .. Len(case.templates))
      BY <2>1, FS_Interval
    <2>3. wanted \subseteq 1 .. Len(case.templates)
      BY <2>1
    <2> QED BY <2>2, <2>3, FS_Subset, FS_CardinalityType
  <1>3. r \in Request
    BY DEF Request, Kind, Measure
  <1>4. SegmentRequests(seg) = [i \in 1 .. Cardinality(wanted) |-> r]
    BY DEF SegmentRequests
  <1> HIDE DEF wanted, r
  <1> QED BY <1>2, <1>3, <1>4 DEF r

\* Counting, finishing and queueing keep a file a file.
LEMMA FileType ==
    ASSUME NEW k \in OutputFile, NEW r \in Request, NEW p \in Nat, NEW seg \in Nat,
           NEW refuses \in BOOLEAN
    PROVE  /\ CountSegment(k, r) \in OutputFile
           /\ Finish(k, r) \in OutputFile
           /\ Queue(k, r, p, refuses) \in OutputFile
           /\ OnPacket(k, r, p, seg, refuses) \in OutputFile
  <1>1. /\ k.state \in {"absent", "open", "closed"} /\ k.done \in Nat
        /\ k.pending \in Seq(Nat) /\ k.written \in Seq(Nat) /\ k.warned \in BOOLEAN
    BY Zenon DEF OutputFile
  <1>2. CountSegment(k, r) \in OutputFile
    <2>1. [k EXCEPT !.done = @ + 1] \in OutputFile
      <3>1. k.done + 1 \in Nat
        BY <1>1
      <3> QED BY <3>1, Zenon DEF OutputFile
    <2> QED BY <2>1, Zenon DEF CountSegment
  <1>3. Finish(k, r) \in OutputFile
    <2>1. [k EXCEPT !.state = "closed", !.warned = k.done # r.len] \in OutputFile
      <3>1. (k.done # r.len) \in BOOLEAN /\ "closed" \in {"absent", "open", "closed"}
        OBVIOUS
      <3> QED BY <3>1, Zenon DEF OutputFile
    <2> QED BY <2>1, Zenon DEF Finish
  <1>4. Queue(k, r, p, refuses) \in OutputFile
    <2> DEFINE q == Append(k.pending, p)
    <2>1. q \in Seq(Nat) /\ k.written \o q \in Seq(Nat) /\ <<>> \in Seq(Nat)
      BY <1>1
    <2>2. k.done + Weight(r) \in Nat
      <3>1. Weight(r) \in Nat
        BY SplitAssumption DEF Weight, Request, Measure
      <3> QED BY <3>1, <1>1
    <2>3. "open" \in {"absent", "open", "closed"}
      OBVIOUS
    <2> HIDE DEF q
    <2>4. /\ (IF refuses THEN q ELSE <<>>) \in Seq(Nat)
          /\ (IF refuses THEN k.written ELSE k.written \o q) \in Seq(Nat)
      BY <2>1, <1>1
    <2>5. Queue(k, r, p, refuses) =
            [k EXCEPT !.state = "open", !.done = @ + Weight(r),
                      !.pending = IF refuses THEN q ELSE <<>>,
                      !.written = IF refuses THEN @ ELSE @ \o q]
      BY DEF Queue, q
    <2> QED BY <2>2, <2>3, <2>4, <2>5, Zenon DEF OutputFile
  <1> QED BY <1>2, <1>3, <1>4, Zenon DEF OnPacket

-----------------------------------------------------------------------------
\* The segment of the next packet, the requests with those for a new segment,
\* and the outputs looked at.
Seg(pcr) == IF Discontinuity(pcr) THEN segment + 1 ELSE segment
All(seg) == requests \o (IF seg # segment THEN SegmentRequests(seg) ELSE <<>>)
Opened(seg) == listed \cup (DOMAIN All(seg) \ DOMAIN requests)

\* What a packet does to file f, whose device may refuse it.
FileStep(f, p, seg, refuses) ==
    IF f \in Opened(seg) THEN OnPacket(Counted(f, seg), All(seg)[f], p, seg, refuses)
    ELSE Counted(f, seg)

\* Requests made before stay in their place; those behind them are for the new
\* segment.
LEMMA AllRequests ==
    ASSUME TypeOK, NEW pcr \in Pcrs \cup {NoPcr}
    PROVE  LET seg == Seg(pcr)
               all == All(seg)
           IN  /\ seg \in Nat /\ seg \in {segment, segment + 1}
               /\ all \in Seq(Request)
               /\ DOMAIN requests \subseteq DOMAIN all
               /\ \A f \in DOMAIN requests : all[f] = requests[f]
               /\ \A f \in DOMAIN all \ DOMAIN requests :
                    /\ seg = segment + 1
                    /\ all[f] = [start |-> "segment", at |-> seg,
                                 measure |-> "segments", len |-> 1]
  <1> DEFINE seg  == Seg(pcr)
             more == IF seg # segment THEN SegmentRequests(seg) ELSE <<>>
             all  == requests \o more
             r    == [start |-> "segment", at |-> seg, measure |-> "segments", len |-> 1]
  <1>1. seg \in Nat /\ seg \in {segment, segment + 1} /\ requests \in Seq(Request)
    BY DEF TypeOK, Seg
  <1>2. case \in Cases
    BY DEF TypeOK
  <1> HIDE DEF seg
  <1>3. /\ more \in Seq(Request)
        /\ \A i \in DOMAIN more : seg = segment + 1 /\ more[i] = r
    <2>1. CASE seg # segment
      <3>1. more = SegmentRequests(seg)
        BY <2>1
      <3>2. /\ SegmentRequests(seg) \in Seq(Request)
            /\ \A i \in DOMAIN SegmentRequests(seg) : SegmentRequests(seg)[i] = r
        BY <1>1, <1>2, SegmentRequestsType
      <3> QED BY <2>1, <3>1, <3>2, <1>1, Zenon
    <2>2. CASE seg = segment
      BY <2>2
    <2> QED BY <2>1, <2>2
  <1> HIDE DEF more, r
  <1>4. /\ all \in Seq(Request)
        /\ Len(all) = Len(requests) + Len(more)
        /\ \A i \in 1 .. Len(requests) : all[i] = requests[i]
        /\ \A i \in Len(requests) + 1 .. Len(all) : all[i] = more[i - Len(requests)]
    BY <1>1, <1>3
  <1>5. all = All(seg)
    BY DEF more, All
  <1> HIDE DEF all
  <1>6. /\ DOMAIN requests = 1 .. Len(requests) /\ Len(requests) \in Nat
        /\ DOMAIN all = 1 .. Len(all) /\ Len(all) \in Nat
        /\ DOMAIN more = 1 .. Len(more) /\ Len(more) \in Nat
    BY <1>1, <1>3, <1>4
  <1>7. ASSUME NEW f \in DOMAIN all \ DOMAIN requests
        PROVE  seg = segment + 1 /\ all[f] = r
    <2>1. f - Len(requests) \in DOMAIN more /\ all[f] = more[f - Len(requests)]
      BY <1>4, <1>6
    <2> QED BY <2>1, <1>3
  <1> QED BY <1>1, <1>4, <1>5, <1>6, <1>7 DEF seg, r

\* A packet's effect, file by file.
LEMMA PacketEffect ==
    ASSUME TypeOK, NEW pcr \in Pcrs \cup {NoPcr}, Packet(pcr)
    PROVE  LET seg == Seg(pcr)
               p   == Len(input) + 1
           IN  /\ input' = Append(input, [pcr |-> pcr, segment |-> seg])
               /\ lastPcr' = IF pcr = NoPcr THEN lastPcr ELSE pcr
               /\ segment' = seg
               /\ requests' = All(seg)
               /\ app = "running" /\ app' = app /\ case' = case
               /\ DOMAIN file' = DOMAIN All(seg)
               /\ \A f \in DOMAIN All(seg) : \E refuses \in BOOLEAN :
                    /\ file'[f] = FileStep(f, p, seg, refuses)
                    /\ refuses => case.faulty
               /\ listed' = {f \in Opened(seg) : ~(/\ Started(All(seg)[f], p, seg)
                                                   /\ Finished(Counted(f, seg), All(seg)[f]))}
  <1> DEFINE seg == Seg(pcr)
             p   == Len(input) + 1
             all == All(seg)
             refusals == IF case.faulty THEN SUBSET DOMAIN all ELSE {{}}
  <1>1. /\ input' = Append(input, [pcr |-> pcr, segment |-> seg])
        /\ lastPcr' = IF pcr = NoPcr THEN lastPcr ELSE pcr
        /\ segment' = seg
        /\ requests' = all
        /\ app = "running" /\ app' = app /\ case' = case
        /\ listed' = {f \in Opened(seg) : ~(/\ Started(all[f], p, seg)
                                            /\ Finished(Counted(f, seg), all[f]))}
    BY Zenon DEF Packet, Seg, All, Opened
  <1>2. PICK refusing \in refusals :
          file' = [f \in DOMAIN all |-> FileStep(f, p, seg, f \in refusing)]
    BY Zenon DEF Packet, Seg, All, Opened, FileStep
  <1> HIDE DEF seg, p, all
  <1>3. DOMAIN file' = DOMAIN all
    BY <1>2
  <1>4. ASSUME NEW f \in DOMAIN all
        PROVE  \E refuses \in BOOLEAN :
                 file'[f] = FileStep(f, p, seg, refuses) /\ (refuses => case.faulty)
    <2>1. f \in refusing => case.faulty
      BY <1>2
    <2>2. file'[f] = FileStep(f, p, seg, f \in refusing)
      BY <1>2
    <2>3. (f \in refusing) \in BOOLEAN
      OBVIOUS
    <2> QED BY <2>1, <2>2, <2>3, Zenon
  <1> QED BY <1>1, <1>3, <1>4, Zenon DEF seg, p, all

\* A file stays one whatever a packet does to it.
LEMMA CountedType ==
    ASSUME TypeOK, NEW seg \in Nat, NEW f
    PROVE  Counted(f, seg) \in OutputFile
  <1>1. NewFile \in OutputFile
    <2>1. /\ "absent" \in {"absent", "open", "closed"} /\ 0 \in Nat
          /\ <<>> \in Seq(Nat) /\ FALSE \in BOOLEAN
      OBVIOUS
    <2> QED BY <2>1, Zenon DEF NewFile, OutputFile
  <1>2. f \in DOMAIN file => CountSegment(file[f], requests[f]) \in OutputFile
    <2> HAVE f \in DOMAIN file
    <2>1. file[f] \in OutputFile /\ requests[f] \in Request
      BY DEF TypeOK
    <2>2. 0 \in Nat /\ TRUE \in BOOLEAN
      OBVIOUS
    <2> QED BY <2>1, <2>2, FileType, Zenon
  <1> QED BY <1>1, <1>2, Zenon DEF Counted, TypeOK

\* Types, when a packet comes.
LEMMA PacketType ==
    ASSUME TypeOK, NEW pcr \in Pcrs \cup {NoPcr}, Packet(pcr)
    PROVE  TypeOK'
  <1> DEFINE seg == Seg(pcr)
             p   == Len(input) + 1
             all == All(seg)
  <1>1. /\ seg \in Nat /\ all \in Seq(Request) /\ DOMAIN requests \subseteq DOMAIN all
        /\ p \in Nat
    <2>1. p \in Nat
      BY DEF TypeOK
    <2> QED BY <2>1, AllRequests, Zenon
  <1>2. /\ input' = Append(input, [pcr |-> pcr, segment |-> seg])
        /\ lastPcr' = IF pcr = NoPcr THEN lastPcr ELSE pcr
        /\ segment' = seg /\ requests' = all
        /\ app' = app /\ case' = case
        /\ DOMAIN file' = DOMAIN all
        /\ \A f \in DOMAIN all : \E refuses \in BOOLEAN :
             file'[f] = FileStep(f, p, seg, refuses)
        /\ listed' \subseteq Opened(seg)
    BY PacketEffect, Zenon
  <1> HIDE DEF seg, p, all
  <1>3. ASSUME NEW f \in DOMAIN all
        PROVE  file'[f] \in OutputFile
    <2>1. PICK refuses \in BOOLEAN : file'[f] = FileStep(f, p, seg, refuses)
      BY <1>2
    <2>2. Counted(f, seg) \in OutputFile /\ all[f] \in Request
      BY <1>1, CountedType
    <2>3. OnPacket(Counted(f, seg), all[f], p, seg, refuses) \in OutputFile
      BY <2>2, <1>1, FileType
    <2> QED BY <2>1, <2>2, <2>3, Zenon DEF FileStep, all
  <1>4. input' \in Seq([pcr : Pcrs \cup {NoPcr}, segment : Nat])
    BY <1>1, <1>2 DEF TypeOK
  <1>5. listed' \subseteq DOMAIN requests'
    BY <1>1, <1>2 DEF TypeOK, Opened, all
  <1>6. lastPcr' \in Pcrs \cup {NoPcr} /\ segment' \in Nat /\ requests' \in Seq(Request)
    BY <1>1, <1>2 DEF TypeOK
  <1>7. case' \in Cases /\ app' \in {"running", "exited", "fatal"}
    BY <1>2 DEF TypeOK
  <1> QED BY <1>2, <1>3, <1>4, <1>5, <1>6, <1>7, Zenon DEF TypeOK

-----------------------------------------------------------------------------
\* Segments are counted and PCRs remembered packet by packet, and a segment
\* goes on only while they are continuous.
LEMMA PacketCounting ==
    ASSUME TypeOK, Counting, LastSeen, SegmentsContinuous,
           NEW pcr \in Pcrs \cup {NoPcr}, Packet(pcr)
    PROVE  Counting' /\ LastSeen' /\ SegmentsContinuous'
  <1> DEFINE n   == Len(input)
             seg == Seg(pcr)
             x   == [pcr |-> pcr, segment |-> seg]
  <1>1. /\ input \in Seq([pcr : Pcrs \cup {NoPcr}, segment : Nat])
        /\ n \in Nat /\ segment \in Nat /\ DOMAIN input = 1 .. n
        /\ \A i \in 1 .. n : input[i].pcr \in Pcrs \cup {NoPcr} /\ input[i].segment \in Nat
        /\ n = Len(input)
    <2>1. input \in Seq([pcr : Pcrs \cup {NoPcr}, segment : Nat]) /\ segment \in Nat
      BY DEF TypeOK
    <2>2. \A i \in 1 .. n : input[i] \in [pcr : Pcrs \cup {NoPcr}, segment : Nat]
      BY <2>1, ElementOfSeq
    <2>3. n \in Nat /\ DOMAIN input = 1 .. n /\ n = Len(input)
      BY <2>1
    <2> QED BY <2>1, <2>2, <2>3, Zenon
  <1>2. /\ input' = Append(input, x) /\ segment' = seg
        /\ lastPcr' = IF pcr = NoPcr THEN lastPcr ELSE pcr
    BY PacketEffect, Zenon
  <1>3. /\ seg \in {segment, segment + 1}
        /\ seg = segment + 1 => n > 0
        /\ seg = segment <=> ~Discontinuity(pcr)
    <2>1. seg = IF Discontinuity(pcr) THEN segment + 1 ELSE segment
      BY DEF Seg
    <2>2. Discontinuity(pcr) => lastPcr # NoPcr
      BY DEF Discontinuity
    <2>3. n = 0 => lastPcr = NoPcr
      BY <1>1 DEF Counting
    <2> QED BY <1>1, <2>1, <2>2, <2>3
  <1> HIDE DEF seg, n
  <1>4. /\ DOMAIN input' = 1 .. n + 1 /\ Len(input') = n + 1
        /\ \A i \in 1 .. n : input'[i] = input[i]
        /\ input'[n + 1].pcr = pcr /\ input'[n + 1].segment = seg
    BY <1>1, <1>2
  <1>5. \A i \in 1 .. n : input[i].segment <= segment
    BY <1>1 DEF Counting
  <1>6. Counting'
    <2>1. segment' > 0
      BY <1>1, <1>2, <1>3 DEF Counting
    <2>2. \A i \in DOMAIN input' : input'[i].segment <= segment'
      BY <1>1, <1>2, <1>3, <1>4, <1>5
    <2>3. ASSUME NEW i \in DOMAIN input', NEW j \in DOMAIN input', i <= j
          PROVE  input'[i].segment <= input'[j].segment
      <3>1. CASE j <= n
        <4>1. i \in 1 .. n /\ j \in 1 .. n
          BY <1>1, <1>4, <2>3, <3>1
        <4>2. input[i].segment <= input[j].segment
          BY <1>1, <2>3, <4>1 DEF Counting
        <4> QED BY <1>4, <4>1, <4>2
      <3>2. CASE j = n + 1
        BY <1>2, <1>4, <2>2, <3>2
      <3> QED BY <1>1, <1>4, <3>1, <3>2
    <2>4. input'[Len(input')].segment = segment' /\ input' # <<>>
      BY <1>1, <1>2, <1>4
    <2> QED BY <2>1, <2>2, <2>3, <2>4 DEF Counting
  <1>7. LastSeen'
    <2> SUFFICES ASSUME NEW i \in 1 .. n + 1, input'[i].pcr # NoPcr,
                        \A m \in i + 1 .. n + 1 : input'[m].pcr = NoPcr
                 PROVE  lastPcr' = input'[i].pcr
      BY <1>4 DEF LastSeen
    <2>1. CASE i = n + 1
      BY <1>2, <1>4, <2>1
    <2>2. CASE i <= n
      <3>1. pcr = NoPcr
        BY <1>1, <1>4, <2>2
      <3>2. input[i].pcr # NoPcr /\ \A m \in i + 1 .. n : input[m].pcr = NoPcr
        BY <1>1, <1>4, <2>2
      <3>3. lastPcr = input[i].pcr
        BY <1>1, <2>2, <3>2 DEF LastSeen
      <3> QED BY <1>2, <1>4, <2>2, <3>1, <3>3
    <2> QED BY <1>1, <2>1, <2>2
  <1>8. SegmentsContinuous'
    <2> SUFFICES ASSUME NEW i \in 1 .. n + 1, NEW j \in 1 .. n + 1, i < j,
                        input'[i].segment = input'[j].segment,
                        input'[i].pcr # NoPcr, input'[j].pcr # NoPcr,
                        \A m \in i + 1 .. j - 1 : input'[m].pcr = NoPcr
                 PROVE  /\ input'[i].pcr <= input'[j].pcr
                        /\ input'[j].pcr <= input'[i].pcr + Second
      BY <1>4 DEF SegmentsContinuous
    <2>1. CASE j <= n
      <3>1. i \in DOMAIN input /\ j \in DOMAIN input
        BY <1>1, <2>1
      <3>2. /\ input[i].segment = input[j].segment
            /\ input[i].pcr # NoPcr /\ input[j].pcr # NoPcr
            /\ \A m \in i + 1 .. j - 1 : input[m].pcr = NoPcr
        BY <1>1, <1>4, <2>1
      <3>3. input[i].pcr <= input[j].pcr /\ input[j].pcr <= input[i].pcr + Second
        BY <3>1, <3>2, <2>1 DEF SegmentsContinuous
      <3> QED BY <1>1, <1>4, <2>1, <3>1, <3>3
    <2>2. CASE j = n + 1
      <3>1. i \in 1 .. n /\ input'[i] = input[i]
        BY <1>1, <1>4, <2>2
      <3>2. lastPcr = input[i].pcr
        <4>1. \A m \in i + 1 .. n : input[m].pcr = NoPcr
          BY <1>1, <1>4, <2>2
        <4> QED BY <1>1, <3>1, <4>1 DEF LastSeen
      <3>3. ~Discontinuity(pcr)
        BY <1>1, <1>3, <1>4, <1>5, <2>2, <3>1
      <3>4. pcr # NoPcr /\ lastPcr # NoPcr
        BY <1>4, <2>2, <3>1, <3>2
      <3>5. lastPcr <= pcr /\ pcr <= lastPcr + Second
        BY <3>3, <3>4, Zenon DEF Discontinuity
      <3> QED BY <1>4, <2>2, <3>1, <3>2, <3>5
    <2>3. j <= n \/ j = n + 1
      <3>1. n \in Nat /\ j \in 1 .. n + 1
        BY <1>1
      <3> QED BY ONLY <3>1
    <2> QED BY <2>1, <2>2, <2>3, Zenon
  <1> QED BY <1>6, <1>7, <1>8

-----------------------------------------------------------------------------
Packets == [pcr : Pcrs \cup {NoPcr}, segment : Nat]

\* The list of a segment, when a packet of another one comes.
LEMMA ListsSkip ==
    ASSUME NEW all \in Seq(Packets), NEW x \in Packets, NEW s, NEW w,
           x.segment # s, Lists(w, s, all)
    PROVE  Lists(w, s, Append(all, x))
  <1> DEFINE n == Len(all)
             more == Append(all, x)
  <1>1. /\ n \in Nat /\ DOMAIN all = 1 .. n /\ DOMAIN more = 1 .. n + 1
        /\ \A p \in 1 .. n : more[p] = all[p]
        /\ more[n + 1] = x
    OBVIOUS
  <1>2. w \in Seq(1 .. n) /\ w \in Seq(1 .. n + 1)
    <2>1. w \in Seq(1 .. n)
      BY <1>1 DEF Lists
    <2> QED BY <2>1, <1>1
  <1>3. \A i \in DOMAIN w : w[i] \in 1 .. n
    BY <1>2
  <1>4. \A i \in DOMAIN w : more[w[i]].segment = s
    BY <1>1, <1>3, Zenon DEF Lists
  <1> HIDE DEF more, n
  <1>5. ASSUME NEW p \in DOMAIN more, more[p].segment = s
        PROVE  \E i \in DOMAIN w : w[i] = p
    <2>1. p \in DOMAIN all /\ more[p] = all[p]
      <3>1. p # n + 1
        BY <1>1, <1>5
      <3> QED BY <3>1, <1>1
    <2> QED BY <2>1, <1>5, Zenon DEF Lists
  <1> QED BY <1>1, <1>2, <1>4, <1>5, Zenon DEF Lists, more

\* The list of a segment, when its next packet comes.
LEMMA ListsNext ==
    ASSUME NEW all \in Seq(Packets), NEW x \in Packets, NEW w,
           Lists(w, x.segment, all)
    PROVE  Lists(Append(w, Len(all) + 1), x.segment, Append(all, x))
  <1> DEFINE n == Len(all)
             s == x.segment
             more == Append(all, x)
             v == Append(w, n + 1)
             l == Len(w)
  <1>1. /\ n \in Nat /\ DOMAIN all = 1 .. n /\ DOMAIN more = 1 .. n + 1
        /\ \A p \in 1 .. n : more[p] = all[p]
        /\ more[n + 1] = x
    OBVIOUS
  <1>2. w \in Seq(1 .. n)
    BY <1>1 DEF Lists
  <1>3. /\ l \in Nat /\ DOMAIN w = 1 .. l /\ DOMAIN v = 1 .. l + 1
        /\ \A i \in 1 .. l : v[i] = w[i] /\ w[i] \in 1 .. n
        /\ v[l + 1] = n + 1
    BY <1>2
  <1>4. v \in Seq(1 .. n + 1)
    <2>1. w \in Seq(1 .. n + 1) /\ n + 1 \in 1 .. n + 1
      BY <1>1, <1>2
    <2> QED BY <2>1, AppendProperties
  <1>5. v = Append(w, Len(all) + 1) /\ s = x.segment /\ more = Append(all, x)
    OBVIOUS
  <1> HIDE DEF more, n, v, l, s
  <1>6. ASSUME NEW i \in DOMAIN v, NEW j \in DOMAIN v, i < j
        PROVE  v[i] < v[j]
    <2>1. i \in 1 .. l
      BY <1>3, <1>6
    <2>2. CASE j \in 1 .. l
      <3>1. w[i] < w[j]
        BY <1>3, <1>6, <2>1, <2>2 DEF Lists
      <3> QED BY <1>3, <2>1, <2>2, <3>1
    <2>3. CASE j = l + 1
      BY <1>1, <1>3, <2>1, <2>3
    <2> QED BY <1>3, <2>2, <2>3
  <1>7. ASSUME NEW i \in DOMAIN v
        PROVE  more[v[i]].segment = s
    <2>1. CASE i \in 1 .. l
      <3>1. v[i] = w[i] /\ more[w[i]] = all[w[i]] /\ i \in DOMAIN w
        BY <1>1, <1>3, <2>1
      <3> QED BY <3>1, <1>5, Zenon DEF Lists
    <2>2. CASE i = l + 1
      BY <1>1, <1>3, <1>5, <2>2, Zenon
    <2>3. i \in 1 .. l \/ i = l + 1
      BY <1>3
    <2> QED BY <2>1, <2>2, <2>3, Zenon
  <1>8. ASSUME NEW p \in DOMAIN more, more[p].segment = s
        PROVE  \E i \in DOMAIN v : v[i] = p
    <2>1. CASE p = n + 1
      <3>1. l + 1 \in DOMAIN v
        BY <1>3
      <3> QED BY <3>1, <1>3, <2>1, Zenon
    <2>2. CASE p \in 1 .. n
      <3>1. p \in DOMAIN all /\ all[p].segment = s
        BY <1>1, <1>8, <2>2, Zenon
      <3>2. PICK i \in DOMAIN w : w[i] = p
        BY <3>1, <1>5, Zenon DEF Lists
      <3>3. i \in DOMAIN v /\ v[i] = p
        BY <1>3, <3>2
      <3> QED BY <3>3
    <2>3. p = n + 1 \/ p \in 1 .. n
      BY <1>1
    <2> QED BY <2>1, <2>2, <2>3, Zenon
  <1>9. Lists(v, s, more)
    <2>1. v \in Seq(DOMAIN more)
      BY <1>1, <1>4, Zenon
    <2> QED BY <2>1, <1>6, <1>7, <1>8, Zenon DEF Lists
  <1> QED BY <1>5, <1>9, Zenon

\* Appending to the second of two sequences appends to both.
LEMMA ConcatAppend ==
    ASSUME NEW a \in Seq(Nat), NEW b \in Seq(Nat), NEW p \in Nat
    PROVE  a \o Append(b, p) = Append(a \o b, p)
  <1>1. a \o Append(b, p) = a \o (b \o <<p>>)
    BY AppendIsConcat
  <1>2. Append(a \o b, p) = (a \o b) \o <<p>>
    BY AppendIsConcat, ConcatProperties
  <1>3. <<p>> \in Seq(Nat)
    OBVIOUS
  <1>4. a \o (b \o <<p>>) = (a \o b) \o <<p>>
    BY <1>3, ConcatAssociative
  <1> QED BY <1>1, <1>2, <1>4

\* A packet put into a file goes behind what is in it, whether or not its
\* device takes it.
LEMMA QueueContents ==
    ASSUME NEW k \in OutputFile, NEW r, NEW p \in Nat, NEW refuses \in BOOLEAN
    PROVE  LET q == Queue(k, r, p, refuses)
           IN  /\ Contents(q) = Append(Contents(k), p)
               /\ q.state = "open" /\ q.done = k.done + Weight(r)
               /\ ~refuses => q.pending = <<>>
  <1> DEFINE q == Queue(k, r, p, refuses)
             all == Append(k.pending, p)
  <1>1. k.pending \in Seq(Nat) /\ k.written \in Seq(Nat)
    BY Zenon DEF OutputFile
  <1>2. /\ q.state = "open" /\ q.done = k.done + Weight(r)
        /\ q.pending = IF refuses THEN all ELSE <<>>
        /\ q.written = IF refuses THEN k.written ELSE k.written \o all
    <2>1. {"state", "done", "pending", "written"} \subseteq DOMAIN k
      BY Zenon DEF OutputFile
    <2> QED BY <2>1 DEF Queue
  <1>3. k.written \o all = Append(k.written \o k.pending, p)
    BY <1>1, ConcatAppend, Zenon
  <1>4. k.written \o all \in Seq(Nat)
    BY <1>1
  <1>5. Contents(q) = k.written \o all
    <2>1. CASE refuses
      BY <1>2, <2>1, Zenon DEF Contents
    <2>2. CASE ~refuses
      <3>1. q.written = k.written \o all /\ q.pending = <<>>
        BY <1>2, <2>2, Zenon
      <3>2. (k.written \o all) \o <<>> = k.written \o all
        BY <1>4, ConcatEmptySeq
      <3> QED BY <3>1, <3>2, Zenon DEF Contents
    <2> QED BY <2>1, <2>2
  <1> QED BY <1>2, <1>3, <1>5, Zenon DEF Contents

-----------------------------------------------------------------------------
\* A segment's file goes through its phases: whatever packet x comes, the file
\* ends up in the phase of x's segment, holding the packets of its own.
Advances(k, r, all, x, seg, wanted, refuses) ==
    LET c == IF x.segment # seg THEN CountSegment(k, r) ELSE k
        p == Len(all) + 1
        g == IF wanted THEN OnPacket(c, r, p, x.segment, refuses) ELSE c
        lists == wanted /\ ~(Started(r, p, x.segment) /\ Finished(c, r))
    IN  /\ Phase(g, r.at, lists, x.segment, TRUE)
        /\ Lists(Contents(g), r.at, Append(all, x))

LEMMA FileAdvances ==
    ASSUME NEW k \in OutputFile, NEW r \in Request, IsSegment(r),
           NEW all \in Seq(Packets), NEW x \in Packets, NEW seg \in Nat,
           NEW wanted \in BOOLEAN, NEW refuses \in BOOLEAN,
           x.segment \in {seg, seg + 1},
           x.segment = seg + 1 => all # <<>>,
           Phase(k, r.at, wanted, seg, all # <<>>),
           Lists(Contents(k), r.at, all)
    PROVE  Advances(k, r, all, x, seg, wanted, refuses)
  <1> DEFINE s == r.at
             e == x.segment
             p == Len(all) + 1
             begun == all # <<>>
             c == IF e # seg THEN CountSegment(k, r) ELSE k
             g == IF wanted THEN OnPacket(c, r, p, e, refuses) ELSE c
             more == Append(all, x)
  <1>1. /\ s \in Nat /\ e \in Nat /\ p \in Nat
        /\ e \in {seg, seg + 1} /\ (e = seg + 1 => begun)
    BY DEF Request, Packets
  <1>2. /\ s > seg \/ ~begun => k.state = "absent" /\ k.done = 0 /\ wanted
        /\ s = seg /\ begun => k.state = "open" /\ k.done = 0 /\ wanted
        /\ s < seg => k.state = "closed" /\ k.done > 0
    BY DEF Phase
  <1>3. Started(r, p, e) <=> s <= e
    BY DEF Started, IsSegment
  <1>4. r.len = 1 /\ r.measure = "segments" /\ Weight(r) = 0
    BY DEF IsSegment, Weight
  <1>5. k.done \in Nat
    BY Zenon DEF OutputFile
  <1>6. {"state", "done", "pending", "written", "warned"} \subseteq DOMAIN k
    BY Zenon DEF OutputFile
  <1> HIDE DEF s, e, begun
  <1>7. CASE s > e
    <2>1. k.state = "absent" /\ k.done = 0 /\ wanted
      BY <1>1, <1>2, <1>7
    <2>2. c = k
      BY <2>1 DEF CountSegment
    <2>3. g = k
      BY <1>1, <1>3, <1>7, <2>1, <2>2 DEF OnPacket
    <2>4. Phase(g, s, TRUE, e, TRUE)
      BY <1>1, <1>7, <2>1, <2>3 DEF Phase
    <2>5. Lists(Contents(g), s, more)
      BY <1>1, <1>7, <2>3, ListsSkip DEF s, e
    <2>6. ~Started(r, p, e)
      BY <1>1, <1>3, <1>7
    <2> QED BY <2>1, <2>4, <2>5, <2>6 DEF s, e, Advances
  <1>8. CASE s = e
    <2>1. k.done = 0 /\ wanted /\ (e # seg => k.state = "absent")
      BY <1>1, <1>2, <1>8
    <2>2. c = k
      BY <2>1 DEF CountSegment
    <2>3. Started(r, p, e) /\ ~Finished(c, r)
      BY <1>1, <1>3, <1>4, <1>8, <2>1, <2>2 DEF Finished
    <2>4. g = Queue(k, r, p, refuses)
      BY <2>1, <2>2, <2>3 DEF OnPacket
    <2>5. g.state = "open" /\ g.done = 0 /\ Contents(g) = Append(Contents(k), p)
      <3>1. g.state = "open" /\ g.done = k.done + Weight(r) /\ Contents(g) = Append(Contents(k), p)
        <4> HIDE DEF g, p
        <4> QED BY <1>1, <2>4, QueueContents, Zenon
      <3>2. k.done + Weight(r) = 0
        BY <1>4, <2>1
      <3> QED BY <3>1, <3>2, Zenon
    <2>6. Phase(g, s, TRUE, e, TRUE)
      BY <1>1, <1>8, <2>5 DEF Phase
    <2>7. Lists(Contents(g), s, more)
      <3>1. Lists(Contents(k), x.segment, all)
        BY <1>8 DEF s, e
      <3>2. Lists(Append(Contents(k), Len(all) + 1), x.segment, Append(all, x))
        BY <3>1, ListsNext
      <3> QED BY <3>2, <2>5, <1>8, Zenon DEF s, e
    <2> QED BY <2>1, <2>3, <2>6, <2>7 DEF s, e, Advances
  <1>9. CASE s < e
    <2>1. Phase(g, s, FALSE, e, TRUE) /\ Contents(g) = Contents(k)
      <3>1. CASE s = seg
        <4>1. k.state = "open" /\ k.done = 0 /\ wanted /\ e = seg + 1
          BY <1>1, <1>2, <1>9, <3>1
        <4>2. c = [k EXCEPT !.done = @ + 1]
          BY <1>1, <1>4, <4>1 DEF CountSegment
        <4>3. /\ c.state = "open" /\ c.done = 1
              /\ c.written = k.written /\ c.pending = k.pending
              /\ {"state", "done", "pending", "written", "warned"} \subseteq DOMAIN c
          BY <1>6, <4>1, <4>2
        <4>4. Started(r, p, e) /\ Finished(c, r)
          BY <1>1, <1>3, <1>4, <1>9, <4>3 DEF Finished
        <4>5. g = [c EXCEPT !.state = "closed", !.warned = c.done # r.len]
          <5>1. g = Finish(c, r)
            BY <4>1, <4>4, Zenon DEF OnPacket
          <5>2. Finish(c, r) = [c EXCEPT !.state = "closed", !.warned = c.done # r.len]
            BY <4>3 DEF Finish
          <5> QED BY <5>1, <5>2, Zenon
        <4> HIDE DEF c, g
        <4>6. /\ g.state = "closed" /\ g.done = 1
              /\ g.written = k.written /\ g.pending = k.pending
          BY <4>3, <4>5
        <4> QED BY <1>1, <1>9, <4>6 DEF Phase, Contents
      <3>2. CASE s # seg
        <4>1. k.state = "closed" /\ k.done > 0
          BY <1>1, <1>2, <1>9, <3>2
        <4>2. c = k
          BY <4>1 DEF CountSegment
        <4>3. Started(r, p, e) /\ Finished(c, r)
          BY <1>1, <1>3, <1>4, <1>5, <1>9, <4>1, <4>2 DEF Finished
        <4>4. g = k
          BY <4>1, <4>2, <4>3, Zenon DEF OnPacket, Finish
        <4> QED BY <1>1, <1>9, <4>1, <4>4 DEF Phase
      <3> QED BY <3>1, <3>2
    <2>2. Lists(Contents(g), s, more)
      BY <1>1, <1>9, <2>1, ListsSkip DEF s, e
    <2>3. \A lists : Phase(g, s, lists, e, TRUE)
      BY <1>1, <1>9, <2>1 DEF Phase
    <2> QED BY <2>2, <2>3, Zenon DEF s, e, Advances
  <1>10. s > e \/ s = e \/ s < e
    <2>1. s \in Nat /\ e \in Nat
      BY <1>1
    <2> QED BY ONLY <2>1
  <1> QED BY <1>7, <1>8, <1>9, <1>10, Zenon

\* With a device that takes everything, a packet leaves nothing with the writer.
LEMMA NothingPending ==
    ASSUME NEW k \in OutputFile, NEW r, NEW p \in Nat, NEW seg, k.pending = <<>>
    PROVE  /\ OnPacket(k, r, p, seg, FALSE).pending = <<>>
           /\ CountSegment(k, r).pending = <<>>
           /\ Finish(k, r).pending = <<>>
  <1>1. {"state", "done", "pending", "written", "warned"} \subseteq DOMAIN k
    BY Zenon DEF OutputFile
  <1>2. CountSegment(k, r).pending = <<>> /\ Finish(k, r).pending = <<>>
    BY <1>1 DEF CountSegment, Finish
  <1>3. Queue(k, r, p, FALSE).pending = <<>>
    BY QueueContents
  <1> QED BY <1>2, <1>3, Zenon DEF OnPacket

\* When a packet comes, segments' files go on as they should.
LEMMA PacketFiles ==
    ASSUME IInv, NEW pcr \in Pcrs \cup {NoPcr}, Packet(pcr)
    PROVE  Files' /\ Written'
  <1> DEFINE seg == Seg(pcr)
             x   == [pcr |-> pcr, segment |-> seg]
             p   == Len(input) + 1
             all == All(seg)
  <1>1. /\ TypeOK /\ Counting /\ Files /\ Written
        /\ input \in Seq(Packets) /\ segment \in Nat /\ x \in Packets /\ p \in Nat
        /\ seg \in Nat
    <2>1. seg \in Nat
      BY AllRequests DEF IInv
    <2>2. input \in Seq(Packets) /\ segment \in Nat
      BY DEF IInv, TypeOK, Packets
    <2>3. x \in Packets
      BY <2>1 DEF Packets
    <2> QED BY <2>1, <2>2, <2>3 DEF IInv
  <1>2. /\ input' = Append(input, x) /\ segment' = seg /\ requests' = all
        /\ app = "running" /\ app' = app /\ case' = case
        /\ DOMAIN file' = DOMAIN all
        /\ \A f \in DOMAIN all : \E refuses \in BOOLEAN :
             file'[f] = FileStep(f, p, seg, refuses) /\ (refuses => case.faulty)
        /\ listed' = {f \in Opened(seg) : ~(/\ Started(all[f], p, seg)
                                            /\ Finished(Counted(f, seg), all[f]))}
    BY <1>1, PacketEffect, Zenon
  <1>3. /\ seg \in {segment, segment + 1} /\ all \in Seq(Request)
        /\ DOMAIN file \subseteq DOMAIN all
        /\ \A f \in DOMAIN file : all[f] = requests[f]
        /\ \A f \in DOMAIN all \ DOMAIN file :
             /\ seg = segment + 1
             /\ all[f] = [start |-> "segment", at |-> seg,
                          measure |-> "segments", len |-> 1]
    <2>1. DOMAIN file = DOMAIN requests
      BY <1>1 DEF TypeOK
    <2> QED BY <1>1, <2>1, AllRequests, Zenon
  <1>4. seg = segment + 1 => input # <<>>
    <2>1. seg = segment + 1 => Discontinuity(pcr)
      BY <1>1 DEF Seg
    <2> QED BY <1>1, <2>1 DEF Discontinuity, Counting
  <1>5. input' # <<>>
    BY <1>1, <1>2
  <1> HIDE DEF seg, p, all
  <1> DEFINE Old(f) == IF f \in DOMAIN file THEN file[f] ELSE NewFile
  <1>6. ASSUME NEW f \in DOMAIN all
        PROVE  /\ Old(f) \in OutputFile
               /\ ~case.faulty => Old(f).pending = <<>>
               /\ Counted(f, seg) = IF seg # segment THEN CountSegment(Old(f), all[f]) ELSE Old(f)
    <2>1. CASE f \in DOMAIN file
      BY <1>1, <1>3, <2>1, Zenon DEF Counted, TypeOK, Written
    <2>2. CASE f \notin DOMAIN file
      <3>1. NewFile.pending = <<>> /\ CountSegment(NewFile, all[f]) = NewFile
        BY DEF NewFile, CountSegment
      <3>2. NewFile \in OutputFile /\ Counted(f, seg) = NewFile
        BY <1>1, <2>2, CountedType, Zenon DEF Counted
      <3> QED BY <2>2, <3>1, <3>2, Zenon
    <2> QED BY <2>1, <2>2
  <1>7. Written'
    <2> SUFFICES ASSUME ~case.faulty, NEW f \in DOMAIN all
                 PROVE  file'[f].pending = <<>>
      BY <1>2, Zenon DEF Written
    <2>1. file'[f] = FileStep(f, p, seg, FALSE)
      BY <1>2, Zenon
    <2>2. Counted(f, seg).pending = <<>>
      <3>1. Old(f) \in OutputFile /\ Old(f).pending = <<>>
        BY <1>6, Zenon
      <3> HIDE DEF Old
      <3>2. CountSegment(Old(f), all[f]).pending = <<>>
        BY <1>1, <3>1, NothingPending
      <3> QED BY <1>6, <3>1, <3>2, Zenon
    <2>3. Counted(f, seg) \in OutputFile
      BY <1>1, CountedType
    <2>4. OnPacket(Counted(f, seg), all[f], p, seg, FALSE).pending = <<>>
      BY <1>1, <2>2, <2>3, NothingPending, Zenon
    <2> QED BY <2>1, <2>2, <2>4, Zenon DEF FileStep, all
  <1>8. ASSUME NEW f \in DOMAIN all, all[f].start = "segment"
        PROVE  all[f].at > 0
    <2>1. CASE f \in DOMAIN file
      BY <1>1, <1>3, <1>8, <2>1, Zenon DEF Files
    <2>2. CASE f \notin DOMAIN file
      BY <1>1, <1>3, <2>2
    <2> QED BY <2>1, <2>2
  <1>9. ASSUME NEW f \in DOMAIN all, IsSegment(all[f])
        PROVE  /\ Lists(Contents(file'[f]), all[f].at, input')
               /\ Phase(file'[f], all[f].at, f \in listed', seg, TRUE)
    <2> DEFINE wanted == f \in Opened(seg)
               k == Old(f)
               c == Counted(f, seg)
    <2>1. PICK refuses \in BOOLEAN : file'[f] = FileStep(f, p, seg, refuses)
      BY <1>2, Zenon
    <2>2. /\ Phase(k, all[f].at, wanted, segment, input # <<>>)
          /\ Lists(Contents(k), all[f].at, input)
      <3>1. CASE f \in DOMAIN file
        <4>1. f \in SegmentFiles /\ requests[f] = all[f]
          BY <1>3, <1>9, <3>1, Zenon DEF SegmentFiles, IsSegment
        <4>2. f \in Opened(seg) <=> f \in listed
          BY <1>1, <3>1, Zenon DEF Opened, TypeOK
        <4>3. /\ Lists(Contents(file[f]), all[f].at, input)
              /\ Phase(file[f], all[f].at, f \in listed, segment, input # <<>>)
          <5>1. app # "exited"
            BY <1>2
          <5> QED BY <1>1, <3>1, <4>1, <5>1, Zenon DEF Files
        <4>4. Phase(file[f], all[f].at, wanted, segment, input # <<>>)
          <5>1. wanted = (f \in listed)
            BY <4>2
          <5> QED BY <4>3, <5>1, Zenon
        <4> QED BY <3>1, <4>3, <4>4, Zenon
      <3>2. CASE f \notin DOMAIN file
        <4>1. k = NewFile /\ all[f].at = segment + 1 /\ input # <<>>
          BY <1>3, <1>4, <3>2
        <4>2. wanted
          BY <1>1, <3>2, Zenon DEF Opened, TypeOK, all
        <4>3. Phase(NewFile, segment + 1, wanted, segment, input # <<>>)
          BY <1>1, <4>1, <4>2 DEF Phase, NewFile
        <4>4. Lists(<<>>, segment + 1, input)
          <5>1. \A q \in DOMAIN input : input[q].segment # segment + 1
            <6>1. ASSUME NEW q \in DOMAIN input, input[q].segment = segment + 1
                  PROVE  FALSE
              <7>1. input[q].segment <= segment
                BY <1>1 DEF Counting
              <7> QED BY <1>1, <6>1, <7>1
            <6> QED BY <6>1
          <5> QED BY <5>1 DEF Lists
        <4>5. Contents(NewFile) = <<>>
          BY DEF Contents, NewFile
        <4> QED BY <4>1, <4>3, <4>4, <4>5, Zenon
      <3> QED BY <3>1, <3>2
    <2>3. k \in OutputFile /\ c = IF x.segment # segment THEN CountSegment(k, all[f]) ELSE k
      BY <1>6
    <2>4. all[f] \in Request /\ wanted \in BOOLEAN
      BY <1>3
    <2>5. x.segment \in {segment, segment + 1} /\ (x.segment = segment + 1 => input # <<>>)
      BY <1>3, <1>4
    <2>6. p = Len(input) + 1 /\ x.segment = seg
      BY DEF p
    <2> HIDE DEF k, c, wanted, x, Old
    <2>10. Advances(k, all[f], input, x, segment, wanted, refuses)
      BY <1>1, <1>9, <2>1, <2>2, <2>3, <2>4, <2>5, FileAdvances, Zenon
    <2>7. /\ Phase(IF wanted THEN OnPacket(c, all[f], p, seg, refuses) ELSE c, all[f].at,
                   wanted /\ ~(Started(all[f], p, seg) /\ Finished(c, all[f])), seg, TRUE)
          /\ Lists(Contents(IF wanted THEN OnPacket(c, all[f], p, seg, refuses) ELSE c),
                   all[f].at, Append(input, x))
      BY <2>3, <2>6, <2>10, Zenon DEF Advances
    <2>8. file'[f] = IF wanted THEN OnPacket(c, all[f], p, seg, refuses) ELSE c
      BY <2>1, Zenon DEF FileStep, wanted, c, all
    <2>9. (f \in listed') = (wanted /\ ~(Started(all[f], p, seg) /\ Finished(c, all[f])))
      BY <1>2 DEF wanted, c
    <2> QED BY <1>2, <2>7, <2>8, <2>9, Zenon
  <1>10. Files'
    <2> SUFFICES ASSUME NEW f \in DOMAIN all
                 PROVE  /\ all[f].start = "segment" => all[f].at > 0
                        /\ f \in SegmentFiles' =>
                             /\ Lists(Contents(file'[f]), all[f].at, input')
                             /\ Phase(file'[f], all[f].at, f \in listed', segment', input' # <<>>)
                             /\ app' # "exited"
      BY <1>2, Zenon DEF Files
    <2>1. f \in SegmentFiles' => IsSegment(all[f])
      BY <1>2, <1>8, Zenon DEF SegmentFiles, IsSegment
    <2>2. (input' # <<>>) = TRUE /\ app' # "exited"
      BY <1>2, <1>5
    <2> QED BY <1>2, <1>8, <1>9, <2>1, <2>2, Zenon
  <1> QED BY <1>7, <1>10

-----------------------------------------------------------------------------
\* The program starts with files that have not begun.
LEMMA InitInvariant == Init => IInv
  <1> SUFFICES ASSUME Init PROVE IInv
    OBVIOUS
  <1> DEFINE more == SegmentRequests(1)
             r == [start |-> "segment", at |-> 1, measure |-> "segments", len |-> 1]
  <1>1. /\ case \in Cases /\ input = <<>> /\ lastPcr = NoPcr /\ segment = 1
        /\ requests = case.given \o more /\ listed = DOMAIN requests
        /\ file = [f \in DOMAIN requests |-> NewFile] /\ app = "running"
    BY Zenon DEF Init
  <1>2. case.given \in Seq({q \in Request : q.start # "offset" => q.at > 0})
    <2>1. case \in Case
      BY <1>1, SplitAssumption
    <2> QED BY <2>1, Zenon DEF Case
  <1>3. more \in Seq(Request) /\ \A i \in DOMAIN more : more[i] = r
    BY <1>1, SegmentRequestsType
  <1> HIDE DEF more
  <1>4. requests \in Seq(Request)
    <2>1. case.given \in Seq(Request)
      BY <1>2
    <2> QED BY <1>1, <1>3, <2>1, ConcatProperties
  <1>5. ASSUME NEW f \in DOMAIN requests
        PROVE  requests[f].start = "segment" => requests[f].at > 0
    <2>1. CASE f \in 1 .. Len(case.given)
      <3>1. /\ requests[f] = case.given[f]
            /\ case.given[f] \in {q \in Request : q.start # "offset" => q.at > 0}
        BY <1>1, <1>2, <1>3, <2>1
      <3> QED BY <3>1
    <2>2. CASE f \in Len(case.given) + 1 .. Len(requests)
      <3>1. /\ requests[f] = more[f - Len(case.given)]
            /\ f - Len(case.given) \in DOMAIN more
        BY <1>1, <1>2, <1>3, <2>2
      <3> QED BY <1>3, <3>1
    <2>3. Len(case.given) \in Nat /\ Len(requests) \in Nat /\ f \in 1 .. Len(requests)
      BY <1>2, <1>4
    <2> QED BY <2>1, <2>2, <2>3
  <1>6. /\ NewFile \in OutputFile /\ NewFile.pending = <<>>
        /\ NewFile.state = "absent" /\ NewFile.done = 0 /\ Contents(NewFile) = <<>>
    <2>1. /\ "absent" \in {"absent", "open", "closed"} /\ 0 \in Nat
          /\ <<>> \in Seq(Nat) /\ FALSE \in BOOLEAN
      OBVIOUS
    <2>2. NewFile \in OutputFile
      BY <2>1, Zenon DEF NewFile, OutputFile
    <2> QED BY <2>2 DEF NewFile, Contents
  <1>7. TypeOK
    <2>1. input \in Seq([pcr : Pcrs \cup {NoPcr}, segment : Nat]) /\ segment \in Nat
      BY <1>1
    <2> QED BY <1>1, <1>4, <1>6, <2>1, Zenon DEF TypeOK
  <1>8. Counting /\ LastSeen /\ SegmentsContinuous
    BY <1>1 DEF Counting, LastSeen, SegmentsContinuous
  <1>9. Written
    BY <1>1, <1>6, Zenon DEF Written
  <1>10. Files
    <2> SUFFICES ASSUME NEW f \in DOMAIN requests
                 PROVE  /\ requests[f].start = "segment" => requests[f].at > 0
                        /\ f \in SegmentFiles =>
                             /\ Lists(Contents(NewFile), requests[f].at, input)
                             /\ Phase(NewFile, requests[f].at, f \in listed, segment, input # <<>>)
      BY <1>1, Zenon DEF Files
    <2>1. ASSUME f \in SegmentFiles
          PROVE  requests[f].at > 0 /\ requests[f].at \in Nat
      <3>1. requests[f].at > 0
        BY <1>5, <2>1, Zenon DEF SegmentFiles
      <3>2. requests[f] \in Request
        BY <1>4
      <3> QED BY <3>1, <3>2 DEF Request
    <2>2. Lists(<<>>, requests[f].at, input)
      BY <1>1 DEF Lists
    <2>3. ASSUME f \in SegmentFiles
          PROVE  Phase(NewFile, requests[f].at, f \in listed, segment, input # <<>>)
      <3>1. (input # <<>>) = FALSE /\ (f \in listed) = TRUE
        BY <1>1
      <3>2. Phase(NewFile, requests[f].at, TRUE, segment, FALSE)
        BY <1>1, <1>6, <2>1, <2>3 DEF Phase
      <3> QED BY <3>1, <3>2, Zenon
    <2> QED BY <1>5, <1>6, <2>2, <2>3, Zenon
  <1> QED BY <1>7, <1>8, <1>9, <1>10 DEF IInv

\* Steps that leave packets, segments and files alone keep what is said of them.
LEMMA OthersInvariant ==
    ASSUME IInv, OpenFails \/ InputFails \/ UNCHANGED vars
    PROVE  IInv'
  <1>1. /\ UNCHANGED <<case, input, lastPcr, segment, requests, listed, file>>
        /\ app' = app \/ app' = "fatal"
    BY Zenon DEF OpenFails, InputFails, vars
  <1>2. TypeOK'
    <2>1. app' \in {"running", "exited", "fatal"}
      BY <1>1 DEF IInv, TypeOK
    <2> QED BY <1>1, <2>1, Zenon DEF IInv, TypeOK
  <1>3. Counting' /\ LastSeen' /\ SegmentsContinuous' /\ Written'
    BY <1>1, Zenon DEF IInv, Counting, LastSeen, SegmentsContinuous, Written
  <1>4. SegmentFiles' = SegmentFiles
    BY <1>1, Zenon DEF SegmentFiles
  <1>5. app' = app \/ app # "exited"
    BY <1>1 DEF OpenFails, InputFails, vars
  <1>6. Files'
    <2>1. app' = "exited" => app = "exited"
      BY <1>1
    <2>2. app' # "exited" => app # "exited"
      BY <1>1, <1>5
    <2> QED BY <1>1, <1>4, <2>1, <2>2, Zenon DEF IInv, Files
  <1> QED BY <1>2, <1>3, <1>6 DEF IInv

\* A sequence is what its parts are one behind the other.
LEMMA Parts ==
    ASSUME NEW w \in Seq(Nat), NEW n \in 0 .. Len(w)
    PROVE  LET front == SubSeq(w, 1, n)
               rest  == SubSeq(w, n + 1, Len(w))
           IN  front \in Seq(Nat) /\ rest \in Seq(Nat) /\ front \o rest = w
  <1>1. /\ Len(w) \in Nat /\ n \in Nat /\ n + 1 \in Int
        /\ 1 \in 1 .. Len(w) + 1 /\ n \in 1 - 1 .. Len(w) /\ Len(w) \in n .. Len(w)
    BY LenProperties
  <1>2. /\ \A i \in 1 .. n : w[i] \in Nat
        /\ \A i \in n + 1 .. Len(w) : w[i] \in Nat
    BY <1>1, ElementOfSeq
  <1>3. SubSeq(w, 1, n) \in Seq(Nat)
    BY <1>1, <1>2, SubSeqProperties
  <1>4. SubSeq(w, n + 1, Len(w)) \in Seq(Nat)
    BY <1>1, <1>2, SubSeqProperties
  <1>5. SubSeq(w, 1, n) \o SubSeq(w, n + 1, Len(w)) = SubSeq(w, 1, Len(w))
    BY <1>1, ConcatAdjacentSubSeq, Zenon
  <1>6. SubSeq(w, 1, Len(w)) = w
    BY SubSeqFull, Zenon
  <1> QED BY <1>3, <1>4, <1>5, <1>6, Zenon

\* What is written first, what next and what last, in whatever steps.
LEMMA WrittenInSteps ==
    ASSUME NEW a \in Seq(Nat), NEW b \in Seq(Nat), NEW c \in Seq(Nat)
    PROVE  (a \o b) \o c = a \o (b \o c)
  BY ConcatAssociative, SMTT(20)

\* What a device takes stays where it is in the file, and nothing else changes.
LEMMA WriterReadyEffect ==
    ASSUME TypeOK, NEW f \in DOMAIN file, WriterReady(f)
    PROVE  /\ UNCHANGED <<case, input, lastPcr, segment, requests, listed, app>>
           /\ DOMAIN file' = DOMAIN file
           /\ \A h \in DOMAIN file :
                /\ file'[h] \in OutputFile
                /\ Contents(file'[h]) = Contents(file[h])
                /\ file'[h].state = file[h].state /\ file'[h].done = file[h].done
                /\ file'[h].warned = file[h].warned
                /\ file[h].pending = <<>> => file'[h].pending = <<>>
  <1> DEFINE k == file[f]
             l == Len(k.pending)
  <1>1. PICK n \in 1 .. l :
          file' = [file EXCEPT ![f].written = @ \o SubSeq(k.pending, 1, n),
                               ![f].pending = SubSeq(@, n + 1, Len(@))]
    BY Zenon DEF WriterReady
  <1> DEFINE front == SubSeq(k.pending, 1, n)
             rest  == SubSeq(k.pending, n + 1, l)
             g == [k EXCEPT !.written = @ \o front, !.pending = rest]
  <1>2. k \in OutputFile
    BY Zenon DEF TypeOK
  <1>3. /\ k.pending \in Seq(Nat) /\ k.written \in Seq(Nat)
        /\ {"state", "done", "pending", "written", "warned"} \subseteq DOMAIN k
    BY <1>2, Zenon DEF OutputFile
  <1>4. /\ front \in Seq(Nat) /\ rest \in Seq(Nat) /\ front \o rest = k.pending
    <2>1. n \in 0 .. l
      BY <1>3
    <2> QED BY <1>3, <2>1, Parts, Zenon
  <1> HIDE DEF front, rest
  <1>5. /\ UNCHANGED <<case, input, lastPcr, segment, requests, listed, app>>
        /\ file' = [file EXCEPT ![f] = g]
    <2>1. UNCHANGED <<case, input, lastPcr, segment, requests, listed, app>>
      BY Zenon DEF WriterReady
    <2> QED BY <1>1, <1>3, <2>1 DEF front, rest
  <1>6. k.written \o front \in Seq(Nat)
    BY <1>3, <1>4, ConcatProperties
  <1>7. g \in OutputFile
    BY <1>2, <1>4, <1>6, Zenon DEF OutputFile
  <1>8. /\ g.state = k.state /\ g.done = k.done /\ g.warned = k.warned
        /\ g.pending = rest /\ g.written = k.written \o front
    BY <1>3
  <1>9. Contents(g) = Contents(k)
    <2>1. (k.written \o front) \o rest = k.written \o (front \o rest)
      BY <1>3, <1>4, WrittenInSteps, Zenon
    <2> QED BY <1>4, <1>8, <2>1, Zenon DEF Contents
  <1>10. k.pending # <<>>
    BY <1>3
  <1> HIDE DEF g
  <1>11. /\ DOMAIN file' = DOMAIN file /\ file'[f] = g
         /\ \A h \in DOMAIN file : h # f => file'[h] = file[h]
    BY <1>5
  <1> QED BY <1>5, <1>7, <1>8, <1>9, <1>10, <1>11, Zenon DEF TypeOK

\* The writer's notifier keeps the invariant.
LEMMA WriterReadyInvariant ==
    ASSUME IInv, NEW f \in DOMAIN file, WriterReady(f)
    PROVE  IInv'
  <1>1. /\ UNCHANGED <<case, input, lastPcr, segment, requests, listed, app>>
        /\ DOMAIN file' = DOMAIN file
        /\ \A h \in DOMAIN file :
             /\ file'[h] \in OutputFile
             /\ Contents(file'[h]) = Contents(file[h])
             /\ file'[h].state = file[h].state /\ file'[h].done = file[h].done
             /\ file[h].pending = <<>> => file'[h].pending = <<>>
    BY WriterReadyEffect, Zenon DEF IInv
  <1>2. TypeOK' /\ Counting' /\ LastSeen' /\ SegmentsContinuous' /\ Written'
    BY <1>1, Zenon DEF IInv, TypeOK, Counting, LastSeen, SegmentsContinuous, Written
  <1>3. SegmentFiles' = SegmentFiles
    BY <1>1, Zenon DEF SegmentFiles
  <1>4. \A h \in DOMAIN file : \A s, wanted, seg, begun :
           Phase(file'[h], s, wanted, seg, begun) <=> Phase(file[h], s, wanted, seg, begun)
    BY <1>1 DEF Phase
  <1>5. Files'
    BY <1>1, <1>3, <1>4, Zenon DEF IInv, Files
  <1> QED BY <1>2, <1>5 DEF IInv

\* When the input ends, files are finished, with what they hold.
LEMMA InputEndsInvariant ==
    ASSUME IInv, InputEnds
    PROVE  IInv'
  <1> DEFINE Ended(f) == LET k == CountSegment(file[f], requests[f])
                         IN  IF f \in listed THEN Finish(k, requests[f]) ELSE k
  <1>1. /\ UNCHANGED <<case, input, lastPcr, segment, requests>>
        /\ listed' = {} /\ app = "running" /\ app' = "exited"
        /\ file' = [f \in DOMAIN file |-> Ended(f)]
    BY Zenon DEF InputEnds, FinishAll
  <1>2. ASSUME NEW f \in DOMAIN file
        PROVE  /\ Ended(f) \in OutputFile
               /\ Contents(Ended(f)) = Contents(file[f])
               /\ Ended(f).pending = file[f].pending
               /\ file[f].state # "open" \/ f \in listed => Ended(f).state # "open"
    <2> DEFINE k == CountSegment(file[f], requests[f])
               e == Finish(k, requests[f])
    <2>1. file[f] \in OutputFile /\ requests[f] \in Request
      BY DEF IInv, TypeOK
    <2>2. k \in OutputFile /\ e \in OutputFile
      <3>1. 0 \in Nat /\ TRUE \in BOOLEAN
        OBVIOUS
      <3> QED BY <2>1, <3>1, FileType, Zenon
    <2>3. /\ k.written = file[f].written /\ k.pending = file[f].pending
          /\ k.state = file[f].state
      <3>1. {"state", "done", "pending", "written", "warned"} \subseteq DOMAIN file[f]
        BY <2>1, Zenon DEF OutputFile
      <3> QED BY <3>1 DEF CountSegment
    <2>4. {"state", "done", "pending", "written", "warned"} \subseteq DOMAIN k
      BY <2>2, Zenon DEF OutputFile
    <2> HIDE DEF k
    <2>5. e.written = k.written /\ e.pending = k.pending /\ e.state # "open"
      BY <2>4 DEF Finish
    <2>6. Ended(f) = IF f \in listed THEN e ELSE k
      BY DEF k
    <2> HIDE DEF e, Ended
    <2> QED BY <2>2, <2>3, <2>5, <2>6, Zenon DEF Contents
  <1> HIDE DEF Ended
  <1>3. DOMAIN file' = DOMAIN file /\ \A f \in DOMAIN file : file'[f] = Ended(f)
    BY <1>1
  <1>4. TypeOK'
    <2>1. app' \in {"running", "exited", "fatal"} /\ listed' \subseteq DOMAIN requests'
      BY <1>1
    <2> QED BY <1>1, <1>2, <1>3, <2>1, Zenon DEF IInv, TypeOK
  <1>5. Counting' /\ LastSeen' /\ SegmentsContinuous'
    BY <1>1, Zenon DEF IInv, Counting, LastSeen, SegmentsContinuous
  <1>6. Written'
    BY <1>1, <1>2, <1>3, Zenon DEF IInv, Written
  <1>7. SegmentFiles' = SegmentFiles
    BY <1>1, <1>3, Zenon DEF SegmentFiles
  <1>8. ASSUME NEW f \in DOMAIN file, f \in SegmentFiles
        PROVE  Ended(f).state # "open"
    <2> DEFINE s == requests[f].at
    <2>1. Phase(file[f], s, f \in listed, segment, input # <<>>)
      <3>1. app # "exited"
        BY <1>1
      <3> QED BY <1>8, <3>1, Zenon DEF IInv, Files
    <2>2. s \in Nat /\ segment \in Nat
      <3>1. requests[f] \in Request /\ segment \in Nat
        BY DEF IInv, TypeOK
      <3> QED BY <3>1 DEF Request
    <2>3. file[f].state = "open" => f \in listed
      BY <2>1, <2>2 DEF Phase
    <2> QED BY <1>2, <2>3
  <1>9. Files'
    <2> SUFFICES ASSUME NEW f \in DOMAIN file
                 PROVE  /\ requests[f].start = "segment" => requests[f].at > 0
                        /\ f \in SegmentFiles =>
                             /\ Lists(Contents(Ended(f)), requests[f].at, input)
                             /\ Ended(f).state # "open"
      BY <1>1, <1>3, <1>7, Zenon DEF Files
    <2> QED BY <1>2, <1>8, Zenon DEF IInv, Files
  <1> QED BY <1>4, <1>5, <1>6, <1>9 DEF IInv

-----------------------------------------------------------------------------
\* Every step keeps the invariant.
LEMMA StepInvariant == IInv /\ [Next]_vars => IInv'
  <1> SUFFICES ASSUME IInv, [Next]_vars PROVE IInv'
    OBVIOUS
  <1>1. ASSUME NEW pcr \in Pcrs \cup {NoPcr}, Packet(pcr)
        PROVE  IInv'
    <2>1. TypeOK /\ Counting /\ LastSeen /\ SegmentsContinuous
      BY DEF IInv
    <2>2. TypeOK'
      BY <1>1, <2>1, PacketType, Zenon
    <2>3. Counting' /\ LastSeen' /\ SegmentsContinuous'
      BY <1>1, <2>1, PacketCounting, Zenon
    <2>4. Files' /\ Written'
      BY <1>1, PacketFiles, Zenon
    <2> QED BY <2>2, <2>3, <2>4 DEF IInv
  <1>2. ASSUME NEW f \in DOMAIN file, WriterReady(f)
        PROVE  IInv'
    BY <1>2, WriterReadyInvariant
  <1>3. CASE InputEnds
    BY <1>3, InputEndsInvariant
  <1>4. CASE OpenFails \/ InputFails \/ UNCHANGED vars
    BY <1>4, OthersInvariant
  <1> QED BY <1>1, <1>2, <1>3, <1>4, Zenon DEF Next

THEOREM Invariant == Spec => []IInv
  BY InitInvariant, StepInvariant, PTL DEF Spec

\* For any requests, devices and inputs every variable keeps its type.
THEOREM TypeCorrect == Spec => []TypeOK
  <1>1. IInv => TypeOK
    BY DEF IInv
  <1> QED BY <1>1, Invariant, PTL

\* Whatever the input, PCRs in a segment never go back and never jump ahead by
\* more than a second (tsreader.cpp:627).
THEOREM ContinuousSegments == Spec => []SegmentsContinuous
  <1>1. IInv => SegmentsContinuous
    BY DEF IInv
  <1> QED BY <1>1, Invariant, PTL

\* However many segments and templates there are, files of two segments are
\* never open at a time (splitter.cpp:391).
THEOREM SegmentsOneByOne == Spec => []OneSegmentOpen
  <1>1. IInv => OneSegmentOpen
    <2> SUFFICES ASSUME IInv, NEW f \in SegmentFiles, file[f].state = "open"
                 PROVE  requests[f].at = segment
      BY Zenon DEF OneSegmentOpen
    <2>1. f \in DOMAIN file /\ requests[f] \in Request /\ segment \in Nat
      BY DEF SegmentFiles, IInv, TypeOK
    <2>2. app # "exited"
      BY <2>1, Zenon DEF IInv, Files
    <2>3. Phase(file[f], requests[f].at, f \in listed, segment, input # <<>>)
      BY <2>1, <2>2, Zenon DEF IInv, Files
    <2>4. requests[f].at \in Nat
      BY <2>1 DEF Request
    <2> QED BY <2>1, <2>3, <2>4 DEF Phase
  <1> QED BY <1>1, Invariant, PTL

\* A packet that a sequence in ascending order holds, it holds once.
LEMMA HeldOnce ==
    ASSUME NEW w \in Seq(Nat), NEW p, \A i, j \in DOMAIN w : i < j => w[i] < w[j]
    PROVE  Cardinality({i \in DOMAIN w : w[i] = p})
             = IF \E i \in DOMAIN w : w[i] = p THEN 1 ELSE 0
  <1>1. CASE ~ \E i \in DOMAIN w : w[i] = p
    <2>1. {i \in DOMAIN w : w[i] = p} = {}
      BY <1>1
    <2> QED BY <1>1, <2>1, FS_EmptySet
  <1>2. CASE \E i \in DOMAIN w : w[i] = p
    <2>1. PICK i \in DOMAIN w : w[i] = p
      BY <1>2
    <2>2. ASSUME NEW j \in DOMAIN w, w[j] = p
          PROVE  j = i
      <3>1. i \in Nat /\ j \in Nat /\ w[i] \in Nat
        BY <2>1
      <3>2. ~(i < j) /\ ~(j < i)
        BY <2>1, <2>2, <3>1
      <3> QED BY <3>1, <3>2
    <2>3. {j \in DOMAIN w : w[j] = p} = {i}
      BY <2>1, <2>2
    <2> QED BY <1>2, <2>3, FS_Singleton
  <1> QED BY <1>1, <1>2

\* Whatever is asked for beside them, a segment's file holds each packet of the
\* segment once, and no other, when the input has ended (splitter.cpp:683).
THEOREM SegmentsComplete == Spec => []SegmentsOnDisk
  <1>1. IInv => SegmentsOnDisk
    <2> SUFFICES ASSUME IInv, app = "exited", ~case.faulty,
                        NEW f \in SegmentFiles, NEW p \in DOMAIN input
                 PROVE  Cardinality({i \in DOMAIN file[f].written : file[f].written[i] = p})
                          = IF input[p].segment = requests[f].at THEN 1 ELSE 0
      BY Zenon DEF SegmentsOnDisk
    <2> DEFINE w == file[f].written
    <2>1. f \in DOMAIN file /\ file[f] \in OutputFile
      BY Zenon DEF SegmentFiles, IInv, TypeOK
    <2>2. w \in Seq(Nat)
      BY <2>1, Zenon DEF OutputFile
    <2>3. Contents(file[f]) = w
      <3>1. file[f].pending = <<>>
        BY <2>1, Zenon DEF IInv, Written
      <3> QED BY <2>2, <3>1, ConcatEmptySeq, Zenon DEF Contents
    <2>4. Lists(w, requests[f].at, input)
      BY <2>1, <2>3, Zenon DEF IInv, Files
    <2> HIDE DEF w
    <2>5. input[p].segment = requests[f].at <=> \E i \in DOMAIN w : w[i] = p
      BY <2>4, Zenon DEF Lists
    <2>6. Cardinality({i \in DOMAIN w : w[i] = p})
            = IF \E i \in DOMAIN w : w[i] = p THEN 1 ELSE 0
      BY <2>2, <2>4, HeldOnce, Zenon DEF Lists
    <2> QED BY <2>5, <2>6, Zenon DEF w
  <1> QED BY <1>1, Invariant, PTL

-----------------------------------------------------------------------------
\* Whether packet p is one that request r has started at.
Begins(r, p, all) == Started(r, p, all[p].segment)

\* Whether packet p fits into what request r asks for from packet a on.
Fits(r, a, p, all) ==
    CASE r.measure = "bytes"    -> (p - a) * PacketLen < r.len
      [] r.measure = "packets"  -> p - a < r.len
      [] r.measure = "segments" -> all[p].segment - all[a].segment < r.len

\* Packets a to b in the terms of request r.
Total(r, a, b, all) ==
    CASE r.measure = "bytes"    -> (b - a + 1) * PacketLen
      [] r.measure = "packets"  -> b - a + 1
      [] r.measure = "segments" -> all[b].segment - all[a].segment + 1

Run(a, b) == [i \in 1 .. b - a + 1 |-> a + i - 1]

\* Packet a is the first one that request r starts at.
First(r, a, all) == Begins(r, a, all) /\ \A p \in 1 .. a - 1 : ~Begins(r, p, all)

\* A file with packets a to b, the first of them the first its request starts at.
Holding(k, r, a, b, all) ==
    /\ b \in DOMAIN all /\ a \in 1 .. b
    /\ Contents(k) = Run(a, b)
    /\ First(r, a, all)
    /\ Fits(r, a, b, all)

\* How far a request is: nothing has been put into its file so far, or all packets
\* from its first one on, or those that fit into its length.  A segment is counted
\* when it is over.  A file of no length never begins.
NotBegun(k, r, wanted, ended, all) ==
    /\ k.state = "absent" /\ k.done = 0 /\ Contents(k) = <<>>
    /\ \/ (wanted \/ ended) /\ \A p \in DOMAIN all : ~Begins(r, p, all)
       \/ r.len = 0 /\ \E a \in DOMAIN all : First(r, a, all)

Filling(k, r, wanted, ended, all) ==
    /\ k.state = "open" /\ wanted /\ ~ended
    /\ \E a \in DOMAIN all :
         /\ Holding(k, r, a, Len(all), all)
         /\ k.done = Total(r, a, Len(all), all) - IF r.measure = "segments" THEN 1 ELSE 0

Filled(k, r, wanted, ended, all) ==
    /\ k.state = "closed" /\ ~wanted
    /\ \E a, b \in DOMAIN all :
         /\ Holding(k, r, a, b, all)
         /\ k.done = Total(r, a, b, all)
         /\ k.warned <=> k.done # r.len
         /\ IF b = Len(all) THEN ended ELSE ~Fits(r, a, b + 1, all)

Stage(k, r, wanted, ended, all) ==
    \/ NotBegun(k, r, wanted, ended, all)
    \/ Filling(k, r, wanted, ended, all)
    \/ Filled(k, r, wanted, ended, all)

\* Every request is at one of these stages, and no segment is without packets.
Stages ==
    \A f \in DOMAIN file :
        Stage(file[f], requests[f], f \in listed, app = "exited", input)

NoGaps ==
    input # <<>> => \A s \in 1 .. segment : \E p \in DOMAIN input : input[p].segment = s

-----------------------------------------------------------------------------
\* Packets whose segments follow each other.
Rising(all) == \A p, q \in DOMAIN all : p <= q => all[p].segment <= all[q].segment

\* More packets are more bytes.
LEMMA MoreBytes ==
    ASSUME NEW p \in Int, NEW q \in Int, p <= q
    PROVE  /\ p * PacketLen \in Int /\ q * PacketLen \in Int
           /\ p * PacketLen <= q * PacketLen
  <1>1. PacketLen \in Nat
    BY SplitAssumption
  <1>2. p * PacketLen \in Int /\ q * PacketLen \in Int
    BY <1>1
  <1> DEFINE d == (q - p) * PacketLen
             m == p * PacketLen
             n == q * PacketLen
  <1>3. d \in Nat
    <2>1. q - p \in Nat
      OBVIOUS
    <2> QED BY <1>1, <2>1
  <1>4. n = m + d
    BY <1>1
  <1>5. m \in Int /\ n \in Int
    BY <1>2
  <1> HIDE DEF d, m, n
  <1>6. m <= n
    BY <1>3, <1>4, <1>5
  <1> QED BY <1>2, <1>6 DEF m, n

\* A request that has started goes on at every later packet.
LEMMA BegunGoesOn ==
    ASSUME NEW all \in Seq(Packets), NEW r \in Request, Rising(all),
           NEW q \in DOMAIN all, NEW p \in 1 .. q, Begins(r, p, all)
    PROVE  Begins(r, q, all)
  <1>1. /\ p \in DOMAIN all /\ p \in Nat /\ q \in Nat /\ p <= q /\ r.at \in Nat
        /\ all[p].segment \in Nat /\ all[q].segment \in Nat
    <2>1. p \in DOMAIN all /\ q \in Nat /\ p \in Nat /\ p <= q
      OBVIOUS
    <2>2. all[p] \in Packets /\ all[q] \in Packets
      BY <2>1
    <2> QED BY <2>1, <2>2 DEF Packets, Request
  <1>2. all[p].segment <= all[q].segment
    BY <1>1 DEF Rising
  <1>3. /\ (p - 1) * PacketLen \in Int /\ (q - 1) * PacketLen \in Int
        /\ (p - 1) * PacketLen <= (q - 1) * PacketLen
    <2>1. p - 1 \in Int /\ q - 1 \in Int /\ p - 1 <= q - 1
      BY <1>1
    <2> QED BY <2>1, MoreBytes, Zenon
  <1> DEFINE m == (p - 1) * PacketLen
             n == (q - 1) * PacketLen
  <1>4. m \in Int /\ n \in Int /\ m <= n
    BY <1>3
  <1>5. /\ Begins(r, p, all) <=> \/ r.start = "offset"  /\ r.at <= m
                                 \/ r.start = "packet"  /\ r.at <= p
                                 \/ r.start = "segment" /\ r.at <= all[p].segment
        /\ Begins(r, q, all) <=> \/ r.start = "offset"  /\ r.at <= n
                                 \/ r.start = "packet"  /\ r.at <= q
                                 \/ r.start = "segment" /\ r.at <= all[q].segment
    BY Zenon DEF Begins, Started
  <1> HIDE DEF m, n
  <1> QED BY <1>1, <1>2, <1>4, <1>5

\* What fits into a length, does so with fewer packets.
LEMMA FewerFit ==
    ASSUME NEW all \in Seq(Packets), NEW r \in Request, Rising(all),
           NEW q \in DOMAIN all, NEW p \in 1 .. q, NEW a \in 1 .. p, Fits(r, a, q, all)
    PROVE  Fits(r, a, p, all)
  <1>1. /\ p \in DOMAIN all /\ a \in DOMAIN all
        /\ p \in Nat /\ q \in Nat /\ a \in Nat /\ p <= q /\ r.len \in Nat
        /\ all[p].segment \in Nat /\ all[q].segment \in Nat /\ all[a].segment \in Nat
        /\ r.measure \in Measure
    <2>1. p \in DOMAIN all /\ a \in DOMAIN all /\ q \in Nat /\ p \in Nat /\ a \in Nat /\ p <= q
      OBVIOUS
    <2>2. all[p] \in Packets /\ all[q] \in Packets /\ all[a] \in Packets
      BY <2>1
    <2> QED BY <2>1, <2>2 DEF Packets, Request
  <1>2. CASE r.measure = "bytes"
    <2> DEFINE m == (p - a) * PacketLen
               n == (q - a) * PacketLen
    <2>1. m \in Int /\ n \in Int /\ m <= n
      <3>1. p - a \in Int /\ q - a \in Int /\ p - a <= q - a
        BY <1>1
      <3> QED BY <3>1, MoreBytes, Zenon
    <2>2. (Fits(r, a, p, all) <=> m < r.len) /\ (Fits(r, a, q, all) <=> n < r.len)
      BY <1>2 DEF Fits
    <2> HIDE DEF m, n
    <2> QED BY <1>1, <2>1, <2>2
  <1>3. CASE r.measure = "packets"
    BY <1>1, <1>3 DEF Fits
  <1>4. CASE r.measure = "segments"
    <2>1. all[p].segment <= all[q].segment
      BY <1>1 DEF Rising
    <2> QED BY <1>1, <1>4, <2>1 DEF Fits
  <1> QED BY <1>1, <1>2, <1>3, <1>4 DEF Measure

\* The packets from a to b in order are a run.
LEMMA OrderOfRun ==
    ASSUME NEW a \in Nat, NEW b \in Nat, a <= b
    PROVE  InOrder(a .. b) = Run(a, b)
  <1>1. Cardinality(a .. b) = b - a + 1
    BY FS_Interval
  <1>2. ASSUME NEW i \in 1 .. b - a + 1
        PROVE  (CHOOSE p \in a .. b : Cardinality({q \in a .. b : q < p}) = i - 1) = a + i - 1
    <2>1. ASSUME NEW p \in a .. b
          PROVE  Cardinality({q \in a .. b : q < p}) = p - a
      <3>1. {q \in a .. b : q < p} = a .. p - 1
        OBVIOUS
      <3>2. p \in Nat /\ a <= p /\ p - 1 \in Int
        OBVIOUS
      <3>3. Cardinality(a .. p - 1) = IF a > p - 1 THEN 0 ELSE p - 1 - a + 1
        BY <3>2, FS_Interval
      <3>4. (IF a > p - 1 THEN 0 ELSE p - 1 - a + 1) = p - a
        BY <3>2
      <3> QED BY <3>1, <3>3, <3>4, Zenon
    <2>2. a + i - 1 \in a .. b
      OBVIOUS
    <2>3. \A p \in a .. b : Cardinality({q \in a .. b : q < p}) = i - 1 <=> p = a + i - 1
      BY <2>1
    <2> QED BY <2>2, <2>3
  <1> QED BY <1>1, <1>2 DEF InOrder, Run

\* Of no packets, it is empty.
LEMMA OrderOfNone == InOrder({}) = <<>>
  <1>1. Cardinality({}) = 0
    BY FS_EmptySet
  <1> QED BY <1>1 DEF InOrder

\* What a request asks for begins with its first packet.
LEMMA AskedFromFirst ==
    ASSUME input \in Seq(Packets), Rising(input), NEW r \in Request,
           NEW a \in DOMAIN input, First(r, a, input)
    PROVE  Asked(r) = {p \in a .. Len(input) : Fits(r, a, p, input)}
  <1> DEFINE n == Len(input)
             started == {p \in DOMAIN input : Started(r, p, input[p].segment)}
             first == CHOOSE p \in started : \A q \in started : p <= q
  <1>1. n \in Nat /\ DOMAIN input = 1 .. n /\ a \in 1 .. n
    OBVIOUS
  <1>2. started = a .. n
    <2>1. ASSUME NEW p \in 1 .. n, p < a
          PROVE  ~Started(r, p, input[p].segment)
      <3>1. p \in 1 .. a - 1
        BY <1>1, <2>1
      <3> QED BY <3>1, Zenon DEF First, Begins
    <2>2. ASSUME NEW p \in a .. n
          PROVE  Started(r, p, input[p].segment)
      <3>1. p \in DOMAIN input /\ a \in 1 .. p
        BY <1>1
      <3>2. Begins(r, a, input)
        BY DEF First
      <3> QED BY <3>1, <3>2, BegunGoesOn, Zenon DEF Begins
    <2> QED BY <1>1, <2>1, <2>2
  <1>3. first = a
    <2>1. a \in a .. n /\ \A q \in a .. n : a <= q
      BY <1>1
    <2>2. \A p \in a .. n : (\A q \in a .. n : p <= q) => p = a
      BY <1>1
    <2> HIDE DEF started
    <2> QED BY <1>2, <2>1, <2>2
  <1>4. Asked(r) = {p \in started : Fits(r, first, p, input)}
    BY DEF Asked, Fits
  <1> QED BY <1>2, <1>3, <1>4, Zenon

\* What a request asks for is the run of the packets that fit.
LEMMA AskedIsRun ==
    ASSUME input \in Seq(Packets), Rising(input), NEW r \in Request, NEW k,
           NEW a, NEW b, Holding(k, r, a, b, input),
           b < Len(input) => ~Fits(r, a, b + 1, input)
    PROVE  Asked(r) = a .. b
  <1> DEFINE n == Len(input)
  <1>1. n \in Nat /\ DOMAIN input = 1 .. n /\ b \in 1 .. n /\ a \in 1 .. b
    BY DEF Holding
  <1>2. Asked(r) = {p \in a .. n : Fits(r, a, p, input)}
    <2>1. a \in DOMAIN input /\ First(r, a, input)
      BY <1>1 DEF Holding
    <2> QED BY <2>1, AskedFromFirst
  <1>3. ASSUME NEW p \in a .. b
        PROVE  Fits(r, a, p, input)
    <2>1. b \in DOMAIN input /\ p \in 1 .. b /\ a \in 1 .. p
      BY <1>1
    <2>2. Fits(r, a, b, input)
      BY DEF Holding
    <2> QED BY <2>1, <2>2, FewerFit
  <1>4. ASSUME NEW p \in a .. n, p > b
        PROVE  ~Fits(r, a, p, input)
    <2>1. p \in DOMAIN input /\ b + 1 \in 1 .. p /\ a \in 1 .. b + 1 /\ b < n
      BY <1>1, <1>4
    <2> QED BY <2>1, FewerFit
  <1>5. {p \in a .. n : Fits(r, a, p, input)} = a .. b
    BY <1>1, <1>3, <1>4
  <1> QED BY <1>2, <1>5

\* Nothing is asked for while the request has not begun, or if its length is 0.
LEMMA NothingAsked ==
    ASSUME input \in Seq(Packets), Rising(input), NEW r \in Request, NEW k,
           NEW wanted, NEW ended, NotBegun(k, r, wanted, ended, input)
    PROVE  Asked(r) = {}
  <1>1. CASE \A p \in DOMAIN input : ~Begins(r, p, input)
    <2>1. {p \in DOMAIN input : Started(r, p, input[p].segment)} = {}
      BY <1>1 DEF Begins
    <2> QED BY <2>1 DEF Asked
  <1>2. ASSUME r.len = 0, NEW a \in DOMAIN input, First(r, a, input)
        PROVE  Asked(r) = {}
    <2>1. Asked(r) = {p \in a .. Len(input) : Fits(r, a, p, input)}
      BY <1>2, AskedFromFirst
    <2>2. ASSUME NEW p \in a .. Len(input), Fits(r, a, p, input)
          PROVE  FALSE
      <3>1. p \in DOMAIN input /\ a \in 1 .. a /\ a \in 1 .. p
        OBVIOUS
      <3>2. Fits(r, a, a, input)
        BY <2>2, <3>1, FewerFit
      <3>3. a \in Nat /\ input[a] \in Packets
        OBVIOUS
      <3>4. a - a = 0 /\ 0 * PacketLen = 0 /\ input[a].segment - input[a].segment = 0
        BY <3>3, SplitAssumption DEF Packets
      <3>5. ~(0 < r.len)
        BY <1>2
      <3>6. r.measure \in Measure
        BY DEF Request
      <3> QED BY <3>2, <3>4, <3>5, <3>6 DEF Fits, Measure
    <2> QED BY <2>1, <2>2
  <1> QED BY <1>1, <1>2, Zenon DEF NotBegun

\* A run is as long as its first and last packet say.
LEMMA RunMeasured ==
    ASSUME input \in Seq(Packets), Rising(input), NEW r \in Request,
           \A s \in 1 .. segment : \E p \in DOMAIN input : input[p].segment = s,
           \A p \in DOMAIN input : input[p].segment <= segment,
           segment \in Nat,
           NEW b \in DOMAIN input, NEW a \in 1 .. b
    PROVE  Measured(r, Run(a, b)) = Total(r, a, b, input)
  <1> DEFINE w == Run(a, b)
             n == b - a + 1
             low == input[a].segment
             high == input[b].segment
  <1>1. /\ DOMAIN input = 1 .. Len(input) /\ Len(input) \in Nat
        /\ a \in Nat /\ b \in Nat /\ a <= b /\ a \in DOMAIN input
        /\ \A p \in DOMAIN input : input[p].segment \in Nat
    <2>1. \A p \in DOMAIN input : input[p] \in Packets
      OBVIOUS
    <2> QED BY <2>1 DEF Packets
  <1>2. n \in Nat /\ w = [i \in 1 .. n |-> a + i - 1]
    BY <1>1 DEF Run
  <1>3. Len(w) = n /\ DOMAIN w = 1 .. n
    BY <1>2
  <1>4. low \in Nat /\ high \in Nat /\ low <= high /\ high <= segment
    BY <1>1 DEF Rising
  <1>5. {input[w[i]].segment : i \in DOMAIN w} = low .. high
    <2>1. ASSUME NEW i \in 1 .. n
          PROVE  input[w[i]].segment \in low .. high
      <3>1. w[i] \in DOMAIN input /\ w[i] >= a /\ w[i] <= b
        BY <1>1, <1>2
      <3>2. low <= input[w[i]].segment /\ input[w[i]].segment <= high
        BY <1>1, <3>1 DEF Rising
      <3> HIDE DEF low, high
      <3> QED BY <1>1, <1>4, <3>1, <3>2
    <2>2. ASSUME NEW s \in low .. high
          PROVE  \E p \in a .. b : input[p].segment = s
      <3>1. CASE s = low \/ s = high
        BY <1>1, <3>1
      <3>2. CASE s > low /\ s < high
        <4>1. s \in 1 .. segment
          BY <1>4, <3>2
        <4>2. PICK p \in DOMAIN input : input[p].segment = s
          BY <4>1
        <4>3. ~(p <= a) /\ ~(b <= p)
          <5>1. p <= a => s <= low
            BY <1>1, <4>2 DEF Rising
          <5>2. b <= p => high <= s
            BY <1>1, <4>2 DEF Rising
          <5> HIDE DEF low, high
          <5> QED BY <1>4, <3>2, <5>1, <5>2
        <4> QED BY <1>1, <4>2, <4>3
      <3> HIDE DEF low, high
      <3> QED BY <1>4, <3>1, <3>2
    <2>3. ASSUME NEW p \in a .. b
          PROVE  \E i \in 1 .. n : w[i] = p
      <3>1. p - a + 1 \in 1 .. n
        BY <1>1
      <3>2. w[p - a + 1] = p
        BY <1>1, <1>2, <3>1
      <3> QED BY <3>1, <3>2
    <2> HIDE DEF w, n, low, high
    <2>4. ASSUME NEW s \in low .. high
          PROVE  \E i \in DOMAIN w : input[w[i]].segment = s
      <3>1. PICK p \in a .. b : input[p].segment = s
        BY <2>2
      <3>2. PICK i \in 1 .. n : w[i] = p
        BY <2>3
      <3> QED BY <1>3, <3>1, <3>2, Zenon
    <2> QED BY <1>3, <2>1, <2>4
  <1>6. Cardinality(low .. high) = high - low + 1
    <2> HIDE DEF low, high
    <2>1. Cardinality(low .. high) = IF low > high THEN 0 ELSE high - low + 1
      BY <1>4, FS_Interval
    <2> QED BY <1>4, <2>1
  <1> HIDE DEF w, low, high
  <1>7. /\ Measured(r, w) = CASE r.measure = "bytes"    -> n * PacketLen
                              [] r.measure = "packets"  -> n
                              [] r.measure = "segments" -> high - low + 1
    BY <1>3, <1>5, <1>6, Zenon DEF Measured
  <1> QED BY <1>7 DEF Total, w, low, high

-----------------------------------------------------------------------------
\* What is said of the packets so far stays true when one more comes.
LEMMA OneMore ==
    ASSUME NEW all \in Seq(Packets), NEW x \in Packets, NEW r \in Request, NEW k
    PROVE  LET more == Append(all, x)
           IN  /\ \A p \in DOMAIN all : Begins(r, p, more) <=> Begins(r, p, all)
               /\ \A a, p \in DOMAIN all : /\ Fits(r, a, p, more) <=> Fits(r, a, p, all)
                                           /\ Total(r, a, p, more) = Total(r, a, p, all)
               /\ \A a \in DOMAIN all : First(r, a, all) => First(r, a, more)
               /\ \A a, b : Holding(k, r, a, b, all) => Holding(k, r, a, b, more)
  <1> DEFINE more == Append(all, x)
             n == Len(all)
  <1>1. /\ n \in Nat /\ DOMAIN all = 1 .. n /\ DOMAIN more = 1 .. n + 1
        /\ \A p \in DOMAIN all : more[p] = all[p]
    OBVIOUS
  <1> HIDE DEF more, n
  <1>2. \A p \in DOMAIN all : Begins(r, p, more) <=> Begins(r, p, all)
    BY <1>1, Zenon DEF Begins
  <1>3. \A a, p \in DOMAIN all : Fits(r, a, p, more) <=> Fits(r, a, p, all)
    BY <1>1, Zenon DEF Fits
  <1>4. \A a, p \in DOMAIN all : Total(r, a, p, more) = Total(r, a, p, all)
    BY <1>1, Zenon DEF Total
  <1>5. ASSUME NEW a \in DOMAIN all, First(r, a, all)
        PROVE  First(r, a, more)
    <2>1. \A p \in 1 .. a - 1 : p \in DOMAIN all
      BY <1>1
    <2> QED BY <1>2, <1>5, <2>1, Zenon DEF First
  <1>6. ASSUME NEW a, NEW b, Holding(k, r, a, b, all)
        PROVE  Holding(k, r, a, b, more)
    <2>1. /\ b \in DOMAIN all /\ a \in 1 .. b /\ Contents(k) = Run(a, b)
          /\ First(r, a, all) /\ Fits(r, a, b, all)
      BY <1>6, Zenon DEF Holding
    <2>2. b \in DOMAIN more /\ a \in DOMAIN all
      BY <1>1, <2>1
    <2> QED BY <1>3, <1>5, <2>1, <2>2, Zenon DEF Holding
  <1> QED BY <1>2, <1>3, <1>4, <1>6, <1>5, Zenon DEF more

\* A run with the packet that comes next is a run.
LEMMA RunNext ==
    ASSUME NEW a \in Nat, NEW n \in Nat, a <= n + 1
    PROVE  Append(Run(a, n), n + 1) = Run(a, n + 1)
  <1>1. Run(a, n) = [i \in 1 .. n - a + 1 |-> a + i - 1]
    BY DEF Run
  <1>2. n - a + 1 \in Nat /\ Run(a, n) \in Seq(Nat) /\ Len(Run(a, n)) = n - a + 1
    BY <1>1
  <1>3. Run(a, n + 1) = [i \in 1 .. n + 1 - a + 1 |-> a + i - 1]
    BY DEF Run
  <1>4. /\ DOMAIN Append(Run(a, n), n + 1) = 1 .. n - a + 2
        /\ \A i \in 1 .. n - a + 1 : Append(Run(a, n), n + 1)[i] = a + i - 1
        /\ Append(Run(a, n), n + 1)[n - a + 2] = n + 1
    BY <1>1, <1>2
  <1> QED BY <1>2, <1>3, <1>4

\* One more packet, in the terms of a request.
LEMMA TotalNext ==
    ASSUME NEW all \in Seq(Packets), NEW r \in Request,
           NEW p \in DOMAIN all, NEW a \in 1 .. p
    PROVE  /\ Total(r, p, p, all) = Weight(r) + IF r.measure = "segments" THEN 1 ELSE 0
           /\ r.len # 0 => Fits(r, p, p, all)
           /\ r.measure # "segments" =>
                /\ a < p => Total(r, a, p, all) = Total(r, a, p - 1, all) + Weight(r)
                /\ a < p => (Fits(r, a, p, all) <=> Total(r, a, p - 1, all) < r.len)
           /\ r.measure = "segments" =>
                /\ Weight(r) = 0
                /\ Total(r, a, p, all) = all[p].segment - all[a].segment + 1
                /\ Fits(r, a, p, all) <=> all[p].segment - all[a].segment < r.len
  <1>1. /\ p \in Nat /\ a \in Nat /\ a <= p /\ a \in DOMAIN all /\ PacketLen \in Nat
        /\ all[p].segment \in Nat /\ all[a].segment \in Nat
        /\ r.len \in Nat /\ r.measure \in Measure
    <2>1. p \in Nat /\ a \in Nat /\ a <= p /\ a \in DOMAIN all
      OBVIOUS
    <2>2. all[p] \in Packets /\ all[a] \in Packets
      BY <2>1
    <2> QED BY <2>1, <2>2, SplitAssumption DEF Packets, Request
  <1>2. CASE r.measure = "bytes"
    <2>1. /\ Weight(r) = PacketLen
          /\ \A i, j : Total(r, i, j, all) = (j - i + 1) * PacketLen
          /\ \A i, j : Fits(r, i, j, all) <=> (j - i) * PacketLen < r.len
      BY <1>2 DEF Weight, Total, Fits
    <2>2. (p - p + 1) * PacketLen = PacketLen /\ (p - p) * PacketLen = 0
      BY <1>1
    <2>3. (p - a + 1) * PacketLen = (p - 1 - a + 1) * PacketLen + PacketLen
      BY <1>1
    <2>4. (p - 1 - a + 1) * PacketLen = (p - a) * PacketLen
      BY <1>1
    <2>5. r.len # 0 => 0 < r.len
      BY <1>1
    <2>6. PacketLen + 0 = PacketLen
      BY <1>1
    <2> QED BY <1>2, <2>1, <2>2, <2>3, <2>4, <2>5, <2>6, Zenon
  <1>3. CASE r.measure = "packets"
    <2>1. /\ Weight(r) = 1
          /\ \A i, j : Total(r, i, j, all) = j - i + 1
          /\ \A i, j : Fits(r, i, j, all) <=> j - i < r.len
      BY <1>3 DEF Weight, Total, Fits
    <2> QED BY <1>1, <1>3, <2>1
  <1>4. CASE r.measure = "segments"
    <2>1. /\ Weight(r) = 0
          /\ \A i, j : Total(r, i, j, all) = all[j].segment - all[i].segment + 1
          /\ \A i, j : Fits(r, i, j, all) <=> all[j].segment - all[i].segment < r.len
      BY <1>4, Zenon DEF Weight, Total, Fits
    <2> QED BY <1>1, <1>4, <2>1
  <1> QED BY <1>1, <1>2, <1>3, <1>4 DEF Measure

\* Counting and finishing leave a file's contents alone.
LEMMA CountContents ==
    ASSUME NEW k \in OutputFile, NEW r
    PROVE  LET c == CountSegment(k, r)
           IN  /\ c.state = k.state /\ Contents(c) = Contents(k)
               /\ c.done = IF k.state = "open" /\ r.measure = "segments" THEN k.done + 1
                           ELSE k.done
               /\ k.state # "open" => c = k
  <1>1. {"state", "done", "pending", "written", "warned"} \subseteq DOMAIN k
    BY Zenon DEF OutputFile
  <1> QED BY <1>1 DEF CountSegment, Contents

\* A file is warned about when it is finished, if at all.
LEMMA FinishContents ==
    ASSUME NEW k \in OutputFile, NEW r
    PROVE  LET e == Finish(k, r)
           IN  /\ k.state = "open" => /\ e.state = "closed" /\ e.done = k.done
                                      /\ e.warned <=> k.done # r.len
                                      /\ Contents(e) = Contents(k)
               /\ k.state # "open" => e = k
  <1>1. {"state", "done", "pending", "written", "warned"} \subseteq DOMAIN k
    BY Zenon DEF OutputFile
  <1> QED BY <1>1 DEF Finish, Contents

\* A file that is being filled, with the segment that ends before a packet
\* counted: its length says whether the packet still fits.
LEMMA CountTells ==
    ASSUME NEW k \in OutputFile, NEW r \in Request, NEW all \in Seq(Packets),
           NEW x \in Packets, NEW seg \in Nat, NEW a \in DOMAIN all,
           k.state = "open", all[Len(all)].segment = seg, x.segment \in {seg, seg + 1},
           Fits(r, a, Len(all), all),
           k.done = Total(r, a, Len(all), all) - IF r.measure = "segments" THEN 1 ELSE 0
    PROVE  LET c == IF x.segment # seg THEN CountSegment(k, r) ELSE k
               p == Len(all) + 1
               more == Append(all, x)
           IN  /\ c \in OutputFile /\ c.state = "open" /\ Contents(c) = Contents(k)
               /\ Finished(c, r) <=> ~Fits(r, a, p, more)
               /\ Finished(c, r) => c.done = Total(r, a, Len(all), all)
               /\ c.done + Weight(r)
                    = Total(r, a, p, more) - IF r.measure = "segments" THEN 1 ELSE 0
  <1> DEFINE n == Len(all)
             p == n + 1
             more == Append(all, x)
             c == IF x.segment # seg THEN CountSegment(k, r) ELSE k
  <1>1. /\ n \in Nat /\ DOMAIN all = 1 .. n /\ DOMAIN more = 1 .. p
        /\ more \in Seq(Packets) /\ more[a] = all[a] /\ more[p] = x
        /\ a \in 1 .. n /\ a \in Nat /\ p \in DOMAIN more /\ n \in DOMAIN all
    OBVIOUS
  <1>2. k.done \in Nat
    BY Zenon DEF OutputFile
  <1>3. /\ x.segment \in Nat /\ all[a].segment \in Nat /\ r.len \in Nat
        /\ r.measure \in Measure
    <2>1. all[a] \in Packets
      BY <1>1
    <2> QED BY <2>1 DEF Packets, Request
  <1>4. /\ c \in OutputFile /\ c.state = "open" /\ Contents(c) = Contents(k)
        /\ c.done = IF r.measure = "segments" /\ x.segment # seg THEN k.done + 1 ELSE k.done
    <2>1. CountSegment(k, r) \in OutputFile
      <3>1. 0 \in Nat /\ TRUE \in BOOLEAN
        OBVIOUS
      <3> QED BY <3>1, FileType, Zenon
    <2> QED BY <2>1, CountContents, Zenon
  <1>5. Finished(c, r) <=> ~(c.done < r.len)
    <2>1. c.done \in Nat
      BY <1>4, Zenon DEF OutputFile
    <2> HIDE DEF c
    <2> QED BY <1>3, <2>1 DEF Finished
  <1>6. Total(r, a, n, more) = Total(r, a, n, all)
    BY <1>1, OneMore
  <1>7. /\ r.measure # "segments" =>
             /\ Total(r, a, p, more) = Total(r, a, n, more) + Weight(r)
             /\ Fits(r, a, p, more) <=> Total(r, a, n, more) < r.len
        /\ r.measure = "segments" =>
             /\ Weight(r) = 0
             /\ Total(r, a, p, more) = x.segment - all[a].segment + 1
             /\ Fits(r, a, p, more) <=> x.segment - all[a].segment < r.len
    <2>1. a \in 1 .. p /\ a < p /\ p - 1 = n
      BY <1>1
    <2> HIDE DEF n, more, p
    <2> QED BY <1>1, <2>1, TotalNext, Zenon
  <1> HIDE DEF more, c
  <1>8. CASE r.measure # "segments"
    <2>1. c.done = k.done /\ k.done = Total(r, a, n, all)
      <3>1. k.done = Total(r, a, n, all) - 0
        BY <1>8
      <3>2. Total(r, a, n, all) \in Int
        BY <1>1, <1>8, <1>3, SplitAssumption DEF Total, Measure
      <3> HIDE DEF n
      <3> QED BY <1>4, <1>8, <3>1, <3>2
    <2>2. Total(r, a, p, more) = c.done + Weight(r) /\ c.done + Weight(r) \in Int
      <3>1. Weight(r) \in Nat
        BY <1>3, SplitAssumption DEF Weight, Measure
      <3> QED BY <1>2, <1>6, <1>7, <1>8, <2>1, <3>1
    <2>3. c.done + Weight(r) = Total(r, a, p, more) - 0
      BY <2>2
    <2> HIDE DEF p
    <2> QED BY <1>4, <1>5, <1>6, <1>7, <1>8, <2>1, <2>3, Zenon DEF c, p, more
  <1>9. CASE r.measure = "segments"
    <2>1. /\ Total(r, a, n, all) = seg - all[a].segment + 1
          /\ seg - all[a].segment < r.len
      BY <1>9 DEF Total, Fits
    <2>2. k.done = seg - all[a].segment
      <3>1. k.done = Total(r, a, n, all) - 1
        BY <1>9
      <3> QED BY <1>2, <1>3, <2>1, <3>1
    <2>3. c.done = x.segment - all[a].segment
      BY <1>3, <1>4, <1>9, <2>2
    <2>4. Finished(c, r) <=> ~Fits(r, a, p, more)
      BY <1>5, <1>7, <1>9, <2>3
    <2>5. Finished(c, r) => c.done = Total(r, a, n, all)
      BY <1>3, <1>5, <2>1, <2>3
    <2>6. c.done + Weight(r) = Total(r, a, p, more) - 1
      BY <1>3, <1>7, <1>9, <2>3
    <2> HIDE DEF p
    <2> QED BY <1>4, <1>9, <2>4, <2>5, <2>6, Zenon DEF c, p, more
  <1> QED BY <1>8, <1>9

\* Whatever packet x comes, a request is at the stage of the packets with x.
GoesOn(k, r, all, x, seg, wanted, refuses) ==
    LET c == IF x.segment # seg THEN CountSegment(k, r) ELSE k
        p == Len(all) + 1
        g == IF wanted THEN OnPacket(c, r, p, x.segment, refuses) ELSE c
        lists == wanted /\ ~(Started(r, p, x.segment) /\ Finished(c, r))
    IN  Stage(g, r, lists, FALSE, Append(all, x))

\* A request that has not begun, when a packet comes.
LEMMA NotBegunGoesOn ==
    ASSUME NEW k \in OutputFile, NEW r \in Request, NEW all \in Seq(Packets),
           NEW x \in Packets, NEW seg, NEW wanted \in BOOLEAN, NEW refuses \in BOOLEAN,
           NotBegun(k, r, wanted, FALSE, all)
    PROVE  GoesOn(k, r, all, x, seg, wanted, refuses)
  <1> DEFINE e == x.segment
             n == Len(all)
             p == n + 1
             more == Append(all, x)
             c == IF e # seg THEN CountSegment(k, r) ELSE k
             g == IF wanted THEN OnPacket(c, r, p, e, refuses) ELSE c
             lists == wanted /\ ~(Started(r, p, e) /\ Finished(c, r))
  <1>1. /\ n \in Nat /\ p \in Nat /\ DOMAIN all = 1 .. n /\ DOMAIN more = 1 .. p
        /\ more \in Seq(Packets) /\ more[p] = x /\ p \in DOMAIN more
        /\ \A i \in DOMAIN more : i = p \/ i \in DOMAIN all
    OBVIOUS
  <1>2. k.state = "absent" /\ k.done = 0 /\ Contents(k) = <<>>
    BY DEF NotBegun
  <1>3. c = k
    BY <1>2, CountContents
  <1>4. Finished(c, r) <=> r.len = 0
    BY <1>2, <1>3 DEF Finished, Request
  <1>5. Started(r, p, e) <=> Begins(r, p, more)
    BY <1>1, Zenon DEF Begins
  <1>6. \A i \in DOMAIN all : Begins(r, i, more) <=> Begins(r, i, all)
    BY OneMore
  <1> HIDE DEF more, n, p
  <1>7. CASE r.len = 0 /\ \E a \in DOMAIN more : First(r, a, more)
    <2>1. Finish(c, r) = k
      BY <1>2, <1>3, FinishContents
    <2>2. g = k
      BY <1>3, <1>4, <1>7, <2>1, Zenon DEF OnPacket
    <2>3. NotBegun(g, r, lists, FALSE, more)
      BY <1>2, <1>7, <2>2, Zenon DEF NotBegun
    <2> QED BY <2>3, Zenon DEF GoesOn, Stage, more, p, n
  <1>8. CASE wanted /\ (\A i \in DOMAIN all : ~Begins(r, i, all)) /\ ~Started(r, p, e)
    <2>1. g = k /\ lists
      BY <1>3, <1>8, Zenon DEF OnPacket
    <2>2. \A i \in DOMAIN more : ~Begins(r, i, more)
      BY <1>1, <1>5, <1>6, <1>8, Zenon
    <2>3. NotBegun(g, r, lists, FALSE, more)
      BY <1>2, <2>1, <2>2, Zenon DEF NotBegun
    <2> QED BY <2>3, Zenon DEF GoesOn, Stage, more, p, n
  <1>9. CASE \E a \in DOMAIN all : First(r, a, all)
    <2>1. \E a \in DOMAIN more : First(r, a, more)
      <3>1. PICK a \in DOMAIN all : First(r, a, all)
        BY <1>9
      <3>2. a \in DOMAIN more
        BY <1>1 DEF p
      <3> QED BY <3>1, <3>2, OneMore, Zenon DEF more
    <2>2. r.len = 0
      <3>1. PICK a \in DOMAIN all : First(r, a, all)
        BY <1>9
      <3> QED BY <3>1, Zenon DEF NotBegun, First
    <2> QED BY <1>7, <2>1, <2>2
  <1>10. CASE wanted /\ (\A i \in DOMAIN all : ~Begins(r, i, all))
                /\ Started(r, p, e) /\ r.len = 0
    <2>1. First(r, p, more)
      <3>1. 1 .. p - 1 = DOMAIN all
        BY <1>1 DEF p
      <3> QED BY <1>5, <1>6, <1>10, <3>1, Zenon DEF First
    <2> QED BY <1>1, <1>7, <1>10, <2>1, Zenon
  <1>11. CASE wanted /\ (\A i \in DOMAIN all : ~Begins(r, i, all))
               /\ Started(r, p, e) /\ r.len # 0
    <2>1. wanted /\ \A i \in DOMAIN all : ~Begins(r, i, all)
      BY <1>11
    <2>2. g = Queue(k, r, p, refuses) /\ lists
      BY <1>3, <1>4, <1>11, <2>1, Zenon DEF OnPacket
    <2>3. /\ Contents(g) = Append(<<>>, p) /\ g.state = "open"
          /\ g.done = 0 + Weight(r)
      <3> HIDE DEF g
      <3>1. k \in OutputFile /\ refuses \in BOOLEAN
        OBVIOUS
      <3>2. /\ Contents(g) = Append(Contents(k), p) /\ g.state = "open"
            /\ g.done = k.done + Weight(r)
        BY <1>1, <2>2, <3>1, QueueContents, Zenon
      <3> QED BY <1>2, <3>2
    <2>4. Contents(g) = Run(p, p)
      <3>1. Run(p, p) = <<p>>
        BY <1>1 DEF Run
      <3>2. Append(<<>>, p) = <<p>>
        OBVIOUS
      <3> QED BY <2>3, <3>1, <3>2, Zenon
    <2>5. p \in 1 .. p /\ 1 .. p - 1 = DOMAIN all
      BY <1>1 DEF p
    <2>6. /\ Total(r, p, p, more) = Weight(r) + IF r.measure = "segments" THEN 1 ELSE 0
          /\ Fits(r, p, p, more)
      BY <1>1, <1>11, <2>5, TotalNext
    <2>7. Holding(g, r, p, p, more)
      <3>1. \A i \in 1 .. p - 1 : ~Begins(r, i, more)
        BY <1>6, <2>1, <2>5, Zenon
      <3> QED BY <1>1, <1>5, <1>11, <2>4, <2>5, <2>6, <3>1, Zenon DEF Holding, First
    <2>8. g.done = Total(r, p, p, more) - IF r.measure = "segments" THEN 1 ELSE 0
      <3>1. Weight(r) \in Nat
        BY SplitAssumption DEF Weight, Request, Measure
      <3> HIDE DEF g
      <3> QED BY <2>3, <2>6, <3>1
    <2>9. Len(more) = p
      BY <1>1
    <2>10. Filling(g, r, lists, FALSE, more)
      BY <1>1, <2>2, <2>3, <2>7, <2>8, <2>9, Zenon DEF Filling
    <2> QED BY <2>10, Zenon DEF GoesOn, Stage, more, p, n
  <1> QED BY <1>8, <1>11, <1>9, <1>10, Zenon DEF NotBegun

\* A file that is being filled, when a packet comes.
LEMMA FillingGoesOn ==
    ASSUME NEW k \in OutputFile, NEW r \in Request, NEW all \in Seq(Packets),
           NEW x \in Packets, NEW seg \in Nat, NEW wanted \in BOOLEAN,
           NEW refuses \in BOOLEAN, Rising(Append(all, x)),
           all # <<>> => all[Len(all)].segment = seg, x.segment \in {seg, seg + 1},
           Filling(k, r, wanted, FALSE, all)
    PROVE  GoesOn(k, r, all, x, seg, wanted, refuses)
  <1> DEFINE e == x.segment
             n == Len(all)
             p == n + 1
             more == Append(all, x)
             c == IF e # seg THEN CountSegment(k, r) ELSE k
             g == IF wanted THEN OnPacket(c, r, p, e, refuses) ELSE c
             lists == wanted /\ ~(Started(r, p, e) /\ Finished(c, r))
  <1>1. PICK a \in DOMAIN all :
          /\ Holding(k, r, a, n, all)
          /\ k.done = Total(r, a, n, all) - IF r.measure = "segments" THEN 1 ELSE 0
    BY Zenon DEF Filling
  <1>2. k.state = "open" /\ wanted
    BY DEF Filling
  <1>3. /\ n \in Nat /\ p \in Nat /\ DOMAIN all = 1 .. n /\ DOMAIN more = 1 .. p
        /\ more \in Seq(Packets) /\ more[p] = x /\ p \in DOMAIN more /\ Len(more) = p
        /\ a \in 1 .. n /\ a \in DOMAIN more /\ a \in 1 .. p /\ n \in DOMAIN more
        /\ p # n /\ a \in Nat /\ a <= n + 1 /\ n \in DOMAIN all /\ all # <<>>
    OBVIOUS
  <1>4. all[n].segment = seg
    BY <1>3
  <1>5. Holding(k, r, a, n, more) /\ Total(r, a, n, more) = Total(r, a, n, all)
    BY <1>1, <1>3, OneMore, Zenon
  <1>6. Contents(k) = Run(a, n) /\ First(r, a, more)
    BY <1>5, Zenon DEF Holding
  <1>7. Started(r, p, e)
    <2>1. Begins(r, p, more)
      <3>1. Rising(more)
        OBVIOUS
      <3> HIDE DEF more, n, p
      <3> QED BY <1>3, <1>6, <3>1, BegunGoesOn, Zenon DEF First
    <2> QED BY <1>3, <2>1, Zenon DEF Begins
  <1>8. Fits(r, a, n, all)
    BY <1>1, Zenon DEF Holding
  <1>9. /\ c \in OutputFile /\ c.state = "open" /\ Contents(c) = Contents(k)
        /\ Finished(c, r) <=> ~Fits(r, a, p, more)
        /\ Finished(c, r) => c.done = Total(r, a, n, all)
        /\ c.done + Weight(r)
             = Total(r, a, p, more) - IF r.measure = "segments" THEN 1 ELSE 0
    BY <1>1, <1>2, <1>4, <1>8, CountTells
  <1> HIDE DEF more, n, p, c
  <1>10. CASE Finished(c, r)
    <2>1. g = Finish(c, r) /\ lists = FALSE
      BY <1>2, <1>7, <1>10, Zenon DEF OnPacket
    <2>2. /\ g.state = "closed" /\ g.done = c.done /\ (g.warned <=> c.done # r.len)
          /\ Contents(g) = Contents(c)
      <3> HIDE DEF g
      <3> QED BY <1>9, <2>1, FinishContents, Zenon
    <2>3. Holding(g, r, a, n, more)
      BY <1>5, <1>9, <2>2, Zenon DEF Holding
    <2>4. ~Fits(r, a, n + 1, more) /\ n # Len(more)
      BY <1>3, <1>9, <1>10, Zenon DEF p
    <2>5. g.done = Total(r, a, n, more) /\ (g.warned <=> g.done # r.len)
      BY <1>5, <1>9, <1>10, <2>2, Zenon
    <2>6. Filled(g, r, lists, FALSE, more)
      BY <1>3, <2>1, <2>2, <2>3, <2>4, <2>5, Zenon DEF Filled
    <2> QED BY <2>6, Zenon DEF GoesOn, Stage, more, p, n, c
  <1>11. CASE ~Finished(c, r)
    <2>1. g = Queue(c, r, p, refuses) /\ lists
      BY <1>2, <1>7, <1>11, Zenon DEF OnPacket
    <2>2. /\ Contents(g) = Append(Contents(c), p) /\ g.state = "open"
          /\ g.done = c.done + Weight(r)
      <3> HIDE DEF g
      <3>1. refuses \in BOOLEAN
        OBVIOUS
      <3> QED BY <1>3, <1>9, <2>1, <3>1, QueueContents, Zenon
    <2>3. Contents(g) = Run(a, p)
      <3>1. Append(Run(a, n), n + 1) = Run(a, n + 1)
        BY <1>3, RunNext, Zenon
      <3> QED BY <1>6, <1>9, <2>2, <3>1, Zenon DEF p
    <2>4. Holding(g, r, a, p, more)
      BY <1>3, <1>6, <1>9, <1>11, <2>3, Zenon DEF Holding
    <2>5. g.done = Total(r, a, p, more) - IF r.measure = "segments" THEN 1 ELSE 0
      BY <1>9, <2>2, Zenon
    <2>6. Filling(g, r, lists, FALSE, more)
      BY <1>3, <2>1, <2>2, <2>4, <2>5, Zenon DEF Filling
    <2> QED BY <2>6, Zenon DEF GoesOn, Stage, more, p, n, c
  <1> QED BY <1>10, <1>11

\* A file that is finished with, when a packet comes.
LEMMA FilledGoesOn ==
    ASSUME NEW k \in OutputFile, NEW r \in Request, NEW all \in Seq(Packets),
           NEW x \in Packets, NEW seg, NEW wanted \in BOOLEAN, NEW refuses \in BOOLEAN,
           Filled(k, r, wanted, FALSE, all)
    PROVE  GoesOn(k, r, all, x, seg, wanted, refuses)
  <1> DEFINE n == Len(all)
             p == n + 1
             more == Append(all, x)
             c == IF x.segment # seg THEN CountSegment(k, r) ELSE k
  <1>1. PICK a, b \in DOMAIN all :
          /\ Holding(k, r, a, b, all)
          /\ k.done = Total(r, a, b, all)
          /\ k.warned <=> k.done # r.len
          /\ IF b = n THEN FALSE ELSE ~Fits(r, a, b + 1, all)
    BY Zenon DEF Filled
  <1>2. k.state = "closed" /\ ~wanted
    BY DEF Filled
  <1>3. c = k
    BY <1>2, CountContents
  <1>4. /\ a \in DOMAIN more /\ b \in DOMAIN more /\ Len(more) = p
    OBVIOUS
  <1>5. b # n /\ b + 1 \in DOMAIN all /\ b # p
    BY <1>1
  <1>6. Holding(k, r, a, b, more) /\ Total(r, a, b, more) = Total(r, a, b, all)
    BY <1>1, OneMore, Zenon
  <1>7. ~Fits(r, a, b + 1, more)
    BY <1>1, <1>5, OneMore, Zenon
  <1> HIDE DEF more, n, p
  <1>8. Filled(c, r, FALSE, FALSE, more)
    BY <1>1, <1>2, <1>3, <1>4, <1>5, <1>6, <1>7, Zenon DEF Filled
  <1>9. \A q : (wanted /\ ~q) = FALSE
    BY <1>2
  <1> QED BY <1>2, <1>8, <1>9, Zenon DEF GoesOn, Stage, more, p, n

\* Whatever the stage, it goes on with the packets.
LEMMA StageGoesOn ==
    ASSUME NEW k \in OutputFile, NEW r \in Request, NEW all \in Seq(Packets),
           NEW x \in Packets, NEW seg \in Nat, NEW wanted \in BOOLEAN,
           NEW refuses \in BOOLEAN, Rising(Append(all, x)),
           all # <<>> => all[Len(all)].segment = seg, x.segment \in {seg, seg + 1},
           Stage(k, r, wanted, FALSE, all)
    PROVE  GoesOn(k, r, all, x, seg, wanted, refuses)
  BY NotBegunGoesOn, FillingGoesOn, FilledGoesOn, Zenon DEF Stage

\* When a packet comes, every request goes on as it should.
LEMMA PacketStages ==
    ASSUME IInv, IInv', Stages, NEW pcr \in Pcrs \cup {NoPcr}, Packet(pcr)
    PROVE  Stages'
  <1> DEFINE seg == Seg(pcr)
             x   == [pcr |-> pcr, segment |-> seg]
             p   == Len(input) + 1
             all == All(seg)
  <1>1. /\ TypeOK /\ Counting /\ input \in Seq(Packets) /\ segment \in Nat /\ seg \in Nat
    <2>1. seg \in Nat
      BY AllRequests DEF IInv
    <2>2. input \in Seq(Packets) /\ segment \in Nat
      BY DEF IInv, TypeOK, Packets
    <2> QED BY <2>1, <2>2 DEF IInv
  <1>2. x \in Packets /\ x.segment = seg
    BY <1>1 DEF Packets
  <1>3. /\ input' = Append(input, x) /\ segment' = seg /\ requests' = all
        /\ app = "running" /\ app' = app
        /\ DOMAIN file' = DOMAIN all
        /\ \A f \in DOMAIN all : \E refuses \in BOOLEAN :
             file'[f] = FileStep(f, p, seg, refuses)
        /\ listed' = {f \in Opened(seg) : ~(/\ Started(all[f], p, seg)
                                            /\ Finished(Counted(f, seg), all[f]))}
    BY <1>1, PacketEffect, Zenon
  <1>4. /\ seg \in {segment, segment + 1} /\ all \in Seq(Request)
        /\ DOMAIN file \subseteq DOMAIN all
        /\ \A f \in DOMAIN file : all[f] = requests[f]
        /\ \A f \in DOMAIN all \ DOMAIN file :
             /\ seg = segment + 1
             /\ all[f] = [start |-> "segment", at |-> seg,
                          measure |-> "segments", len |-> 1]
    <2>1. DOMAIN file = DOMAIN requests
      BY <1>1 DEF TypeOK
    <2> QED BY <1>1, <2>1, AllRequests, Zenon
  <1>5. Rising(Append(input, x))
    <2>1. Rising(input')
      BY Zenon DEF IInv, Counting, Rising
    <2> QED BY <1>3, <2>1, Zenon
  <1>6. input # <<>> => input[Len(input)].segment = segment
    BY <1>1, Zenon DEF Counting
  <1>7. (app' = "exited") = FALSE /\ (app = "exited") = FALSE
    BY <1>3
  <1>8. p = Len(input) + 1
    OBVIOUS
  <1> HIDE DEF seg, p, all, x
  <1>9. ASSUME NEW f \in DOMAIN all
        PROVE  Stage(file'[f], all[f], f \in listed', FALSE, Append(input, x))
    <2> DEFINE wanted == f \in Opened(seg)
               k == IF f \in DOMAIN file THEN file[f] ELSE NewFile
               c == Counted(f, seg)
    <2>1. PICK refuses \in BOOLEAN : file'[f] = FileStep(f, p, seg, refuses)
      BY <1>3, Zenon
    <2>2. Stage(k, all[f], wanted, FALSE, input) /\ k \in OutputFile
      <3>1. CASE f \in DOMAIN file
        <4>1. f \in Opened(seg) <=> f \in listed
          BY <1>1, <3>1, Zenon DEF Opened, TypeOK
        <4>2. wanted = (f \in listed)
          BY <4>1
        <4>3. Stage(file[f], requests[f], f \in listed, app = "exited", input)
          BY <3>1, Zenon DEF Stages
        <4>4. file[f] \in OutputFile
          BY <1>1, <3>1, Zenon DEF TypeOK
        <4> HIDE DEF wanted
        <4> QED BY <1>4, <1>7, <3>1, <4>2, <4>3, <4>4, Zenon
      <3>2. CASE f \notin DOMAIN file
        <4>1. wanted
          BY <1>1, <3>2, Zenon DEF Opened, TypeOK, all
        <4>2. \A q \in DOMAIN input : ~Begins(all[f], q, input)
          <5>1. ASSUME NEW q \in DOMAIN input, Begins(all[f], q, input)
                PROVE  FALSE
            <6>1. input[q] \in Packets /\ input[q].segment <= segment
              BY <1>1 DEF Counting
            <6>2. all[f].start = "segment" /\ all[f].at = segment + 1
              BY <1>4, <3>2
            <6>3. segment + 1 <= input[q].segment
              BY <5>1, <6>2 DEF Begins, Started
            <6> QED BY <1>1, <6>1, <6>3 DEF Packets
          <5> QED BY <5>1
        <4>3. NewFile.state = "absent" /\ NewFile.done = 0 /\ Contents(NewFile) = <<>>
          BY DEF NewFile, Contents
        <4>4. NotBegun(NewFile, all[f], wanted, FALSE, input)
          BY <4>1, <4>2, <4>3, Zenon DEF NotBegun
        <4>5. NewFile \in OutputFile
          BY <1>1, <3>2, CountedType, Zenon DEF Counted
        <4> QED BY <3>2, <4>4, <4>5, Zenon DEF Stage
      <3> QED BY <3>1, <3>2
    <2>3. c = IF x.segment # segment THEN CountSegment(k, all[f]) ELSE k
      <3>1. CASE f \in DOMAIN file
        BY <1>2, <1>4, <3>1, Zenon DEF Counted
      <3>2. CASE f \notin DOMAIN file
        <4>1. CountSegment(NewFile, all[f]) = NewFile
          BY DEF NewFile, CountSegment
        <4> QED BY <3>2, <4>1, Zenon DEF Counted
      <3> QED BY <3>1, <3>2
    <2>4. all[f] \in Request /\ wanted \in BOOLEAN
      BY <1>4
    <2> HIDE DEF k, c, wanted
    <2>5. GoesOn(k, all[f], input, x, segment, wanted, refuses)
      <3>1. x.segment \in {segment, segment + 1}
        BY <1>2, <1>4
      <3> QED BY <1>1, <1>2, <1>5, <1>6, <2>1, <2>2, <2>4, <3>1, StageGoesOn, Zenon
    <2>6. Stage(IF wanted THEN OnPacket(c, all[f], p, seg, refuses) ELSE c, all[f],
                wanted /\ ~(Started(all[f], p, seg) /\ Finished(c, all[f])), FALSE,
                Append(input, x))
      BY <1>2, <1>8, <2>3, <2>5, Zenon DEF GoesOn
    <2>7. file'[f] = IF wanted THEN OnPacket(c, all[f], p, seg, refuses) ELSE c
      BY <2>1, Zenon DEF FileStep, wanted, c, all
    <2>8. (f \in listed') = (wanted /\ ~(Started(all[f], p, seg) /\ Finished(c, all[f])))
      BY <1>3 DEF wanted, c
    <2> QED BY <2>6, <2>7, <2>8, Zenon
  <1> QED BY <1>3, <1>7, <1>9, Zenon DEF Stages

\* A segment is begun by its first packet.
LEMMA PacketNoGaps ==
    ASSUME IInv, NoGaps, NEW pcr \in Pcrs \cup {NoPcr}, Packet(pcr)
    PROVE  NoGaps'
  <1> DEFINE n   == Len(input)
             seg == Seg(pcr)
             x   == [pcr |-> pcr, segment |-> seg]
  <1>1. input' = Append(input, x) /\ segment' = seg /\ TypeOK /\ Counting
    BY PacketEffect, Zenon DEF IInv
  <1>2. /\ input \in Seq(Packets) /\ n \in Nat /\ DOMAIN input = 1 .. n
        /\ seg \in {segment, segment + 1} /\ segment \in Nat
        /\ input = <<>> => seg = 1
    <2>1. input \in Seq(Packets) /\ segment \in Nat
      BY <1>1 DEF TypeOK, Packets
    <2>2. seg \in {segment, segment + 1}
      BY <1>1, AllRequests
    <2>3. input = <<>> => segment = 1 /\ lastPcr = NoPcr
      BY <1>1 DEF Counting
    <2>4. lastPcr = NoPcr => seg = segment
      BY DEF Seg, Discontinuity
    <2>5. n \in Nat /\ DOMAIN input = 1 .. n
      BY <2>1
    <2> QED BY <2>1, <2>2, <2>3, <2>4, <2>5
  <1> HIDE DEF seg
  <1>3. /\ DOMAIN input' = 1 .. n + 1 /\ input'[n + 1].segment = seg
        /\ \A q \in DOMAIN input : input'[q] = input[q] /\ q \in DOMAIN input'
    BY <1>1, <1>2
  <1>4. ASSUME NEW s \in 1 .. seg
        PROVE  \E q \in DOMAIN input' : input'[q].segment = s
    <2>1. CASE s = seg
      BY <1>2, <1>3, <2>1
    <2>2. CASE s # seg
      <3>1. s \in 1 .. segment /\ input # <<>>
        BY <1>2, <2>2
      <3>2. PICK q \in DOMAIN input : input[q].segment = s
        BY <3>1 DEF NoGaps
      <3> QED BY <1>3, <3>2
    <2> QED BY <2>1, <2>2
  <1> QED BY <1>1, <1>4 DEF NoGaps

\* What the writer's notifier does changes no stage.
LEMMA WriterReadyStages ==
    ASSUME IInv, Stages, NEW f \in DOMAIN file, WriterReady(f)
    PROVE  Stages'
  <1>1. /\ UNCHANGED <<input, requests, listed, app>> /\ DOMAIN file' = DOMAIN file
        /\ \A h \in DOMAIN file :
             /\ Contents(file'[h]) = Contents(file[h])
             /\ file'[h].state = file[h].state /\ file'[h].done = file[h].done
             /\ file'[h].warned = file[h].warned
    BY WriterReadyEffect, Zenon DEF IInv
  <1>2. ASSUME NEW h \in DOMAIN file, NEW r, NEW wanted, NEW ended, NEW all,
               Stage(file[h], r, wanted, ended, all)
        PROVE  Stage(file'[h], r, wanted, ended, all)
    <2>1. \A a, b : Holding(file[h], r, a, b, all) => Holding(file'[h], r, a, b, all)
      BY <1>1, Zenon DEF Holding
    <2>2. CASE NotBegun(file[h], r, wanted, ended, all)
      <3>1. NotBegun(file'[h], r, wanted, ended, all)
        BY <1>1, <2>2, Zenon DEF NotBegun
      <3> QED BY <3>1, Zenon DEF Stage
    <2>3. CASE Filling(file[h], r, wanted, ended, all)
      <3>1. Filling(file'[h], r, wanted, ended, all)
        BY <1>1, <2>1, <2>3, Zenon DEF Filling
      <3> QED BY <3>1, Zenon DEF Stage
    <2>4. CASE Filled(file[h], r, wanted, ended, all)
      <3>1. Filled(file'[h], r, wanted, ended, all)
        BY <1>1, <2>1, <2>4, Zenon DEF Filled
      <3> QED BY <3>1, Zenon DEF Stage
    <2> QED BY <1>2, <2>2, <2>3, <2>4, Zenon DEF Stage
  <1> QED BY <1>1, <1>2, Zenon DEF Stages

\* The end of the input finishes files that are being filled.
LEMMA InputEndsStages ==
    ASSUME IInv, Stages, InputEnds
    PROVE  Stages'
  <1>1. /\ input' = input /\ requests' = requests
        /\ listed' = {} /\ app = "running" /\ app' = "exited"
        /\ DOMAIN file' = DOMAIN file
        /\ \A f \in DOMAIN file :
             file'[f] = LET k == CountSegment(file[f], requests[f])
                        IN  IF f \in listed THEN Finish(k, requests[f]) ELSE k
    <2>1. /\ input' = input /\ requests' = requests
          /\ listed' = {} /\ app = "running" /\ app' = "exited" /\ FinishAll
      BY Zenon DEF InputEnds
    <2> QED BY <2>1, Zenon DEF FinishAll
  <1>2. ASSUME NEW f \in DOMAIN file
        PROVE  Stage(file'[f], requests[f], FALSE, TRUE, input)
    <2> DEFINE k == file[f]
               r == requests[f]
               c == CountSegment(k, r)
               g == IF f \in listed THEN Finish(c, r) ELSE c
               n == Len(input)
    <2>1. /\ file'[f] = g /\ k \in OutputFile /\ r \in Request /\ n \in Nat
          /\ input \in Seq(Packets) /\ Stage(k, r, f \in listed, FALSE, input)
      <3>1. file'[f] = g /\ k \in OutputFile
        BY <1>1, Zenon DEF IInv, TypeOK
      <3>2. r \in Request /\ input \in Seq(Packets) /\ n \in Nat
        BY DEF IInv, TypeOK, Packets
      <3>3. (app = "exited") = FALSE
        BY <1>1
      <3>4. Stage(k, r, f \in listed, FALSE, input)
        BY <3>3, Zenon DEF Stages
      <3> QED BY <3>1, <3>2, <3>4, Zenon
    <2>2. c \in OutputFile
      <3>1. 0 \in Nat /\ TRUE \in BOOLEAN
        OBVIOUS
      <3> HIDE DEF k, r
      <3> QED BY <2>1, <3>1, FileType, Zenon
    <2>3. /\ c.state = k.state /\ Contents(c) = Contents(k)
          /\ c.done = IF k.state = "open" /\ r.measure = "segments" THEN k.done + 1
                      ELSE k.done
          /\ k.state # "open" => c = k
      <3> HIDE DEF k, r
      <3> QED BY <2>1, CountContents, Zenon
    <2>4. /\ c.state = "open" => LET e == Finish(c, r)
                                 IN  /\ e.state = "closed" /\ e.done = c.done
                                     /\ e.warned <=> c.done # r.len
                                     /\ Contents(e) = Contents(c)
          /\ c.state # "open" => Finish(c, r) = c
      <3> HIDE DEF c, r
      <3> QED BY <2>2, FinishContents, Zenon
    <2> HIDE DEF k, r, c, n
    <2>5. CASE NotBegun(k, r, f \in listed, FALSE, input)
      <3>1. k.state # "open"
        BY <2>5 DEF NotBegun
      <3>2. g = k
        BY <2>3, <2>4, <3>1, Zenon
      <3>3. NotBegun(g, r, FALSE, TRUE, input)
        BY <2>5, <3>2, Zenon DEF NotBegun
      <3> QED BY <2>1, <3>3, Zenon DEF Stage, r
    <2>6. CASE Filling(k, r, f \in listed, FALSE, input)
      <3>1. PICK a \in DOMAIN input :
              /\ Holding(k, r, a, n, input)
              /\ k.done = Total(r, a, n, input) - IF r.measure = "segments" THEN 1 ELSE 0
        BY <2>6, Zenon DEF Filling, n
      <3>2. k.state = "open" /\ g = Finish(c, r)
        BY <2>6, Zenon DEF Filling
      <3>3. /\ g.state = "closed" /\ g.done = c.done /\ (g.warned <=> c.done # r.len)
            /\ Contents(g) = Contents(k)
            /\ c.done = IF r.measure = "segments" THEN k.done + 1 ELSE k.done
        BY <2>3, <2>4, <3>2, Zenon
      <3>4. c.done = Total(r, a, n, input)
        <4>1. Total(r, a, n, input) \in Int
          <5>1. /\ a \in Nat /\ n \in Nat /\ n \in DOMAIN input
                /\ input[a].segment \in Nat /\ input[n].segment \in Nat
            <6>1. n \in DOMAIN input /\ a \in DOMAIN input /\ input \in Seq(Packets)
              BY <2>1, <3>1 DEF Holding
            <6>2. input[a] \in Packets /\ input[n] \in Packets
              BY <6>1
            <6> QED BY <6>1, <6>2 DEF Packets
          <5>2. PacketLen \in Nat /\ r.measure \in Measure
            BY <2>1, SplitAssumption DEF Request
          <5>3. (n - a + 1) * PacketLen \in Int
            BY <5>1, <5>2
          <5>4. /\ n - a + 1 \in Int
                /\ input[n].segment - input[a].segment + 1 \in Int
            BY <5>1
          <5> QED BY <5>2, <5>3, <5>4, Zenon DEF Total, Measure
        <4>2. k.done \in Nat
          BY <2>1, Zenon DEF OutputFile
        <4> QED BY <3>1, <3>3, <4>1, <4>2
      <3>5. Holding(g, r, a, n, input)
        BY <3>1, <3>3, Zenon DEF Holding
      <3>6. n \in DOMAIN input
        BY <3>1, Zenon DEF Holding
      <3>7. Filled(g, r, FALSE, TRUE, input)
        BY <3>1, <3>3, <3>4, <3>5, <3>6, Zenon DEF Filled, n
      <3> QED BY <2>1, <3>7, Zenon DEF Stage, r
    <2>7. CASE Filled(k, r, f \in listed, FALSE, input)
      <3>1. k.state = "closed" /\ f \notin listed
        BY <2>7, Zenon DEF Filled
      <3>2. g = k
        <4>1. k.state # "open"
          BY <3>1
        <4> QED BY <2>3, <3>1, <4>1, Zenon
      <3>3. Filled(g, r, FALSE, TRUE, input)
        BY <2>7, <3>2, Zenon DEF Filled
      <3> QED BY <2>1, <3>3, Zenon DEF Stage, r
    <2> QED BY <2>1, <2>5, <2>6, <2>7, Zenon DEF Stage
  <1>3. ASSUME NEW f PROVE (f \in listed') = FALSE
    BY <1>1
  <1>4. (app' = "exited") = TRUE
    BY <1>1
  <1> QED BY <1>1, <1>2, <1>3, <1>4, Zenon DEF Stages

\* Failures change no stage.
LEMMA OthersStages ==
    ASSUME Stages, OpenFails \/ InputFails \/ UNCHANGED vars
    PROVE  Stages'
  <1>1. UNCHANGED <<input, requests, listed, file>>
    BY Zenon DEF OpenFails, InputFails, vars
  <1>2. (app' = "exited") = (app = "exited")
    BY DEF OpenFails, InputFails, vars
  <1> QED BY <1>1, <1>2, Zenon DEF Stages

\* No request has begun when the program starts.
LEMMA InitStages == Init => Stages /\ NoGaps
  <1> SUFFICES ASSUME Init PROVE Stages /\ NoGaps
    OBVIOUS
  <1>1. /\ input = <<>> /\ file = [f \in DOMAIN requests |-> NewFile]
        /\ listed = DOMAIN requests
    BY Zenon DEF Init
  <1>2. NewFile.state = "absent" /\ NewFile.done = 0 /\ Contents(NewFile) = <<>>
    BY DEF NewFile, Contents
  <1>3. ASSUME NEW f \in DOMAIN file
        PROVE  Stage(file[f], requests[f], f \in listed, app = "exited", input)
    <2>1. file[f] = NewFile /\ f \in listed
      BY <1>1
    <2>2. \A p \in DOMAIN input : ~Begins(requests[f], p, input)
      BY <1>1
    <2>3. NotBegun(file[f], requests[f], f \in listed, app = "exited", input)
      BY <1>2, <2>1, <2>2, Zenon DEF NotBegun
    <2> QED BY <2>3, Zenon DEF Stage
  <1> QED BY <1>1, <1>3 DEF Stages, NoGaps

\* Every step keeps the stages.
LEMMA StepStages ==
    ASSUME IInv, IInv', Stages, NoGaps, [Next]_vars
    PROVE  Stages' /\ NoGaps'
  <1>1. ASSUME NEW pcr \in Pcrs \cup {NoPcr}, Packet(pcr)
        PROVE  Stages' /\ NoGaps'
    BY <1>1, PacketStages, PacketNoGaps, Zenon
  <1>2. CASE ~\E pcr \in Pcrs \cup {NoPcr} : Packet(pcr)
    <2>1. UNCHANGED <<input, segment>>
      BY <1>2, Zenon DEF Next, WriterReady, InputEnds, OpenFails, InputFails, vars
    <2>2. NoGaps'
      BY <2>1, Zenon DEF NoGaps
    <2>3. Stages'
      BY <1>2, WriterReadyStages, InputEndsStages, OthersStages, Zenon DEF Next
    <2> QED BY <2>2, <2>3
  <1> QED BY <1>1, <1>2, Zenon

-----------------------------------------------------------------------------
\* Requests stay at their stages, and segments without gaps.
LEMMA AlwaysStages == Spec => [](IInv /\ Stages /\ NoGaps)
  <1>1. Init => Stages /\ NoGaps
    BY InitStages
  <1>2. IInv /\ IInv' /\ Stages /\ NoGaps /\ [Next]_vars => Stages' /\ NoGaps'
    BY StepStages, Zenon
  <1> QED BY <1>1, <1>2, Invariant, PTL DEF Spec

\* Whatever the requests, devices and inputs, what has been put into a file, on
\* disk or still with its writer, is what its request asks for, in order
\* (splitter.cpp:464, 477).
THEOREM RequestsAreServed == Spec => []OutputsAsRequested
  <1>1. ASSUME IInv, Stages
        PROVE  OutputsAsRequested
    <2> SUFFICES ASSUME NEW f \in DOMAIN file
                 PROVE  Contents(file[f]) = InOrder(Asked(requests[f]))
      BY Zenon DEF OutputsAsRequested, Contents
    <2> DEFINE k == file[f]
               r == requests[f]
    <2>1. input \in Seq(Packets) /\ Rising(input) /\ r \in Request
      BY <1>1 DEF IInv, TypeOK, Packets, Counting, Rising
    <2>2. Stage(k, r, f \in listed, app = "exited", input)
      BY <1>1, Zenon DEF Stages
    <2> HIDE DEF k, r
    <2>3. ASSUME NEW wanted, NEW ended, NotBegun(k, r, wanted, ended, input)
          PROVE  Contents(k) = InOrder(Asked(r))
      BY <2>1, <2>3, NothingAsked, OrderOfNone, Zenon DEF NotBegun
    <2>4. ASSUME NEW a, NEW b, Holding(k, r, a, b, input),
                 b < Len(input) => ~Fits(r, a, b + 1, input)
          PROVE  Contents(k) = InOrder(Asked(r))
      <3>1. Asked(r) = a .. b
        BY <2>1, <2>4, AskedIsRun, Zenon
      <3>2. a \in Nat /\ b \in Nat /\ a <= b
        BY <2>1, <2>4 DEF Holding
      <3>3. InOrder(a .. b) = Run(a, b)
        BY <3>2, OrderOfRun
      <3> QED BY <2>4, <3>1, <3>3, Zenon DEF Holding
    <2>5. ASSUME NEW wanted, NEW ended, Filling(k, r, wanted, ended, input)
          PROVE  Contents(k) = InOrder(Asked(r))
      <3>1. ~(Len(input) < Len(input))
        BY <2>1
      <3> QED BY <2>4, <2>5, <3>1, Zenon DEF Filling
    <2>6. ASSUME NEW wanted, NEW ended, Filled(k, r, wanted, ended, input)
          PROVE  Contents(k) = InOrder(Asked(r))
      <3>1. PICK a, b \in DOMAIN input :
              /\ Holding(k, r, a, b, input)
              /\ IF b = Len(input) THEN ended ELSE ~Fits(r, a, b + 1, input)
        BY <2>6, Zenon DEF Filled
      <3>2. b < Len(input) => b # Len(input)
        BY <2>1
      <3> QED BY <2>4, <3>1, <3>2, Zenon
    <2> QED BY <2>2, <2>3, <2>5, <2>6, Zenon DEF Stage, k, r
  <1> QED BY <1>1, AlwaysStages, PTL

\* Whatever the requests, a file that has been closed was warned about exactly if it
\* is not of the length requested (splitter.cpp:563).
THEOREM WarningsAreRight == Spec => []WarnedRightly
  <1>1. ASSUME IInv, Stages, NoGaps
        PROVE  WarnedRightly
    <2> SUFFICES ASSUME NEW f \in DOMAIN file, file[f].state = "closed"
                 PROVE  file[f].warned <=>
                          Measured(requests[f], Contents(file[f])) # requests[f].len
      BY Zenon DEF WarnedRightly, Contents
    <2> DEFINE k == file[f]
               r == requests[f]
    <2>1. input \in Seq(Packets) /\ Rising(input) /\ r \in Request /\ segment \in Nat
      BY <1>1 DEF IInv, TypeOK, Packets, Counting, Rising
    <2>2. Stage(k, r, f \in listed, app = "exited", input)
      BY <1>1, Zenon DEF Stages
    <2>3. Filled(k, r, f \in listed, app = "exited", input)
      <3>1. k.state # "absent" /\ k.state # "open"
        OBVIOUS
      <3> QED BY <2>2, <3>1, Zenon DEF Stage, NotBegun, Filling
    <2> HIDE DEF k, r
    <2>4. PICK a, b \in DOMAIN input :
            /\ Holding(k, r, a, b, input)
            /\ k.done = Total(r, a, b, input)
            /\ k.warned <=> k.done # r.len
      BY <2>3, Zenon DEF Filled
    <2>5. input # <<>>
      BY <2>1, <2>4
    <2>6. \A s \in 1 .. segment : \E p \in DOMAIN input : input[p].segment = s
      BY <1>1, <2>5, Zenon DEF NoGaps
    <2>7. \A p \in DOMAIN input : input[p].segment <= segment
      BY <1>1 DEF IInv, Counting
    <2>8. Measured(r, Run(a, b)) = Total(r, a, b, input)
      <3>1. a \in 1 .. b
        BY <2>4, Zenon DEF Holding
      <3> QED BY <2>1, <2>4, <2>6, <2>7, <3>1, RunMeasured
    <2> QED BY <2>4, <2>8, Zenon DEF Holding, k, r
  <1> QED BY <1>1, AlwaysStages, PTL
=============================================================================

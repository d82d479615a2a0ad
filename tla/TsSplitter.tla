----------------------------- MODULE TsSplitter -----------------------------
(***************************************************************************)
(* ts-split: cuts the packets TS::Reader emits into output files.  What    *)
(* goes into a file is decided packet by packet, by counters: an output    *)
(* request starts at an offset, a packet or a discontinuity segment and is *)
(* that many bytes, packets or segments long; an output template makes a   *)
(* request for every segment it matches.  Bytes go through a TS::Writer    *)
(* per file, whose device may refuse them for a while.                     *)
(***************************************************************************)
EXTENDS Integers, Sequences, FiniteSets

CONSTANTS
    PacketLen,      \* bytes of a packet
    Second,         \* PCR ticks per second
    Pcrs,           \* PCRs in the input
    NoPcr,          \* a packet without one
    Cases           \* the command lines, devices and inputs considered

Kind    == {"offset", "packet", "segment"}
Measure == {"bytes", "packets", "segments"}
Request == [start : Kind, at : Nat, measure : Measure, len : Nat]

\* What the user asks for, and what may happen to it: the requests given, the
\* segments each output template matches, whether output devices may refuse to
\* write for a while, and the bound on the packets of the input.
Case == [ given     : Seq({r \in Request : r.start # "offset" => r.at > 0}),
          templates : Seq(SUBSET Nat),
          faulty    : BOOLEAN,
          packets   : Nat ]

ASSUME SplitAssumption ==
    /\ PacketLen \in Nat \ {0} /\ Second \in Nat
    /\ Pcrs \subseteq Nat /\ NoPcr \notin Nat
    /\ Cases \subseteq Case

VARIABLES
    case,           \* the case at hand
    input,          \* the packets emitted so far, each with its PCR and segment
    lastPcr,        \* _discontLastPCR
    segment,        \* _discontSegment
    requests,       \* every request made, in order; its index names its file
    listed,         \* _outputRequests: the files of those not yet finished
    file,           \* each file, its result and its writer
    app             \* running, exited (exit() called), fatal

vars == <<case, input, lastPcr, segment, requests, listed, file, app>>

OutputFile ==
    [ state   : {"absent", "open", "closed"},
      done    : Nat,            \* result: bytes, packets or segments so far
      pending : Seq(Nat),       \* the writer's _buf, as packets
      written : Seq(Nat),       \* what the device has taken
      warned  : BOOLEAN ]       \* the length did not match

TypeOK ==
    /\ case \in Cases
    /\ input \in Seq([pcr : Pcrs \cup {NoPcr}, segment : Nat])
    /\ lastPcr \in Pcrs \cup {NoPcr}
    /\ segment \in Nat
    /\ requests \in Seq(Request)
    /\ listed \subseteq DOMAIN requests
    /\ DOMAIN file = DOMAIN requests
    /\ \A f \in DOMAIN file : file[f] \in OutputFile
    /\ app \in {"running", "exited", "fatal"}

\* Mutant: the length starts out unset.
NewFileUnset == [state |-> "absent", done |-> -1, pending |-> <<>>,
                 written |-> <<>>, warned |-> FALSE]

NewFile == [state |-> "absent", done |-> 0, pending |-> <<>>, written |-> <<>>,
            warned |-> FALSE]

\* handleSegmentStarts: a request per template that matches the segment.
SegmentRequests(seg) ==
    LET wanted == {t \in DOMAIN case.templates : seg \in case.templates[t]}
    IN  [i \in 1 .. Cardinality(wanted) |->
           [start |-> "segment", at |-> seg, measure |-> "segments", len |-> 1]]

\* main and openInput.
Init ==
    /\ case \in Cases
    /\ input = <<>>
    /\ lastPcr = NoPcr
    /\ segment = 1
    /\ requests = case.given \o SegmentRequests(1)
    /\ listed = DOMAIN requests
    /\ file = [f \in DOMAIN requests |-> NewFile]
    /\ app = "running"

-----------------------------------------------------------------------------
\* Mutant: only a step back is one.
StepBack(pcr) == pcr # NoPcr /\ lastPcr # NoPcr /\ pcr < lastPcr

\* TS::Reader's checkIsDiscontinuity.
Discontinuity(pcr) ==
    /\ pcr # NoPcr
    /\ lastPcr # NoPcr
    /\ ~(lastPcr <= pcr /\ pcr <= lastPcr + Second)

\* Mutants of CountSegment: never; files not open are counted, too.
CountNever(k, r) == IF r.len < 0 THEN [k EXCEPT !.done = @ + 1] ELSE k
CountUnopened(k, r) ==
    IF r.measure = "segments" THEN [k EXCEPT !.done = @ + 1] ELSE k

\* increaseDiscontSegmentStats, for one file.
CountSegment(k, r) ==
    IF k.state = "open" /\ r.measure = "segments" THEN [k EXCEPT !.done = @ + 1]
    ELSE k

\* Mutant of Finished: one too many.
FinishedLate(k, r) == k.done > r.len

\* handleTSPacketReady's two questions, for the p-th packet of segment seg.
Started(r, p, seg) ==
    \/ r.start = "offset"  /\ r.at <= (p - 1) * PacketLen
    \/ r.start = "packet"  /\ r.at <= p
    \/ r.start = "segment" /\ r.at <= seg

Finished(k, r) == k.done >= r.len

Weight(r) == CASE r.measure = "bytes"    -> PacketLen
               [] r.measure = "packets"  -> 1
               [] r.measure = "segments" -> 0

\* finishOutputRequest.
Finish(k, r) ==
    IF k.state # "open" THEN k
    ELSE [k EXCEPT !.state = "closed", !.warned = k.done # r.len]

\* startOutputRequest, queueTSPacket and writeData: a device that refuses leaves
\* everything with the writer; if it takes some of it, that is WriterReady.
Queue(k, r, p, refuses) ==
    LET q == Append(k.pending, p)
    IN  [k EXCEPT !.state = "open", !.done = @ + Weight(r),
                  !.pending = IF refuses THEN q ELSE <<>>,
                  !.written = IF refuses THEN @ ELSE @ \o q]

OnPacket(k, r, p, seg, refuses) ==
    IF ~Started(r, p, seg) THEN k
    ELSE IF Finished(k, r) THEN Finish(k, r)
    ELSE Queue(k, r, p, refuses)

\* The files, counted for the segment that ends before segment seg, and new ones.
Counted(f, seg) ==
    IF f \notin DOMAIN file THEN NewFile
    ELSE IF seg # segment THEN CountSegment(file[f], requests[f])
    ELSE file[f]

\* drainBuffer: a discontinuity is signalled before the packet that shows it.
Packet(pcr) ==
    LET seg  == IF Discontinuity(pcr) THEN segment + 1 ELSE segment
        p    == Len(input) + 1
        all  == requests \o (IF seg # segment THEN SegmentRequests(seg) ELSE <<>>)
        open == listed \cup (DOMAIN all \ DOMAIN requests)
    IN  /\ app = "running"
        /\ p <= case.packets
        /\ input' = Append(input, [pcr |-> pcr, segment |-> seg])
        /\ lastPcr' = IF pcr = NoPcr THEN lastPcr ELSE pcr
        /\ segment' = seg
        /\ requests' = all
        /\ \E refusing \in IF case.faulty THEN SUBSET DOMAIN all ELSE {{}} :
             file' = [f \in DOMAIN all |->
                        IF f \in open THEN OnPacket(Counted(f, seg), all[f], p, seg,
                                                    f \in refusing)
                                      ELSE Counted(f, seg)]
        /\ listed' = {f \in open : ~(/\ Started(all[f], p, seg)
                                     /\ Finished(Counted(f, seg), all[f]))}
        /\ UNCHANGED <<case, app>>

\* A file that is to be opened exists, or cannot be.
OpenFails ==
    /\ app = "running"
    /\ Len(input) < case.packets
    /\ \E f \in listed :
         /\ file[f].state = "absent"
         /\ Started(requests[f], Len(input) + 1, segment)
         /\ ~Finished(file[f], requests[f])
    /\ app' = "fatal"
    /\ UNCHANGED <<case, input, lastPcr, segment, requests, listed, file>>

\* The writer's notifier: the device takes some of what is left.
WriterReady(f) ==
    /\ app = "running"
    /\ file[f].state = "open"
    /\ \E n \in 1 .. Len(file[f].pending) :
         file' = [file EXCEPT
                    ![f].written = @ \o SubSeq(file[f].pending, 1, n),
                    ![f].pending = SubSeq(@, n + 1, Len(@))]
    /\ UNCHANGED <<case, input, lastPcr, segment, requests, listed, app>>

\* Mutant: the segment that ends with the input is not counted.
FinishAllUncounted ==
    file' = [f \in DOMAIN file |->
               IF f \in listed THEN Finish(file[f], requests[f]) ELSE file[f]]

\* handleEOFEncountered's last chance for outputs to complete.
FinishAll ==
    file' = [f \in DOMAIN file |->
               LET k == CountSegment(file[f], requests[f])
               IN  IF f \in listed THEN Finish(k, requests[f]) ELSE k]

InputEnds ==
    /\ app = "running"
    /\ FinishAll
    /\ listed' = {}
    /\ app' = "exited"
    /\ UNCHANGED <<case, input, lastPcr, segment, requests>>

\* handleErrorEncountered, of kinds IO and Unknown.
InputFails ==
    /\ app = "running"
    /\ app' = "fatal"
    /\ UNCHANGED <<case, input, lastPcr, segment, requests, listed, file>>

Next ==
    \/ \E pcr \in Pcrs \cup {NoPcr} : Packet(pcr)
    \/ \E f \in DOMAIN file : WriterReady(f)
    \/ OpenFails \/ InputEnds \/ InputFails

Spec == Init /\ [][Next]_vars
-----------------------------------------------------------------------------
(***************************************************************************)
(* Properties.                                                             *)
(***************************************************************************)

\* What a request asks for, of the input so far: the packets from the first
\* one it starts at that fit into its length.
Asked(r) ==
    LET started == {p \in DOMAIN input : Started(r, p, input[p].segment)}
        first   == CHOOSE p \in started : \A q \in started : p <= q
    IN  {p \in started :
           CASE r.measure = "bytes"    -> (p - first) * PacketLen < r.len
             [] r.measure = "packets"  -> p - first < r.len
             [] r.measure = "segments" -> input[p].segment - input[first].segment < r.len}

InOrder(S) == [i \in 1 .. Cardinality(S) |->
                 CHOOSE p \in S : Cardinality({q \in S : q < p}) = i - 1]

\* What has been put into a file is what its request asks for, although that is
\* decided by counters packet by packet and the counters of several files, of
\* segments and of the reader run at different moments.
OutputsAsRequested ==
    app # "fatal" =>
        \A f \in DOMAIN file :
            file[f].written \o file[f].pending = InOrder(Asked(requests[f]))

\* The files of single segments, as templates make them.
SegmentFiles ==
    {f \in DOMAIN file : LET r == requests[f]
                         IN  r.start = "segment" /\ r.measure = "segments" /\ r.len = 1}

\* Splitting by segments loses nothing and repeats nothing: once the input has
\* ended, a segment's file holds each of its packets once, and no other packet.
SegmentsOnDisk ==
    app = "exited" /\ ~case.faulty =>
        \A f \in SegmentFiles, p \in DOMAIN input :
            Cardinality({i \in DOMAIN file[f].written : file[f].written[i] = p})
              = IF input[p].segment = requests[f].at THEN 1 ELSE 0

\* However many segments there are, the files of two of them are never open at
\* the same time.
OneSegmentOpen ==
    \A f, g \in SegmentFiles :
        file[f].state = "open" /\ file[g].state = "open" => requests[f].at = requests[g].at

\* No packet of a segment has a PCR before, or more than a second after, that of
\* the packet with a PCR before it in the segment.
SegmentsContinuous ==
    \A p, q \in DOMAIN input :
        /\ p < q
        /\ input[p].segment = input[q].segment
        /\ input[p].pcr # NoPcr /\ input[q].pcr # NoPcr
        /\ \A m \in p + 1 .. q - 1 : input[m].pcr = NoPcr
        => input[p].pcr <= input[q].pcr /\ input[q].pcr <= input[p].pcr + Second

\* How long the packets w are, in the terms of request r.
Measured(r, w) ==
    CASE r.measure = "bytes"    -> Len(w) * PacketLen
      [] r.measure = "packets"  -> Len(w)
      [] r.measure = "segments" -> Cardinality({input[w[i]].segment : i \in DOMAIN w})

\* A file is warned about exactly if what has been put into it by the time it is
\* closed is not of the length requested (splitter.cpp:563).
WarnedRightly ==
    \A f \in DOMAIN file :
        file[f].state = "closed" =>
          (file[f].warned <=>
             Measured(requests[f], file[f].written \o file[f].pending) # requests[f].len)

\* When the input ends, every output that has not got all it asked for has been
\* warned about (splitter.cpp:683, "Give output files a last chance to complete,
\* or be left incomplete and warned about.").
IncompleteWarned ==
    app = "exited" =>
        \A f \in DOMAIN file :
          Measured(requests[f], file[f].written) < requests[f].len => file[f].warned
=============================================================================

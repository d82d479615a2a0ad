---------------------------- MODULE SplitOptions ----------------------------
(***************************************************************************)
(* ts-split before it runs: main() reads the descriptions of output files  *)
(* and of output templates, field by field, and hands what it has read to  *)
(* the Splitter, which checks it.  A description it cannot read ends the   *)
(* program with a usage error; what Splitter does not accept is an         *)
(* exception that nobody catches.                                          *)
(***************************************************************************)
EXTENDS NumericRange

CONSTANTS
    Symbols,        \* what texts are made of
    CommandLines    \* the command lines considered

\* Case does not matter in keys.
Upper == "STARTPACKET"
ToLower(key) == IF key = <<Upper>> THEN <<"startPacket">> ELSE key

StartKey  == [startOffset |-> "offset", startPacket |-> "packet",
              startDiscontSegment |-> "segment"]
LengthKey == [lenBytes |-> "bytes", lenPackets |-> "packets",
              lenDiscontSegments |-> "segments"]

MaxOf(kind) == IF kind \in {"segment", "segments"} THEN IntMax ELSE LongMax

NoText == <<"no such option">>

CommandLine ==
    [ size : Seq(Symbols),               \* --ts-packet-size, or NoText
      outfiles : Seq(Seq(Symbols)),      \* --outfile
      templates : Seq(Seq(Symbols)),     \* --outfiles-template
      formats : Seq(Seq(Symbols)),       \* --discontsegs-format
      inputs : Nat ]                    \* how many positional arguments

ASSUME CommandLinesAssumption == CommandLines \subseteq CommandLine

VARIABLES
    line,           \* the command line
    phase,          \* where main() is
    buf,            \* opt.buf, what is left of a description
    current,        \* the output or template that is being described
    outputs,
    outputTemplates,
    tsPacketSize,
    outcome         \* of the program, once phase is "over"

vars == <<line, phase, buf, current, outputs, outputTemplates, tsPacketSize, outcome>>

Unset == [kind |-> "none", value |-> 0]

\* Output::outputFile is not initialized: it is null or it is not.
NullFile == <<>>
Garbage  == <<"somewhere">>

NewOutput   == {[file |-> f, start |-> Unset, length |-> Unset] : f \in {NullFile, Garbage}}
NewTemplate == [kind |-> "none", filter |-> <<>>, format |-> <<>>]
DiscontSegments(format) == [kind |-> "segments", filter |-> <<>>, format |-> format]

Init ==
    /\ line \in CommandLines
    /\ phase = "size"
    /\ buf = <<>> /\ current = NewTemplate
    /\ outputs = <<>> /\ outputTemplates = <<>>
    /\ tsPacketSize = 0
    /\ outcome = "none"

Exit(how) ==
    /\ phase' = "over" /\ outcome' = how
    /\ UNCHANGED <<line, buf, current, outputs, outputTemplates, tsPacketSize>>

-----------------------------------------------------------------------------
(***************************************************************************)
(* KeyValueOption: a key is up to the next "=", wherever that is, a value  *)
(* up to the next ",", and the rest is the rest.                           *)
(***************************************************************************)
HasKey   == At(buf, "=") \in 2 .. Len(buf)
TakenKey == ToLower(SubSeq(buf, 1, At(buf, "=") - 1))
AfterKey == SubSeq(buf, At(buf, "=") + 1, Len(buf))

TakenValue(text) == SubSeq(text, 1, At(text, Comma) - 1)
AfterValue(text) == SubSeq(text, At(text, Comma) + 1, Len(text))

-----------------------------------------------------------------------------
(***************************************************************************)
(* main().                                                                 *)
(***************************************************************************)

\* Zero and negative sizes come to the same as none.
PacketSize ==
    /\ phase = "size"
    /\ IF line.size = NoText
         THEN phase' = "outfiles" /\ UNCHANGED <<tsPacketSize, outcome>>
       ELSE IF IsNumber(line.size, LongMax)
         THEN /\ phase' = "outfiles"
              /\ tsPacketSize' = IF Number(line.size) > 0 THEN Number(line.size) ELSE 0
              /\ UNCHANGED outcome
       ELSE phase' = "over" /\ outcome' = "usage" /\ UNCHANGED tsPacketSize
    /\ UNCHANGED <<line, buf, current, outputs, outputTemplates>>

NextOutfile ==
    /\ phase = "outfiles"
    /\ IF Len(outputs) < Len(line.outfiles)
         THEN /\ phase' = "outfile"
              /\ buf' = line.outfiles[Len(outputs) + 1]
              /\ current' \in NewOutput
         ELSE phase' = "templates" /\ UNCHANGED <<buf, current>>
    /\ UNCHANGED <<line, outputs, outputTemplates, tsPacketSize, outcome>>

\* Mutant of SetOnce: the last one wins.
SetAgain(part, kind, value) == IsNumber(value, MaxOf(kind))

\* set*Once, with the conversion before it.
SetOnce(part, kind, value) == IsNumber(value, MaxOf(kind)) /\ part.kind = "none"

Described(kind, value) == [kind |-> kind, value |-> Number(value)]

Continue(next, left) ==
    /\ current' = next /\ buf' = left
    /\ UNCHANGED <<line, phase, outputs, outputTemplates, tsPacketSize, outcome>>

OutfileField ==
    /\ phase = "outfile" /\ buf # <<>>
    /\ IF ~HasKey THEN Exit("usage")
       ELSE LET key   == TakenKey[1]
                value == TakenValue(AfterKey)
                left  == AfterValue(AfterKey)
            IN  CASE Len(TakenKey) = 1 /\ key \in DOMAIN StartKey ->
                       IF SetOnce(current.start, StartKey[key], value)
                         THEN Continue([current EXCEPT !.start = Described(StartKey[key], value)], left)
                         ELSE Exit("usage")
                  [] Len(TakenKey) = 1 /\ key \in DOMAIN LengthKey ->
                       IF SetOnce(current.length, LengthKey[key], value)
                         THEN Continue([current EXCEPT !.length = Described(LengthKey[key], value)], left)
                         ELSE Exit("usage")
                  [] TakenKey = <<"fileName">> ->
                       IF AfterKey # <<>>
                         THEN Continue([current EXCEPT !.file = AfterKey], <<>>)
                         ELSE Exit("usage")
                  [] OTHER -> Exit("usage")

OutfileEnd ==
    /\ phase = "outfile" /\ buf = <<>>
    /\ phase' = "outfiles" /\ outputs' = Append(outputs, current)
    /\ UNCHANGED <<line, buf, current, outputTemplates, tsPacketSize, outcome>>

NextTemplate ==
    /\ phase = "templates"
    /\ IF Len(outputTemplates) < Len(line.templates)
         THEN /\ phase' = "template"
              /\ buf' = line.templates[Len(outputTemplates) + 1]
              /\ current' = NewTemplate
         ELSE phase' = "rest" /\ UNCHANGED <<buf, current>>
    /\ UNCHANGED <<line, outputs, outputTemplates, tsPacketSize, outcome>>

RangeTexts(value) == IF value = <<>> THEN <<>> ELSE Split(value, Colon)

TemplateField ==
    /\ phase = "template" /\ buf # <<>>
    /\ IF ~HasKey THEN Exit("usage")
       ELSE LET value  == TakenValue(AfterKey)
                ranges == RangeTexts(value)
            IN  CASE TakenKey = <<"discontSegments">> ->
                       IF current.kind = "none" /\ \A i \in DOMAIN ranges : IsRange(ranges[i])
                         THEN Continue([current EXCEPT !.kind = "segments",
                                          !.filter = [i \in DOMAIN ranges |-> FromString(ranges[i])]],
                                       AfterValue(AfterKey))
                         ELSE Exit("usage")
                  [] TakenKey = <<"fileFormat">> ->
                       IF AfterKey # <<>>
                         THEN Continue([current EXCEPT !.format = AfterKey], <<>>)
                         ELSE Exit("usage")
                  [] OTHER -> Exit("usage")

TemplateEnd ==
    /\ phase = "template" /\ buf = <<>>
    /\ phase' = "templates" /\ outputTemplates' = Append(outputTemplates, current)
    /\ UNCHANGED <<line, buf, current, outputs, tsPacketSize, outcome>>

\* A file for every segment, named after the input.
DefaultFormat == <<"input stem", ".%03d.ts">>

ASSUME TextsAssumption == Garbage \in Seq(Symbols) /\ DefaultFormat \in Seq(Symbols)

\* The formats, the positional arguments, and what happens if nothing was asked for.
Rest ==
    /\ phase = "rest"
    /\ IF line.inputs # 1 THEN Exit("usage")
       ELSE LET all == outputTemplates \o [i \in DOMAIN line.formats |-> DiscontSegments(line.formats[i])]
            IN  /\ outputTemplates' = IF outputs = <<>> /\ all = <<>>
                                        THEN <<DiscontSegments(DefaultFormat)>> ELSE all
                /\ phase' = "splitter"
                /\ UNCHANGED <<line, buf, current, outputs, tsPacketSize, outcome>>

-----------------------------------------------------------------------------
(***************************************************************************)
(* setOutputRequests and setOutputTemplates.                               *)
(***************************************************************************)
AcceptsRequest(r) ==
    /\ r.file # NullFile
    /\ r.start.kind # "none"
    /\ r.start.value >= IF r.start.kind = "offset" THEN 0 ELSE 1
    /\ r.length.kind # "none"
    /\ r.length.value >= 0

AcceptsRange(range) ==
    range.hasLowerBound /\ range.hasUpperBound => range.lowerBoundValue <= range.upperBoundValue

AcceptsTemplate(t) ==
    /\ t.kind = "segments"
    /\ \A i \in DOMAIN t.filter : AcceptsRange(t.filter[i])
    /\ t.format # <<>>

SetOutputs ==
    /\ phase = "splitter"
    /\ IF /\ \A i \in DOMAIN outputs : AcceptsRequest(outputs[i])
          /\ \A i \in DOMAIN outputTemplates : AcceptsTemplate(outputTemplates[i])
         THEN Exit("running")
         ELSE Exit("aborted")

Next ==
    \/ PacketSize
    \/ NextOutfile \/ OutfileField \/ OutfileEnd
    \/ NextTemplate \/ TemplateField \/ TemplateEnd
    \/ Rest \/ SetOutputs

Spec == Init /\ [][Next]_vars

-----------------------------------------------------------------------------
(***************************************************************************)
(* The reference: what a description says, by the positions of its         *)
(* separators and not by taking it apart from its beginning.               *)
(***************************************************************************)

\* Where fields begin: at the beginning and behind a comma, unless nothing follows.
FieldStarts(text) == {i \in 1 .. Len(text) : i = 1 \/ text[i - 1] = Comma}

\* Among them, where a field `key' does, which takes the rest of a description, and
\* those before it.
RestAt(text, key) ==
    {i \in FieldStarts(text) : i < Len(text) /\ text[i] = key /\ text[i + 1] = "="}
Starts(text, key) ==
    {i \in FieldStarts(text) : \A r \in RestAt(text, key) : i < r}

RestPart(text, key) == SubSeq(text, Min(RestAt(text, key)) + 2, Len(text))

\* What lies between it and the next comma.
FieldAt(text, i) == SubSeq(text, i, NextAt(text, Comma, i) - 1)

KeyOf(field)     == ToLower(<<field[1]>>)[1]
ValueText(field) == SubSeq(field, 3, Len(field))
IsField(field)   == Len(field) >= 2 /\ field[2] = "="

\* The fields with keys of one sort, and whether such a one is read.
FieldsWith(text, keys) ==
    {i \in Starts(text, "fileName") :
       IsField(FieldAt(text, i)) /\ KeyOf(FieldAt(text, i)) \in DOMAIN keys}

NumberGiven(field, keys) ==
    /\ KeyOf(field) \in DOMAIN keys
    /\ IsNumber(ValueText(field), MaxOf(keys[KeyOf(field)]))

OutfileReadable(text) ==
    /\ \A i \in Starts(text, "fileName") :
         /\ IsField(FieldAt(text, i))
         /\ NumberGiven(FieldAt(text, i), StartKey) \/ NumberGiven(FieldAt(text, i), LengthKey)
    /\ \A keys \in {StartKey, LengthKey} : \A i, j \in FieldsWith(text, keys) : i = j
    /\ RestAt(text, "fileName") # {} => RestPart(text, "fileName") # <<>>

Meant(text, keys) ==
    IF FieldsWith(text, keys) = {} THEN Unset
    ELSE LET field == FieldAt(text, CHOOSE i \in FieldsWith(text, keys) : TRUE)
         IN  Described(keys[KeyOf(field)], ValueText(field))

\* The value of the field that has the filter.
FilterStarts(text) == Starts(text, "fileFormat")
FilterText(text)   == ValueText(FieldAt(text, CHOOSE i \in FilterStarts(text) : TRUE))

TemplateReadable(text) ==
    /\ \A i, j \in FilterStarts(text) : i = j
    /\ \A i \in FilterStarts(text) :
         LET field == FieldAt(text, i)
             value == ValueText(field)
         IN  /\ IsField(field) /\ KeyOf(field) = "discontSegments"
             /\ value # <<>> => \A k \in DOMAIN Split(value, Colon) : IsRange(Split(value, Colon)[k])
    /\ RestAt(text, "fileFormat") # {} => RestPart(text, "fileFormat") # <<>>

-----------------------------------------------------------------------------
(***************************************************************************)
(* Properties.                                                             *)
(***************************************************************************)
Usable ==
    /\ line.size = NoText \/ IsNumber(line.size, LongMax)
    /\ \A i \in DOMAIN line.outfiles : OutfileReadable(line.outfiles[i])
    /\ \A i \in DOMAIN line.templates : TemplateReadable(line.templates[i])
    /\ line.inputs = 1

\* Whether main() refuses a command line, and what it makes of the descriptions of
\* output files, is what these say field by field: no field is skipped, read twice
\* or read into the next one (main.cpp:137).
ReadAsWritten ==
    phase = "over" =>
      /\ outcome = "usage" <=> ~Usable
      /\ outcome # "usage" =>
           /\ Len(outputs) = Len(line.outfiles)
           /\ \A i \in DOMAIN outputs :
                /\ outputs[i].start = Meant(line.outfiles[i], StartKey)
                /\ outputs[i].length = Meant(line.outfiles[i], LengthKey)
                /\ RestAt(line.outfiles[i], "fileName") # {} =>
                     outputs[i].file = RestPart(line.outfiles[i], "fileName")

\* The numbers a range is written for: n, from-to, from-, -to or -.
Covers(text, n) ==
    IF ~Has(text, Minus) THEN n = Number(text)
    ELSE /\ text[1] # Minus => Number(SubSeq(text, 1, 1)) <= n
         /\ text[Len(text)] # Minus => n <= Number(<<text[Len(text)]>>)

Wanted(text, n) ==
    \/ FilterText(text) = <<>>
    \/ \E k \in DOMAIN Split(FilterText(text), Colon) : Covers(Split(FilterText(text), Colon)[k], n)

\* Once it runs, ts-split makes files of exactly the segments that each template
\* names, of all of them for a format alone or no request at all; and no range of
\* a template is one that nothing lies in (splitter.cpp:289).
FiltersAsWritten ==
    outcome = "running" =>
      LET n == Len(line.templates)
      IN  /\ \A i \in 1 .. n :
               /\ \A s \in 1 .. IntMax + 1 :
                    Matches(outputTemplates[i].filter, s) <=> Wanted(line.templates[i], s)
               /\ \A k \in DOMAIN outputTemplates[i].filter :
                    \E s \in 0 .. IntMax : Compare(outputTemplates[i].filter[k], s) = 0
          /\ \A i \in n + 1 .. Len(outputTemplates) :
               \A s \in 1 .. IntMax + 1 : Matches(outputTemplates[i].filter, s)
          /\ outputs = <<>> => outputTemplates # <<>>

\* What runs has a file for every output ("Output file can't be null",
\* splitter.cpp:206).
FileGiven ==
    outcome = "running" =>
      \A i \in DOMAIN line.outfiles : RestAt(line.outfiles[i], "fileName") # {}
=============================================================================

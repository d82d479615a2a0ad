--------------------------- MODULE MCSplitOptions ---------------------------
(***************************************************************************)
(* Command lines with descriptions of up to three fields, sound or not.    *)
(***************************************************************************)
EXTENDS SplitOptions, TLC

\* An int does not hold "9", and a qint64 not "99".
Words  == ("0" :> 0) @@ ("1" :> 1) @@ ("2" :> 2) @@ ("9" :> 9) @@ ("99" :> 99)

Field(key, value) == <<key, "=">> \o value

Texts ==
    { "STARTPACKET", "fileName", "fileFormat", "discontSegments", "bogus", "f", "x", "=", ",", ":",
      "-", "no such option", "somewhere", "input stem", ".%03d.ts" }
    \cup DOMAIN Words \cup DOMAIN StartKey \cup DOMAIN LengthKey

OutfileFields ==
    {Field(k, <<v>>) : k \in DOMAIN StartKey \cup DOMAIN LengthKey, v \in {"1"}} \cup
    { Field("startPacket", <<"9">>), Field("startDiscontSegment", <<"9">>),
      Field("lenDiscontSegments", <<"9">>), Field("startPacket", <<"0">>), Field("startPacket", <<"99">>), Field(Upper, <<"2">>),
      Field("lenBytes", <<"-", "1">>), Field("lenPackets", <<"1", "=", "1">>),
      Field("lenPackets", <<>>), Field("fileName", <<"f">>), Field("fileName", <<>>),
      Field("bogus", <<"1">>), <<"lenBytes">>, <<"=", "1">>, <<>> }

Ranges ==
    { <<>>, <<"1">>, <<"9">>, <<"-">>, <<"-", "1">>, <<"2", "-">>, <<"1", "-", "2">>,
      <<"2", "-", "1">>, <<"0", "-", "0">>, <<"1", "-", "2", "-", "2">>, <<"x">> }

TwoRanges == {Field("discontSegments", r \o <<":">> \o q) : r, q \in Ranges}

TemplateFields ==
    {Field("discontSegments", r) : r \in Ranges} \cup
    { Field("fileFormat", <<"f">>), Field("fileFormat", <<>>), Field("bogus", <<"1">>),
      <<"discontSegments">>, <<>> }

Joined(S, T) == {s \o <<",">> \o t : s \in S, t \in T}

Outfiles  == OutfileFields \cup Joined(OutfileFields, OutfileFields)
                \cup Joined(OutfileFields, Joined(OutfileFields, OutfileFields))
Templates == TemplateFields \cup TwoRanges \cup Joined(TemplateFields, TemplateFields)
                \cup Joined(TwoRanges, {Field("fileFormat", <<"f">>)})

Plain == [size |-> NoText, outfiles |-> <<>>, templates |-> <<>>, formats |-> <<>>, inputs |-> 1]

Sound == <<"startPacket", "=", "1", ",", "lenPackets", "=", "1", ",", "fileName", "=", "f">>
Sizes == {NoText, <<>>, <<"x">>, <<"0">>, <<"-", "1">>, <<"2">>}

SomeCommandLines ==
    {[Plain EXCEPT !.outfiles = <<t>>] : t \in Outfiles} \cup
    {[Plain EXCEPT !.outfiles = <<Sound, t>>, !.inputs = n] : t \in OutfileFields \cup {Sound}, n \in 0 .. 2}
      \cup
    {[Plain EXCEPT !.templates = <<t>>] : t \in Templates} \cup
    {[Plain EXCEPT !.size = s, !.outfiles = o, !.templates = t, !.formats = f] :
        s \in Sizes, o \in {<<>>, <<Sound>>},
        t \in {<<>>, <<Field("discontSegments", <<"1">>) \o <<",">> \o Field("fileFormat", <<"f">>)>>},
        f \in {<<>>, <<<<"f">>>>, <<<<>>>>}}
=============================================================================

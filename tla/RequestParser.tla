--------------------------- MODULE RequestParser ---------------------------
(***************************************************************************)
(* RequestNetside::processChunk under ServerClientPrivate::_receiveData: a *)
(* request arrives in chunks cut anywhere, the lines among the bytes so    *)
(* far are consumed, header lines are held back until it is known that no  *)
(* continuation follows.  A method is a symbol, and GET is HEAD, too.    *)
(***************************************************************************)
EXTENDS Integers, Sequences, FiniteSets

CONSTANTS
    Requests,       \* what clients send: sequences of Symbols
    ChunkMax,       \* the most one read yields (1024)
    ByteCountMax    \* _byteCountMax (10 KiB)

\* "X" is "x" in upper case.
Symbols == {"GET", "x", "X", "sp", "colon", "cr", "lf"}

ASSUME RequestsAssumption == Requests \subseteq Seq(Symbols)
ASSUME LimitsAssumption == ChunkMax \in Nat \ {0} /\ ByteCountMax \in Nat

VARIABLES
    request,        \* what the client sends
    byteCount,      \* _byteCount: how much of it has been read
    buf,            \* _buf
    receiveState,   \* _receiveState
    method,         \* _method
    linesBuf,       \* _headerLinesBuf, without its last line separator
    fields,         \* _header: its _fields, as text
    nameIndices,    \* _header: its _fieldNameIndices, the latest of a name first
    outcome,        \* what has become of the request
    pc              \* idle, in processChunk, or between two reads

header == <<fields, nameIndices>>
vars == <<request, byteCount, buf, receiveState, method, linesBuf, header, outcome, pc>>

TypeOK ==
    /\ request \in Requests
    /\ byteCount \in 0 .. Len(request)
    /\ buf \in Seq(Symbols)
    /\ receiveState \in {"line", "header", "body", "ready"}
    /\ method \in Seq(Symbols)
    /\ linesBuf \in Seq(Symbols)
    /\ receiveState # "header" => linesBuf = <<>>
    /\ fields \in Seq(Seq(Symbols))
    /\ DOMAIN nameIndices \subseteq Seq(Symbols)
    /\ nameIndices \in [DOMAIN nameIndices -> Seq(DOMAIN fields)]
    /\ outcome \in {"receiving", "rejected", "handed over", "aborted"}
    /\ pc \in {"idle", "chunk", "reads"}

Init ==
    /\ request \in Requests
    /\ byteCount = 0
    /\ buf = <<>>
    /\ receiveState = "line"
    /\ method = <<>>
    /\ linesBuf = <<>>
    /\ fields = <<>>
    /\ nameIndices = <<>>
    /\ outcome = "receiving"
    /\ pc = "idle"

-----------------------------------------------------------------------------
(***************************************************************************)
(* Byte arrays.                                                            *)
(***************************************************************************)

\* QByteArray::indexOf, from 1; one beyond the end if there is none.
IndexOf(s, c, from) ==
    LET at == {i \in from .. Len(s) : s[i] = c}
    IN  IF at = {} THEN Len(s) + 1 ELSE CHOOSE i \in at : \A j \in at : i <= j

Lower(s) == [i \in DOMAIN s |-> IF s[i] = "X" THEN "x" ELSE s[i]]

FieldName(field) == SubSeq(field, 1, IndexOf(field, "colon", 1) - 1)

HasLine == \E i \in 1 .. Len(buf) - 1 : buf[i] = "cr" /\ buf[i + 1] = "lf"

LineSep ==
    CHOOSE i \in 1 .. Len(buf) - 1 :
      /\ buf[i] = "cr" /\ buf[i + 1] = "lf"
      /\ \A j \in 1 .. i - 1 : ~(buf[j] = "cr" /\ buf[j + 1] = "lf")

Line == SubSeq(buf, 1, LineSep - 1)

RemoveLine == buf' = SubSeq(buf, LineSep + 2, Len(buf))

-----------------------------------------------------------------------------
(***************************************************************************)
(* processChunk.                                                           *)
(***************************************************************************)

\* An exception ends _receiveData with an error response.
Throw ==
    /\ outcome' = "rejected"
    /\ pc' = "idle"
    /\ UNCHANGED <<request, buf, receiveState, method, linesBuf, header>>

RequestLine ==
    /\ pc = "chunk" /\ receiveState = "line" /\ HasLine
    /\ LET pathAt    == IndexOf(Line, "sp", 1)
           versionAt == IndexOf(Line, "sp", pathAt + 1)
       IN  IF 1 < pathAt /\ pathAt + 1 < versionAt /\ versionAt < Len(Line)
           THEN /\ method' = SubSeq(Line, 1, pathAt - 1)
                /\ RemoveLine
                /\ receiveState' = "header"
                /\ UNCHANGED <<request, byteCount, linesBuf, header, outcome, pc>>
           ELSE Throw /\ UNCHANGED byteCount

\* QMultiMap::values and ::insert.
Values(map, key) == IF key \in DOMAIN map THEN map[key] ELSE <<>>
Inserted(map, key, value) ==
    [k \in DOMAIN map \cup {key} |->
       IF k = key THEN <<value>> \o Values(map, key) ELSE map[k]]

\* HeaderNetside::append of the lines held back, if there are any.
Acceptable == linesBuf # <<>> => IndexOf(linesBuf, "colon", 1) \in 2 .. Len(linesBuf)
AppendField ==
    IF linesBuf = <<>> THEN UNCHANGED header
    ELSE /\ fields' = Append(fields, linesBuf)
         /\ nameIndices' = Inserted(nameIndices, Lower(FieldName(linesBuf)), Len(fields'))

\* Mutant: the last field is left behind.
FlushLosesField == UNCHANGED header /\ linesBuf' = <<>>

\* The lines held back are the last field.
Flush == AppendField /\ linesBuf' = <<>>

HeaderEnd ==
    /\ pc = "chunk" /\ receiveState = "header" /\ HasLine
    /\ Line = <<>>
    /\ IF Acceptable
       THEN /\ Flush
            /\ RemoveLine
            /\ receiveState' = IF method = <<"GET">> THEN "ready" ELSE "body"
            /\ UNCHANGED <<request, byteCount, method, outcome, pc>>
       ELSE Throw /\ UNCHANGED byteCount

Continues == Line # <<>> /\ Line[1] = "sp"

HeaderLine ==
    /\ pc = "chunk" /\ receiveState = "header" /\ HasLine
    /\ Line # <<>>
    /\ IF Continues
         THEN /\ linesBuf' = IF linesBuf = <<>> THEN Line
                             ELSE linesBuf \o <<"cr", "lf">> \o Line
              /\ RemoveLine
              /\ UNCHANGED <<request, byteCount, receiveState, method, header, outcome, pc>>
       ELSE IF Acceptable
         THEN /\ AppendField
              /\ linesBuf' = Line
              /\ RemoveLine
              /\ UNCHANGED <<request, byteCount, receiveState, method, outcome, pc>>
       ELSE Throw /\ UNCHANGED byteCount

\* A body, or trailing data.
Unexpected ==
    /\ pc = "chunk" /\ receiveState \in {"body", "ready"} /\ buf # <<>>
    /\ Throw
    /\ UNCHANGED byteCount

ChunkProcessed ==
    /\ pc = "chunk"
    /\ \/ buf = <<>>
       \/ receiveState \in {"line", "header"} /\ ~HasLine
    /\ pc' = "reads"
    /\ UNCHANGED <<request, byteCount, buf, receiveState, method, linesBuf, header, outcome>>

-----------------------------------------------------------------------------
(***************************************************************************)
(* _receiveData.                                                           *)
(***************************************************************************)

\* Mutant: a chunk that ends at the limit is refused.
WithinLimitStrict(n) == n < ByteCountMax

WithinLimit(n) == n <= ByteCountMax

\* A read of n bytes, the first of a readyRead() or another one.
Read ==
    /\ pc \in {"idle", "reads"}
    /\ outcome = "receiving"
    /\ \E n \in 1 .. ChunkMax :
         /\ byteCount + n <= Len(request)
         /\ byteCount' = byteCount + n
         /\ IF receiveState # "ready" /\ WithinLimit(byteCount + n)
            THEN /\ buf' = buf \o SubSeq(request, byteCount + 1, byteCount + n)
                 /\ pc' = "chunk"
                 /\ UNCHANGED <<request, receiveState, method, linesBuf, header, outcome>>
            ELSE Throw

\* There is nothing to read for now.
ReadsEnd ==
    /\ pc = "reads"
    /\ pc' = "idle"
    /\ outcome' = IF receiveState = "ready" THEN "handed over" ELSE outcome
    /\ UNCHANGED <<request, byteCount, buf, receiveState, method, linesBuf, header>>

\* Data after the request has been handed over or rejected.
Unrecognized ==
    /\ pc = "idle"
    /\ outcome \in {"rejected", "handed over"}
    /\ byteCount < Len(request)
    /\ outcome' = "aborted"
    /\ UNCHANGED <<request, byteCount, buf, receiveState, method, linesBuf, header, pc>>

Next ==
    \/ Read \/ ReadsEnd \/ Unrecognized
    \/ RequestLine \/ HeaderLine \/ HeaderEnd \/ Unexpected \/ ChunkProcessed

Spec == Init /\ [][Next]_vars

-----------------------------------------------------------------------------
(***************************************************************************)
(* HeaderNetside::fields, the look-up by name: the map yields the indices  *)
(* of a name from the latest to the first.                                 *)
(***************************************************************************)
IndicesReverse(name) == Values(nameIndices, Lower(name))

\* Mutant: in the order of the map.
FieldsNamedReverse(name) ==
    LET indices == IndicesReverse(name)
    IN  [i \in DOMAIN indices |-> fields[indices[i]]]

FieldsNamed(name) ==
    LET indices == IndicesReverse(name)
    IN  [i \in DOMAIN indices |-> fields[indices[Len(indices) + 1 - i]]]

-----------------------------------------------------------------------------
(***************************************************************************)
(* What the bytes received mean, whatever chunks they have come in.        *)
(***************************************************************************)

Got == SubSeq(request, 1, byteCount)

\* Numbers from the smallest to the greatest.
InOrder(S) ==
    [i \in 1 .. Cardinality(S) |-> CHOOSE n \in S : Cardinality({m \in S : m <= n}) = i]

\* The lines of g by their first position and the one behind the last.
LinesOf(g) ==
    LET ends      == {e \in 1 .. Len(g) - 1 : g[e] = "cr" /\ g[e + 1] = "lf"}
        starts    == {1} \cup {e + 2 : e \in ends}
    IN  {l \in starts \X ends : l[1] <= l[2] /\ ~ \E e \in ends : l[1] <= e /\ e < l[2]}

\* The empty lines behind the first one, of which the first ends the header.
HeaderEnds(g) == {l \in LinesOf(g) : l[1] > 1 /\ l[1] = l[2]}
HeaderDone(g) == HeaderEnds(g) # {}
InHeader(g, l) == l[1] > 1 /\ \A h \in HeaderEnds(g) : l[1] < h[1]

\* Lines that start a field: the first one, and those that do not start with
\* a space.
FieldStarts(g) ==
    {l \in LinesOf(g) : /\ InHeader(g, l)
                        /\ \/ g[l[1]] # "sp"
                           \/ \E r \in LinesOf(g) : r[1] = 1 /\ r[2] + 2 = l[1]}

\* What ends a field: the start of the next one or the end of the header.
FieldEnd(g, l) ==
    LET behind == {k \in FieldStarts(g) \cup HeaderEnds(g) : k[1] > l[1]}
    IN  (CHOOSE k \in behind : \A o \in behind : k[1] <= o[1])[1] - 3

\* The fields that nothing can be added to any more, in their order.
Settled(g) ==
    {l \in FieldStarts(g) : \E k \in FieldStarts(g) \cup HeaderEnds(g) : k[1] > l[1]}
FieldText(g, l) == SubSeq(g, l[1], FieldEnd(g, l))
FieldFrom(g, a) == FieldText(g, CHOOSE l \in Settled(g) : l[1] = a)
FieldsOf(g) ==
    LET starts == InOrder({l[1] : l \in Settled(g)})
    IN  [i \in DOMAIN starts |-> FieldFrom(g, starts[i])]

GoodRequestLine(s) ==
    \E i, j \in 2 .. Len(s) - 1 :
      /\ i + 1 < j
      /\ s[i] = "sp" /\ s[j] = "sp"
      /\ \A k \in 1 .. j - 1 : k # i => s[k] # "sp"
GoodField(s) == s[1] # "colon" /\ \E i \in DOMAIN s : s[i] = "colon"

Malformed(g) ==
    \/ \E l \in LinesOf(g) : l[1] = 1 /\ ~GoodRequestLine(SubSeq(g, l[1], l[2] - 1))
    \/ \E l \in Settled(g) : ~GoodField(FieldText(g, l))

\* The header is followed by more.
Exceeds(g) == \E h \in HeaderEnds(g) : (\A k \in HeaderEnds(g) : h[1] <= k[1]) /\ h[2] + 1 < Len(g)

IsGet(g) == Len(g) > 1 /\ g[1] = "GET" /\ g[2] = "sp"

-----------------------------------------------------------------------------
(***************************************************************************)
(* Properties.                                                             *)
(***************************************************************************)

\* Wherever the chunks have been cut, through a line separator or a folded
\* field: between two events a request has been rejected exactly if what has
\* been read of it is malformed, too long or goes on behind its header, and
\* has been handed over exactly if it is a GET with its header complete.
ChunkingIrrelevant ==
    pc = "idle" /\ outcome # "aborted" =>
      /\ outcome = "rejected" <=>
           (Malformed(Got) \/ Exceeds(Got) \/ byteCount > ByteCountMax)
      /\ outcome = "handed over" <=>
           outcome # "rejected" /\ HeaderDone(Got) /\ IsGet(Got)

EqualIgnoringCase(s, t) ==
    /\ Len(s) = Len(t)
    /\ \A i \in DOMAIN s : s[i] = t[i] \/ {s[i], t[i]} = {"x", "X"}

\* The fields sent that have a name.
FieldsNamedIn(sent, name) ==
    LET named == InOrder({i \in DOMAIN sent : EqualIgnoringCase(FieldName(sent[i]), name)})
    IN  [k \in DOMAIN named |-> sent[named[k]]]

\* The handler sees every field the client has sent, folded lines with the
\* field they belong to, and finds those of a name, however that is spelt, all of
\* them and in their order: whether a request has several Host fields, and so is
\* refused, is decided by this (httpserver.cpp:224).
FieldsComplete ==
    outcome = "handed over" /\ pc = "idle" =>
      /\ fields = FieldsOf(Got)
      /\ \A name \in {<<"x">>, <<"X">>} \cup {FieldName(fields[i]) : i \in DOMAIN fields} :
           FieldsNamed(name) = FieldsNamedIn(FieldsOf(Got), name)
=============================================================================

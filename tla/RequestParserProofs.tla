------------------------ MODULE RequestParserProofs ------------------------
(***************************************************************************)
(* The inductive invariant of RequestParser, for any requests, any chunks  *)
(* and any limit, and what follows from it: that it does not matter where  *)
(* the chunks have been cut.                                               *)
(***************************************************************************)
EXTENDS RequestParser, FiniteSetTheorems, SequenceTheorems, WellFoundedInduction, TLAPS

-----------------------------------------------------------------------------
(***************************************************************************)
(* The lines of a request by the positions they have in it, whatever part  *)
(* of it has been read.                                                    *)
(***************************************************************************)

\* A line separator.
EndAt(r, e) == e \in 1 .. Len(r) - 1 /\ r[e] = "cr" /\ r[e + 1] = "lf"

\* Where lines start.
Starts(r, a) == a \in Nat /\ (a = 1 \/ EndAt(r, a - 2))

\* A line by its first position and the one behind its last.
IsLine(r, a, e) ==
    Starts(r, a) /\ EndAt(r, e) /\ a <= e /\ \A f \in a .. e - 1 : ~EndAt(r, f)

\* An empty line, which ends a header.
EmptyAt(r, h) == 1 < h /\ IsLine(r, h, h)

\* A line of the header that starts a field.
FieldAt(r, a) ==
    /\ 1 < a /\ \E e \in 1 .. Len(r) : IsLine(r, a, e)
    /\ \A h \in 2 .. a : ~EmptyAt(r, h)
    /\ r[a] # "sp" \/ IsLine(r, 1, a - 2)

\* Where a field is known to be complete, and what it is then.
Stop(r, x) == FieldAt(r, x) \/ EmptyAt(r, x)
NextStop(r, a, x) == x \in Nat /\ a < x /\ Stop(r, x) /\ \A y \in a + 1 .. x - 1 : ~Stop(r, y)
Text(r, a, x) == SubSeq(r, a, x - 3)

\* The fields that are complete up to p have a name and a colon.
Checked(r, p) ==
    \A a, x \in 1 .. p : FieldAt(r, a) /\ NextStop(r, a, x) => GoodField(Text(r, a, x))

\* The lines held back are those from the last field on.
LastField(r, a, p) ==
    a \in 1 .. p - 1 /\ FieldAt(r, a) /\ \A b \in a + 1 .. p - 1 : ~FieldAt(r, b)

HeldBack(r, p, held) ==
    \/ held = <<>> /\ IsLine(r, 1, p - 2)
    \/ held # <<>> /\ \E a \in 1 .. p : LastField(r, a, p) /\ held = Text(r, a, p)

-----------------------------------------------------------------------------
(***************************************************************************)
(* The inductive invariant, of a request of which the bytes from p to n    *)
(* have been read and wait in the buffer.                                  *)
(***************************************************************************)
FirstLineGood(r, p) ==
    \E e \in 1 .. Len(r) : IsLine(r, 1, e) /\ e + 2 <= p /\ GoodRequestLine(SubSeq(r, 1, e - 1))

NoEmptyBefore(r, p) == \A h \in 2 .. p - 1 : ~EmptyAt(r, h)

InLine(r, p, state, held) == state = "line" /\ p = 1 /\ held = <<>>

InTheHeader(r, p, state, verb, held) ==
    /\ state = "header"
    /\ FirstLineGood(r, p) /\ (verb = <<"GET">> <=> IsGet(r))
    /\ Starts(r, p) /\ NoEmptyBefore(r, p)
    /\ HeldBack(r, p, held)
    /\ Checked(r, p - 1)

BehindHeader(r, p, state, held) ==
    /\ state \in {"body", "ready"} /\ held = <<>>
    /\ FirstLineGood(r, p) /\ (state = "ready" <=> IsGet(r))
    /\ EmptyAt(r, p - 2) /\ NoEmptyBefore(r, p - 2)
    /\ Checked(r, p - 2)

\* Nothing of the buffer is left to be processed.
Drained(r, p, n, state) ==
    IF state \in {"line", "header"} THEN \A e \in p .. n - 1 : ~EndAt(r, e)
    ELSE p = n + 1

Place(r, p, state, verb, held) ==
    \/ InLine(r, p, state, held)
    \/ InTheHeader(r, p, state, verb, held)
    \/ BehindHeader(r, p, state, held)

Parsing(r, p, n) ==
    /\ n <= ByteCountMax
    /\ buf = SubSeq(r, p, n)
    /\ Place(r, p, receiveState, method, linesBuf)
    /\ pc # "chunk" => Drained(r, p, n, receiveState)

Position == byteCount - Len(buf) + 1

HandedOver == outcome = "handed over"
Received   == outcome = "receiving" \/ HandedOver

Inv ==
    /\ request \in Requests /\ byteCount \in 0 .. Len(request)
    /\ Len(buf) \in 0 .. byteCount
    /\ pc \in {"idle", "chunk", "reads"}
    /\ Received \/ outcome = "rejected" \/ outcome = "aborted"
    /\ outcome # "receiving" => pc = "idle"
    /\ outcome = "rejected" => Malformed(Got) \/ Exceeds(Got) \/ byteCount > ByteCountMax
    /\ Received => Parsing(request, Position, byteCount)
    /\ HandedOver => receiveState = "ready"
    /\ outcome = "receiving" /\ pc = "idle" => receiveState # "ready"
-----------------------------------------------------------------------------
(***************************************************************************)
(* What is invariant of the fields: they are those that start before p, in *)
(* their order, up to where they stop, and the last one may be held back;  *)
(* and of each name the map has those that have it, the latest first.      *)
(***************************************************************************)
Rises(at) == \A i, j \in DOMAIN at : i < j => at[i] < at[j]

Enumerates(r, p, at) ==
    /\ Rises(at)
    /\ \A a : FieldAt(r, a) /\ a < p <=> \E i \in DOMAIN at : at[i] = a

FieldsAt(r, at, all, held) ==
    /\ Len(at) = Len(all) + (IF held = <<>> THEN 0 ELSE 1)
    /\ \A i \in DOMAIN all : \E x \in Nat : NextStop(r, at[i], x) /\ all[i] = Text(r, at[i], x)

Kept(r, p, all, held) ==
    \E at \in Seq(Nat) : Enumerates(r, p, at) /\ FieldsAt(r, at, all, held)

Falls(at) == \A i, j \in DOMAIN at : i < j => at[j] < at[i]

Named(all, name, k) == k \in DOMAIN all /\ Lower(FieldName(all[k])) = name

Indexed(all, map) ==
    \A name : LET at == Values(map, name) IN
      /\ at \in Seq(Nat) /\ Falls(at)
      /\ \A k : Named(all, name, k) <=> \E i \in DOMAIN at : at[i] = k

FieldsKept == Received => Kept(request, Position, fields, linesBuf)
NamesKept  == Indexed(fields, nameIndices)

-----------------------------------------------------------------------------
(***************************************************************************)
(* The types of what is made of the bytes.                                 *)
(***************************************************************************)

\* What AppendField works on.
HeaderTyped ==
    /\ fields \in Seq(Seq(Symbols))
    /\ DOMAIN nameIndices \subseteq Seq(Symbols)
    /\ nameIndices \in [DOMAIN nameIndices -> Seq(DOMAIN fields)]

TextsTyped ==
    /\ buf \in Seq(Symbols) /\ method \in Seq(Symbols) /\ linesBuf \in Seq(Symbols)
    /\ receiveState \in {"line", "header", "body", "ready"}
    /\ receiveState # "header" => linesBuf = <<>>
-----------------------------------------------------------------------------
(***************************************************************************)
(* Numbers and sequences.                                                  *)
(***************************************************************************)

\* A set of numbers with something in it has a least member.
LEMMA LeastNat ==
  ASSUME NEW T, T \subseteq Nat, T # {}
  PROVE  \E x \in T : \A y \in T : x <= y
<1> DEFINE Less == {pair \in Nat \X Nat : pair[1] < pair[2]}
<1>1. IsWellFoundedOn(Less, Nat)
  <2>1. Less = OpToRel(<, Nat)
    BY DEF OpToRel
  <2> QED BY <2>1, NatLessThanWellFounded
<1>2. PICK x \in T : \A y \in T : <<y, x>> \notin Less
  BY <1>1, WFMin
<1>3. ASSUME NEW y \in T, ~(x <= y) PROVE FALSE
  <2>1. x \in Nat /\ y \in Nat /\ y < x
    BY <1>3
  <2>2. <<y, x>> \in Less
    BY <2>1
  <2> QED BY <1>2, <2>2
<1> QED BY <1>3

\* A part of a sequence, by what is in it.
LEMMA Part ==
  ASSUME NEW S, NEW s \in Seq(S), NEW a \in 1 .. Len(s) + 1, NEW e \in a - 1 .. Len(s)
  PROVE  /\ SubSeq(s, a, e) \in Seq(S)
         /\ Len(SubSeq(s, a, e)) = e - a + 1
         /\ \A i \in 1 .. e - a + 1 : SubSeq(s, a, e)[i] = s[a + i - 1]
<1>1. Len(s) \in Nat /\ \A i \in 1 .. Len(s) : s[i] \in S
  BY ElementOfSeq, LenProperties
<1>2. a \in Int /\ e \in Int /\ \A i \in a .. e : s[i] \in S
  BY <1>1
<1>3. /\ SubSeq(s, a, e) \in Seq(S)
      /\ Len(SubSeq(s, a, e)) = IF a <= e THEN e - a + 1 ELSE 0
      /\ \A i \in 1 .. e - a + 1 : SubSeq(s, a, e)[i] = s[a + i - 1]
  BY <1>2, SubSeqProperties
<1> QED BY <1>1, <1>3

\* A part of a part is a part.
LEMMA PartOfPart ==
  ASSUME NEW S, NEW s \in Seq(S), NEW a \in 1 .. Len(s) + 1, NEW e \in a - 1 .. Len(s),
         NEW m \in 1 .. e - a + 2, NEW n \in m - 1 .. e - a + 1
  PROVE  SubSeq(SubSeq(s, a, e), m, n) = SubSeq(s, a + m - 1, a + n - 1)
<1> DEFINE t == SubSeq(s, a, e)
<1>0. Len(s) \in Nat
  BY LenProperties
<1>1. t \in Seq(S) /\ Len(t) = e - a + 1 /\ \A i \in 1 .. e - a + 1 : t[i] = s[a + i - 1]
  BY Part
<1> HIDE DEF t
<1>2. m \in 1 .. Len(t) + 1 /\ n \in m - 1 .. Len(t)
  BY <1>1
<1>3. /\ SubSeq(t, m, n) \in Seq(S) /\ Len(SubSeq(t, m, n)) = n - m + 1
      /\ \A i \in 1 .. n - m + 1 : SubSeq(t, m, n)[i] = t[m + i - 1]
  BY <1>1, <1>2, Part
<1> DEFINE b == a + m - 1
           f == a + n - 1
<1>4. b \in 1 .. Len(s) + 1 /\ f \in b - 1 .. Len(s) /\ f - b + 1 = n - m + 1
  BY <1>0
<1>5. \A i \in 1 .. n - m + 1 : b + i - 1 = a + (m + i - 1) - 1 /\ m + i - 1 \in 1 .. e - a + 1
  OBVIOUS
<1> HIDE DEF b, f
<1>6. /\ SubSeq(s, b, f) \in Seq(S) /\ Len(SubSeq(s, b, f)) = n - m + 1
      /\ \A i \in 1 .. n - m + 1 : SubSeq(s, b, f)[i] = s[b + i - 1]
  BY <1>4, Part
<1>7. \A i \in 1 .. n - m + 1 : SubSeq(t, m, n)[i] = SubSeq(s, b, f)[i]
  BY <1>1, <1>3, <1>5, <1>6
<1>8. SubSeq(t, m, n) = SubSeq(s, b, f)
  BY <1>3, <1>6, <1>7, SeqEqual
<1> QED BY <1>8 DEF t, b, f

\* Where a symbol is found.
LEMMA IndexOfFacts ==
  ASSUME NEW s \in Seq(Symbols), NEW c, NEW from \in Nat \ {0}, from <= Len(s) + 1
  PROVE  /\ IndexOf(s, c, from) \in from .. Len(s) + 1
         /\ IndexOf(s, c, from) <= Len(s) => s[IndexOf(s, c, from)] = c
         /\ \A i \in from .. IndexOf(s, c, from) - 1 : s[i] # c
<1> DEFINE at == {i \in from .. Len(s) : s[i] = c}
<1>0. Len(s) \in Nat
  BY LenProperties
<1>1. CASE at = {}
  <2>1. IndexOf(s, c, from) = Len(s) + 1
    BY <1>1 DEF IndexOf
  <2> QED BY <1>0, <1>1, <2>1
<1>2. CASE at # {}
  <2>1. \E i \in at : \A j \in at : i <= j
    <3>1. at \subseteq Nat
      BY <1>0
    <3> HIDE DEF at
    <3> QED BY <1>2, <3>1, LeastNat
  <2>2. IndexOf(s, c, from) = CHOOSE i \in at : \A j \in at : i <= j
    BY <1>2 DEF IndexOf
  <2> DEFINE x == IndexOf(s, c, from)
  <2>3. x \in at /\ \A j \in at : x <= j
    BY <2>1, <2>2
  <2> HIDE DEF x
  <2> QED BY <1>0, <2>3 DEF x
<1> QED BY <1>1, <1>2

-----------------------------------------------------------------------------
(***************************************************************************)
(* Lines of a request, and of as much of it as has been read.              *)
(***************************************************************************)

\* No two lines begin at the same place, and a line begins behind the separator of
\* the one before it.
LEMMA LinesApart ==
  ASSUME NEW r \in Seq(Symbols), NEW a, NEW e, IsLine(r, a, e), NEW x, Starts(r, x)
  PROVE  /\ a \in Nat \ {0} /\ e \in a .. Len(r) - 1 /\ x \in Nat \ {0}
         /\ a < x => e + 2 <= x
         /\ \A f : IsLine(r, x, f) /\ a = x => e = f
<1>0. Len(r) \in Nat
  BY LenProperties
<1>1. /\ a \in Nat \ {0} /\ e \in a .. Len(r) - 1 /\ x \in Nat \ {0}
      /\ EndAt(r, e) /\ \A f \in a .. e - 1 : ~EndAt(r, f)
  BY <1>0 DEF IsLine, Starts, EndAt
<1>2. ASSUME a < x PROVE e + 2 <= x
  <2>1. EndAt(r, x - 2) /\ x - 2 \in 1 .. Len(r) - 1
    BY <1>1, <1>2 DEF Starts, EndAt
  <2>2. r[x - 2] = "cr" /\ r[x - 1] = "lf"
    BY <1>1, <2>1 DEF EndAt
  <2>3. a # 1 => r[a - 2] = "cr" /\ r[a - 1] = "lf"
    BY <1>1 DEF IsLine, Starts, EndAt
  <2>4. a # x - 1
    BY <2>2, <2>3, <1>1, <2>1
  <2>5. x - 2 \notin a .. e - 1
    BY <1>1, <2>1
  <2> QED BY <1>1, <1>2, <2>1, <2>4, <2>5
<1>3. ASSUME NEW f, IsLine(r, x, f), a = x PROVE e = f
  <2>1. EndAt(r, f) /\ f \in Nat /\ a <= f /\ \A g \in a .. f - 1 : ~EndAt(r, g)
    BY <1>3, <1>0 DEF IsLine, EndAt
  <2>2. e \notin a .. f - 1 /\ f \notin a .. e - 1
    BY <1>1, <2>1
  <2> QED BY <1>1, <2>1, <2>2
<1> QED BY <1>1, <1>2, <1>3

\* Behind a line separator there is the start of a line, and the first separator from
\* there on ends that line.
LEMMA LineHere ==
  ASSUME NEW r \in Seq(Symbols), NEW a, Starts(r, a), NEW e, EndAt(r, e), a <= e,
         \A f \in a .. e - 1 : ~EndAt(r, f)
  PROVE  IsLine(r, a, e) /\ Starts(r, e + 2)
<1>0. Len(r) \in Nat
  BY LenProperties
<1>1. e \in Nat /\ (e + 2) - 2 = e
  BY <1>0 DEF EndAt
<1>2. Starts(r, e + 2)
  BY <1>1 DEF Starts
<1> QED BY <1>2 DEF IsLine

\* The lines of what has been read are those of the request that have been read.
LEMMA EndRead ==
  ASSUME NEW r \in Seq(Symbols), NEW n \in 0 .. Len(r), NEW e
  PROVE  /\ EndAt(SubSeq(r, 1, n), e) <=> EndAt(r, e) /\ e + 1 <= n
         /\ Len(SubSeq(r, 1, n)) = n /\ SubSeq(r, 1, n) \in Seq(Symbols)
         /\ \A i \in 1 .. n : SubSeq(r, 1, n)[i] = r[i]
<1> DEFINE g == SubSeq(r, 1, n)
<1>0. Len(r) \in Nat
  BY LenProperties
<1>1. /\ g \in Seq(Symbols) /\ Len(g) = n - 1 + 1
      /\ \A i \in 1 .. n - 1 + 1 : g[i] = r[1 + i - 1]
  <2>1. 1 \in 1 .. Len(r) + 1 /\ n \in 1 - 1 .. Len(r)
    BY <1>0
  <2> QED BY <2>1, Part
<1>2. \A i \in 1 .. n : 1 + i - 1 = i
  OBVIOUS
<1> HIDE DEF g
<1>3. Len(g) = n /\ \A i \in 1 .. n : g[i] = r[i]
  BY <1>1, <1>2
<1>4. EndAt(g, e) <=> EndAt(r, e) /\ e + 1 <= n
  <2>1. e \in 1 .. n - 1 => g[e] = r[e] /\ g[e + 1] = r[e + 1]
    BY <1>3
  <2> QED BY <1>0, <1>3, <2>1 DEF EndAt
<1> QED BY <1>1, <1>3, <1>4 DEF g

\* And so are the places where they start.
LEMMA LineRead ==
  ASSUME NEW r \in Seq(Symbols), NEW n \in 0 .. Len(r), NEW a, NEW e
  PROVE  IsLine(SubSeq(r, 1, n), a, e) <=> IsLine(r, a, e) /\ e + 1 <= n
<1> DEFINE g == SubSeq(r, 1, n)
<1>0. Len(r) \in Nat
  BY LenProperties
<1>1. \A f : EndAt(g, f) <=> EndAt(r, f) /\ f + 1 <= n
  BY EndRead
<1> HIDE DEF g
<1>2. ASSUME EndAt(r, e), e + 1 <= n, a \in Nat, a <= e
      PROVE  /\ Starts(g, a) <=> Starts(r, a)
             /\ \A f \in a .. e - 1 : EndAt(g, f) <=> EndAt(r, f)
  <2>1. e \in Nat
    BY <1>0, <1>2 DEF EndAt
  <2>2. EndAt(g, a - 2) <=> EndAt(r, a - 2)
    BY <1>1, <1>2, <2>1
  <2> QED BY <1>1, <1>2, <2>1, <2>2 DEF Starts
<1>3. a \in Nat \/ (~IsLine(g, a, e) /\ ~IsLine(r, a, e))
  BY DEF IsLine, Starts
<1>4. IsLine(g, a, e) <=> IsLine(r, a, e) /\ e + 1 <= n
  BY <1>1, <1>2, <1>3 DEF IsLine
<1> QED BY <1>4 DEF g

\* LinesOf finds the lines.
LEMMA LinesDef ==
  ASSUME NEW r \in Seq(Symbols)
  PROVE  /\ \A a, e : <<a, e>> \in LinesOf(r) <=> IsLine(r, a, e)
         /\ \A l \in LinesOf(r) : l = <<l[1], l[2]>> /\ IsLine(r, l[1], l[2])
<1> DEFINE ends   == {e \in 1 .. Len(r) - 1 : r[e] = "cr" /\ r[e + 1] = "lf"}
           starts == {1} \cup {e + 2 : e \in ends}
           Inner(l) == l[1] <= l[2] /\ ~ \E e \in ends : l[1] <= e /\ e < l[2]
<1>0. Len(r) \in Nat
  BY LenProperties
<1>1. LinesOf(r) = {l \in starts \X ends : Inner(l)}
  BY DEF LinesOf
<1>2. \A e : e \in ends <=> EndAt(r, e)
  BY DEF EndAt
<1>3. ends \subseteq Nat
  BY <1>0
<1> HIDE DEF ends
<1>4. \A a : a \in starts <=> Starts(r, a)
  <2>1. ASSUME NEW a, a \in starts PROVE Starts(r, a)
    <3>1. CASE a = 1
      BY <3>1 DEF Starts
    <3>2. CASE a # 1
      <4>1. PICK e \in ends : a = e + 2
        BY <2>1, <3>2
      <4>2. a \in Nat /\ a - 2 = e
        BY <1>3, <4>1
      <4> QED BY <1>2, <4>2 DEF Starts
    <3> QED BY <3>1, <3>2
  <2>2. ASSUME NEW a, Starts(r, a) PROVE a \in starts
    <3>1. CASE a # 1
      <4>1. a \in Nat /\ a - 2 \in ends /\ a = (a - 2) + 2
        BY <1>2, <2>2, <3>1 DEF Starts
      <4> QED BY <4>1
    <3> QED BY <3>1
  <2> QED BY <2>1, <2>2
<1> HIDE DEF starts
<1>5. \A a, e : <<a, e>> \in starts \X ends /\ Inner(<<a, e>>) <=> IsLine(r, a, e)
  <2>1. ASSUME NEW a, NEW e
        PROVE  a \in starts /\ e \in ends /\ Inner(<<a, e>>) <=> IsLine(r, a, e)
    <3>1. Inner(<<a, e>>) <=> a <= e /\ ~ \E f \in ends : a <= f /\ f < e
      OBVIOUS
    <3> HIDE DEF Inner
    <3>2. ASSUME a \in Nat, e \in Nat
          PROVE  (\E f \in ends : a <= f /\ f < e) <=> (\E f \in a .. e - 1 : EndAt(r, f))
      BY <1>2, <1>3, <3>2
    <3>3. a \in starts => a \in Nat
      BY <1>4 DEF Starts
    <3>4. e \in ends => e \in Nat
      BY <1>3
    <3>5. ASSUME a \in starts, e \in ends
          PROVE  Inner(<<a, e>>) <=> a <= e /\ \A f \in a .. e - 1 : ~EndAt(r, f)
      BY <3>1, <3>2, <3>3, <3>4, <3>5
    <3> QED BY <1>2, <1>4, <3>5 DEF IsLine
  <2> QED BY <2>1
<1> HIDE DEF Inner
<1>6. \A l \in starts \X ends : l = <<l[1], l[2]>>
  OBVIOUS
<1>7. \A a, e : <<a, e>> \in LinesOf(r) <=> IsLine(r, a, e)
  BY <1>1, <1>5
<1>8. \A l \in LinesOf(r) : l = <<l[1], l[2]>>
  BY <1>1, <1>6
<1>9. \A l \in LinesOf(r) : IsLine(r, l[1], l[2])
  BY <1>7, <1>8
<1> QED BY <1>7, <1>8, <1>9

-----------------------------------------------------------------------------
(***************************************************************************)
(* The ends of headers, the starts of fields, and the fields.              *)
(***************************************************************************)

\* The empty lines that have been read.
LEMMA HeaderEndsRead ==
  ASSUME NEW r \in Seq(Symbols), NEW n \in 0 .. Len(r)
  PROVE  LET ends == HeaderEnds(SubSeq(r, 1, n)) IN
         /\ \A a : <<a, a>> \in ends <=> EmptyAt(r, a) /\ a + 1 <= n
         /\ \A l \in ends : /\ l = <<l[1], l[1]>> /\ EmptyAt(r, l[1])
                            /\ l[1] + 1 <= n /\ l[2] = l[1] /\ l[1] \in Nat \ {0}
<1> DEFINE g == SubSeq(r, 1, n)
<1>0. g \in Seq(Symbols)
  BY EndRead
<1>1. \A a, e : IsLine(g, a, e) <=> IsLine(r, a, e) /\ e + 1 <= n
  BY LineRead
<1> HIDE DEF g
<1>2. /\ \A a, e : <<a, e>> \in LinesOf(g) <=> IsLine(r, a, e) /\ e + 1 <= n
      /\ \A l \in LinesOf(g) : l = <<l[1], l[2]>> /\ IsLine(r, l[1], l[2]) /\ l[2] + 1 <= n
  BY <1>0, <1>1, LinesDef
<1>3. \A a : <<a, a>> \in HeaderEnds(g) <=> EmptyAt(r, a) /\ a + 1 <= n
  <2>1. ASSUME NEW a PROVE <<a, a>> \in HeaderEnds(g) <=> EmptyAt(r, a) /\ a + 1 <= n
    <3>1. <<a, a>>[1] = a /\ <<a, a>>[2] = a
      OBVIOUS
    <3>2. <<a, a>> \in HeaderEnds(g) <=> <<a, a>> \in LinesOf(g) /\ 1 < a
      BY <3>1 DEF HeaderEnds
    <3> QED BY <3>2, <1>2 DEF EmptyAt
  <2> QED BY <2>1
<1>4. ASSUME NEW l \in HeaderEnds(g)
      PROVE  /\ l = <<l[1], l[1]>> /\ EmptyAt(r, l[1])
             /\ l[1] + 1 <= n /\ l[2] = l[1] /\ l[1] \in Nat \ {0}
  <2>1. l \in LinesOf(g) /\ l[1] = l[2] /\ 1 < l[1]
    BY DEF HeaderEnds
  <2>2. l = <<l[1], l[2]>> /\ IsLine(r, l[1], l[2]) /\ l[2] + 1 <= n
    BY <1>2, <2>1
  <2>3. l[1] \in Nat
    BY <2>2 DEF IsLine, Starts
  <2> QED BY <2>1, <2>2, <2>3 DEF EmptyAt
<1> QED BY <1>3, <1>4 DEF g

\* The starts of fields that have been read.
LEMMA FieldStartsRead ==
  ASSUME NEW r \in Seq(Symbols), NEW n \in 0 .. Len(r)
  PROVE  LET starts == FieldStarts(SubSeq(r, 1, n)) IN
         /\ \A a, e : <<a, e>> \in starts <=> FieldAt(r, a) /\ IsLine(r, a, e) /\ e + 1 <= n
         /\ \A l \in starts : /\ l = <<l[1], l[2]>> /\ FieldAt(r, l[1])
                              /\ IsLine(r, l[1], l[2]) /\ l[2] + 1 <= n
<1> DEFINE g == SubSeq(r, 1, n)
<1>z. Len(r) \in Nat
  BY LenProperties
<1>0. g \in Seq(Symbols) /\ \A i \in 1 .. n : g[i] = r[i]
  BY EndRead
<1>1. \A a, e : IsLine(g, a, e) <=> IsLine(r, a, e) /\ e + 1 <= n
  BY LineRead
<1>h. /\ \A a : <<a, a>> \in HeaderEnds(g) <=> EmptyAt(r, a) /\ a + 1 <= n
      /\ \A l \in HeaderEnds(g) : EmptyAt(r, l[1]) /\ l[1] \in Nat \ {0}
  BY HeaderEndsRead
<1> HIDE DEF g
<1>2. /\ \A a, e : <<a, e>> \in LinesOf(g) <=> IsLine(r, a, e) /\ e + 1 <= n
      /\ \A l \in LinesOf(g) : l = <<l[1], l[2]>> /\ IsLine(r, l[1], l[2]) /\ l[2] + 1 <= n
  BY <1>0, <1>1, LinesDef
<1>3. ASSUME NEW a, NEW e, IsLine(r, a, e), e + 1 <= n
      PROVE  <<a, e>> \in FieldStarts(g) <=> FieldAt(r, a)
  <2>1. a \in Nat \ {0} /\ e \in a .. Len(r) - 1
    BY <1>3, LinesApart DEF IsLine
  <2>2. /\ <<a, e>> \in LinesOf(g) /\ <<a, e>>[1] = a
        /\ g[a] = r[a]
    BY <1>0, <1>2, <1>3, <2>1
  <2>3. InHeader(g, <<a, e>>) <=> 1 < a /\ \A h \in 2 .. a : ~EmptyAt(r, h)
    <3>1. ASSUME NEW h \in 2 .. a, EmptyAt(r, h), \A k \in HeaderEnds(g) : a < k[1] PROVE FALSE
      <4>1. h + 1 <= n
        BY <1>3, <1>z, <2>1
      <4>2. <<h, h>> \in HeaderEnds(g) /\ <<h, h>>[1] = h
        BY <1>h, <3>1, <4>1
      <4>3. a < h
        BY <3>1, <4>2
      <4> QED BY <4>3, <2>1
    <3>2. ASSUME \A h \in 2 .. a : ~EmptyAt(r, h), NEW k \in HeaderEnds(g) PROVE a < k[1]
      <4>1. EmptyAt(r, k[1]) /\ k[1] \in Nat /\ 1 < k[1]
        BY <1>h DEF EmptyAt
      <4> QED BY <3>2, <4>1, <2>1
    <3> QED BY <2>2, <3>1, <3>2 DEF InHeader
  <2>4. (\E k \in LinesOf(g) : k[1] = 1 /\ k[2] + 2 = a) <=> IsLine(r, 1, a - 2)
    <3>1. ASSUME NEW k \in LinesOf(g), k[1] = 1, k[2] + 2 = a PROVE IsLine(r, 1, a - 2)
      <4>1. IsLine(r, 1, k[2])
        BY <1>2, <3>1
      <4>2. k[2] \in Nat
        BY <1>z, <4>1 DEF IsLine, EndAt
      <4>3. k[2] = a - 2
        BY <3>1, <4>2
      <4> QED BY <4>1, <4>3
    <3>2. ASSUME IsLine(r, 1, a - 2) PROVE \E k \in LinesOf(g) : k[1] = 1 /\ k[2] + 2 = a
      <4>1. (a - 2) + 1 <= n /\ (a - 2) + 2 = a
        BY <1>3, <1>z, <2>1
      <4>2. <<1, a - 2>> \in LinesOf(g)
        BY <1>2, <3>2, <4>1
      <4> QED BY <4>1, <4>2
    <3> QED BY <3>1, <3>2
  <2>5. <<a, e>> \in FieldStarts(g) <=>
          InHeader(g, <<a, e>>) /\ (r[a] # "sp" \/ IsLine(r, 1, a - 2))
    BY <2>2, <2>4 DEF FieldStarts
  <2>6. \E f \in 1 .. Len(r) : IsLine(r, a, f)
    BY <1>3, <1>z, <2>1
  <2> QED BY <2>3, <2>5, <2>6 DEF FieldAt
<1>4. \A l \in FieldStarts(g) : l \in LinesOf(g)
  BY DEF FieldStarts
<1>5. \A a, e : <<a, e>> \in FieldStarts(g) => IsLine(r, a, e) /\ e + 1 <= n
  BY <1>2, <1>4
<1>6. \A a, e : <<a, e>> \in FieldStarts(g) <=> FieldAt(r, a) /\ IsLine(r, a, e) /\ e + 1 <= n
  BY <1>3, <1>5
<1>7. ASSUME NEW l \in FieldStarts(g)
      PROVE  l = <<l[1], l[2]>> /\ FieldAt(r, l[1]) /\ IsLine(r, l[1], l[2]) /\ l[2] + 1 <= n
  <2>1. l = <<l[1], l[2]>> /\ <<l[1], l[2]>> \in FieldStarts(g)
    BY <1>2, <1>4
  <2> QED BY <1>6, <2>1
<1> QED BY <1>6, <1>7 DEF g

\* What stops a field is the first position of a line.
LEMMA StopFacts ==
  ASSUME NEW r \in Seq(Symbols), NEW x, Stop(r, x)
  PROVE  x \in Nat /\ 1 < x /\ \E e \in Nat : IsLine(r, x, e) /\ e < Len(r) /\ x <= e
<1>0. Len(r) \in Nat
  BY LenProperties
<1>1. 1 < x /\ \E e : IsLine(r, x, e)
  BY DEF Stop, FieldAt, EmptyAt
<1>2. PICK e : IsLine(r, x, e)
  BY <1>1
<1>3. x \in Nat \ {0} /\ e \in x .. Len(r) - 1
  BY <1>2, LinesApart DEF IsLine
<1> QED BY <1>0, <1>1, <1>2, <1>3

\* A field that something stops in what has been read is complete, and its text goes
\* up to what stops it first.
LEMMA SettledText ==
  ASSUME NEW r \in Seq(Symbols), NEW n \in 0 .. Len(r),
         NEW l \in FieldStarts(SubSeq(r, 1, n)),
         NEW k \in FieldStarts(SubSeq(r, 1, n)) \cup HeaderEnds(SubSeq(r, 1, n)), k[1] > l[1]
  PROVE  \E x \in Nat : /\ NextStop(r, l[1], x) /\ x <= k[1]
                        /\ FieldText(SubSeq(r, 1, n), l) = Text(r, l[1], x)
<1> DEFINE g == SubSeq(r, 1, n)
           stops == FieldStarts(g) \cup HeaderEnds(g)
           behind == {o \in stops : o[1] > l[1]}
           T == {o[1] : o \in behind}
           a == l[1]
<1>z. Len(r) \in Nat
  BY LenProperties
<1>0. /\ FieldAt(r, a) /\ IsLine(r, a, l[2])
      /\ \A o \in FieldStarts(g) : FieldAt(r, o[1]) /\ IsLine(r, o[1], o[2]) /\ o[2] + 1 <= n
      /\ \A b, e : FieldAt(r, b) /\ IsLine(r, b, e) /\ e + 1 <= n => <<b, e>> \in FieldStarts(g)
  BY FieldStartsRead
<1>1. /\ \A o \in HeaderEnds(g) : EmptyAt(r, o[1]) /\ o[1] + 1 <= n
      /\ \A b : EmptyAt(r, b) /\ b + 1 <= n => <<b, b>> \in HeaderEnds(g)
  BY HeaderEndsRead
<1>2. FieldEnd(g, l) = (CHOOSE o \in behind : \A p \in behind : o[1] <= p[1])[1] - 3
  BY DEF FieldEnd
<1>a. l \in FieldStarts(g) /\ k \in stops /\ k[1] > a
  OBVIOUS
<1>t. FieldText(g, l) = SubSeq(g, a, FieldEnd(g, l))
  BY DEF FieldText
<1>s. \A b \in Nat, e \in Nat : b <= e + 1 /\ e <= n /\ 1 <= b => SubSeq(g, b, e) = SubSeq(r, b, e)
  <2>1. ASSUME NEW b \in Nat, NEW e \in Nat, b <= e + 1, e <= n, 1 <= b
        PROVE  SubSeq(g, b, e) = SubSeq(r, b, e)
    <3>1. /\ 1 \in 1 .. Len(r) + 1 /\ n \in 1 - 1 .. Len(r)
          /\ b \in 1 .. n - 1 + 2 /\ e \in b - 1 .. n - 1 + 1
      BY <1>z, <2>1
    <3>2. SubSeq(g, b, e) = SubSeq(r, 1 + b - 1, 1 + e - 1)
      BY <3>1, PartOfPart
    <3>3. 1 + b - 1 = b /\ 1 + e - 1 = e
      BY <2>1
    <3> QED BY <3>2, <3>3
  <2> QED BY <2>1
<1> HIDE DEF g, a
<1>3. \A o \in stops : /\ Stop(r, o[1]) /\ o[1] \in Nat
                       /\ \E e \in Nat : IsLine(r, o[1], e) /\ e + 1 <= n
  <2>1. ASSUME NEW o \in FieldStarts(g)
        PROVE  Stop(r, o[1]) /\ o[1] \in Nat /\ \E e \in Nat : IsLine(r, o[1], e) /\ e + 1 <= n
    <3>1. FieldAt(r, o[1]) /\ IsLine(r, o[1], o[2]) /\ o[2] + 1 <= n
      BY <1>0
    <3>2. o[1] \in Nat /\ o[2] \in Nat
      BY <1>z, <3>1 DEF IsLine, Starts, EndAt
    <3> QED BY <3>1, <3>2 DEF Stop
  <2>2. ASSUME NEW o \in HeaderEnds(g)
        PROVE  Stop(r, o[1]) /\ o[1] \in Nat /\ \E e \in Nat : IsLine(r, o[1], e) /\ e + 1 <= n
    <3>1. EmptyAt(r, o[1]) /\ o[1] + 1 <= n
      BY <1>1
    <3>2. o[1] \in Nat /\ IsLine(r, o[1], o[1])
      BY <3>1 DEF IsLine, Starts, EmptyAt
    <3> QED BY <3>1, <3>2 DEF Stop
  <2> QED BY <2>1, <2>2
<1>4. ASSUME NEW y, Stop(r, y), NEW e \in Nat, IsLine(r, y, e), e + 1 <= n
      PROVE  \E o \in stops : o[1] = y
  <2>1. CASE FieldAt(r, y)
    <3>1. <<y, e>> \in stops /\ <<y, e>>[1] = y
      BY <1>0, <1>4, <2>1
    <3> QED BY <3>1
  <2>2. CASE EmptyAt(r, y)
    <3>1. y = e
      BY <1>4, <2>2, LinesApart DEF EmptyAt, IsLine
    <3>2. <<y, y>> \in stops /\ <<y, y>>[1] = y
      BY <1>1, <1>4, <2>2, <3>1
    <3> QED BY <3>2
  <2> QED BY <1>4, <2>1, <2>2 DEF Stop
<1> HIDE DEF stops
<1>5. PICK x \in T : \A y \in T : x <= y
  <2>1. T \subseteq Nat
    BY <1>3
  <2>2. k[1] \in T
    BY <1>a
  <2> HIDE DEF T
  <2> QED BY <2>1, <2>2, LeastNat
<1>6. PICK least \in behind : least[1] = x
  BY <1>5
<1>7. \A o \in behind : o[1] \in T
  OBVIOUS
<1>8. \A o \in behind : least[1] <= o[1]
  BY <1>5, <1>6, <1>7
<1> DEFINE first == CHOOSE o \in behind : \A p \in behind : o[1] <= p[1]
<1>9. first \in behind /\ \A o \in behind : first[1] <= o[1]
  BY <1>8
<1>10. FieldEnd(g, l) = first[1] - 3
  BY <1>2
<1> HIDE DEF first, T
<1>11. first[1] \in Nat /\ Stop(r, first[1]) /\ a < first[1] /\ first[1] <= k[1] /\ a \in Nat \ {0}
       /\ \E e \in Nat : IsLine(r, first[1], e) /\ e + 1 <= n
  <2>1. a \in Nat \ {0}
    BY <1>0, LinesApart DEF IsLine
  <2>2. first \in stops /\ first[1] > a
    BY <1>9 DEF a
  <2>3. k \in behind
    BY <1>a DEF a
  <2> QED BY <1>3, <1>9, <2>1, <2>2, <2>3
<1>12. NextStop(r, a, first[1])
  <2>1. ASSUME NEW y \in a + 1 .. first[1] - 1, Stop(r, y) PROVE FALSE
    <3>1. PICK e \in Nat : IsLine(r, y, e)
      BY <2>1, StopFacts
    <3>2. PICK d \in Nat : IsLine(r, first[1], d) /\ d + 1 <= n
      BY <1>11
    <3>3. y \in Nat /\ y < first[1] /\ a < y
      BY <1>11
    <3>4. e + 2 <= first[1] /\ first[1] <= d
      BY <3>1, <3>2, <3>3, LinesApart DEF IsLine
    <3>5. e + 1 <= n
      BY <1>11, <3>2, <3>4
    <3>6. PICK o \in stops : o[1] = y
      BY <1>4, <2>1, <3>1, <3>5
    <3>7. o \in behind
      BY <3>3, <3>6 DEF a
    <3>8. first[1] <= y
      BY <1>9, <3>6, <3>7
    <3> QED BY <1>11, <3>3, <3>8
  <2> QED BY <1>11, <2>1 DEF NextStop
<1>13. FieldText(g, l) = Text(r, a, first[1])
  <2>1. PICK d \in Nat : IsLine(r, first[1], d) /\ d + 1 <= n
    BY <1>11
  <2>2. a + 3 <= first[1] /\ first[1] <= d
    <3>1. IsLine(r, a, l[2]) /\ Starts(r, first[1])
      BY <1>0, <2>1 DEF IsLine
    <3>2. l[2] + 2 <= first[1] /\ l[2] \in a .. Len(r) - 1
      BY <1>11, <3>1, LinesApart
    <3>3. a # l[2]
      BY <1>0, <1>11, <3>1 DEF FieldAt, EmptyAt
    <3>4. first[1] <= d
      BY <2>1 DEF IsLine
    <3> QED BY <1>11, <1>z, <3>2, <3>3, <3>4
  <2>3. first[1] - 3 \in Nat /\ a <= first[1] - 3 + 1 /\ first[1] - 3 <= n
    BY <1>11, <2>1, <2>2
  <2>4. SubSeq(g, a, first[1] - 3) = SubSeq(r, a, first[1] - 3)
    <3> DEFINE last == first[1] - 3
    <3>1. last \in Nat /\ a \in Nat /\ a <= last + 1 /\ last <= n /\ 1 <= a
      BY <1>11, <2>3
    <3> HIDE DEF last
    <3>2. SubSeq(g, a, last) = SubSeq(r, a, last)
      BY <1>s, <3>1
    <3> QED BY <3>2 DEF last
  <2> QED BY <1>10, <1>t, <2>4 DEF Text, a
<1> QED BY <1>11, <1>12, <1>13 DEF a, g

\* There is only one place where a field stops.
LEMMA NextStopUnique ==
  ASSUME NEW r \in Seq(Symbols), NEW a \in Nat, NEW x, NEW y,
         NextStop(r, a, x), NextStop(r, a, y)
  PROVE  x = y
  BY DEF NextStop

-----------------------------------------------------------------------------
(***************************************************************************)
(* The first line, and the fields.                                         *)
(***************************************************************************)

\* A request line is taken apart exactly if it is one.
LEMMA RequestLineGood ==
  ASSUME NEW s \in Seq(Symbols)
  PROVE  LET pathAt    == IndexOf(s, "sp", 1)
             versionAt == IndexOf(s, "sp", pathAt + 1)
         IN  /\ 1 < pathAt /\ pathAt + 1 < versionAt /\ versionAt < Len(s) <=> GoodRequestLine(s)
             /\ 1 < pathAt /\ pathAt + 1 < versionAt /\ versionAt < Len(s) =>
                  (SubSeq(s, 1, pathAt - 1) = <<"GET">> <=> s[1] = "GET" /\ s[2] = "sp")
<1> DEFINE p == IndexOf(s, "sp", 1)
           v == IndexOf(s, "sp", p + 1)
<1>0. Len(s) \in Nat
  BY LenProperties
<1>1. /\ p \in 1 .. Len(s) + 1 /\ (p <= Len(s) => s[p] = "sp")
      /\ \A i \in 1 .. p - 1 : s[i] # "sp"
  BY <1>0, IndexOfFacts
<1>2. p <= Len(s) => /\ v \in p + 1 .. Len(s) + 1 /\ (v <= Len(s) => s[v] = "sp")
                     /\ \A i \in p + 1 .. v - 1 : s[i] # "sp"
  <2>1. ASSUME p <= Len(s) PROVE p + 1 \in Nat \ {0} /\ p + 1 <= Len(s) + 1
    BY <1>0, <1>1, <2>1
  <2> HIDE DEF p
  <2> QED BY <2>1, IndexOfFacts
<1>3. ASSUME NEW q, q = p, NEW w, w = v
      PROVE  1 < q /\ q + 1 < w /\ w < Len(s) <=> GoodRequestLine(s)
  <2> HIDE DEF p, v
  <2>1. ASSUME 1 < q, q + 1 < w, w < Len(s), q <= Len(s) PROVE GoodRequestLine(s)
    <3>1. q \in 2 .. Len(s) - 1 /\ w \in 2 .. Len(s) - 1
      BY <1>0, <1>1, <1>2, <1>3, <2>1
    <3>2. s[q] = "sp" /\ s[w] = "sp"
      BY <1>0, <1>1, <1>2, <1>3, <2>1, <3>1
    <3>3. \A k \in 1 .. w - 1 : k # q => s[k] # "sp"
      BY <1>0, <1>1, <1>2, <1>3, <2>1, <3>1
    <3> QED BY <2>1, <3>1, <3>2, <3>3 DEF GoodRequestLine
  <2>2. ASSUME GoodRequestLine(s) PROVE 1 < q /\ q + 1 < w /\ w < Len(s)
    <3>1. PICK i \in 2 .. Len(s) - 1, j \in 2 .. Len(s) - 1 :
            /\ i + 1 < j /\ s[i] = "sp" /\ s[j] = "sp"
            /\ \A k \in 1 .. j - 1 : k # i => s[k] # "sp"
      BY <2>2 DEF GoodRequestLine
    <3>2. q = i
      BY <1>0, <1>1, <1>3, <3>1
    <3>3. w = j
      BY <1>0, <1>2, <1>3, <3>1, <3>2
    <3> QED BY <1>0, <3>1, <3>2, <3>3
  <2>3. 1 < q /\ q + 1 < w /\ w < Len(s) => q <= Len(s)
    <3>1. ASSUME q = Len(s) + 1, q + 1 < w, w < Len(s) PROVE FALSE
      <4>1. w \in Int
        <5>1. p + 1 = Len(s) + 2
          BY <1>0, <1>3, <3>1
        <5>2. v = Len(s) + 1
          <6>1. {i \in Len(s) + 2 .. Len(s) : s[i] = "sp"} = {}
            BY <1>0
          <6> QED BY <5>1, <6>1 DEF v, IndexOf
        <5> QED BY <1>0, <1>3, <5>2
      <4> QED BY <1>0, <3>1, <4>1
    <3> QED BY <1>0, <1>1, <1>3, <3>1
  <2> QED BY <2>1, <2>2, <2>3
<1>4. 1 < p /\ p + 1 < v /\ v < Len(s) <=> GoodRequestLine(s)
  BY <1>3
<1>5. ASSUME GoodRequestLine(s), 1 < p
      PROVE  SubSeq(s, 1, p - 1) = <<"GET">> <=> s[1] = "GET" /\ s[2] = "sp"
  <2> HIDE DEF p
  <2>1. p <= Len(s)
    BY <1>0, <1>1, <1>5 DEF GoodRequestLine
  <2>2. 1 \in 1 .. Len(s) + 1 /\ p - 1 \in 1 - 1 .. Len(s)
    BY <1>0, <1>1, <2>1
  <2>3. /\ Len(SubSeq(s, 1, p - 1)) = p - 1
        /\ SubSeq(s, 1, p - 1) \in Seq(Symbols)
        /\ SubSeq(s, 1, p - 1)[1] = s[1]
    <3>1. (p - 1) - 1 + 1 = p - 1 /\ 1 \in 1 .. (p - 1) - 1 + 1 /\ 1 + 1 - 1 = 1
      BY <1>1, <1>5
    <3> QED BY <2>2, <3>1, Part
  <2>4. ASSUME SubSeq(s, 1, p - 1) = <<"GET">> PROVE s[1] = "GET" /\ s[2] = "sp"
    <3> DEFINE t == SubSeq(s, 1, p - 1)
    <3>a. t = <<"GET">> /\ Len(t) = p - 1 /\ t[1] = s[1]
      BY <2>3, <2>4
    <3> HIDE DEF t
    <3>b. Len(t) = 1 /\ t[1] = "GET"
      BY <3>a
    <3>1. p - 1 = 1 /\ s[1] = "GET"
      BY <3>a, <3>b
    <3>2. p = 2
      BY <1>1, <3>1
    <3> QED BY <1>1, <2>1, <3>1, <3>2
  <2>5. ASSUME s[1] = "GET", s[2] = "sp" PROVE SubSeq(s, 1, p - 1) = <<"GET">>
    <3>1. p = 2
      BY <1>1, <1>5, <2>5
    <3>2. Len(SubSeq(s, 1, p - 1)) = 1 /\ SubSeq(s, 1, p - 1)[1] = "GET"
      BY <2>3, <2>5, <3>1
    <3> HIDE DEF p
    <3>3. <<"GET">> \in Seq(Symbols) /\ Len(<<"GET">>) = 1 /\ <<"GET">>[1] = "GET"
      BY DEF Symbols
    <3> DEFINE t == SubSeq(s, 1, p - 1)
    <3>4. t \in Seq(Symbols) /\ Len(t) = 1 /\ t[1] = "GET"
      BY <2>3, <3>2
    <3> HIDE DEF t
    <3>5. \A i \in 1 .. Len(t) : t[i] = <<"GET">>[i]
      BY <3>3, <3>4
    <3>6. t = <<"GET">>
      BY <3>3, <3>4, <3>5, SeqEqual
    <3> QED BY <3>6 DEF t
  <2> QED BY <2>4, <2>5
<1> QED BY <1>4, <1>5

\* The lines held back are appended exactly if they are a field.
LEMMA FieldGood ==
  ASSUME NEW s \in Seq(Symbols), s # <<>>
  PROVE  IndexOf(s, "colon", 1) \in 2 .. Len(s) <=> GoodField(s)
<1> DEFINE at == IndexOf(s, "colon", 1)
<1>0. Len(s) \in Nat /\ Len(s) # 0 /\ DOMAIN s = 1 .. Len(s)
  BY LenProperties, EmptySeq
<1>1. /\ at \in 1 .. Len(s) + 1 /\ (at <= Len(s) => s[at] = "colon")
      /\ \A i \in 1 .. at - 1 : s[i] # "colon"
  BY <1>0, IndexOfFacts
<1> HIDE DEF at
<1>2. ASSUME at \in 2 .. Len(s) PROVE GoodField(s)
  BY <1>0, <1>1, <1>2 DEF GoodField
<1>3. ASSUME GoodField(s) PROVE at \in 2 .. Len(s)
  BY <1>0, <1>1, <1>3 DEF GoodField
<1> QED BY <1>2, <1>3 DEF at

\* Where the lines held back end, the next line starts.
LEMMA FieldBehind ==
  ASSUME NEW r \in Seq(Symbols), NEW a, FieldAt(r, a), NEW p, Starts(r, p), a < p
  PROVE  a \in Nat /\ 1 < a /\ p \in Nat /\ a + 3 <= p /\ p - 2 \in 1 .. Len(r) - 1
<1>0. Len(r) \in Nat
  BY LenProperties
<1>1. PICK e \in 1 .. Len(r) : IsLine(r, a, e)
  BY DEF FieldAt
<1>2. a \in Nat \ {0} /\ e \in a .. Len(r) - 1 /\ p \in Nat \ {0} /\ e + 2 <= p
  BY <1>1, LinesApart
<1>3. 1 < a /\ \A h \in 2 .. a : ~EmptyAt(r, h)
  BY DEF FieldAt
<1>4. ~EmptyAt(r, a) /\ a # e
  BY <1>1, <1>2, <1>3 DEF EmptyAt
<1>5. p # 1 /\ EndAt(r, p - 2)
  BY <1>2 DEF Starts
<1> QED BY <1>0, <1>2, <1>3, <1>4, <1>5 DEF EndAt

\* A line that is not empty, in the header, and starts a field.
LEMMA FieldHere ==
  ASSUME NEW r \in Seq(Symbols), NEW p, NEW e, IsLine(r, p, e), 1 < p, p # e,
         NoEmptyBefore(r, p), r[p] # "sp" \/ IsLine(r, 1, p - 2)
  PROVE  FieldAt(r, p) /\ LastField(r, p, e + 2)
<1>0. Len(r) \in Nat
  BY LenProperties
<1>1. p \in Nat \ {0} /\ e \in p .. Len(r) - 1
  BY LinesApart DEF IsLine
<1>2. ASSUME NEW h \in 2 .. p, EmptyAt(r, h) PROVE FALSE
  <2>1. h = p
    BY <1>1, <1>2 DEF NoEmptyBefore
  <2>2. IsLine(r, p, p) /\ Starts(r, p)
    BY <1>2, <2>1 DEF EmptyAt, IsLine
  <2> QED BY <2>2, LinesApart
<1>3. FieldAt(r, p)
  BY <1>0, <1>1, <1>2 DEF FieldAt
<1>4. ASSUME NEW b \in p + 1 .. e + 1, FieldAt(r, b) PROVE FALSE
  <2>1. Starts(r, b)
    BY <1>4 DEF FieldAt, IsLine
  <2>2. e + 2 <= b
    BY <1>1, <2>1, LinesApart
  <2> QED BY <1>1, <2>2
<1> QED BY <1>1, <1>3, <1>4 DEF LastField

\* Directly behind the request line there is no field yet.
LEMMA NoFieldYet ==
  ASSUME NEW r \in Seq(Symbols), NEW p \in Nat, IsLine(r, 1, p - 2), NEW a, FieldAt(r, a), a < p
  PROVE  FALSE
<1>1. PICK e \in 1 .. Len(r) : IsLine(r, a, e)
  BY DEF FieldAt
<1>2. Starts(r, a) /\ 1 < a
  BY <1>1 DEF FieldAt, IsLine
<1>3. (p - 2) + 2 <= a /\ a \in Nat
  BY <1>2, LinesApart
<1> QED BY <1>3

\* An empty line is behind the header, or the first one that ends it.
LEMMA NoEmptyGrows ==
  ASSUME NEW r \in Seq(Symbols), NEW p, NEW e, IsLine(r, p, e), p # e, NoEmptyBefore(r, p)
  PROVE  NoEmptyBefore(r, e + 2)
<1>0. Len(r) \in Nat
  BY LenProperties
<1>1. p \in Nat \ {0} /\ e \in p .. Len(r) - 1
  BY LinesApart DEF IsLine
<1>2. ASSUME NEW h \in 2 .. (e + 2) - 1, EmptyAt(r, h) PROVE FALSE
  <2>1. IsLine(r, h, h) /\ Starts(r, h)
    BY <1>2 DEF EmptyAt, IsLine
  <2>2. h # p
    BY <2>1, LinesApart
  <2>3. ~(p < h)
    BY <1>1, <1>2, <2>1, LinesApart
  <2> QED BY <1>1, <1>2, <2>2, <2>3 DEF NoEmptyBefore
<1> QED BY <1>2 DEF NoEmptyBefore

\* Another line may complete a field.
LEMMA CheckedGrows ==
  ASSUME NEW r \in Seq(Symbols), NEW p, NEW e, IsLine(r, p, e), Checked(r, p - 1),
         \A a : FieldAt(r, a) /\ NextStop(r, a, p) => GoodField(Text(r, a, p))
  PROVE  Checked(r, e + 1)
<1>0. Len(r) \in Nat
  BY LenProperties
<1>1. p \in Nat \ {0} /\ e \in p .. Len(r) - 1
  BY LinesApart DEF IsLine
<1>2. ASSUME NEW a \in 1 .. e + 1, NEW x \in 1 .. e + 1, FieldAt(r, a), NextStop(r, a, x)
      PROVE  GoodField(Text(r, a, x))
  <2>1. x \in Nat /\ a < x /\ \E f \in Nat : IsLine(r, x, f)
    BY <1>2, StopFacts DEF NextStop
  <2>2. Starts(r, x)
    BY <2>1 DEF IsLine
  <2>3. ~(p < x)
    BY <1>1, <2>1, <2>2, LinesApart
  <2>4. CASE x = p
    BY <1>2, <2>4
  <2>5. CASE x # p
    <3>1. x \in 1 .. p - 1 /\ a \in 1 .. p - 1
      BY <1>1, <2>1, <2>3, <2>5
    <3> QED BY <1>2, <3>1 DEF Checked
  <2> QED BY <2>4, <2>5
<1> QED BY <1>2 DEF Checked

\* The last field is the one that the next stop ends.
LEMMA LastStops ==
  ASSUME NEW r \in Seq(Symbols), NEW p \in Nat, NEW a, LastField(r, a, p),
         NoEmptyBefore(r, p), Stop(r, p)
  PROVE  NextStop(r, a, p) /\ \A b : FieldAt(r, b) /\ NextStop(r, b, p) => b = a
<1>1. a \in 1 .. p - 1 /\ FieldAt(r, a) /\ \A b \in a + 1 .. p - 1 : ~FieldAt(r, b)
  BY DEF LastField
<1>2. \A y \in a + 1 .. p - 1 : ~Stop(r, y)
  BY <1>1 DEF Stop, NoEmptyBefore
<1>3. NextStop(r, a, p)
  BY <1>1, <1>2 DEF NextStop
<1>4. ASSUME NEW b, FieldAt(r, b), NextStop(r, b, p) PROVE b = a
  <2>1. b \in Nat
    BY <1>4 DEF FieldAt, IsLine, Starts
  <2>2. b < p /\ \A y \in b + 1 .. p - 1 : ~Stop(r, y)
    BY <1>4 DEF NextStop
  <2>3. Stop(r, a)
    BY <1>1 DEF Stop
  <2> QED BY <1>1, <1>4, <2>1, <2>2, <2>3
<1> QED BY <1>3, <1>4

\* A line added to those held back is what the request has there.
LEMMA TextJoins ==
  ASSUME NEW r \in Seq(Symbols), NEW a, FieldAt(r, a), NEW p, NEW e, IsLine(r, p, e), a < p
  PROVE  /\ Text(r, a, p) # <<>> /\ Text(r, a, p) \in Seq(Symbols)
         /\ Text(r, a, p) \o <<"cr", "lf">> \o SubSeq(r, p, e - 1) = Text(r, a, e + 2)
<1>0. Len(r) \in Nat
  BY LenProperties
<1>1. p \in Nat \ {0} /\ e \in p .. Len(r) - 1 /\ Starts(r, p)
  BY LinesApart DEF IsLine
<1>2. a \in Nat /\ 1 < a /\ a + 3 <= p
  BY <1>1, FieldBehind
<1>3. EndAt(r, p - 2)
  BY <1>2, <1>1 DEF Starts
<1>4. r[p - 2] = "cr" /\ r[p - 1] = "lf"
  BY <1>1, <1>3 DEF EndAt
<1>5. SubSeq(r, p - 2, p - 1) = <<"cr", "lf">>
  <2> DEFINE t == SubSeq(r, p - 2, p - 1)
             b == p - 2
             d == p - 1
  <2>1. b \in 1 .. Len(r) + 1 /\ d \in b - 1 .. Len(r)
    BY <1>0, <1>1, <1>2
  <2>a. d - b + 1 = 2 /\ b + 1 - 1 = p - 2 /\ b + 2 - 1 = p - 1
    BY <1>1
  <2>b. t = SubSeq(r, b, d)
    OBVIOUS
  <2> HIDE DEF t, b, d
  <2>2. t \in Seq(Symbols) /\ Len(t) = 2 /\ t[1] = r[p - 2] /\ t[2] = r[p - 1]
    <3>1. t \in Seq(Symbols) /\ Len(t) = d - b + 1 /\ \A i \in 1 .. d - b + 1 : t[i] = r[b + i - 1]
      BY <2>1, <2>b, Part
    <3> QED BY <2>a, <3>1
  <2>3. \A i \in 1 .. Len(t) : t[i] = <<"cr", "lf">>[i]
    BY <1>4, <2>2
  <2>4. <<"cr", "lf">> \in Seq(Symbols) /\ Len(<<"cr", "lf">>) = 2
    BY DEF Symbols
  <2>5. t = <<"cr", "lf">>
    BY <2>2, <2>3, <2>4, SeqEqual
  <2> QED BY <2>5 DEF t
<1>6. SubSeq(r, a, p - 3) \o SubSeq(r, p - 2, p - 1) = SubSeq(r, a, p - 1)
  <2>1. /\ a \in 1 .. Len(r) + 1 /\ p - 3 \in a - 1 .. Len(r) /\ p - 1 \in p - 3 .. Len(r)
        /\ (p - 3) + 1 = p - 2
    BY <1>0, <1>1, <1>2
  <2> QED BY <2>1, ConcatAdjacentSubSeq
<1>7. SubSeq(r, a, p - 1) \o SubSeq(r, p, e - 1) = SubSeq(r, a, e - 1)
  <2>1. /\ a \in 1 .. Len(r) + 1 /\ p - 1 \in a - 1 .. Len(r) /\ e - 1 \in p - 1 .. Len(r)
        /\ (p - 1) + 1 = p
    BY <1>0, <1>1, <1>2
  <2> QED BY <2>1, ConcatAdjacentSubSeq
<1>8. Text(r, a, p) = SubSeq(r, a, p - 3) /\ Text(r, a, e + 2) = SubSeq(r, a, e - 1)
  <2>1. (e + 2) - 3 = e - 1
    BY <1>1
  <2> QED BY <2>1 DEF Text
<1>9. SubSeq(r, a, p - 3) \in Seq(Symbols) /\ Len(SubSeq(r, a, p - 3)) = (p - 3) - a + 1
  <2>1. a \in 1 .. Len(r) + 1 /\ p - 3 \in a - 1 .. Len(r)
    BY <1>0, <1>1, <1>2
  <2> QED BY <2>1, Part
<1>10. SubSeq(r, a, p - 3) # <<>>
  <2>1. Len(SubSeq(r, a, p - 3)) # 0
    BY <1>1, <1>2, <1>9
  <2> QED BY <2>1, EmptySeq
<1> QED BY <1>5, <1>6, <1>7, <1>8, <1>9, <1>10

-----------------------------------------------------------------------------
(***************************************************************************)
(* What is wrong with what has been read.                                  *)
(***************************************************************************)

\* A request line that is none.
LEMMA FirstMalformed ==
  ASSUME NEW r \in Seq(Symbols), NEW n \in 0 .. Len(r), NEW e, IsLine(r, 1, e), e + 1 <= n,
         ~GoodRequestLine(SubSeq(r, 1, e - 1))
  PROVE  Malformed(SubSeq(r, 1, n))
<1> DEFINE g == SubSeq(r, 1, n)
<1>0. Len(r) \in Nat
  BY LenProperties
<1>1. e \in 1 .. n - 1
  BY <1>0 DEF IsLine, EndAt
<1>2. IsLine(g, 1, e) /\ g \in Seq(Symbols)
  BY LineRead, EndRead
<1>3. SubSeq(g, 1, e - 1) = SubSeq(r, 1, e - 1)
  <2> DEFINE d == e - 1
  <2>1. /\ 1 \in 1 .. Len(r) + 1 /\ n \in 1 - 1 .. Len(r)
        /\ 1 \in 1 .. n - 1 + 2 /\ d \in 1 - 1 .. n - 1 + 1
        /\ 1 + 1 - 1 = 1 /\ 1 + d - 1 = d
    BY <1>0, <1>1
  <2> HIDE DEF d
  <2>2. SubSeq(g, 1, d) = SubSeq(r, 1 + 1 - 1, 1 + d - 1)
    BY <2>1, PartOfPart
  <2>3. SubSeq(g, 1, d) = SubSeq(r, 1, d)
    BY <2>1, <2>2
  <2> QED BY <2>3 DEF d
<1> HIDE DEF g
<1>4. <<1, e>> \in LinesOf(g)
  BY <1>2, LinesDef
<1>5. <<1, e>>[1] = 1 /\ <<1, e>>[2] = e
  OBVIOUS
<1>6. Malformed(g)
  BY <1>3, <1>4, <1>5 DEF Malformed
<1> QED BY <1>6 DEF g

\* A field that is none and has been completed.
LEMMA FieldMalformed ==
  ASSUME NEW r \in Seq(Symbols), NEW n \in 0 .. Len(r), NEW a, FieldAt(r, a),
         NEW x, NextStop(r, a, x), NEW e, IsLine(r, x, e), e + 1 <= n,
         ~GoodField(Text(r, a, x))
  PROVE  Malformed(SubSeq(r, 1, n))
<1> DEFINE g == SubSeq(r, 1, n)
<1>0. Len(r) \in Nat
  BY LenProperties
<1>1. PICK d \in 1 .. Len(r) : IsLine(r, a, d)
  BY DEF FieldAt
<1>2. x \in Nat /\ a < x /\ Stop(r, x) /\ a \in Nat
  BY <1>1 DEF NextStop, IsLine, Starts
<1>3. x <= e /\ e \in Nat /\ Starts(r, x)
  BY <1>0 DEF IsLine, EndAt
<1>4. d + 2 <= x
  BY <1>1, <1>2, <1>3, LinesApart
<1>5. d + 1 <= n
  BY <1>2, <1>3, <1>4
<1> DEFINE l == <<a, d>>
<1>6. l \in FieldStarts(g) /\ l[1] = a
  BY <1>1, <1>5, FieldStartsRead
<1>7. \E k \in FieldStarts(g) \cup HeaderEnds(g) : k[1] = x
  <2>1. CASE FieldAt(r, x)
    <3>1. <<x, e>> \in FieldStarts(g) /\ <<x, e>>[1] = x
      BY <2>1, FieldStartsRead
    <3> QED BY <3>1
  <2>2. CASE EmptyAt(r, x)
    <3>1. x + 1 <= n
      BY <1>2, <1>3
    <3>2. <<x, x>> \in HeaderEnds(g) /\ <<x, x>>[1] = x
      BY <2>2, <3>1, HeaderEndsRead
    <3> QED BY <3>2
  <2> QED BY <1>2, <2>1, <2>2 DEF Stop
<1> HIDE DEF l
<1>8. PICK k \in FieldStarts(g) \cup HeaderEnds(g) : k[1] = x
  BY <1>7
<1>9. k[1] > l[1]
  BY <1>2, <1>6, <1>8
<1>10. PICK y \in Nat : NextStop(r, l[1], y) /\ FieldText(g, l) = Text(r, l[1], y)
  BY <1>6, <1>8, <1>9, SettledText
<1>11. y = x
  BY <1>2, <1>6, <1>10, NextStopUnique
<1> HIDE DEF g
<1>12. l \in Settled(g)
  BY <1>6, <1>8, <1>9 DEF Settled
<1>13. ~GoodField(FieldText(g, l))
  BY <1>6, <1>10, <1>11
<1>14. Malformed(g)
  BY <1>12, <1>13 DEF Malformed
<1> QED BY <1>14 DEF g

\* And if neither is there, there is nothing wrong.
LEMMA WellFormed ==
  ASSUME NEW r \in Seq(Symbols), NEW n \in 0 .. Len(r),
         \A e : IsLine(r, 1, e) /\ e + 1 <= n => GoodRequestLine(SubSeq(r, 1, e - 1)),
         \A a, x : /\ FieldAt(r, a) /\ NextStop(r, a, x)
                   /\ \E y, e \in Nat : Stop(r, y) /\ x <= y /\ IsLine(r, y, e) /\ e + 1 <= n
                   => GoodField(Text(r, a, x))
  PROVE  ~Malformed(SubSeq(r, 1, n))
<1> DEFINE g == SubSeq(r, 1, n)
<1>0. Len(r) \in Nat
  BY LenProperties
<1>1. ASSUME NEW l \in LinesOf(g), l[1] = 1, ~GoodRequestLine(SubSeq(g, l[1], l[2] - 1))
      PROVE  FALSE
  <2> DEFINE d == l[2] - 1
  <2>1. IsLine(g, 1, l[2])
    <3>1. g \in Seq(Symbols)
      BY EndRead
    <3> HIDE DEF g
    <3> QED BY <1>1, <3>1, LinesDef
  <2>2. IsLine(r, 1, l[2]) /\ l[2] + 1 <= n
    BY <2>1, LineRead
  <2>3. l[2] \in 1 .. n - 1
    BY <1>0, <2>2 DEF IsLine, EndAt
  <2>4. /\ 1 \in 1 .. Len(r) + 1 /\ n \in 1 - 1 .. Len(r)
        /\ 1 \in 1 .. n - 1 + 2 /\ d \in 1 - 1 .. n - 1 + 1
        /\ 1 + 1 - 1 = 1 /\ 1 + d - 1 = d
    BY <1>0, <2>3
  <2>5. SubSeq(r, 1, d) = SubSeq(g, l[1], l[2] - 1)
    <3> HIDE DEF d
    <3>1. SubSeq(g, 1, d) = SubSeq(r, 1 + 1 - 1, 1 + d - 1)
      BY <2>4, PartOfPart
    <3>2. SubSeq(g, 1, d) = SubSeq(r, 1, d)
      BY <2>4, <3>1
    <3> HIDE DEF g
    <3> QED BY <1>1, <3>2 DEF d
  <2>6. GoodRequestLine(SubSeq(r, 1, l[2] - 1))
    BY <2>2
  <2> QED BY <1>1, <2>5, <2>6
<1>2. ASSUME NEW l \in Settled(g), ~GoodField(FieldText(g, l)) PROVE FALSE
  <2>1. PICK k \in FieldStarts(g) \cup HeaderEnds(g) : k[1] > l[1]
    BY <1>2 DEF Settled
  <2>2. l \in FieldStarts(g)
    BY <1>2 DEF Settled
  <2>3. PICK x \in Nat : NextStop(r, l[1], x) /\ x <= k[1] /\ FieldText(g, l) = Text(r, l[1], x)
    BY <2>1, <2>2, SettledText
  <2>4. FieldAt(r, l[1])
    BY <2>2, FieldStartsRead
  <2>5. \E e \in Nat : Stop(r, k[1]) /\ IsLine(r, k[1], e) /\ e + 1 <= n
    <3>1. CASE k \in FieldStarts(g)
      <4>1. FieldAt(r, k[1]) /\ IsLine(r, k[1], k[2]) /\ k[2] + 1 <= n
        BY <3>1, FieldStartsRead
      <4>2. k[2] \in Nat
        BY <1>0, <4>1 DEF IsLine, EndAt
      <4> QED BY <4>1, <4>2 DEF Stop
    <3>2. CASE k \in HeaderEnds(g)
      <4>1. EmptyAt(r, k[1]) /\ k[1] + 1 <= n /\ k[1] \in Nat
        BY <3>2, HeaderEndsRead
      <4> QED BY <4>1 DEF Stop, EmptyAt
    <3> QED BY <2>1, <3>1, <3>2
  <2>6. k[1] \in Nat
    BY <2>5, StopFacts
  <2> HIDE DEF g
  <2>7. GoodField(Text(r, l[1], x))
    BY <2>3, <2>4, <2>5, <2>6
  <2> QED BY <1>2, <2>3, <2>7
<1> HIDE DEF g
<1>3. ~Malformed(g)
  BY <1>1, <1>2 DEF Malformed
<1> QED BY <1>3 DEF g

-----------------------------------------------------------------------------
(***************************************************************************)
(* The buffer.                                                             *)
(***************************************************************************)

\* The line taken from the buffer is the one that starts there.
LEMMA BufferLine ==
  ASSUME NEW r \in Seq(Symbols), NEW n \in 0 .. Len(r), NEW p \in 1 .. n + 1,
         buf = SubSeq(r, p, n), Starts(r, p), HasLine
  PROVE  \E e \in p .. n - 1 :
           /\ IsLine(r, p, e) /\ Starts(r, e + 2)
           /\ Line = SubSeq(r, p, e - 1) /\ Line \in Seq(Symbols) /\ Len(Line) = e - p
           /\ \A i \in 1 .. e - p : Line[i] = r[p + i - 1]
           /\ SubSeq(buf, LineSep + 2, Len(buf)) = SubSeq(r, e + 2, n)
<1> DEFINE Sep(i) == buf[i] = "cr" /\ buf[i + 1] = "lf"
           T == {i \in 1 .. Len(buf) - 1 : Sep(i)}
           x == LineSep
<1>0. Len(r) \in Nat
  BY LenProperties
<1>1. Len(buf) = n - p + 1 /\ \A i \in 1 .. n - p + 1 : buf[i] = r[p + i - 1]
  <2>1. p \in 1 .. Len(r) + 1 /\ n \in p - 1 .. Len(r)
    BY <1>0
  <2> QED BY <2>1, Part
<1>2. PICK least \in T : \A i \in T : least <= i
  <2>1. T \subseteq Nat
    BY <1>1
  <2>2. T # {}
    BY DEF HasLine
  <2> HIDE DEF T
  <2> QED BY <2>1, <2>2, LeastNat
<1>3. least \in 1 .. Len(buf) - 1 /\ Sep(least) /\ \A j \in 1 .. least - 1 : ~Sep(j)
  <2>1. ASSUME NEW j \in 1 .. least - 1, Sep(j) PROVE FALSE
    <3>1. j \in T
      BY <1>1, <1>2, <2>1
    <3>2. least \in Nat
      BY <1>1, <1>2
    <3> HIDE DEF T
    <3>3. least <= j
      BY <1>2, <3>1
    <3> QED BY <2>1, <3>2, <3>3
  <2> QED BY <1>2, <2>1
<1>4. x \in 1 .. Len(buf) - 1 /\ Sep(x) /\ \A j \in 1 .. x - 1 : ~Sep(j)
  <2>1. x = CHOOSE i \in 1 .. Len(buf) - 1 : Sep(i) /\ \A j \in 1 .. i - 1 : ~Sep(j)
    BY DEF LineSep
  <2> HIDE DEF Sep, x, T
  <2> QED BY <1>3, <2>1
<1> HIDE DEF x, T
<1> DEFINE e == p + x - 1
<1>5. x \in 1 .. n - p /\ e \in p .. n - 1 /\ e + 1 = p + (x + 1) - 1
  BY <1>1, <1>4
<1>6. EndAt(r, e)
  <2>0. x \in 1 .. n - p + 1 /\ x + 1 \in 1 .. n - p + 1 /\ p + x - 1 = e /\ p + (x + 1) - 1 = e + 1
    BY <1>5
  <2> HIDE DEF e
  <2>1. buf[x] = r[e] /\ buf[x + 1] = r[e + 1]
    BY <1>1, <2>0
  <2>2. r[e] = "cr" /\ r[e + 1] = "lf"
    BY <1>4, <2>1
  <2>3. e \in 1 .. Len(r) - 1
    BY <1>0, <1>5
  <2> QED BY <2>2, <2>3 DEF EndAt
<1>7. ASSUME NEW f \in p .. e - 1, EndAt(r, f) PROVE FALSE
  <2> DEFINE j == f - p + 1
  <2>1. j \in 1 .. x - 1 /\ f = p + j - 1 /\ f + 1 = p + (j + 1) - 1 /\ j + 1 \in 1 .. n - p + 1
    BY <1>5
  <2> HIDE DEF j
  <2>2. buf[j] = r[f] /\ buf[j + 1] = r[f + 1]
    BY <1>1, <1>5, <2>1
  <2>3. Sep(j)
    BY <1>7, <2>2 DEF EndAt
  <2> QED BY <1>4, <2>1, <2>3
<1>8. IsLine(r, p, e) /\ Starts(r, e + 2)
  <2>1. p <= e /\ \A f \in p .. e - 1 : ~EndAt(r, f)
    BY <1>5, <1>7
  <2> HIDE DEF e
  <2> QED BY <1>6, <2>1, LineHere
<1>9. Line = SubSeq(r, p, e - 1)
  <2> DEFINE d == x - 1
  <2>1. /\ p \in 1 .. Len(r) + 1 /\ n \in p - 1 .. Len(r)
        /\ 1 \in 1 .. n - p + 2 /\ d \in 1 - 1 .. n - p + 1
        /\ p + 1 - 1 = p /\ p + d - 1 = e - 1
    BY <1>0, <1>5
  <2> HIDE DEF d, e
  <2>2. SubSeq(SubSeq(r, p, n), 1, d) = SubSeq(r, p + 1 - 1, p + d - 1)
    BY <2>1, PartOfPart
  <2>3. SubSeq(buf, 1, d) = SubSeq(r, p, e - 1)
    BY <2>1, <2>2
  <2> QED BY <2>3 DEF Line, d, x
<1>10. SubSeq(buf, x + 2, Len(buf)) = SubSeq(r, e + 2, n)
  <2> DEFINE b == x + 2
             d == Len(buf)
  <2>1. /\ p \in 1 .. Len(r) + 1 /\ n \in p - 1 .. Len(r)
        /\ b \in 1 .. n - p + 2 /\ d \in b - 1 .. n - p + 1
        /\ p + b - 1 = e + 2 /\ p + d - 1 = n
    BY <1>0, <1>1, <1>5
  <2> HIDE DEF b, d, e
  <2>2. SubSeq(SubSeq(r, p, n), b, d) = SubSeq(r, p + b - 1, p + d - 1)
    BY <2>1, PartOfPart
  <2>3. SubSeq(buf, b, d) = SubSeq(r, e + 2, n)
    BY <2>1, <2>2
  <2> QED BY <2>3 DEF b, d
<1>11. SubSeq(buf, LineSep + 2, Len(buf)) = SubSeq(r, e + 2, n)
  BY <1>10 DEF x
<1> HIDE DEF e
<1>12. Line \in Seq(Symbols) /\ Len(Line) = e - p /\ \A i \in 1 .. e - p : Line[i] = r[p + i - 1]
  <2> DEFINE d == e - 1
  <2>1. p \in 1 .. Len(r) + 1 /\ d \in p - 1 .. Len(r) /\ d - p + 1 = e - p
    BY <1>0, <1>5
  <2> HIDE DEF d
  <2>2. /\ SubSeq(r, p, d) \in Seq(Symbols) /\ Len(SubSeq(r, p, d)) = d - p + 1
        /\ \A i \in 1 .. d - p + 1 : SubSeq(r, p, d)[i] = r[p + i - 1]
    BY <2>1, Part
  <2> QED BY <1>9, <2>1, <2>2 DEF d
<1> QED BY <1>5, <1>8, <1>9, <1>11, <1>12

\* And there is none if none is complete.
LEMMA BufferNoLine ==
  ASSUME NEW r \in Seq(Symbols), NEW n \in 0 .. Len(r), NEW p \in 1 .. n + 1,
         buf = SubSeq(r, p, n), ~HasLine
  PROVE  \A e \in p .. n - 1 : ~EndAt(r, e)
<1>0. Len(r) \in Nat
  BY LenProperties
<1>1. Len(buf) = n - p + 1 /\ \A i \in 1 .. n - p + 1 : buf[i] = r[p + i - 1]
  <2>1. p \in 1 .. Len(r) + 1 /\ n \in p - 1 .. Len(r)
    BY <1>0
  <2> QED BY <2>1, Part
<1>2. ASSUME NEW e \in p .. n - 1, EndAt(r, e) PROVE FALSE
  <2> DEFINE j == e - p + 1
  <2>1. j \in 1 .. Len(buf) - 1 /\ e = p + j - 1 /\ e + 1 = p + (j + 1) - 1 /\ j + 1 \in 1 .. n - p + 1
    BY <1>1
  <2> HIDE DEF j
  <2>2. buf[j] = r[e] /\ buf[j + 1] = r[e + 1]
    BY <1>1, <2>1
  <2> QED BY <1>2, <2>1, <2>2 DEF HasLine, EndAt
<1> QED BY <1>2

\* What is read is put behind what waits.
LEMMA BufferGrows ==
  ASSUME NEW r \in Seq(Symbols), NEW n \in 0 .. Len(r), NEW p \in 1 .. n + 1,
         NEW m \in n .. Len(r)
  PROVE  SubSeq(r, p, n) \o SubSeq(r, n + 1, m) = SubSeq(r, p, m)
<1>1. p \in 1 .. Len(r) + 1 /\ n \in p - 1 .. Len(r)
  BY LenProperties
<1> QED BY <1>1, ConcatAdjacentSubSeq

-----------------------------------------------------------------------------
(***************************************************************************)
(* The steps.                                                              *)
(***************************************************************************)

\* Where a request is that is being received.
LEMMA Receiving ==
  ASSUME Inv, Received
  PROVE  /\ request \in Seq(Symbols) /\ Len(request) \in Nat
         /\ byteCount \in 0 .. Len(request) /\ Position \in 1 .. byteCount + 1
         /\ byteCount <= ByteCountMax /\ ByteCountMax \in Nat
         /\ buf = SubSeq(request, Position, byteCount)
         /\ Place(request, Position, receiveState, method, linesBuf)
         /\ pc # "chunk" => Drained(request, Position, byteCount, receiveState)
<1>1. request \in Seq(Symbols)
  BY RequestsAssumption DEF Inv
<1>2. Len(request) \in Nat
  BY <1>1, LenProperties
<1>3. byteCount \in 0 .. Len(request) /\ Len(buf) \in 0 .. byteCount
  BY DEF Inv
<1>4. Position \in 1 .. byteCount + 1
  BY <1>2, <1>3 DEF Position
<1>5. Parsing(request, Position, byteCount)
  BY DEF Inv
<1> QED BY <1>1, <1>2, <1>3, <1>4, <1>5, LimitsAssumption DEF Parsing

\* A chunk is processed only while the request is being received.
LEMMA InChunk == Inv /\ pc = "chunk" => outcome = "receiving" /\ Received
  BY DEF Inv, Received

\* A request is rejected for something that is wrong with it.
LEMMA ThrowInv ==
  ASSUME Inv, Throw, byteCount' \in byteCount .. Len(request),
         \/ Malformed(SubSeq(request, 1, byteCount'))
         \/ Exceeds(SubSeq(request, 1, byteCount'))
         \/ byteCount' > ByteCountMax
  PROVE  Inv'
<1>1. /\ outcome' = "rejected" /\ pc' = "idle" /\ request' = request /\ buf' = buf
  BY DEF Throw
<1>2. /\ request \in Requests /\ byteCount \in 0 .. Len(request) /\ Len(buf) \in 0 .. byteCount
  BY DEF Inv
<1>3. Len(request) \in Nat
  BY <1>2, RequestsAssumption, LenProperties
<1>4. byteCount' \in 0 .. Len(request) /\ Len(buf) \in 0 .. byteCount'
  BY <1>2, <1>3
<1>5. Got' = SubSeq(request, 1, byteCount')
  BY <1>1 DEF Got
<1>6. ~Received' /\ ~HandedOver' /\ outcome' # "receiving"
  BY <1>1, Zenon DEF Received, HandedOver
<1> QED BY <1>1, <1>2, <1>4, <1>5, <1>6 DEF Inv

\* A chunk is processed further.
LEMMA ProceedInv ==
  ASSUME Inv, pc = "chunk", request' = request, byteCount' = byteCount, outcome' = outcome,
         pc' = pc, NEW q \in 1 .. byteCount + 1, buf' = SubSeq(request, q, byteCount),
         Place(request, q, receiveState', method', linesBuf')
  PROVE  Inv'
<1>1. outcome = "receiving" /\ Received
  BY InChunk
<1>2. /\ request \in Seq(Symbols) /\ Len(request) \in Nat /\ byteCount \in 0 .. Len(request)
      /\ byteCount <= ByteCountMax /\ request \in Requests
  BY <1>1, Receiving DEF Inv
<1>3. Len(buf') = byteCount - q + 1
  <2>1. q \in 1 .. Len(request) + 1 /\ byteCount \in q - 1 .. Len(request)
    BY <1>2
  <2> QED BY <1>2, <2>1, Part
<1>4. Len(buf') \in 0 .. byteCount' /\ Position' = q
  BY <1>2, <1>3 DEF Position
<1>5. Parsing(request, q, byteCount)'
  BY <1>2 DEF Parsing
<1>6. Parsing(request, Position, byteCount)'
  BY <1>4, <1>5 DEF Parsing
<1>7. Received' /\ ~HandedOver' /\ outcome' # "rejected" /\ pc' = "chunk" /\ outcome' = "receiving"
  BY <1>1, Zenon DEF Received, HandedOver
<1> QED BY <1>2, <1>4, <1>6, <1>7 DEF Inv

\* The request line.
LEMMA RequestLineInv ==
  ASSUME Inv, RequestLine
  PROVE  Inv'
<1> DEFINE r == request
           n == byteCount
           p == Position
<1>1. pc = "chunk" /\ receiveState = "line" /\ HasLine
  BY DEF RequestLine
<1>2. /\ r \in Seq(Symbols) /\ Len(r) \in Nat /\ n \in 0 .. Len(r) /\ p \in 1 .. n + 1
      /\ buf = SubSeq(r, p, n) /\ Place(r, p, receiveState, method, linesBuf)
  BY <1>1, InChunk, Receiving
<1>3. p = 1 /\ linesBuf = <<>>
  BY <1>1, <1>2 DEF Place, InLine, InTheHeader, BehindHeader
<1>4. Starts(r, p)
  BY <1>3 DEF Starts
<1> HIDE DEF p
<1>5. PICK e \in p .. n - 1 :
        /\ IsLine(r, p, e) /\ Starts(r, e + 2)
        /\ Line = SubSeq(r, p, e - 1) /\ Line \in Seq(Symbols) /\ Len(Line) = e - p
        /\ \A i \in 1 .. e - p : Line[i] = r[p + i - 1]
        /\ SubSeq(buf, LineSep + 2, Len(buf)) = SubSeq(r, e + 2, n)
  BY <1>1, <1>2, <1>4, BufferLine
<1>6. CASE ~GoodRequestLine(Line)
  <2>1. Throw /\ UNCHANGED byteCount
    BY <1>5, <1>6, RequestLineGood DEF RequestLine
  <2>2. Malformed(SubSeq(r, 1, n))
    <3>1. IsLine(r, 1, e) /\ e + 1 <= n /\ ~GoodRequestLine(SubSeq(r, 1, e - 1))
      BY <1>2, <1>3, <1>5, <1>6
    <3> QED BY <1>2, <3>1, FirstMalformed
  <2>3. byteCount' = n /\ byteCount' \in byteCount .. Len(request)
    BY <1>2, <2>1
  <2>4. Malformed(SubSeq(request, 1, byteCount'))
    BY <2>2, <2>3
  <2> QED BY <2>1, <2>3, <2>4, ThrowInv
<1>7. CASE GoodRequestLine(Line)
  <2>1. /\ method' = SubSeq(Line, 1, IndexOf(Line, "sp", 1) - 1)
        /\ RemoveLine /\ receiveState' = "header"
        /\ UNCHANGED <<request, byteCount, linesBuf, header, outcome, pc>>
    BY <1>5, <1>7, RequestLineGood DEF RequestLine
  <2>2. method' = <<"GET">> <=> Line[1] = "GET" /\ Line[2] = "sp"
    BY <1>5, <1>7, <2>1, RequestLineGood
  <2>3. Len(Line) > 3
    BY <1>2, <1>5, <1>7 DEF GoodRequestLine
  <2>4. Line[1] = r[1] /\ Line[2] = r[2] /\ Len(r) > 1
    BY <1>2, <1>3, <1>5, <2>3
  <2>5. method' = <<"GET">> <=> IsGet(r)
    BY <2>2, <2>4 DEF IsGet
  <2> DEFINE q == e + 2
  <2>6. q \in 1 .. n + 1 /\ q - 2 = e /\ e \in 1 .. Len(r) /\ q - 1 = e + 1
    BY <1>2, <1>3, <1>5
  <2>7. NoEmptyBefore(r, q)
    <3>1. NoEmptyBefore(r, 1)
      BY DEF NoEmptyBefore
    <3>2. p # e
      BY <1>2, <1>5, <2>3
    <3> QED BY <1>2, <1>3, <1>5, <3>1, <3>2, NoEmptyGrows
  <2>8. Checked(r, q - 1)
    <3>1. ASSUME NEW a \in 1 .. q - 1, FieldAt(r, a) PROVE FALSE
      <4>1. IsLine(r, 1, q - 2) /\ q \in Nat /\ a < q
        BY <1>3, <1>5, <2>6
      <4> QED BY <1>2, <3>1, <4>1, NoFieldYet
    <3> QED BY <3>1 DEF Checked
  <2>9. HeldBack(r, q, <<>>)
    BY <1>3, <1>5, <2>6 DEF HeldBack
  <2>10. FirstLineGood(r, q)
    <3>1. IsLine(r, 1, e) /\ e + 2 <= q /\ GoodRequestLine(SubSeq(r, 1, e - 1))
      BY <1>3, <1>5, <1>7, <2>6
    <3> QED BY <2>6, <3>1 DEF FirstLineGood
  <2>11. InTheHeader(r, q, receiveState', method', linesBuf')
    BY <1>3, <1>5, <2>1, <2>5, <2>7, <2>8, <2>9, <2>10 DEF InTheHeader
  <2>12. buf' = SubSeq(r, q, n)
    BY <1>5, <2>1 DEF RemoveLine
  <2> HIDE DEF q
  <2>13. Place(request, q, receiveState', method', linesBuf')
    BY <2>11 DEF Place
  <2> QED BY <1>1, <2>1, <2>6, <2>12, <2>13, ProceedInv
<1> QED BY <1>6, <1>7

\* What a line of a header is about to end.
LEMMA HeldStops ==
  ASSUME NEW r \in Seq(Symbols), NEW p \in Nat, NEW held, HeldBack(r, p, held),
         Starts(r, p), NoEmptyBefore(r, p), Stop(r, p)
  PROVE  /\ held # <<>> => /\ held \in Seq(Symbols)
                           /\ \E a \in 1 .. p : /\ FieldAt(r, a) /\ NextStop(r, a, p)
                                                /\ held = Text(r, a, p)
         /\ \A a : FieldAt(r, a) /\ NextStop(r, a, p) => held # <<>> /\ held = Text(r, a, p)
<1>1. CASE held = <<>>
  <2>1. IsLine(r, 1, p - 2)
    BY <1>1 DEF HeldBack
  <2>2. ASSUME NEW a, FieldAt(r, a), NextStop(r, a, p) PROVE FALSE
    <3>1. a < p
      BY <2>2 DEF NextStop
    <3> QED BY <2>1, <2>2, <3>1, NoFieldYet
  <2> QED BY <1>1, <2>2
<1>2. CASE held # <<>>
  <2>1. PICK a \in 1 .. p : LastField(r, a, p) /\ held = Text(r, a, p)
    BY <1>2 DEF HeldBack
  <2>2. NextStop(r, a, p) /\ \A b : FieldAt(r, b) /\ NextStop(r, b, p) => b = a
    BY <2>1, LastStops
  <2>3. FieldAt(r, a) /\ a < p
    BY <2>1 DEF LastField
  <2>4. held \in Seq(Symbols)
    <3>1. \E e : IsLine(r, p, e)
      BY StopFacts
    <3> QED BY <2>1, <2>3, <3>1, TextJoins
  <2> QED BY <1>2, <2>1, <2>2, <2>3, <2>4
<1> QED BY <1>1, <1>2

\* The lines held back are refused.
LEMMA HeldRefused ==
  ASSUME Inv, pc = "chunk", receiveState = "header", Throw, byteCount' = byteCount,
         NEW e \in Nat, IsLine(request, Position, e), e + 1 <= byteCount,
         Stop(request, Position), ~Acceptable
  PROVE  Inv'
<1> DEFINE r == request
           n == byteCount
           p == Position
<1>2. /\ r \in Seq(Symbols) /\ Len(r) \in Nat /\ n \in 0 .. Len(r) /\ p \in 1 .. n + 1
      /\ Place(r, p, receiveState, method, linesBuf)
  BY InChunk, Receiving
<1>3. HeldBack(r, p, linesBuf) /\ NoEmptyBefore(r, p) /\ Starts(r, p)
  BY <1>2 DEF Place, InLine, InTheHeader, BehindHeader
<1>4. linesBuf # <<>> /\ ~(IndexOf(linesBuf, "colon", 1) \in 2 .. Len(linesBuf))
  BY DEF Acceptable
<1> HIDE DEF p
<1>5. PICK a \in 1 .. p : FieldAt(r, a) /\ NextStop(r, a, p) /\ linesBuf = Text(r, a, p)
  BY <1>2, <1>3, <1>4, HeldStops DEF p
<1>6. linesBuf \in Seq(Symbols)
  BY <1>2, <1>3, <1>4, HeldStops DEF p
<1>7. ~GoodField(Text(r, a, p))
  BY <1>4, <1>5, <1>6, FieldGood
<1>8. Malformed(SubSeq(r, 1, n))
  BY <1>2, <1>5, <1>7, FieldMalformed DEF p
<1>9. byteCount' \in byteCount .. Len(request) /\ Malformed(SubSeq(request, 1, byteCount'))
  BY <1>2, <1>8
<1> QED BY <1>9, ThrowInv

\* Or accepted, and then they are a field.
LEMMA HeldAccepted ==
  ASSUME NEW r \in Seq(Symbols), NEW p \in Nat, HeldBack(r, p, linesBuf),
         Starts(r, p), NoEmptyBefore(r, p), Stop(r, p), Acceptable
  PROVE  \A a : FieldAt(r, a) /\ NextStop(r, a, p) => GoodField(Text(r, a, p))
<1>1. ASSUME NEW a, FieldAt(r, a), NextStop(r, a, p) PROVE GoodField(Text(r, a, p))
  <2>1. linesBuf # <<>> /\ linesBuf = Text(r, a, p) /\ linesBuf \in Seq(Symbols)
    BY <1>1, HeldStops
  <2>2. IndexOf(linesBuf, "colon", 1) \in 2 .. Len(linesBuf)
    BY <2>1 DEF Acceptable
  <2> QED BY <2>1, <2>2, FieldGood
<1> QED BY <1>1

\* A line of the header that is not empty.
LEMMA HeaderLineInv ==
  ASSUME Inv, HeaderLine
  PROVE  Inv'
<1> DEFINE r == request
           n == byteCount
           p == Position
<1>1. pc = "chunk" /\ receiveState = "header" /\ HasLine /\ Line # <<>>
  BY DEF HeaderLine
<1>2. /\ r \in Seq(Symbols) /\ Len(r) \in Nat /\ n \in 0 .. Len(r) /\ p \in 1 .. n + 1
      /\ buf = SubSeq(r, p, n) /\ Place(r, p, receiveState, method, linesBuf)
  BY <1>1, InChunk, Receiving
<1>3. InTheHeader(r, p, receiveState, method, linesBuf)
  BY <1>1, <1>2 DEF Place, InLine, BehindHeader
<1>4. /\ FirstLineGood(r, p) /\ (method = <<"GET">> <=> IsGet(r)) /\ Starts(r, p)
      /\ NoEmptyBefore(r, p) /\ HeldBack(r, p, linesBuf) /\ Checked(r, p - 1)
  BY <1>3 DEF InTheHeader
<1> HIDE DEF p
<1>5. PICK e \in p .. n - 1 :
        /\ IsLine(r, p, e) /\ Starts(r, e + 2)
        /\ Line = SubSeq(r, p, e - 1) /\ Line \in Seq(Symbols) /\ Len(Line) = e - p
        /\ \A i \in 1 .. e - p : Line[i] = r[p + i - 1]
        /\ SubSeq(buf, LineSep + 2, Len(buf)) = SubSeq(r, e + 2, n)
  BY <1>1, <1>2, <1>4, BufferLine
<1>6. p # e /\ Line[1] = r[p] /\ e \in Nat /\ e + 1 <= n
  <2>1. Len(Line) # 0
    BY <1>1, <1>5, EmptySeq
  <2>2. 1 \in 1 .. e - p /\ p + 1 - 1 = p
    BY <1>2, <1>5, <2>1
  <2>3. Line[1] = r[p]
    BY <1>5, <2>2
  <2>4. p # e
    BY <1>2, <1>5, <2>1
  <2>5. e \in Nat /\ e + 1 <= n
    BY <1>2
  <2> QED BY <2>3, <2>4, <2>5
<1>7. 1 < p
  <2>1. PICK d \in 1 .. Len(r) : d + 2 <= p
    BY <1>4 DEF FirstLineGood
  <2> QED BY <1>2, <2>1
<1> DEFINE q == e + 2
<1>8. q \in 1 .. n + 1 /\ q - 3 = e - 1 /\ q - 1 = e + 1 /\ p < q /\ p \in 1 .. q /\ q \in Nat
  BY <1>2, <1>5
<1>9. FirstLineGood(r, q) /\ NoEmptyBefore(r, q) /\ Starts(r, q)
  <2>1. FirstLineGood(r, q)
    <3>1. PICK d \in 1 .. Len(r) :
            IsLine(r, 1, d) /\ d + 2 <= p /\ GoodRequestLine(SubSeq(r, 1, d - 1))
      BY <1>4 DEF FirstLineGood
    <3>2. d + 2 <= q
      BY <1>2, <1>8, <3>1
    <3> QED BY <3>1, <3>2 DEF FirstLineGood
  <2>2. NoEmptyBefore(r, q)
    BY <1>2, <1>4, <1>5, <1>6, NoEmptyGrows
  <2> QED BY <1>5, <2>1, <2>2
<1>10. ASSUME UNCHANGED <<request, byteCount, receiveState, method, outcome, pc>>, RemoveLine,
              HeldBack(r, q, linesBuf'), Checked(r, q - 1)
       PROVE  Inv'
  <2>1. buf' = SubSeq(r, q, n)
    BY <1>5, <1>10 DEF RemoveLine
  <2> HIDE DEF q
  <2>2. InTheHeader(r, q, receiveState', method', linesBuf')
    BY <1>1, <1>4, <1>9, <1>10 DEF InTheHeader
  <2>3. Place(request, q, receiveState', method', linesBuf')
    BY <2>2 DEF Place
  <2> QED BY <1>1, <1>8, <1>10, <2>1, <2>3, ProceedInv
<1>11. Continues <=> r[p] = "sp"
  BY <1>1, <1>6 DEF Continues
<1>12. Text(r, p, q) = Line
  BY <1>5, <1>8 DEF Text
<1>13. CASE Continues /\ linesBuf = <<>>
  <2>1. IsLine(r, 1, p - 2)
    BY <1>4, <1>13 DEF HeldBack
  <2>2. LastField(r, p, q)
    BY <1>2, <1>4, <1>5, <1>6, <1>7, <2>1, FieldHere
  <2>3. linesBuf' = Line
    BY <1>13 DEF HeaderLine
  <2>4. HeldBack(r, q, linesBuf')
    BY <1>1, <1>8, <1>12, <2>2, <2>3 DEF HeldBack
  <2>5. Checked(r, q - 1)
    <3>1. ASSUME NEW a, FieldAt(r, a), NextStop(r, a, p) PROVE FALSE
      <4>1. a < p
        BY <3>1 DEF NextStop
      <4> QED BY <1>2, <2>1, <3>1, <4>1, NoFieldYet
    <3>2. Checked(r, e + 1)
      BY <1>2, <1>4, <1>5, <3>1, CheckedGrows
    <3> QED BY <1>8, <3>2
  <2>6. UNCHANGED <<request, byteCount, receiveState, method, outcome, pc>> /\ RemoveLine
    BY <1>13 DEF HeaderLine
  <2> QED BY <1>10, <2>4, <2>5, <2>6
<1>14. CASE Continues /\ linesBuf # <<>>
  <2>1. PICK a \in 1 .. p : LastField(r, a, p) /\ linesBuf = Text(r, a, p)
    BY <1>4, <1>14 DEF HeldBack
  <2>2. a \in 1 .. p - 1 /\ FieldAt(r, a) /\ \A b \in a + 1 .. p - 1 : ~FieldAt(r, b)
    BY <2>1 DEF LastField
  <2>3. linesBuf' = linesBuf \o <<"cr", "lf">> \o Line
    BY <1>14 DEF HeaderLine
  <2>4. a < p
    BY <1>2, <2>2
  <2>5. linesBuf' = Text(r, a, q)
    <3>1. Text(r, a, p) \o <<"cr", "lf">> \o SubSeq(r, p, e - 1) = Text(r, a, e + 2)
      <4>1. r \in Seq(Symbols) /\ FieldAt(r, a) /\ IsLine(r, p, e) /\ a < p
        BY <1>2, <1>5, <2>2, <2>4
      <4> HIDE DEF r
      <4> QED BY <4>1, TextJoins, Zenon
    <3>2. Line = SubSeq(r, p, e - 1)
      BY <1>5
    <3> QED BY <2>1, <2>3, <3>1, <3>2, Zenon
  <2>6. ~Stop(r, p)
    <3>1. ~EmptyAt(r, p)
      <4>1. ASSUME EmptyAt(r, p) PROVE FALSE
        <5>1. IsLine(r, p, p) /\ Starts(r, p)
          BY <4>1 DEF EmptyAt, IsLine
        <5>2. \A f : IsLine(r, p, f) /\ p = p => e = f
          BY <1>2, <1>5, <5>1, LinesApart
        <5>3. e = p
          BY <5>1, <5>2
        <5> QED BY <1>6, <5>3
      <4> QED BY <4>1
    <3>2. ~IsLine(r, 1, p - 2)
      <4>1. p \in Nat
        BY <1>2
      <4> QED BY <1>2, <2>2, <2>4, <4>1, NoFieldYet
    <3>3. ~FieldAt(r, p)
      BY <1>11, <1>14, <3>2 DEF FieldAt
    <3> QED BY <3>1, <3>3 DEF Stop
  <2>7. LastField(r, a, q)
    <3>1. ASSUME NEW b \in a + 1 .. q - 1, FieldAt(r, b) PROVE FALSE
      <4>1. Starts(r, b)
        BY <3>1 DEF FieldAt, IsLine
      <4>2. p < b => e + 2 <= b
        BY <1>2, <1>5, <4>1, LinesApart
      <4>3. b # p
        BY <2>6, <3>1 DEF Stop
      <4> QED BY <1>2, <1>5, <2>2, <3>1, <4>2, <4>3
    <3>2. a \in 1 .. q - 1
      BY <1>2, <1>8, <2>2
    <3> QED BY <2>2, <3>1, <3>2 DEF LastField
  <2>8. HeldBack(r, q, linesBuf')
    <3>1. linesBuf' # <<>>
      <4>1. Len(Text(r, a, q)) # 0
        <5>1. a \in 1 .. Len(r) + 1 /\ q - 3 \in a - 1 .. Len(r) /\ (q - 3) - a + 1 > 0
          BY <1>2, <1>5, <1>8, <2>2
        <5>2. Len(SubSeq(r, a, q - 3)) = (q - 3) - a + 1
          BY <1>2, <5>1, Part
        <5> QED BY <5>1, <5>2, <1>8, <2>2 DEF Text
      <4> QED BY <2>5, <4>1, EmptySeq
    <3>2. a \in 1 .. q
      BY <1>2, <1>8, <2>2
    <3> QED BY <2>5, <2>7, <3>1, <3>2 DEF HeldBack
  <2>9. Checked(r, q - 1)
    <3>1. \A b : ~NextStop(r, b, p)
      BY <2>6 DEF NextStop
    <3>2. Checked(r, e + 1)
      BY <1>2, <1>4, <1>5, <3>1, CheckedGrows
    <3> QED BY <1>8, <3>2
  <2>10. UNCHANGED <<request, byteCount, receiveState, method, outcome, pc>> /\ RemoveLine
    BY <1>14 DEF HeaderLine
  <2> QED BY <1>10, <2>8, <2>9, <2>10
<1>15. CASE ~Continues
  <2>1. FieldAt(r, p) /\ LastField(r, p, q)
    BY <1>2, <1>4, <1>5, <1>6, <1>7, <1>11, <1>15, FieldHere
  <2>2. Stop(r, p) /\ p \in Nat
    BY <1>2, <2>1 DEF Stop
  <2>3. CASE ~Acceptable
    <3>1. Throw /\ byteCount' = byteCount
      BY <1>15, <2>3 DEF HeaderLine
    <3> QED BY <1>1, <1>5, <1>6, <2>2, <2>3, <3>1, HeldRefused DEF p
  <2>4. CASE Acceptable
    <3>1. linesBuf' = Line /\ RemoveLine
          /\ UNCHANGED <<request, byteCount, receiveState, method, outcome, pc>>
      BY <1>15, <2>4 DEF HeaderLine
    <3>2. HeldBack(r, q, linesBuf')
      BY <1>1, <1>8, <1>12, <2>1, <3>1 DEF HeldBack
    <3>3. \A a : FieldAt(r, a) /\ NextStop(r, a, p) => GoodField(Text(r, a, p))
      BY <1>2, <1>4, <2>2, <2>4, HeldAccepted
    <3>4. Checked(r, e + 1)
      BY <1>2, <1>4, <1>5, <3>3, CheckedGrows
    <3>5. Checked(r, q - 1)
      BY <1>8, <3>4
    <3> QED BY <1>10, <3>1, <3>2, <3>5
  <2> QED BY <2>3, <2>4
<1> QED BY <1>13, <1>14, <1>15

\* The empty line that ends the header.
LEMMA HeaderEndInv ==
  ASSUME Inv, HeaderEnd
  PROVE  Inv'
<1> DEFINE r == request
           n == byteCount
           p == Position
<1>1. pc = "chunk" /\ receiveState = "header" /\ HasLine /\ Line = <<>>
  BY DEF HeaderEnd
<1>2. /\ r \in Seq(Symbols) /\ Len(r) \in Nat /\ n \in 0 .. Len(r) /\ p \in 1 .. n + 1
      /\ buf = SubSeq(r, p, n) /\ Place(r, p, receiveState, method, linesBuf)
  BY <1>1, InChunk, Receiving
<1>3. InTheHeader(r, p, receiveState, method, linesBuf)
  BY <1>1, <1>2 DEF Place, InLine, BehindHeader
<1>4. /\ FirstLineGood(r, p) /\ (method = <<"GET">> <=> IsGet(r)) /\ Starts(r, p)
      /\ NoEmptyBefore(r, p) /\ HeldBack(r, p, linesBuf) /\ Checked(r, p - 1)
  BY <1>3 DEF InTheHeader
<1> HIDE DEF p
<1>5. PICK e \in p .. n - 1 :
        /\ IsLine(r, p, e) /\ Len(Line) = e - p
        /\ SubSeq(buf, LineSep + 2, Len(buf)) = SubSeq(r, e + 2, n)
  BY <1>1, <1>2, <1>4, BufferLine
<1>6. p = e /\ e \in Nat /\ e + 1 <= n
  <2>1. Len(Line) = 0
    BY <1>1, EmptySeq
  <2> QED BY <1>2, <1>5, <2>1
<1>7. PICK d \in 1 .. Len(r) : IsLine(r, 1, d) /\ d + 2 <= p /\ GoodRequestLine(SubSeq(r, 1, d - 1))
  BY <1>4 DEF FirstLineGood
<1>8. EmptyAt(r, p) /\ Stop(r, p) /\ p \in Nat
  BY <1>2, <1>5, <1>6, <1>7 DEF EmptyAt, Stop
<1>9. CASE ~Acceptable
  <2>1. Throw /\ byteCount' = byteCount
    BY <1>9 DEF HeaderEnd
  <2> QED BY <1>1, <1>5, <1>6, <1>8, <1>9, <2>1, HeldRefused DEF p
<1>10. CASE Acceptable
  <2> DEFINE q == p + 2
  <2>1. q \in 1 .. n + 1 /\ q - 2 = p
    BY <1>2, <1>5, <1>6
  <2>2. /\ linesBuf' = <<>> /\ RemoveLine
        /\ receiveState' = IF method = <<"GET">> THEN "ready" ELSE "body"
        /\ UNCHANGED <<request, byteCount, method, outcome, pc>>
    BY <1>10 DEF HeaderEnd, Flush
  <2>3. Checked(r, p)
    <3>1. \A a : FieldAt(r, a) /\ NextStop(r, a, p) => GoodField(Text(r, a, p))
      BY <1>2, <1>4, <1>8, <1>10, HeldAccepted
    <3>2. Checked(r, e + 1)
      BY <1>2, <1>4, <1>5, <3>1, CheckedGrows
    <3> QED BY <1>6, <3>2 DEF Checked
  <2>4. FirstLineGood(r, q)
    <3>1. d + 2 <= q
      BY <1>2, <1>7
    <3> QED BY <1>7, <3>1 DEF FirstLineGood
  <2>5. buf' = SubSeq(r, q, n)
    BY <1>5, <1>6, <2>2 DEF RemoveLine
  <2>6. EmptyAt(r, q - 2) /\ NoEmptyBefore(r, q - 2) /\ Checked(r, q - 2)
    BY <1>4, <1>8, <2>1, <2>3
  <2> HIDE DEF q
  <2>7. BehindHeader(r, q, receiveState', linesBuf')
    BY <1>4, <2>2, <2>4, <2>6 DEF BehindHeader
  <2>8. Place(request, q, receiveState', method', linesBuf')
    BY <2>7 DEF Place
  <2> QED BY <1>1, <2>1, <2>2, <2>5, <2>8, ProceedInv
<1> QED BY <1>9, <1>10

\* More than the header has been read.
LEMMA ExceedsHere ==
  ASSUME NEW r \in Seq(Symbols), NEW n \in 0 .. Len(r), NEW h, EmptyAt(r, h),
         NoEmptyBefore(r, h), h + 1 < n
  PROVE  Exceeds(SubSeq(r, 1, n))
<1> DEFINE g == SubSeq(r, 1, n)
           l == <<h, h>>
<1>0. h \in Nat /\ Len(r) \in Nat
  BY LenProperties DEF EmptyAt, IsLine, Starts
<1>1. l \in HeaderEnds(g) /\ l[1] = h /\ l[2] = h
  BY <1>0, HeaderEndsRead
<1>2. ASSUME NEW k \in HeaderEnds(g) PROVE h <= k[1]
  <2>1. EmptyAt(r, k[1]) /\ k[1] \in Nat
    BY HeaderEndsRead
  <2> QED BY <1>0, <2>1 DEF EmptyAt, NoEmptyBefore
<1>3. Len(g) = n
  BY EndRead
<1> HIDE DEF g, l
<1>4. Exceeds(g)
  BY <1>1, <1>2, <1>3 DEF Exceeds
<1> QED BY <1>4 DEF g

\* Something behind the header.
LEMMA UnexpectedInv ==
  ASSUME Inv, Unexpected
  PROVE  Inv'
<1> DEFINE r == request
           n == byteCount
           p == Position
<1>1. /\ pc = "chunk" /\ receiveState \in {"body", "ready"} /\ buf # <<>>
      /\ Throw /\ byteCount' = byteCount
  BY DEF Unexpected
<1>2. /\ r \in Seq(Symbols) /\ Len(r) \in Nat /\ n \in 0 .. Len(r) /\ p \in 1 .. n + 1
      /\ buf = SubSeq(r, p, n) /\ Place(r, p, receiveState, method, linesBuf)
  BY <1>1, InChunk, Receiving
<1>3. EmptyAt(r, p - 2) /\ NoEmptyBefore(r, p - 2)
  BY <1>1, <1>2 DEF Place, InLine, InTheHeader, BehindHeader
<1> HIDE DEF p
<1>4. p <= n
  <2>1. n < p => SubSeq(r, p, n) = <<>>
    BY <1>2, SubSeqEmpty
  <2> QED BY <1>1, <1>2, <2>1
<1>5. (p - 2) + 1 < n
  BY <1>2, <1>4
<1>6. Exceeds(SubSeq(r, 1, n))
  BY <1>2, <1>3, <1>5, ExceedsHere
<1>7. byteCount' \in byteCount .. Len(request) /\ Exceeds(SubSeq(request, 1, byteCount'))
  BY <1>1, <1>2, <1>6
<1> QED BY <1>1, <1>7, ThrowInv

\* Where a request is does not change between chunks.
LEMMA ParsingStays ==
  ASSUME Inv, Received,
         UNCHANGED <<request, byteCount, buf, receiveState, method, linesBuf>>,
         pc' # "chunk" => Drained(request, Position, byteCount, receiveState)
  PROVE  /\ Parsing(request, Position, byteCount)'
         /\ request' \in Requests /\ byteCount' \in 0 .. Len(request') /\ Len(buf') \in 0 .. byteCount'
<1>1. Parsing(request, Position, byteCount)
  BY DEF Inv
<1>2. Position' = Position
  BY DEF Position
<1> QED BY <1>1, <1>2 DEF Parsing, Inv

\* The chunk has been processed as far as it goes.
LEMMA ChunkProcessedInv ==
  ASSUME Inv, ChunkProcessed
  PROVE  Inv'
<1> DEFINE r == request
           n == byteCount
           p == Position
<1>1. /\ pc = "chunk" /\ pc' = "reads"
      /\ buf = <<>> \/ (receiveState \in {"line", "header"} /\ ~HasLine)
      /\ UNCHANGED <<request, byteCount, buf, receiveState, method, linesBuf, outcome>>
  BY DEF ChunkProcessed
<1>2. /\ r \in Seq(Symbols) /\ Len(r) \in Nat /\ n \in 0 .. Len(r) /\ p \in 1 .. n + 1
      /\ buf = SubSeq(r, p, n)
  BY <1>1, InChunk, Receiving
<1>3. Drained(r, p, n, receiveState)
  <2> HIDE DEF p
  <2>1. CASE buf = <<>>
    <3>1. Len(buf) = n - p + 1
      <4>1. p \in 1 .. Len(r) + 1 /\ n \in p - 1 .. Len(r)
        BY <1>2
      <4> QED BY <1>2, <4>1, Part
    <3>2. Len(buf) = 0
      BY <2>1, EmptySeq
    <3>3. p = n + 1
      BY <1>2, <3>1, <3>2
    <3> QED BY <1>2, <3>3 DEF Drained
  <2>2. CASE receiveState \in {"line", "header"} /\ ~HasLine
    BY <1>2, <2>2, BufferNoLine DEF Drained
  <2> QED BY <1>1, <2>1, <2>2
<1>4. outcome = "receiving" /\ Received
  BY <1>1, InChunk
<1>5. /\ Parsing(request, Position, byteCount)'
      /\ request' \in Requests /\ byteCount' \in 0 .. Len(request') /\ Len(buf') \in 0 .. byteCount'
  BY <1>1, <1>3, <1>4, ParsingStays
<1>6. Received' /\ ~HandedOver' /\ outcome' = "receiving"
  BY <1>1, <1>4, Zenon DEF Received, HandedOver
<1> QED BY <1>1, <1>5, <1>6 DEF Inv

\* More is read.
LEMMA ReadInv ==
  ASSUME Inv, Read
  PROVE  Inv'
<1> DEFINE r == request
           n == byteCount
           p == Position
<1>1. pc \in {"idle", "reads"} /\ outcome = "receiving"
  BY DEF Read
<1>2. PICK k \in 1 .. ChunkMax :
        /\ byteCount + k <= Len(request) /\ byteCount' = byteCount + k
        /\ IF receiveState # "ready" /\ WithinLimit(byteCount + k)
           THEN /\ buf' = buf \o SubSeq(request, byteCount + 1, byteCount + k)
                /\ pc' = "chunk"
                /\ UNCHANGED <<request, receiveState, method, linesBuf, header, outcome>>
           ELSE Throw
  BY DEF Read
<1>3. Received
  BY <1>1 DEF Received
<1>4. /\ r \in Seq(Symbols) /\ Len(r) \in Nat /\ n \in 0 .. Len(r) /\ p \in 1 .. n + 1
      /\ buf = SubSeq(r, p, n) /\ Place(r, p, receiveState, method, linesBuf)
      /\ Drained(r, p, n, receiveState) /\ ByteCountMax \in Nat
  BY <1>1, <1>3, Receiving
<1>5. k \in Nat \ {0} /\ n + k \in n .. Len(r) /\ n + k \in 0 .. Len(r) /\ p \in 1 .. (n + k) + 1
  <2>1. ChunkMax \in Nat
    BY LimitsAssumption
  <2> QED BY <1>2, <1>4, <2>1
<1>6. CASE receiveState # "ready" /\ n + k <= ByteCountMax
  <2>1. /\ buf' = buf \o SubSeq(r, n + 1, n + k) /\ pc' = "chunk"
        /\ UNCHANGED <<request, receiveState, method, linesBuf, outcome>>
    BY <1>2, <1>6 DEF WithinLimit
  <2> DEFINE m == n + k
  <2>a. m \in n .. Len(r) /\ m \in 0 .. Len(r) /\ p \in 1 .. m + 1 /\ byteCount' = m /\ m <= ByteCountMax
    BY <1>2, <1>5, <1>6
  <2>b. buf' = SubSeq(r, p, n) \o SubSeq(r, n + 1, m)
    BY <1>4, <2>1
  <2> HIDE DEF m, p
  <2>2. buf' = SubSeq(r, p, m)
    BY <1>4, <2>a, <2>b, BufferGrows
  <2>3. Len(buf') = m - p + 1
    <3>1. p \in 1 .. Len(r) + 1 /\ m \in p - 1 .. Len(r)
      BY <1>4, <2>a
    <3> QED BY <1>4, <2>2, <3>1, Part
  <2>4. Position' = p /\ Len(buf') \in 0 .. byteCount'
    BY <1>4, <2>a, <2>3 DEF Position
  <2>5. Place(r, p, receiveState, method, linesBuf)'
    BY <1>4, <2>1, <2>4 DEF p
  <2>6. Parsing(request, Position, byteCount)'
    <3>1. /\ byteCount' <= ByteCountMax /\ buf' = SubSeq(request', Position', byteCount')
          /\ Place(request', Position', receiveState', method', linesBuf')
      BY <1>4, <2>1, <2>2, <2>4, <2>a DEF p
    <3> QED BY <2>1, <3>1 DEF Parsing
  <2>7. Received' /\ ~HandedOver' /\ outcome' = "receiving"
    BY <1>1, <2>1, Zenon DEF Received, HandedOver
  <2>8. request' \in Requests /\ byteCount' \in 0 .. Len(request')
    BY <2>1, <2>a DEF Inv
  <2> QED BY <2>1, <2>4, <2>6, <2>7, <2>8 DEF Inv
<1>7. CASE receiveState = "ready"
  <2>1. Throw
    BY <1>2, <1>7
  <2>2. EmptyAt(r, p - 2) /\ NoEmptyBefore(r, p - 2) /\ p = n + 1
    BY <1>4, <1>7 DEF Place, InLine, InTheHeader, BehindHeader, Drained
  <2> HIDE DEF p
  <2>3. (p - 2) + 1 < n + k
    BY <1>4, <1>5, <2>2
  <2>4. Exceeds(SubSeq(r, 1, n + k))
    BY <1>4, <1>5, <2>2, <2>3, ExceedsHere
  <2>5. byteCount' \in byteCount .. Len(request) /\ Exceeds(SubSeq(request, 1, byteCount'))
    BY <1>2, <1>5, <2>4
  <2> QED BY <2>1, <2>5, ThrowInv
<1>8. CASE ~(n + k <= ByteCountMax)
  <2>1. Throw
    BY <1>2, <1>8 DEF WithinLimit
  <2>2. byteCount' \in byteCount .. Len(request) /\ byteCount' > ByteCountMax
    BY <1>2, <1>4, <1>5, <1>8
  <2> QED BY <2>1, <2>2, ThrowInv
<1> QED BY <1>6, <1>7, <1>8

\* There is nothing more to be read for now.
LEMMA ReadsEndInv ==
  ASSUME Inv, ReadsEnd
  PROVE  Inv'
<1>1. /\ pc = "reads" /\ pc' = "idle"
      /\ UNCHANGED <<request, byteCount, buf, receiveState, method, linesBuf>>
  BY DEF ReadsEnd
<1>2. outcome = "receiving" /\ Received
  BY <1>1 DEF Inv, Received
<1>3. Drained(request, Position, byteCount, receiveState)
  BY <1>1, <1>2, Receiving
<1>4. /\ Parsing(request, Position, byteCount)'
      /\ request' \in Requests /\ byteCount' \in 0 .. Len(request') /\ Len(buf') \in 0 .. byteCount'
  BY <1>1, <1>2, <1>3, ParsingStays
<1>5. CASE receiveState = "ready"
  <2>1. HandedOver' /\ outcome' # "receiving" /\ outcome' # "rejected"
    BY <1>5, Zenon DEF ReadsEnd, HandedOver
  <2>2. Received' /\ receiveState' = "ready"
    BY <1>1, <1>5, <2>1 DEF Received
  <2> QED BY <1>1, <1>4, <2>1, <2>2 DEF Inv
<1>6. CASE receiveState # "ready"
  <2>1. ~HandedOver' /\ outcome' = "receiving" /\ Received'
    BY <1>2, <1>6, Zenon DEF ReadsEnd, HandedOver, Received
  <2>2. receiveState' # "ready"
    BY <1>1, <1>6
  <2> QED BY <1>1, <1>4, <2>1, <2>2 DEF Inv
<1> QED BY <1>5, <1>6

\* The connection is given up.
LEMMA UnrecognizedInv ==
  ASSUME Inv, Unrecognized
  PROVE  Inv'
<1>1. /\ outcome' = "aborted" /\ pc' = "idle"
      /\ UNCHANGED <<request, byteCount, buf>>
  BY DEF Unrecognized
<1>2. ~Received' /\ ~HandedOver' /\ outcome' # "rejected" /\ outcome' # "receiving"
  BY <1>1, Zenon DEF Received, HandedOver
<1>3. request' \in Requests /\ byteCount' \in 0 .. Len(request') /\ Len(buf') \in 0 .. byteCount'
  BY <1>1 DEF Inv
<1> QED BY <1>1, <1>2, <1>3 DEF Inv

\* A request begins.
LEMMA InitInv == Init => Inv
<1> SUFFICES ASSUME Init PROVE Inv
  OBVIOUS
<1>1. /\ request \in Requests /\ byteCount = 0 /\ buf = <<>> /\ receiveState = "line"
      /\ linesBuf = <<>> /\ outcome = "receiving" /\ pc = "idle"
  BY DEF Init
<1>2. request \in Seq(Symbols) /\ Len(request) \in Nat /\ ByteCountMax \in Nat
  BY <1>1, RequestsAssumption, LimitsAssumption, LenProperties
<1>3. Len(buf) = 0 /\ Position = 1
  BY <1>1, EmptySeq DEF Position
<1>4. SubSeq(request, 1, 0) = <<>>
  BY SubSeqEmpty
<1>5. Drained(request, 1, 0, receiveState)
  BY <1>1 DEF Drained
<1>6. Place(request, 1, receiveState, method, linesBuf)
  BY <1>1 DEF Place, InLine
<1>7. Parsing(request, Position, byteCount)
  BY <1>1, <1>2, <1>3, <1>4, <1>5, <1>6 DEF Parsing
<1>8. Received /\ ~HandedOver
  BY <1>1, Zenon DEF Received, HandedOver
<1> QED BY <1>1, <1>2, <1>3, <1>7, <1>8 DEF Inv

\* Every step preserves the invariant.
LEMMA NextInv == Inv /\ [Next]_vars => Inv'
<1> SUFFICES ASSUME Inv, [Next]_vars PROVE Inv'
  OBVIOUS
<1>1. CASE UNCHANGED vars
  BY <1>1, Zenon DEF vars, Inv, Received, HandedOver, Parsing, Position, Got
<1>2. CASE Next
  BY <1>2, ReadInv, ReadsEndInv, UnrecognizedInv, RequestLineInv, HeaderLineInv, HeaderEndInv,
     UnexpectedInv, ChunkProcessedInv DEF Next
<1> QED BY <1>1, <1>2

\* The invariant holds throughout.
LEMMA AlwaysInv == Spec => []Inv
  BY InitInv, NextInv, PTL DEF Spec

-----------------------------------------------------------------------------
(***************************************************************************)
(* Between two events.                                                     *)
(***************************************************************************)

\* What has been read of a request is a request that is well-formed so far.
LEMMA FieldsReadGood ==
  ASSUME NEW r \in Seq(Symbols), NEW n \in 0 .. Len(r), NEW p \in 1 .. n + 1,
         NEW state, NEW verb, NEW held,
         Place(r, p, state, verb, held), Drained(r, p, n, state),
         NEW a, NEW x, FieldAt(r, a), NextStop(r, a, x),
         NEW y \in Nat, NEW e \in Nat, Stop(r, y), x <= y, IsLine(r, y, e), e + 1 <= n
  PROVE  GoodField(Text(r, a, x))
<1>0. Len(r) \in Nat /\ n \in Nat /\ p \in Nat
  BY LenProperties
<1>1. /\ x \in Nat /\ a < x /\ a \in Nat /\ 1 < a
      /\ y <= e /\ 1 < y /\ EndAt(r, e)
      /\ EndAt(r, y - 2) /\ y - 2 \in 1 .. Len(r)
  <2>1. x \in Nat /\ a < x /\ a \in Nat /\ 1 < a
    BY DEF NextStop, FieldAt, IsLine, Starts
  <2>2. 1 < y
    BY StopFacts
  <2>3. y <= e /\ EndAt(r, e) /\ EndAt(r, y - 2)
    BY <2>2 DEF IsLine, Starts
  <2> QED BY <2>1, <2>2, <2>3, <1>0 DEF EndAt
<1>2. CASE InLine(r, p, state, held)
  <2>1. p = 1 /\ \A f \in p .. n - 1 : ~EndAt(r, f)
    BY <1>2 DEF InLine, Drained
  <2> QED BY <1>0, <1>1, <2>1
<1>3. CASE InTheHeader(r, p, state, verb, held)
  <2>1. Checked(r, p - 1) /\ \A f \in p .. n - 1 : ~EndAt(r, f)
    BY <1>3 DEF InTheHeader, Drained
  <2>2. y <= p - 1
    BY <1>0, <1>1, <2>1
  <2>3. a \in 1 .. p - 1 /\ x \in 1 .. p - 1
    BY <1>0, <1>1, <2>2
  <2> QED BY <2>1, <2>3 DEF Checked
<1>4. CASE BehindHeader(r, p, state, held)
  <2>1. Checked(r, p - 2) /\ EmptyAt(r, p - 2) /\ p = n + 1
    BY <1>4 DEF BehindHeader, Drained
  <2>2. p - 2 \in Nat /\ 1 < p - 2
    BY <1>0, <2>1 DEF EmptyAt
  <2>3. y <= p - 2
    BY <1>0, <1>1, <2>1, <2>2
  <2>4. a \in 1 .. p - 2 /\ x \in 1 .. p - 2
    BY <1>0, <1>1, <2>2, <2>3
  <2> QED BY <2>1, <2>4 DEF Checked
<1> QED BY <1>2, <1>3, <1>4 DEF Place

\* So is its first line.
LEMMA FirstLineReadGood ==
  ASSUME NEW r \in Seq(Symbols), NEW n \in 0 .. Len(r), NEW p \in 1 .. n + 1,
         NEW state, NEW verb, NEW held,
         Place(r, p, state, verb, held), Drained(r, p, n, state),
         NEW e, IsLine(r, 1, e), e + 1 <= n
  PROVE  GoodRequestLine(SubSeq(r, 1, e - 1))
<1>0. Len(r) \in Nat /\ n \in Nat /\ p \in Nat
  BY LenProperties
<1>1. 1 <= e /\ EndAt(r, e) /\ e \in Nat
  BY <1>0 DEF IsLine, EndAt
<1>2. CASE InLine(r, p, state, held)
  <2>1. p = 1 /\ \A f \in p .. n - 1 : ~EndAt(r, f)
    BY <1>2 DEF InLine, Drained
  <2> QED BY <1>0, <1>1, <2>1
<1>3. CASE FirstLineGood(r, p)
  <2>1. PICK f : IsLine(r, 1, f) /\ GoodRequestLine(SubSeq(r, 1, f - 1))
    BY <1>3 DEF FirstLineGood
  <2>2. f = e
    <3>1. Starts(r, 1)
      BY DEF Starts
    <3> QED BY <2>1, <3>1, LinesApart
  <2> QED BY <2>1, <2>2
<1> QED BY <1>2, <1>3 DEF Place, InTheHeader, BehindHeader

\* No more has been read than belongs to its header.
LEMMA EmptyReadLast ==
  ASSUME NEW r \in Seq(Symbols), NEW n \in 0 .. Len(r), NEW p \in 1 .. n + 1,
         NEW state, NEW verb, NEW held,
         Place(r, p, state, verb, held), Drained(r, p, n, state),
         NEW h, EmptyAt(r, h), h + 1 <= n
  PROVE  state \in {"body", "ready"} /\ h + 1 = n
<1>0. Len(r) \in Nat /\ n \in Nat /\ p \in Nat
  BY LenProperties
<1>1. h \in Nat /\ 1 < h /\ EndAt(r, h)
  BY DEF EmptyAt, IsLine, Starts
<1>2. CASE InLine(r, p, state, held)
  <2>1. p = 1 /\ \A f \in p .. n - 1 : ~EndAt(r, f)
    BY <1>2 DEF InLine, Drained
  <2> QED BY <1>0, <1>1, <2>1
<1>3. CASE InTheHeader(r, p, state, verb, held)
  <2>1. NoEmptyBefore(r, p) /\ \A f \in p .. n - 1 : ~EndAt(r, f)
    BY <1>3 DEF InTheHeader, Drained
  <2> QED BY <1>0, <1>1, <2>1 DEF NoEmptyBefore
<1>4. CASE BehindHeader(r, p, state, held)
  <2>1. /\ state \in {"body", "ready"} /\ NoEmptyBefore(r, p - 2) /\ p = n + 1
        /\ \A i \in 2 .. p - 2 - 1 : ~EmptyAt(r, i)
    BY <1>4 DEF BehindHeader, Drained, NoEmptyBefore
  <2>2. h >= p - 2
    BY <1>0, <1>1, <2>1
  <2> QED BY <1>0, <1>1, <2>1, <2>2
<1> QED BY <1>2, <1>3, <1>4 DEF Place

\* What is read of a request that nothing is wrong with so far.
LEMMA ReadSoFar ==
  ASSUME NEW r \in Seq(Symbols), NEW n \in 0 .. Len(r), NEW p \in 1 .. n + 1,
         NEW state, NEW verb, NEW held,
         Place(r, p, state, verb, held), Drained(r, p, n, state)
  PROVE  /\ ~Malformed(SubSeq(r, 1, n))
         /\ ~Exceeds(SubSeq(r, 1, n))
         /\ state = "ready" <=> HeaderDone(SubSeq(r, 1, n)) /\ IsGet(SubSeq(r, 1, n))
<1> DEFINE g == SubSeq(r, 1, n)
<1>0. Len(r) \in Nat /\ n \in Nat /\ p \in Nat
  BY LenProperties
<1>1. ~Malformed(g)
  <2>1. \A e : IsLine(r, 1, e) /\ e + 1 <= n => GoodRequestLine(SubSeq(r, 1, e - 1))
    BY FirstLineReadGood
  <2>2. ASSUME NEW a, NEW x, FieldAt(r, a), NextStop(r, a, x),
               \E y, e \in Nat : Stop(r, y) /\ x <= y /\ IsLine(r, y, e) /\ e + 1 <= n
        PROVE  GoodField(Text(r, a, x))
    BY <2>2, FieldsReadGood
  <2> QED BY <2>1, <2>2, WellFormed
<1>2. Len(g) = n /\ \A i \in 1 .. n : g[i] = r[i]
  BY EndRead
<1>3. \A l \in HeaderEnds(g) :
         l[2] = l[1] /\ EmptyAt(r, l[1]) /\ l[1] + 1 <= n /\ l[1] \in Nat
  BY HeaderEndsRead
<1>4. \A l \in HeaderEnds(g) : l[2] + 1 = n /\ state \in {"body", "ready"}
  <2>1. ASSUME NEW l \in HeaderEnds(g) PROVE l[1] + 1 = n /\ state \in {"body", "ready"}
    <3>1. EmptyAt(r, l[1]) /\ l[1] + 1 <= n
      BY <1>3
    <3> HIDE DEF g
    <3> QED BY <3>1, EmptyReadLast
  <2> HIDE DEF g
  <2> QED BY <1>3, <2>1
<1>5. ~Exceeds(g)
  <2> HIDE DEF g
  <2> QED BY <1>0, <1>2, <1>4 DEF Exceeds
<1>6. CASE state \in {"line", "header"}
  <2>1. state # "ready" /\ HeaderEnds(g) = {}
    <3> HIDE DEF g
    <3> QED BY <1>4, <1>6
  <2> HIDE DEF g
  <2>2. state = "ready" <=> HeaderDone(g) /\ IsGet(g)
    BY <2>1 DEF HeaderDone
  <2> QED BY <1>1, <1>5, <2>2 DEF g
<1>7. CASE BehindHeader(r, p, state, held)
  <2>1. /\ state = "ready" <=> IsGet(r)
        /\ EmptyAt(r, p - 2) /\ p = n + 1
    BY <1>7 DEF BehindHeader, Drained
  <2>2. HeaderDone(g)
    <3>1. <<p - 2, p - 2>> \in HeaderEnds(g)
      <4>1. (p - 2) + 1 <= n
        BY <1>0, <2>1
      <4> QED BY <2>1, <4>1, HeaderEndsRead
    <3> HIDE DEF g
    <3> QED BY <3>1 DEF HeaderDone
  <2>3. IsGet(g) <=> IsGet(r)
    <3>1. n >= 2
      BY <1>0, <2>1 DEF EmptyAt
    <3>2. g[1] = r[1] /\ g[2] = r[2] /\ Len(g) > 1 /\ Len(r) > 1
      BY <1>0, <1>2, <3>1
    <3> HIDE DEF g
    <3> QED BY <3>2 DEF IsGet
  <2> HIDE DEF g
  <2>4. state = "ready" <=> HeaderDone(g) /\ IsGet(g)
    BY <2>1, <2>2, <2>3
  <2> QED BY <1>1, <1>5, <2>4 DEF g
<1> QED BY <1>6, <1>7 DEF Place, InLine, InTheHeader

\* The invariant says what is stated of a request between two events.
LEMMA ReadAsCut == Inv => ChunkingIrrelevant
<1> SUFFICES ASSUME Inv, pc = "idle", outcome # "aborted"
             PROVE  /\ outcome = "rejected" <=>
                         (Malformed(Got) \/ Exceeds(Got) \/ byteCount > ByteCountMax)
                    /\ HandedOver <=> outcome # "rejected" /\ HeaderDone(Got) /\ IsGet(Got)
  BY Zenon DEF ChunkingIrrelevant, HandedOver
<1>1. CASE outcome = "rejected"
  <2>1. ~HandedOver
    BY <1>1, Zenon DEF HandedOver
  <2> QED BY <1>1, <2>1 DEF Inv
<1>2. CASE Received
  <2>1. outcome # "rejected"
    BY <1>2, Zenon DEF Received, HandedOver
  <2>2. /\ ~Malformed(Got) /\ ~Exceeds(Got) /\ ~(byteCount > ByteCountMax)
        /\ receiveState = "ready" <=> HeaderDone(Got) /\ IsGet(Got)
    <3>1. /\ request \in Seq(Symbols) /\ Len(request) \in Nat
          /\ byteCount \in 0 .. Len(request) /\ Position \in 1 .. byteCount + 1
          /\ byteCount <= ByteCountMax /\ ByteCountMax \in Nat
          /\ Place(request, Position, receiveState, method, linesBuf)
          /\ Drained(request, Position, byteCount, receiveState)
      BY <1>2, Receiving
    <3>2. ~(byteCount > ByteCountMax)
      BY <3>1
    <3> QED BY <3>1, <3>2, ReadSoFar DEF Got
  <2>3. HandedOver <=> receiveState = "ready"
    BY <1>2 DEF Inv, Received
  <2> QED BY <2>1, <2>2, <2>3
<1> QED BY <1>1, <1>2 DEF Inv

\* Wherever the chunks have been cut that RequestNetside::processChunk has been
\* given, for any requests, any limit and chunks of any size: between two events a
\* request has been rejected exactly if what has been read of it is malformed, too
\* long or goes on behind its header, and has been handed over exactly if it is a
\* GET with its header complete.
THEOREM ChunkingIsIrrelevant == Spec => []ChunkingIrrelevant
  BY AlwaysInv, ReadAsCut, PTL

-----------------------------------------------------------------------------
(***************************************************************************)
(* Numbers in their order.                                                 *)
(***************************************************************************)

\* As many numbers as rise.
LEMMA RisingCount ==
  ASSUME NEW at \in Seq(Nat), Rises(at), NEW m \in 0 .. Len(at)
  PROVE  Cardinality({at[j] : j \in 1 .. m}) = m
<1> DEFINE S == {at[j] : j \in 1 .. m}
           f == [j \in 1 .. m |-> at[j]]
<1>0. Len(at) \in Nat /\ DOMAIN at = 1 .. Len(at) /\ \A i \in 1 .. Len(at) : at[i] \in Nat
  BY ElementOfSeq, LenProperties
<1>1. \A i, j \in 1 .. m : i < j => at[i] < at[j]
  BY <1>0 DEF Rises
<1>2. \A i, j \in 1 .. m : at[i] = at[j] => i = j
  BY <1>0, <1>1
<1>3. f \in Bijection(1 .. m, S)
  <2>1. f \in [1 .. m -> S]
    OBVIOUS
  <2>2. \A i, j \in 1 .. m : f[i] = f[j] => i = j
    BY <1>2
  <2>3. \A t \in S : \E j \in 1 .. m : f[j] = t
    OBVIOUS
  <2> HIDE DEF f, S
  <2> QED BY <2>1, <2>2, <2>3 DEF Bijection, Injection, Surjection, IsInjective
<1>4. ExistsBijection(1 .. m, S)
  BY <1>3 DEF ExistsBijection
<1>5. m \in Nat
  BY <1>0
<1> HIDE DEF S
<1> QED BY <1>4, <1>5, FS_CountingElements DEF S

\* What rises is the numbers it has in their order.
LEMMA InOrderIs ==
  ASSUME NEW at \in Seq(Nat), Rises(at), NEW S,
         \A x : x \in S <=> \E i \in DOMAIN at : at[i] = x
  PROVE  InOrder(S) = at
<1> DEFINE n == Len(at)
           Least(x, i) == Cardinality({m \in S : m <= x}) = i
<1>0. n \in Nat /\ DOMAIN at = 1 .. n /\ \A i \in 1 .. n : at[i] \in Nat
  BY ElementOfSeq, LenProperties
<1> HIDE DEF n
<1>1. \A i, j \in 1 .. n : (i < j => at[i] < at[j]) /\ (at[i] = at[j] => i = j)
  <2>1. \A i, j \in 1 .. n : i < j => at[i] < at[j]
    BY <1>0, Zenon DEF Rises
  <2>2. \A i, j \in 1 .. n : i < j \/ j < i \/ i = j
    BY <1>0
  <2> QED BY <1>0, <2>1, <2>2
<1>2. S = {at[j] : j \in 1 .. n}
  BY <1>0
<1>3. Cardinality(S) = n
  <2>1. n \in 0 .. Len(at)
    BY <1>0 DEF n
  <2>2. Cardinality({at[j] : j \in 1 .. n}) = n
    BY <2>1, RisingCount
  <2> QED BY <1>2, <2>2
<1>4. \A i \in 1 .. n : Cardinality({m \in S : m <= at[i]}) = i
  <2>1. ASSUME NEW i \in 1 .. n PROVE Cardinality({m \in S : m <= at[i]}) = i
    <3>1. \A j \in 1 .. n : at[j] <= at[i] <=> j <= i
      BY <1>0, <1>1
    <3>2. {m \in S : m <= at[i]} = {at[j] : j \in 1 .. i}
      <4>1. ASSUME NEW m \in S, m <= at[i] PROVE m \in {at[j] : j \in 1 .. i}
        <5>1. PICK j \in 1 .. n : m = at[j]
          BY <1>2
        <5>2. j \in 1 .. i
          BY <1>0, <3>1, <4>1, <5>1
        <5> QED BY <5>1, <5>2
      <4>2. ASSUME NEW j \in 1 .. i PROVE at[j] \in {m \in S : m <= at[i]}
        <5>1. j \in 1 .. n /\ j <= i
          BY <1>0
        <5> QED BY <1>2, <3>1, <5>1
      <4> QED BY <4>1, <4>2
    <3>3. i \in 0 .. Len(at)
      BY <1>0 DEF n
    <3>4. Cardinality({at[j] : j \in 1 .. i}) = i
      BY <3>3, RisingCount
    <3> QED BY <3>2, <3>4
  <2> QED BY <2>1
<1>5. \A i \in 1 .. n : (CHOOSE x \in S : Least(x, i)) = at[i]
  <2>1. ASSUME NEW i \in 1 .. n PROVE (CHOOSE x \in S : Least(x, i)) = at[i]
    <3>1. at[i] \in S /\ Least(at[i], i)
      BY <1>2, <1>4
    <3>2. ASSUME NEW x \in S, Least(x, i) PROVE x = at[i]
      <4>1. PICK j \in 1 .. n : x = at[j]
        BY <1>2
      <4>2. Least(x, j)
        BY <1>4, <4>1
      <4> QED BY <3>2, <4>1, <4>2
    <3> HIDE DEF Least
    <3> QED BY <3>1, <3>2
  <2> QED BY <2>1
<1>6. InOrder(S) = [i \in 1 .. n |-> CHOOSE x \in S : Least(x, i)]
  BY <1>3 DEF InOrder
<1>7. InOrder(S) = [i \in 1 .. n |-> at[i]]
  <2> HIDE DEF Least
  <2> QED BY <1>5, <1>6
<1>8. at = [i \in 1 .. n |-> at[i]]
  BY <1>0, SeqDef
<1> QED BY <1>7, <1>8
\* A line is a text, and so is what is behind it.
LEMMA LineTyped ==
  ASSUME buf \in Seq(Symbols), HasLine
  PROVE  Line \in Seq(Symbols) /\ (RemoveLine => buf' \in Seq(Symbols))
<1> DEFINE n == Len(buf)
<1>1. n \in Nat /\ buf = SubSeq(buf, 1, n) /\ Starts(buf, 1)
  BY LenProperties, SubSeqFull DEF Starts
<1>2. n \in 0 .. Len(buf) /\ 1 \in 1 .. n + 1
  BY <1>1
<1>3. PICK e \in 1 .. n - 1 :
        /\ Line \in Seq(Symbols)
        /\ SubSeq(buf, LineSep + 2, Len(buf)) = SubSeq(buf, e + 2, n)
  BY <1>1, <1>2, BufferLine
<1>4. SubSeq(buf, e + 2, n) \in Seq(Symbols)
  <2>1. e + 2 \in 1 .. Len(buf) + 1 /\ n \in (e + 2) - 1 .. Len(buf)
    BY <1>1
  <2> QED BY <2>1, Part
<1> QED BY <1>3, <1>4 DEF RemoveLine

\* The name of a field is a text.
LEMMA NameTyped ==
  ASSUME NEW s \in Seq(Symbols)
  PROVE  FieldName(s) \in Seq(Symbols) /\ Lower(FieldName(s)) \in Seq(Symbols)
<1>1. Len(s) \in Nat
  BY LenProperties
<1> DEFINE at == IndexOf(s, "colon", 1)
<1>2. at \in 1 .. Len(s) + 1
  BY <1>1, IndexOfFacts
<1>3. FieldName(s) \in Seq(Symbols)
  <2>1. 1 \in 1 .. Len(s) + 1 /\ at - 1 \in 1 - 1 .. Len(s)
    BY <1>1, <1>2
  <2> QED BY <2>1, Part DEF FieldName
<1>4. ASSUME NEW t \in Seq(Symbols) PROVE Lower(t) \in Seq(Symbols)
  <2>1. Len(t) \in Nat /\ DOMAIN t = 1 .. Len(t) /\ \A i \in 1 .. Len(t) : t[i] \in Symbols
    BY ElementOfSeq, LenProperties
  <2>2. Lower(t) \in [1 .. Len(t) -> Symbols]
    BY <2>1 DEF Lower, Symbols
  <2> QED BY <2>1, <2>2, SeqDef
<1> QED BY <1>3, <1>4

\* A field that is appended is filed under its name.
LEMMA AppendTyped ==
  ASSUME HeaderTyped, linesBuf \in Seq(Symbols), AppendField
  PROVE  HeaderTyped'
<1>1. CASE linesBuf = <<>>
  BY <1>1 DEF AppendField, header, HeaderTyped
<1>2. CASE linesBuf # <<>>
  <2> DEFINE key == Lower(FieldName(linesBuf))
  <2>1. fields' = Append(fields, linesBuf) /\ nameIndices' = Inserted(nameIndices, key, Len(fields'))
    BY <1>2 DEF AppendField
  <2>2. fields \in Seq(Seq(Symbols)) /\ Len(fields) \in Nat /\ DOMAIN fields = 1 .. Len(fields)
    BY LenProperties DEF HeaderTyped
  <2>3. fields' \in Seq(Seq(Symbols)) /\ Len(fields') = Len(fields) + 1
    BY <2>1, <2>2, AppendProperties
  <2>4. DOMAIN fields' = 1 .. Len(fields) + 1
    BY <2>3, LenProperties
  <2>5. DOMAIN fields \subseteq DOMAIN fields' /\ Len(fields') \in DOMAIN fields'
    BY <2>2, <2>3, <2>4
  <2>6. key \in Seq(Symbols)
    BY NameTyped
  <2> HIDE DEF key
  <2>7. \A k \in DOMAIN nameIndices : nameIndices[k] \in Seq(DOMAIN fields')
    <3>1. ASSUME NEW k \in DOMAIN nameIndices PROVE nameIndices[k] \in Seq(DOMAIN fields')
      <4>1. nameIndices[k] \in Seq(DOMAIN fields)
        BY DEF HeaderTyped
      <4>2. Seq(DOMAIN fields) \subseteq Seq(DOMAIN fields')
        BY <2>5
      <4> QED BY <4>1, <4>2
    <3> QED BY <3>1
  <2>8. <<Len(fields')>> \o Values(nameIndices, key) \in Seq(DOMAIN fields')
    <3>1. Values(nameIndices, key) \in Seq(DOMAIN fields')
      <4>1. CASE key \in DOMAIN nameIndices
        <5>1. nameIndices[key] \in Seq(DOMAIN fields')
          BY <2>7, <4>1
        <5> QED BY <4>1, <5>1 DEF Values
      <4>2. CASE key \notin DOMAIN nameIndices
        <5>1. Values(nameIndices, key) = <<>>
          BY <4>2, Zenon DEF Values
        <5> QED BY <5>1, EmptySeq
      <4> QED BY <4>1, <4>2
    <3>2. <<Len(fields')>> \in Seq(DOMAIN fields')
      BY <2>5
    <3> QED BY <3>1, <3>2, ConcatProperties
  <2>9. /\ DOMAIN nameIndices' = DOMAIN nameIndices \cup {key}
        /\ \A k \in DOMAIN nameIndices \cup {key} :
             nameIndices'[k] = IF k = key THEN <<Len(fields')>> \o Values(nameIndices, key)
                               ELSE nameIndices[k]
    BY <2>1 DEF Inserted
  <2>10. nameIndices' = [k \in DOMAIN nameIndices' |-> nameIndices'[k]]
    BY <2>1 DEF Inserted
  <2>11. \A k \in DOMAIN nameIndices' : nameIndices'[k] \in Seq(DOMAIN fields')
    BY <2>7, <2>8, <2>9
  <2>12. DOMAIN nameIndices' \subseteq Seq(Symbols)
    BY <2>6, <2>9 DEF HeaderTyped
  <2> QED BY <2>3, <2>10, <2>11, <2>12 DEF HeaderTyped
<1> QED BY <1>1, <1>2

\* The fields are those that have been flushed.
LEMMA HeaderTypedNext ==
  ASSUME HeaderTyped, linesBuf \in Seq(Symbols), [Next]_vars
  PROVE  HeaderTyped'
<1>1. CASE UNCHANGED header
  BY <1>1 DEF header, HeaderTyped
<1>2. CASE AppendField
  BY <1>2, AppendTyped
<1>3. UNCHANGED header \/ AppendField
  BY Zenon DEF Next, vars, Read, ReadsEnd, Unrecognized, RequestLine, HeaderLine, HeaderEnd,
     Unexpected, ChunkProcessed, Throw, Flush, header
<1> QED BY <1>1, <1>2, <1>3

\* The texts remain texts.
LEMMA TextsTypedNext ==
  ASSUME Inv, TextsTyped, [Next]_vars
  PROVE  TextsTyped'
<1>0. /\ buf \in Seq(Symbols) /\ method \in Seq(Symbols) /\ linesBuf \in Seq(Symbols)
      /\ receiveState \in {"line", "header", "body", "ready"}
      /\ receiveState # "header" => linesBuf = <<>>
  BY DEF TextsTyped
<1>1. CASE UNCHANGED <<buf, receiveState, method, linesBuf>>
  BY <1>1 DEF TextsTyped
<1>2. CASE RequestLine
  <2>1. HasLine /\ receiveState = "line"
    BY <1>2 DEF RequestLine
  <2>2. CASE Throw
    BY <1>1, <2>2 DEF Throw
  <2>3. CASE ~Throw
    <3> DEFINE pathAt == IndexOf(Line, "sp", 1)
               versionAt == IndexOf(Line, "sp", pathAt + 1)
    <3>1. /\ 1 < pathAt /\ pathAt + 1 < versionAt /\ versionAt < Len(Line)
          /\ method' = SubSeq(Line, 1, pathAt - 1)
          /\ RemoveLine /\ receiveState' = "header" /\ linesBuf' = linesBuf
      BY <1>2, <2>3 DEF RequestLine
    <3>2. Line \in Seq(Symbols) /\ Len(Line) \in Nat /\ buf' \in Seq(Symbols)
      BY <1>0, <2>1, <3>1, LineTyped, LenProperties
    <3>3. pathAt \in 1 .. Len(Line) + 1
      BY <3>2, IndexOfFacts
    <3>4. SubSeq(Line, 1, pathAt - 1) \in Seq(Symbols)
      <4>1. 1 \in 1 .. Len(Line) + 1 /\ pathAt - 1 \in 1 - 1 .. Len(Line)
        BY <3>2, <3>3
      <4> QED BY <3>2, <4>1, Part
    <3> QED BY <1>0, <3>1, <3>2, <3>4 DEF TextsTyped
  <2> QED BY <2>2, <2>3
<1>3. CASE HeaderEnd
  <2>1. HasLine
    BY <1>3 DEF HeaderEnd
  <2>2. CASE ~Acceptable
    BY <1>1, <1>3, <2>2 DEF HeaderEnd, Throw
  <2>3. CASE Acceptable
    <3>1. /\ linesBuf' = <<>> /\ RemoveLine /\ method' = method
          /\ receiveState' \in {"ready", "body"}
      BY <1>3, <2>3 DEF HeaderEnd, Flush
    <3>2. buf' \in Seq(Symbols)
      BY <1>0, <2>1, <3>1, LineTyped
    <3> QED BY <1>0, <3>1, <3>2, EmptySeq DEF TextsTyped
  <2> QED BY <2>2, <2>3
<1>4. CASE HeaderLine
  <2>1. HasLine /\ receiveState = "header"
    BY <1>4 DEF HeaderLine
  <2>2. CASE ~Continues /\ ~Acceptable
    BY <1>1, <1>4, <2>2 DEF HeaderLine, Throw
  <2>3. CASE Continues \/ Acceptable
    <3>1. /\ linesBuf' \in {Line, linesBuf \o <<"cr", "lf">> \o Line}
          /\ RemoveLine /\ UNCHANGED <<receiveState, method>>
      BY <1>4, <2>3 DEF HeaderLine
    <3>2. Line \in Seq(Symbols) /\ buf' \in Seq(Symbols)
      BY <1>0, <2>1, <3>1, LineTyped
    <3>3. linesBuf' \in Seq(Symbols)
      <4>1. <<"cr", "lf">> \in Seq(Symbols)
        BY DEF Symbols
      <4>2. linesBuf \o <<"cr", "lf">> \o Line \in Seq(Symbols)
        BY <1>0, <3>2, <4>1, ConcatProperties
      <4> QED BY <3>1, <3>2, <4>2
    <3> QED BY <1>0, <2>1, <3>1, <3>2, <3>3 DEF TextsTyped
  <2> QED BY <2>2, <2>3
<1>5. CASE Read
  <2>1. PICK n \in 1 .. ChunkMax :
          /\ byteCount + n <= Len(request)
          /\ \/ /\ buf' = buf \o SubSeq(request, byteCount + 1, byteCount + n)
                /\ UNCHANGED <<receiveState, method, linesBuf>>
             \/ Throw
    BY <1>5 DEF Read
  <2>2. CASE Throw
    BY <1>1, <2>2 DEF Throw
  <2>3. CASE ~Throw
    <3>1. request \in Seq(Symbols) /\ Len(request) \in Nat /\ byteCount \in 0 .. Len(request)
      BY RequestsAssumption, LenProperties DEF Inv
    <3>2. SubSeq(request, byteCount + 1, byteCount + n) \in Seq(Symbols)
      <4>1. /\ byteCount + 1 \in 1 .. Len(request) + 1
            /\ byteCount + n \in (byteCount + 1) - 1 .. Len(request)
        BY <2>1, <3>1
      <4> QED BY <3>1, <4>1, Part
    <3> QED BY <1>0, <2>1, <2>3, <3>2, ConcatProperties DEF TextsTyped
  <2> QED BY <2>2, <2>3
<1>6. UNCHANGED <<buf, receiveState, method, linesBuf>> \/ RequestLine \/ HeaderEnd \/ HeaderLine \/ Read
  BY Zenon DEF Next, vars, ReadsEnd, Unrecognized, Unexpected, ChunkProcessed, Throw
<1> QED BY <1>1, <1>2, <1>3, <1>4, <1>5, <1>6

\* At the beginning there are no texts and no fields.
LEMMA TypedInit == Init => TextsTyped /\ HeaderTyped
<1> SUFFICES ASSUME Init PROVE TextsTyped /\ HeaderTyped
  OBVIOUS
<1>1. /\ buf = <<>> /\ receiveState = "line" /\ method = <<>> /\ linesBuf = <<>>
      /\ fields = <<>> /\ nameIndices = <<>>
  BY DEF Init
<1>2. DOMAIN nameIndices = {} /\ nameIndices = [k \in DOMAIN nameIndices |-> nameIndices[k]]
  BY <1>1
<1> QED BY <1>1, <1>2 DEF TextsTyped, HeaderTyped

\* The types hold throughout.
LEMMA AlwaysTyped == Spec => [](Inv /\ TextsTyped /\ HeaderTyped)
<1>1. Init => Inv /\ TextsTyped /\ HeaderTyped
  BY InitInv, TypedInit
<1>2. Inv /\ TextsTyped /\ HeaderTyped /\ [Next]_vars => (Inv /\ TextsTyped /\ HeaderTyped)'
  <2> SUFFICES ASSUME Inv, TextsTyped, HeaderTyped, [Next]_vars
               PROVE  Inv' /\ TextsTyped' /\ HeaderTyped'
    OBVIOUS
  <2>1. linesBuf \in Seq(Symbols)
    BY DEF TextsTyped
  <2> QED BY <2>1, NextInv, TextsTypedNext, HeaderTypedNext
<1> QED BY <1>1, <1>2, PTL DEF Spec

\* The types of the variables, for any requests: what RequestNetside::processChunk
\* holds back is nothing but lines of a header, and what HeaderNetside files under a
\* name are fields that are there.
THEOREM RequestParserTypeCorrect == Spec => []TypeOK
<1>1. Inv /\ TextsTyped /\ HeaderTyped => TypeOK
  <2> SUFFICES ASSUME Inv, TextsTyped, HeaderTyped PROVE TypeOK
    OBVIOUS
  <2>1. /\ request \in Requests /\ byteCount \in 0 .. Len(request)
        /\ pc \in {"idle", "chunk", "reads"}
    BY DEF Inv
  <2>2. outcome \in {"receiving", "rejected", "handed over", "aborted"}
    BY Zenon DEF Inv, Received, HandedOver
  <2> QED BY <2>1, <2>2, Zenon DEF TypeOK, TextsTyped, HeaderTyped
<1> QED BY <1>1, AlwaysTyped, PTL

-----------------------------------------------------------------------------
(***************************************************************************)
(* The fields.                                                             *)
(***************************************************************************)

\* What rises goes on rising when something greater is added.
LEMMA RisingGrows ==
  ASSUME NEW at \in Seq(Nat), Rises(at), NEW p \in Nat, \A i \in DOMAIN at : at[i] < p
  PROVE  /\ Append(at, p) \in Seq(Nat) /\ Rises(Append(at, p)) /\ Len(Append(at, p)) = Len(at) + 1
         /\ \A x : (\E i \in DOMAIN Append(at, p) : Append(at, p)[i] = x)
                     <=> x = p \/ \E i \in DOMAIN at : at[i] = x
         /\ \A i \in DOMAIN at : Append(at, p)[i] = at[i]
<1> DEFINE more == Append(at, p)
<1>1. Len(at) \in Nat /\ DOMAIN at = 1 .. Len(at) /\ \A i \in 1 .. Len(at) : at[i] \in Nat
  BY ElementOfSeq, LenProperties
<1>2. /\ more \in Seq(Nat) /\ Len(more) = Len(at) + 1 /\ more[Len(at) + 1] = p
      /\ \A i \in 1 .. Len(at) : more[i] = at[i]
  BY AppendProperties
<1>3. DOMAIN more = 1 .. Len(at) + 1
  BY <1>2, LenProperties
<1> HIDE DEF more
<1>4. Rises(more)
  <2>1. ASSUME NEW i \in DOMAIN more, NEW j \in DOMAIN more, i < j PROVE more[i] < more[j]
    <3>1. i \in 1 .. Len(at) /\ more[i] = at[i]
      BY <1>1, <1>2, <1>3, <2>1
    <3>2. CASE j = Len(at) + 1
      BY <1>1, <1>2, <3>1, <3>2
    <3>3. CASE j # Len(at) + 1
      <4>1. j \in 1 .. Len(at) /\ more[j] = at[j]
        BY <1>1, <1>2, <1>3, <3>3
      <4> QED BY <1>1, <2>1, <3>1, <4>1 DEF Rises
    <3> QED BY <3>2, <3>3
  <2> QED BY <2>1 DEF Rises
<1>5. ASSUME NEW x
      PROVE  (\E i \in DOMAIN more : more[i] = x) <=> x = p \/ \E i \in DOMAIN at : at[i] = x
  <2>1. 1 .. Len(at) + 1 = (1 .. Len(at)) \cup {Len(at) + 1}
    BY <1>1
  <2> QED BY <1>1, <1>2, <1>3, <2>1
<1> QED BY <1>1, <1>2, <1>4, <1>5 DEF more

\* A line read: which fields there are before the end of it.
LEMMA FieldsBefore ==
  ASSUME NEW r \in Seq(Symbols), NEW p, NEW e, IsLine(r, p, e), NEW a
  PROVE  /\ p \in Nat
         /\ FieldAt(r, a) /\ a < e + 2 <=> (FieldAt(r, a) /\ a < p) \/ (FieldAt(r, p) /\ a = p)
<1>0. Len(r) \in Nat
  BY LenProperties
<1>1. p \in Nat \ {0} /\ e \in p .. Len(r) - 1
  BY LinesApart DEF IsLine
<1>2. ASSUME FieldAt(r, a), a < e + 2, ~(a < p) PROVE a = p
  <2>1. Starts(r, a) /\ a \in Nat
    BY <1>2 DEF FieldAt, IsLine, Starts
  <2>2. p < a => e + 2 <= a
    BY <2>1, LinesApart
  <2> QED BY <1>1, <1>2, <2>1, <2>2
<1>3. ASSUME FieldAt(r, a), a < p PROVE a < e + 2
  <2>1. a \in Nat
    BY <1>3 DEF FieldAt, IsLine, Starts
  <2> QED BY <1>1, <1>3, <2>1
<1>4. p < e + 2
  BY <1>1
<1> QED BY <1>1, <1>2, <1>3, <1>4

\* A line that starts no field adds none.
LEMMA KeptOn ==
  ASSUME NEW r \in Seq(Symbols), NEW p, NEW e, IsLine(r, p, e), ~FieldAt(r, p),
         NEW all, NEW held, NEW more, held = <<>> <=> more = <<>>, Kept(r, p, all, held)
  PROVE  Kept(r, e + 2, all, more)
<1>1. PICK at \in Seq(Nat) : Enumerates(r, p, at) /\ FieldsAt(r, at, all, held)
  BY DEF Kept
<1>2. \A a : FieldAt(r, a) /\ a < e + 2 <=> FieldAt(r, a) /\ a < p
  BY FieldsBefore
<1>3. Enumerates(r, e + 2, at)
  BY <1>1, <1>2 DEF Enumerates
<1>4. FieldsAt(r, at, all, more)
  BY <1>1 DEF FieldsAt
<1> QED BY <1>3, <1>4 DEF Kept

\* A line that starts a field is held back.
LEMMA KeptField ==
  ASSUME NEW r \in Seq(Symbols), NEW p, NEW e, IsLine(r, p, e), FieldAt(r, p),
         NEW all \in Seq(Seq(Symbols)), NEW more, more # <<>>, Kept(r, p, all, <<>>)
  PROVE  Kept(r, e + 2, all, more)
<1>1. PICK at \in Seq(Nat) : Enumerates(r, p, at) /\ FieldsAt(r, at, all, <<>>)
  BY DEF Kept
<1>2. \A a : FieldAt(r, a) /\ a < e + 2 <=> (FieldAt(r, a) /\ a < p) \/ a = p
  BY FieldsBefore
<1>3. p \in Nat
  BY FieldsBefore
<1>4. Rises(at) /\ \A a : FieldAt(r, a) /\ a < p <=> \E i \in DOMAIN at : at[i] = a
  BY <1>1 DEF Enumerates
<1>5. \A i \in DOMAIN at : at[i] < p
  BY <1>4
<1> DEFINE longer == Append(at, p)
<1>6. /\ longer \in Seq(Nat) /\ Rises(longer) /\ Len(longer) = Len(at) + 1
      /\ \A x : (\E i \in DOMAIN longer : longer[i] = x) <=> x = p \/ \E i \in DOMAIN at : at[i] = x
      /\ \A i \in DOMAIN at : longer[i] = at[i]
  BY <1>3, <1>4, <1>5, RisingGrows
<1> HIDE DEF longer
<1>7. Enumerates(r, e + 2, longer)
  BY <1>2, <1>4, <1>6 DEF Enumerates
<1>8. /\ Len(at) = Len(all) /\ Len(all) \in Nat
      /\ \A i \in DOMAIN all : \E x \in Nat : NextStop(r, at[i], x) /\ all[i] = Text(r, at[i], x)
  BY <1>1, LenProperties DEF FieldsAt
<1>9. DOMAIN all = DOMAIN at
  BY <1>8, LenProperties
<1>10. \A i \in DOMAIN all : longer[i] = at[i]
  BY <1>6, <1>9
<1>11. \A i \in DOMAIN all : \E x \in Nat : NextStop(r, longer[i], x) /\ all[i] = Text(r, longer[i], x)
  BY <1>8, <1>10
<1>12. FieldsAt(r, longer, all, more)
  BY <1>6, <1>8, <1>11 DEF FieldsAt
<1> QED BY <1>6, <1>7, <1>12 DEF Kept

\* What is held back is complete when the next field starts or the header ends.
LEMMA KeptFlushed ==
  ASSUME NEW r \in Seq(Symbols), NEW p \in Nat, NoEmptyBefore(r, p), Stop(r, p),
         NEW held, held # <<>>, HeldBack(r, p, held),
         NEW all \in Seq(Seq(Symbols)), held \in Seq(Symbols), Kept(r, p, all, held)
  PROVE  Kept(r, p, Append(all, held), <<>>)
<1>1. PICK at \in Seq(Nat) : Enumerates(r, p, at) /\ FieldsAt(r, at, all, held)
  BY DEF Kept
<1>2. /\ Len(at) = Len(all) + 1 /\ Len(all) \in Nat
      /\ \A i \in DOMAIN all : \E x \in Nat : NextStop(r, at[i], x) /\ all[i] = Text(r, at[i], x)
  BY <1>1, LenProperties DEF FieldsAt
<1>3. PICK a \in 1 .. p : LastField(r, a, p) /\ held = Text(r, a, p)
  BY DEF HeldBack
<1>4. a \in 1 .. p - 1 /\ FieldAt(r, a) /\ \A b \in a + 1 .. p - 1 : ~FieldAt(r, b)
  BY <1>3 DEF LastField
<1>5. NextStop(r, a, p)
  BY <1>3, LastStops
<1>6. DOMAIN at = 1 .. Len(all) + 1 /\ \A i \in 1 .. Len(all) + 1 : at[i] \in Nat
  BY <1>2, ElementOfSeq, LenProperties
<1>7. at[Len(all) + 1] = a
  <2>1. PICK i \in DOMAIN at : at[i] = a
    BY <1>1, <1>4 DEF Enumerates
  <2>2. FieldAt(r, at[Len(all) + 1]) /\ at[Len(all) + 1] < p /\ at[Len(all) + 1] \in Nat
    BY <1>1, <1>2, <1>6 DEF Enumerates
  <2>3. i < Len(all) + 1 => at[i] < at[Len(all) + 1]
    <3>1. i \in 1 .. Len(all) + 1 /\ Len(all) + 1 \in DOMAIN at
      BY <1>2, <1>6, <2>1
    <3>2. Rises(at)
      BY <1>1 DEF Enumerates
    <3> QED BY <2>1, <3>1, <3>2, Zenon DEF Rises
  <2>4. ~(a < at[Len(all) + 1])
    BY <1>4, <2>2
  <2> QED BY <1>2, <1>6, <2>1, <2>3, <2>4
<1> DEFINE more == Append(all, held)
<1>8. /\ Len(more) = Len(all) + 1 /\ DOMAIN more = 1 .. Len(all) + 1
      /\ more[Len(all) + 1] = held /\ \A i \in 1 .. Len(all) : more[i] = all[i]
  <2>1. more \in Seq(Seq(Symbols))
    BY AppendProperties
  <2> QED BY <2>1, AppendProperties, LenProperties
<1>9. DOMAIN all = 1 .. Len(all)
  BY LenProperties
<1> HIDE DEF more
<1>10. ASSUME NEW i \in DOMAIN more
       PROVE  \E x \in Nat : NextStop(r, at[i], x) /\ more[i] = Text(r, at[i], x)
  <2>1. CASE i = Len(all) + 1
    BY <1>3, <1>5, <1>7, <1>8, <2>1
  <2>2. CASE i # Len(all) + 1
    <3>1. i \in 1 .. Len(all)
      BY <1>2, <1>8, <2>2
    <3> QED BY <1>2, <1>8, <1>9, <3>1
  <2> QED BY <2>1, <2>2
<1>11. FieldsAt(r, at, more, <<>>)
  BY <1>2, <1>8, <1>10 DEF FieldsAt
<1>12. Kept(r, p, more, <<>>)
  BY <1>1, <1>11 DEF Kept
<1> QED BY <1>12 DEF more

\* AppendField does that, whether there is something held back or not.
LEMMA KeptAppended ==
  ASSUME NEW r \in Seq(Symbols), NEW p \in Nat, NoEmptyBefore(r, p), Stop(r, p),
         HeldBack(r, p, linesBuf), linesBuf \in Seq(Symbols), fields \in Seq(Seq(Symbols)),
         Kept(r, p, fields, linesBuf), AppendField
  PROVE  Kept(r, p, fields', <<>>) /\ fields' \in Seq(Seq(Symbols))
<1>1. CASE linesBuf = <<>>
  <2>1. fields' = fields
    BY <1>1 DEF AppendField, header
  <2> QED BY <1>1, <2>1
<1>2. CASE linesBuf # <<>>
  <2>1. fields' = Append(fields, linesBuf)
    BY <1>2 DEF AppendField
  <2>2. Kept(r, p, Append(fields, linesBuf), <<>>)
    BY <1>2, KeptFlushed
  <2> QED BY <2>1, <2>2, AppendProperties
<1> QED BY <1>1, <1>2

\* The line that is taken out of the buffer next, and where the request is then.
LEMMA LineAhead ==
  ASSUME Inv, pc = "chunk", receiveState \in {"line", "header"}, HasLine
  PROVE  \E e \in Nat :
           /\ IsLine(request, Position, e)
           /\ Line = <<>> <=> e = Position
           /\ Line # <<>> => Line[1] = request[Position]
           /\ RemoveLine /\ byteCount' = byteCount => Position' = e + 2
<1> DEFINE r == request
           n == byteCount
           p == Position
<1>2. /\ r \in Seq(Symbols) /\ Len(r) \in Nat /\ n \in 0 .. Len(r) /\ p \in 1 .. n + 1
      /\ buf = SubSeq(r, p, n) /\ Place(r, p, receiveState, method, linesBuf)
  BY InChunk, Receiving
<1>3. Starts(r, p)
  BY <1>2 DEF Place, InLine, InTheHeader, BehindHeader, Starts
<1> HIDE DEF p
<1>4. PICK e \in p .. n - 1 :
        /\ IsLine(r, p, e) /\ Line \in Seq(Symbols) /\ Len(Line) = e - p
        /\ \A i \in 1 .. e - p : Line[i] = r[p + i - 1]
        /\ SubSeq(buf, LineSep + 2, Len(buf)) = SubSeq(r, e + 2, n)
  BY <1>2, <1>3, BufferLine
<1>5. e \in Nat
  BY <1>2
<1>6. Line = <<>> <=> e = p
  <2>1. Line = <<>> <=> Len(Line) = 0
    BY <1>4, EmptySeq
  <2> QED BY <1>2, <1>4, <2>1
<1>7. Line # <<>> => Line[1] = r[p]
  <2>1. ASSUME e # p PROVE 1 \in 1 .. e - p /\ p + 1 - 1 = p
    BY <1>2, <1>4, <2>1
  <2> QED BY <1>4, <1>6, <2>1
<1>8. ASSUME RemoveLine, byteCount' = byteCount PROVE Position' = e + 2
  <2> DEFINE q == e + 2
  <2>1. q \in 1 .. Len(r) + 1 /\ n \in q - 1 .. Len(r) /\ n - (n - q + 1) + 1 = q
    BY <1>2, <1>4
  <2>2. buf' = SubSeq(r, q, n)
    BY <1>4, <1>8 DEF RemoveLine
  <2> HIDE DEF q
  <2>3. Len(buf') = n - q + 1
    BY <1>2, <2>1, <2>2, Part
  <2>4. Position' = q
    BY <1>8, <2>1, <2>3 DEF Position
  <2> QED BY <2>4 DEF q
<1> QED BY <1>4, <1>5, <1>6, <1>7, <1>8 DEF p

\* Every step keeps the fields.
LEMMA FieldsKeptNext ==
  ASSUME Inv, TextsTyped, HeaderTyped, FieldsKept, [Next]_vars
  PROVE  FieldsKept'
<1>0. fields \in Seq(Seq(Symbols)) /\ linesBuf \in Seq(Symbols)
  BY DEF TextsTyped, HeaderTyped
<1>1. CASE ~Received'
  BY <1>1 DEF FieldsKept
<1>2. ASSUME Received, UNCHANGED <<request, Position, fields, linesBuf>> PROVE FieldsKept'
  BY <1>2 DEF FieldsKept
<1>3. ASSUME Throw PROVE ~Received'
  BY <1>3, Zenon DEF Throw, Received, HandedOver
<1>4. ASSUME pc = "chunk"
      PROVE  /\ Received /\ Kept(request, Position, fields, linesBuf)
             /\ request \in Seq(Symbols) /\ Position \in Nat /\ Len(request) \in Nat
             /\ Place(request, Position, receiveState, method, linesBuf)
  <2>1. Received
    BY <1>4, InChunk
  <2>2. /\ request \in Seq(Symbols) /\ Position \in 1 .. byteCount + 1 /\ Len(request) \in Nat
        /\ byteCount \in 0 .. Len(request)
        /\ Place(request, Position, receiveState, method, linesBuf)
    BY <2>1, Receiving
  <2> QED BY <2>1, <2>2 DEF FieldsKept
<1>5. CASE RequestLine
  <2>1. CASE Throw
    BY <1>1, <1>3, <2>1
  <2>2. CASE ~Throw
    <3>1. /\ pc = "chunk" /\ receiveState = "line" /\ HasLine
          /\ RemoveLine /\ UNCHANGED <<request, byteCount, linesBuf, header>>
      BY <1>5, <2>2 DEF RequestLine
    <3>2. Position = 1 /\ linesBuf = <<>>
      BY <1>4, <3>1 DEF Place, InLine, InTheHeader, BehindHeader
    <3>3. PICK e \in Nat : IsLine(request, Position, e) /\ Position' = e + 2
      BY <3>1, LineAhead
    <3>4. ~FieldAt(request, Position)
      BY <3>2 DEF FieldAt
    <3>5. Kept(request, e + 2, fields, linesBuf)
      BY <1>4, <3>1, <3>3, <3>4, KeptOn
    <3> QED BY <3>1, <3>3, <3>5 DEF FieldsKept, header
  <2> QED BY <2>1, <2>2
<1>6. ASSUME pc = "chunk", receiveState = "header", HasLine
      PROVE  /\ 1 < Position /\ NoEmptyBefore(request, Position)
             /\ HeldBack(request, Position, linesBuf)
  <2>1. FirstLineGood(request, Position) /\ NoEmptyBefore(request, Position)
        /\ HeldBack(request, Position, linesBuf)
    BY <1>4, <1>6 DEF Place, InLine, InTheHeader, BehindHeader
  <2>2. PICK d \in 1 .. Len(request) : d + 2 <= Position
    BY <2>1 DEF FirstLineGood
  <2>3. Len(request) \in Nat /\ Position \in Nat
    BY <1>4, <1>6
  <2> QED BY <2>1, <2>2, <2>3
<1>7. CASE HeaderEnd
  <2>1. pc = "chunk" /\ receiveState = "header" /\ HasLine /\ Line = <<>>
    BY <1>7 DEF HeaderEnd
  <2>2. CASE ~Acceptable
    BY <1>1, <1>3, <1>7, <2>2 DEF HeaderEnd
  <2>3. CASE Acceptable
    <3>1. /\ AppendField /\ linesBuf' = <<>> /\ RemoveLine
          /\ UNCHANGED <<request, byteCount>>
      BY <1>7, <2>3 DEF HeaderEnd, Flush
    <3>2. PICK e \in Nat : IsLine(request, Position, e) /\ e = Position /\ Position' = e + 2
      BY <2>1, <3>1, LineAhead
    <3>3. EmptyAt(request, Position)
      BY <1>6, <2>1, <3>2 DEF EmptyAt
    <3>4. Kept(request, Position, fields', <<>>)
      BY <1>0, <1>4, <1>6, <2>1, <3>1, <3>3, KeptAppended DEF Stop
    <3>5. ~FieldAt(request, Position)
      <4>1. Position \in 2 .. Position
        BY <1>4, <1>6, <2>1
      <4> QED BY <3>3, <4>1 DEF FieldAt
    <3>6. Kept(request, e + 2, fields', <<>>)
      BY <1>4, <2>1, <3>2, <3>4, <3>5, KeptOn
    <3> QED BY <3>1, <3>2, <3>6 DEF FieldsKept
  <2> QED BY <2>2, <2>3
<1>8. CASE HeaderLine
  <2>1. pc = "chunk" /\ receiveState = "header" /\ HasLine /\ Line # <<>>
    BY <1>8 DEF HeaderLine
  <2>2. ASSUME RemoveLine, UNCHANGED <<request, byteCount>>
        PROVE  \E e \in Nat : /\ IsLine(request, Position, e) /\ e # Position
                              /\ Line[1] = request[Position] /\ Position' = e + 2
    BY <2>1, <2>2, LineAhead
  <2>3. CASE ~Continues /\ ~Acceptable
    BY <1>1, <1>3, <1>8, <2>3 DEF HeaderLine
  <2>4. CASE ~Continues /\ Acceptable
    <3>1. /\ AppendField /\ linesBuf' = Line /\ RemoveLine
          /\ UNCHANGED <<request, byteCount>>
      BY <1>8, <2>4 DEF HeaderLine
    <3>2. PICK e \in Nat : /\ IsLine(request, Position, e) /\ e # Position
                           /\ Line[1] = request[Position] /\ Position' = e + 2
      BY <2>2, <3>1
    <3>3. request[Position] # "sp"
      BY <2>1, <2>4, <3>2 DEF Continues
    <3>4. FieldAt(request, Position)
      BY <1>4, <1>6, <2>1, <3>2, <3>3, FieldHere
    <3>5. Kept(request, Position, fields', <<>>) /\ fields' \in Seq(Seq(Symbols))
      BY <1>0, <1>4, <1>6, <2>1, <3>1, <3>4, KeptAppended DEF Stop
    <3>6. Kept(request, e + 2, fields', Line)
      BY <1>4, <2>1, <3>2, <3>4, <3>5, KeptField
    <3> QED BY <3>1, <3>2, <3>6 DEF FieldsKept
  <2>5. CASE Continues /\ linesBuf = <<>>
    <3>1. /\ linesBuf' = Line /\ RemoveLine
          /\ UNCHANGED <<request, byteCount, header>>
      BY <1>8, <2>5 DEF HeaderLine
    <3>2. PICK e \in Nat : /\ IsLine(request, Position, e) /\ e # Position
                           /\ Line[1] = request[Position] /\ Position' = e + 2
      BY <2>2, <3>1
    <3>3. IsLine(request, 1, Position - 2)
      BY <1>6, <2>1, <2>5 DEF HeldBack
    <3>4. FieldAt(request, Position)
      BY <1>4, <1>6, <2>1, <3>2, <3>3, FieldHere
    <3>5. Kept(request, e + 2, fields, Line)
      BY <1>0, <1>4, <2>1, <2>5, <3>2, <3>4, KeptField
    <3> QED BY <3>1, <3>2, <3>5 DEF FieldsKept, header
  <2>6. CASE Continues /\ linesBuf # <<>>
    <3>1. /\ linesBuf' = linesBuf \o <<"cr", "lf">> \o Line /\ RemoveLine
          /\ UNCHANGED <<request, byteCount, header>>
      BY <1>8, <2>6 DEF HeaderLine
    <3>2. PICK e \in Nat : /\ IsLine(request, Position, e) /\ e # Position
                           /\ Line[1] = request[Position] /\ Position' = e + 2
      BY <2>2, <3>1
    <3>3. PICK a \in 1 .. Position : LastField(request, a, Position)
      BY <1>6, <2>1, <2>6 DEF HeldBack
    <3>4. FieldAt(request, a) /\ a < Position
      BY <1>4, <2>1, <3>3 DEF LastField
    <3>5. ~FieldAt(request, Position)
      <4>1. ~IsLine(request, 1, Position - 2)
        BY <1>4, <2>1, <3>4, NoFieldYet
      <4>2. request[Position] = "sp"
        BY <2>6, <3>2 DEF Continues
      <4> QED BY <4>1, <4>2 DEF FieldAt
    <3>6. linesBuf' # <<>>
      <4>1. Len(linesBuf) \in Nat /\ Len(linesBuf) # 0
        BY <1>0, <2>6, EmptySeq, LenProperties
      <4>2. <<"cr", "lf">> \in Seq(Symbols) /\ Len(<<"cr", "lf">>) = 2
        BY DEF Symbols
      <4>3. Line \in Seq(Symbols) /\ Len(Line) \in Nat
        BY <2>1, LineTyped, LenProperties DEF TextsTyped
      <4>4. Len(linesBuf') = Len(linesBuf) + 2 + Len(Line)
        BY <1>0, <3>1, <4>2, <4>3, ConcatProperties
      <4> QED BY <4>1, <4>3, <4>4, EmptySeq
    <3>7. Kept(request, e + 2, fields, linesBuf')
      BY <1>4, <2>1, <2>6, <3>2, <3>5, <3>6, KeptOn
    <3> QED BY <3>1, <3>2, <3>7 DEF FieldsKept, header
  <2> QED BY <2>3, <2>4, <2>5, <2>6
<1>9. CASE Read
  <2>1. outcome = "receiving" /\ Received
    BY <1>9 DEF Read, Received
  <2>2. PICK n \in 1 .. ChunkMax :
          /\ byteCount + n <= Len(request) /\ byteCount' = byteCount + n
          /\ \/ /\ buf' = buf \o SubSeq(request, byteCount + 1, byteCount + n)
                /\ UNCHANGED <<request, linesBuf, header>>
             \/ Throw
    BY <1>9 DEF Read
  <2>3. CASE Throw
    BY <1>1, <1>3, <2>3
  <2>4. CASE ~Throw
    <3>1. request \in Seq(Symbols) /\ Len(request) \in Nat /\ byteCount \in 0 .. Len(request)
      BY <2>1, Receiving
    <3>2. buf \in Seq(Symbols) /\ Len(buf) \in Nat
      BY LenProperties DEF TextsTyped
    <3>3. n \in Nat
      BY LimitsAssumption
    <3>4. /\ SubSeq(request, byteCount + 1, byteCount + n) \in Seq(Symbols)
          /\ Len(SubSeq(request, byteCount + 1, byteCount + n)) = n
      <4> DEFINE b == byteCount + 1
                 e == byteCount + n
      <4>1. b \in 1 .. Len(request) + 1 /\ e \in b - 1 .. Len(request) /\ e - b + 1 = n
        BY <2>2, <3>1, <3>3
      <4> HIDE DEF b, e
      <4>2. SubSeq(request, b, e) \in Seq(Symbols) /\ Len(SubSeq(request, b, e)) = n
        BY <3>1, <4>1, Part
      <4> QED BY <4>2 DEF b, e
    <3>5. Len(buf') = Len(buf) + n
      BY <2>2, <2>4, <3>2, <3>4, ConcatProperties
    <3>6. Position' = Position
      BY <2>2, <3>1, <3>2, <3>3, <3>5 DEF Position
    <3> QED BY <1>2, <2>1, <2>2, <2>4, <3>6 DEF header
  <2> QED BY <2>3, <2>4
<1>10. CASE ChunkProcessed \/ ReadsEnd
  <2>1. /\ pc \in {"chunk", "reads"}
        /\ UNCHANGED <<request, byteCount, buf, linesBuf, header>>
    BY <1>10 DEF ChunkProcessed, ReadsEnd
  <2>2. Received
    BY <2>1 DEF Inv, Received
  <2>3. Position' = Position
    BY <2>1 DEF Position
  <2> QED BY <1>2, <2>1, <2>2, <2>3 DEF header
<1>11. CASE Unrecognized
  <2>1. ~Received'
    BY <1>11, Zenon DEF Unrecognized, Received, HandedOver
  <2> QED BY <1>1, <2>1
<1>12. CASE Unexpected
  BY <1>1, <1>3, <1>12 DEF Unexpected
<1>13. CASE UNCHANGED vars
  <2>1. /\ UNCHANGED <<request, byteCount, buf, linesBuf, header>> /\ Received' = Received
    BY <1>13, Zenon DEF vars, Received, HandedOver
  <2>2. Position' = Position
    BY <2>1 DEF Position
  <2> QED BY <2>1, <2>2 DEF FieldsKept, header
<1> QED BY <1>5, <1>7, <1>8, <1>9, <1>10, <1>11, <1>12, <1>13 DEF Next

\* A field is filed under its name, before those that are there.
LEMMA NamesGrow ==
  ASSUME HeaderTyped, linesBuf \in Seq(Symbols), NamesKept, AppendField
  PROVE  NamesKept'
<1>1. CASE linesBuf = <<>>
  BY <1>1 DEF AppendField, header, NamesKept
<1>2. CASE linesBuf # <<>>
  <2> DEFINE key == Lower(FieldName(linesBuf))
             n == Len(fields')
             old(name) == Values(nameIndices, name)
             new(name) == Values(nameIndices', name)
  <2>1. fields' = Append(fields, linesBuf) /\ nameIndices' = Inserted(nameIndices, key, n)
    BY <1>2 DEF AppendField
  <2>2. fields \in Seq(Seq(Symbols)) /\ Len(fields) \in Nat /\ DOMAIN fields = 1 .. Len(fields)
    BY LenProperties DEF HeaderTyped
  <2>3. fields' \in Seq(Seq(Symbols)) /\ n = Len(fields) + 1 /\ fields'[n] = linesBuf
        /\ \A k \in 1 .. Len(fields) : fields'[k] = fields[k]
    BY <2>1, <2>2, AppendProperties
  <2>4. DOMAIN fields' = 1 .. n
    BY <2>3, LenProperties
  <2> HIDE DEF n
  <2>5. \A name, k : Named(fields', name, k) <=> Named(fields, name, k) \/ (k = n /\ name = key)
    <3>1. ASSUME NEW name, NEW k
          PROVE  Named(fields', name, k) <=> Named(fields, name, k) \/ (k = n /\ name = key)
      <4>1. CASE k = n
        <5>1. ~Named(fields, name, k)
          BY <2>2, <2>3, <4>1 DEF Named
        <5>2. Named(fields', name, k) <=> key = name
          BY <2>2, <2>3, <2>4, <4>1 DEF Named
        <5> QED BY <4>1, <5>1, <5>2
      <4>2. CASE k # n
        <5>1. k \in DOMAIN fields' <=> k \in DOMAIN fields
          BY <2>2, <2>3, <2>4, <4>2
        <5>2. k \in DOMAIN fields => fields'[k] = fields[k]
          BY <2>2, <2>3
        <5> QED BY <4>2, <5>1, <5>2 DEF Named
      <4> QED BY <4>1, <4>2
    <3> QED BY <3>1
  <2> HIDE DEF key
  <2>6. DOMAIN nameIndices' = DOMAIN nameIndices \cup {key}
    BY <2>1 DEF Inserted
  <2>7. new(key) = <<n>> \o old(key)
    BY <2>1, <2>6 DEF Inserted, Values
  <2>8. \A name : name # key => new(name) = old(name)
    <3>1. ASSUME NEW name, name # key, name \in DOMAIN nameIndices PROVE new(name) = old(name)
      BY <2>1, <2>6, <3>1 DEF Inserted, Values
    <3>2. ASSUME NEW name, name # key, name \notin DOMAIN nameIndices PROVE new(name) = old(name)
      BY <2>6, <3>2, Zenon DEF Values
    <3> QED BY <3>1, <3>2
  <2>9. \A name : /\ old(name) \in Seq(Nat) /\ Falls(old(name))
                  /\ \A k : Named(fields, name, k) <=> \E i \in DOMAIN old(name) : old(name)[i] = k
    BY DEF NamesKept, Indexed
  <2> HIDE DEF old, new
  <2>10. /\ new(key) \in Seq(Nat) /\ Falls(new(key))
         /\ \A k : (\E i \in DOMAIN new(key) : new(key)[i] = k)
                     <=> k = n \/ \E i \in DOMAIN old(key) : old(key)[i] = k
    <3> DEFINE s == old(key)
               t == new(key)
    <3>1. s \in Seq(Nat) /\ Falls(s) /\ \A i \in DOMAIN s : s[i] < n
      <4>1. \A i \in DOMAIN s : s[i] \in DOMAIN fields
        BY <2>9 DEF Named
      <4> QED BY <2>2, <2>3, <2>9, <4>1
    <3>2. t = <<n>> \o s
      BY <2>7
    <3> HIDE DEF s, t
    <3>3. Len(s) \in Nat /\ DOMAIN s = 1 .. Len(s) /\ \A i \in 1 .. Len(s) : s[i] \in Nat
      BY <3>1, ElementOfSeq, LenProperties
    <3>4. n \in Nat
      BY <2>2, <2>3
    <3>5. <<n>> \in Seq(Nat) /\ Len(<<n>>) = 1 /\ <<n>>[1] = n
      BY <3>4
    <3>6. t \in Seq(Nat) /\ Len(t) = Len(s) + 1 /\ t[1] = n /\ \A i \in 1 .. Len(s) : t[i + 1] = s[i]
      <4>1. t \in Seq(Nat) /\ Len(t) = 1 + Len(s)
            /\ \A i \in 1 .. 1 + Len(s) : t[i] = IF i <= 1 THEN <<n>>[i] ELSE s[i - 1]
        BY <3>1, <3>2, <3>5, ConcatProperties
      <4> QED BY <3>3, <3>5, <4>1
    <3>7. DOMAIN t = 1 .. Len(s) + 1
      BY <3>6, LenProperties
    <3>8. \A j \in 1 .. Len(s) + 1 : j = 1 \/ (j - 1 \in 1 .. Len(s) /\ t[j] = s[j - 1])
      <4>1. ASSUME NEW j \in 1 .. Len(s) + 1, j # 1 PROVE j - 1 \in 1 .. Len(s) /\ t[j] = s[j - 1]
        <5>1. j - 1 \in 1 .. Len(s) /\ (j - 1) + 1 = j
          BY <3>3, <4>1
        <5> QED BY <3>6, <5>1
      <4> QED BY <4>1
    <3>9. Falls(t)
      <4>1. ASSUME NEW i \in 1 .. Len(s) + 1, NEW j \in 1 .. Len(s) + 1, i < j PROVE t[j] < t[i]
        <5>1. j - 1 \in 1 .. Len(s) /\ t[j] = s[j - 1]
          BY <3>3, <3>8, <4>1
        <5>2. CASE i = 1
          BY <3>1, <3>3, <3>6, <5>1, <5>2
        <5>3. CASE i # 1
          <6>1. i - 1 \in 1 .. Len(s) /\ t[i] = s[i - 1] /\ i - 1 < j - 1
            BY <3>3, <3>8, <4>1, <5>3
          <6> QED BY <3>1, <3>3, <5>1, <6>1 DEF Falls
        <5> QED BY <5>2, <5>3
      <4> QED BY <3>7, <4>1 DEF Falls
    <3>10. ASSUME NEW k
           PROVE  (\E i \in DOMAIN t : t[i] = k) <=> k = n \/ \E i \in DOMAIN s : s[i] = k
      <4>1. ASSUME NEW i \in DOMAIN t, t[i] = k PROVE k = n \/ \E j \in DOMAIN s : s[j] = k
        BY <3>3, <3>6, <3>7, <3>8, <4>1
      <4>2. ASSUME NEW i \in DOMAIN s PROVE \E j \in DOMAIN t : t[j] = s[i]
        <5>1. i + 1 \in DOMAIN t /\ t[i + 1] = s[i]
          BY <3>3, <3>6, <3>7
        <5> QED BY <5>1
      <4>3. 1 \in DOMAIN t
        BY <3>3, <3>7
      <4> QED BY <3>6, <4>1, <4>2, <4>3
    <3> QED BY <3>6, <3>9, <3>10 DEF s, t
  <2>11. ASSUME NEW name
         PROVE  /\ new(name) \in Seq(Nat) /\ Falls(new(name))
                /\ \A k : Named(fields', name, k) <=> \E i \in DOMAIN new(name) : new(name)[i] = k
    <3>1. CASE name = key
      BY <2>5, <2>9, <2>10, <3>1
    <3>2. CASE name # key
      BY <2>5, <2>8, <2>9, <3>2
    <3> QED BY <3>1, <3>2
  <2> QED BY <2>11 DEF NamesKept, Indexed, new
<1> QED BY <1>1, <1>2

\* Every step keeps the map of the names.
LEMMA NamesKeptNext ==
  ASSUME HeaderTyped, linesBuf \in Seq(Symbols), NamesKept, [Next]_vars
  PROVE  NamesKept'
<1>1. CASE UNCHANGED header
  BY <1>1 DEF header, NamesKept
<1>2. CASE AppendField
  BY <1>2, NamesGrow
<1>3. UNCHANGED header \/ AppendField
  BY Zenon DEF Next, vars, Read, ReadsEnd, Unrecognized, RequestLine, HeaderLine, HeaderEnd,
     Unexpected, ChunkProcessed, Throw, Flush, header
<1> QED BY <1>1, <1>2, <1>3

\* At the beginning there are no fields and no names.
LEMMA FieldsInit == Init => FieldsKept /\ NamesKept
<1> SUFFICES ASSUME Init PROVE FieldsKept /\ NamesKept
  OBVIOUS
<1>1. /\ request \in Seq(Symbols) /\ byteCount = 0 /\ buf = <<>> /\ linesBuf = <<>>
      /\ fields = <<>> /\ nameIndices = <<>>
  BY RequestsAssumption DEF Init
<1>2. Position = 1
  BY <1>1 DEF Position
<1>3. Enumerates(request, 1, <<>>)
  <2>1. \A a : FieldAt(request, a) => ~(a < 1)
    BY DEF FieldAt, IsLine, Starts
  <2> QED BY <2>1 DEF Enumerates, Rises
<1>4. FieldsAt(request, <<>>, <<>>, <<>>)
  BY DEF FieldsAt
<1>5. Kept(request, 1, <<>>, <<>>)
  <2>1. <<>> \in Seq(Nat)
    BY EmptySeq
  <2> QED BY <1>3, <1>4, <2>1 DEF Kept
<1>6. NamesKept
  <2>1. ASSUME NEW name PROVE Values(nameIndices, name) = <<>>
    <3>1. DOMAIN nameIndices = {}
      BY <1>1
    <3> QED BY <3>1 DEF Values
  <2>2. \A name, k : ~Named(fields, name, k)
    BY <1>1 DEF Named
  <2>3. <<>> \in Seq(Nat) /\ Falls(<<>>) /\ DOMAIN <<>> = {}
    BY EmptySeq DEF Falls
  <2> QED BY <2>1, <2>2, <2>3 DEF NamesKept, Indexed
<1> QED BY <1>1, <1>2, <1>5, <1>6 DEF FieldsKept

\* The fields are kept throughout.
LEMMA AlwaysFields == Spec => [](Inv /\ TextsTyped /\ HeaderTyped /\ FieldsKept /\ NamesKept)
<1>1. Init => FieldsKept /\ NamesKept
  BY FieldsInit
<1>2. /\ Inv /\ TextsTyped /\ HeaderTyped /\ FieldsKept /\ NamesKept /\ [Next]_vars
      => FieldsKept' /\ NamesKept'
  <2> SUFFICES ASSUME Inv, TextsTyped, HeaderTyped, FieldsKept, NamesKept, [Next]_vars
               PROVE  FieldsKept' /\ NamesKept'
    OBVIOUS
  <2>1. linesBuf \in Seq(Symbols)
    BY DEF TextsTyped
  <2> QED BY <2>1, FieldsKeptNext, NamesKeptNext
<1> QED BY <1>1, <1>2, AlwaysTyped, PTL DEF Spec

-----------------------------------------------------------------------------
(***************************************************************************)
(* What the handler sees.                                                  *)
(***************************************************************************)

\* Of a request read up to the end of its header all fields are complete.
LEMMA AllSettled ==
  ASSUME NEW r \in Seq(Symbols), NEW n \in 0 .. Len(r), EmptyAt(r, n - 1)
  PROVE  LET settled == Settled(SubSeq(r, 1, n)) IN
         /\ \A a : FieldAt(r, a) /\ a < n + 1 <=> \E l \in settled : l[1] = a
         /\ \A l \in settled : \E x \in Nat :
              NextStop(r, l[1], x) /\ FieldText(SubSeq(r, 1, n), l) = Text(r, l[1], x)
<1> DEFINE g == SubSeq(r, 1, n)
<1>0. Len(r) \in Nat /\ n \in Nat /\ 1 < n - 1
  BY LenProperties DEF EmptyAt
<1>1. <<n - 1, n - 1>> \in HeaderEnds(g)
  <2>1. (n - 1) + 1 <= n
    BY <1>0
  <2> QED BY <2>1, HeaderEndsRead
<1>2. \A l \in FieldStarts(g) : /\ l = <<l[1], l[2]>> /\ FieldAt(r, l[1])
                                /\ IsLine(r, l[1], l[2]) /\ l[2] + 1 <= n
  BY FieldStartsRead
<1>3. \A a, e : FieldAt(r, a) /\ IsLine(r, a, e) /\ e + 1 <= n => <<a, e>> \in FieldStarts(g)
  BY FieldStartsRead
<1>4. \A l \in FieldStarts(g), k \in FieldStarts(g) \cup HeaderEnds(g) :
        k[1] > l[1] =>
        \E x \in Nat : NextStop(r, l[1], x) /\ FieldText(g, l) = Text(r, l[1], x)
  BY SettledText
<1> HIDE DEF g
<1>5. \A l \in Settled(g) : /\ l \in FieldStarts(g)
                            /\ \E k \in FieldStarts(g) \cup HeaderEnds(g) : k[1] > l[1]
  BY DEF Settled
<1>6. ASSUME NEW a, FieldAt(r, a), a < n + 1 PROVE \E l \in Settled(g) : l[1] = a
  <2>1. PICK e \in 1 .. Len(r) : IsLine(r, a, e)
    BY <1>6 DEF FieldAt
  <2>2. a \in Nat /\ 1 < a /\ ~(n - 1 \in 2 .. a)
    BY <1>6, <2>1 DEF FieldAt, IsLine, Starts
  <2>3. a < n - 1
    BY <1>0, <2>2
  <2>4. Starts(r, n - 1)
    BY DEF EmptyAt, IsLine
  <2>5. e + 2 <= n - 1
    BY <2>1, <2>3, <2>4, LinesApart
  <2>6. e + 1 <= n
    BY <1>0, <2>5
  <2>7. <<a, e>> \in FieldStarts(g)
    BY <1>3, <1>6, <2>1, <2>6
  <2>8. <<n - 1, n - 1>>[1] > <<a, e>>[1] /\ <<a, e>>[1] = a
    BY <1>0, <2>2, <2>3
  <2>9. <<a, e>> \in Settled(g)
    BY <1>1, <2>7, <2>8 DEF Settled
  <2> QED BY <2>8, <2>9
<1>7. ASSUME NEW l \in Settled(g) PROVE FieldAt(r, l[1]) /\ l[1] < n + 1
  <2>1. FieldAt(r, l[1]) /\ IsLine(r, l[1], l[2]) /\ l[2] + 1 <= n
    BY <1>2, <1>5
  <2>2. l[1] \in Nat /\ l[2] \in Nat /\ l[1] <= l[2]
    BY <2>1, <1>0 DEF IsLine, Starts, EndAt
  <2> QED BY <1>0, <2>1, <2>2
<1>8. \A l \in Settled(g) : \E x \in Nat :
        NextStop(r, l[1], x) /\ FieldText(g, l) = Text(r, l[1], x)
  BY <1>4, <1>5
<1> QED BY <1>6, <1>7, <1>8 DEF g

\* The fields handed over are those that have been sent.
LEMMA FieldsAreSent ==
  ASSUME Inv, TextsTyped, HeaderTyped, FieldsKept, HandedOver, pc = "idle"
  PROVE  fields = FieldsOf(Got)
<1> DEFINE r == request
           n == byteCount
           settled == Settled(Got)
<1>1. /\ r \in Seq(Symbols) /\ n \in 0 .. Len(r) /\ Len(r) \in Nat
      /\ Place(r, Position, receiveState, method, linesBuf)
      /\ Drained(r, Position, n, receiveState) /\ receiveState = "ready"
  BY Receiving DEF Received, Inv
<1>2. Position = n + 1 /\ linesBuf = <<>> /\ EmptyAt(r, Position - 2)
  BY <1>1 DEF Place, InLine, InTheHeader, BehindHeader, Drained
<1>3. EmptyAt(r, n - 1)
  <2>1. Position - 2 = n - 1
    BY <1>1, <1>2
  <2> QED BY <1>2, <2>1
<1>4. PICK at \in Seq(Nat) : Enumerates(r, n + 1, at) /\ FieldsAt(r, at, fields, <<>>)
  BY <1>2 DEF FieldsKept, Kept, Received
<1>5. /\ \A a : FieldAt(r, a) /\ a < n + 1 <=> \E l \in settled : l[1] = a
      /\ \A l \in settled : \E x \in Nat :
           NextStop(r, l[1], x) /\ FieldText(Got, l) = Text(r, l[1], x)
  BY <1>1, <1>3, AllSettled DEF Got
<1> HIDE DEF settled, r, n
<1>6. Rises(at) /\ \A a : FieldAt(r, a) /\ a < n + 1 <=> \E i \in DOMAIN at : at[i] = a
  BY <1>4 DEF Enumerates
<1>7. InOrder({l[1] : l \in settled}) = at
  <2>1. \A x : x \in {l[1] : l \in settled} <=> \E i \in DOMAIN at : at[i] = x
    BY <1>5, <1>6
  <2> QED BY <1>6, <2>1, InOrderIs
<1>8. /\ fields \in Seq(Seq(Symbols)) /\ Len(at) = Len(fields)
      /\ DOMAIN fields = 1 .. Len(fields) /\ DOMAIN at = 1 .. Len(fields)
  BY <1>4, LenProperties DEF HeaderTyped, FieldsAt
<1>9. ASSUME NEW i \in DOMAIN at PROVE FieldFrom(Got, at[i]) = fields[i]
  <2> DEFINE l == CHOOSE l \in settled : l[1] = at[i]
  <2>1. \E o \in settled : o[1] = at[i]
    BY <1>5, <1>6
  <2>2. l \in settled /\ l[1] = at[i] /\ FieldFrom(Got, at[i]) = FieldText(Got, l)
    BY <2>1 DEF FieldFrom, settled
  <2> HIDE DEF l
  <2>3. PICK x \in Nat : NextStop(r, at[i], x) /\ FieldText(Got, l) = Text(r, at[i], x)
    BY <1>5, <2>2
  <2>4. PICK y \in Nat : NextStop(r, at[i], y) /\ fields[i] = Text(r, at[i], y)
    BY <1>4, <1>8 DEF FieldsAt
  <2>5. at[i] \in Nat
    BY ElementOfSeq, LenProperties
  <2>6. r \in Seq(Symbols)
    BY <1>1 DEF r
  <2>7. x = y
    BY <2>3, <2>4, <2>5, <2>6, NextStopUnique
  <2> QED BY <2>2, <2>3, <2>4, <2>7
<1>10. FieldsOf(Got) = [i \in DOMAIN at |-> FieldFrom(Got, at[i])]
  BY <1>7 DEF FieldsOf, settled
<1>11. FieldsOf(Got) = [i \in DOMAIN at |-> fields[i]]
  BY <1>9, <1>10
<1> QED BY <1>8, <1>11, SeqDef

\* Texts are equal but for their case if they are equal in lower case.
LEMMA LowerEqual ==
  ASSUME NEW s \in Seq(Symbols), NEW t \in Seq(Symbols)
  PROVE  EqualIgnoringCase(s, t) <=> Lower(s) = Lower(t)
<1>1. /\ Len(s) \in Nat /\ DOMAIN s = 1 .. Len(s) /\ \A i \in 1 .. Len(s) : s[i] \in Symbols
      /\ Len(t) \in Nat /\ DOMAIN t = 1 .. Len(t) /\ \A i \in 1 .. Len(t) : t[i] \in Symbols
  BY ElementOfSeq, LenProperties
<1> DEFINE low(u) == IF u = "X" THEN "x" ELSE u
<1>2. Lower(s) = [i \in DOMAIN s |-> low(s[i])] /\ Lower(t) = [i \in DOMAIN t |-> low(t[i])]
  BY DEF Lower
<1>3. \A u, v \in Symbols : u = v \/ {u, v} = {"x", "X"} <=> low(u) = low(v)
  BY DEF Symbols
<1> HIDE DEF low
<1>4. ASSUME EqualIgnoringCase(s, t) PROVE Lower(s) = Lower(t)
  <2>1. DOMAIN s = DOMAIN t /\ \A i \in DOMAIN s : low(s[i]) = low(t[i])
    BY <1>1, <1>3, <1>4 DEF EqualIgnoringCase
  <2> QED BY <1>2, <2>1
<1>5. ASSUME Lower(s) = Lower(t) PROVE EqualIgnoringCase(s, t)
  <2>1. DOMAIN s = DOMAIN t
    <3>1. DOMAIN Lower(s) = DOMAIN s /\ DOMAIN Lower(t) = DOMAIN t
      BY <1>2
    <3> QED BY <1>5, <3>1
  <2>2. Len(s) = Len(t)
    <3>1. 1 .. Len(s) = 1 .. Len(t)
      BY <1>1, <2>1
    <3> DEFINE m == Len(s)
               n == Len(t)
    <3>2. m \in Nat /\ n \in Nat /\ 1 .. m = 1 .. n
      BY <1>1, <3>1
    <3> HIDE DEF m, n
    <3>3. m \in 1 .. m \/ m = 0
      BY <3>2
    <3>4. n \in 1 .. n \/ n = 0
      BY <3>2
    <3>5. m <= n
      <4>1. m \in 1 .. n \/ m = 0
        BY <3>2, <3>3, Zenon
      <4> QED BY <3>2, <4>1
    <3>6. n <= m
      <4>1. n \in 1 .. m \/ n = 0
        BY <3>2, <3>4, Zenon
      <4> QED BY <3>2, <4>1
    <3>7. m = n
      BY <3>2, <3>5, <3>6
    <3> QED BY <3>7 DEF m, n
  <2>3. \A i \in DOMAIN s : low(s[i]) = low(t[i])
    <3>1. ASSUME NEW i \in DOMAIN s PROVE low(s[i]) = low(t[i])
      <4>1. Lower(s)[i] = low(s[i]) /\ Lower(t)[i] = low(t[i])
        BY <1>2, <2>1
      <4> QED BY <1>5, <4>1
    <3> QED BY <3>1
  <2> QED BY <1>1, <1>3, <2>1, <2>2, <2>3 DEF EqualIgnoringCase
<1> QED BY <1>4, <1>5

\* What falls rises from its end.
LEMMA FallsBackwards ==
  ASSUME NEW s \in Seq(Nat), Falls(s)
  PROVE  LET rev == [i \in 1 .. Len(s) |-> s[Len(s) + 1 - i]] IN
         /\ rev \in Seq(Nat) /\ Rises(rev) /\ DOMAIN rev = DOMAIN s
         /\ \A x : (\E i \in DOMAIN rev : rev[i] = x) <=> \E i \in DOMAIN s : s[i] = x
<1> DEFINE n == Len(s)
           rev == [i \in 1 .. n |-> s[n + 1 - i]]
<1>1. n \in Nat /\ DOMAIN s = 1 .. n /\ \A i \in 1 .. n : s[i] \in Nat
  BY ElementOfSeq, LenProperties
<1>2. \A i, j \in 1 .. n : i < j => s[j] < s[i]
  BY <1>1 DEF Falls
<1> HIDE DEF n
<1>3. \A i \in 1 .. n : n + 1 - i \in 1 .. n /\ rev[i] = s[n + 1 - i] /\ n + 1 - (n + 1 - i) = i
  BY <1>1
<1>4. DOMAIN rev = 1 .. n
  OBVIOUS
<1>5. rev \in Seq(Nat)
  <2>1. \A i \in 1 .. n : s[n + 1 - i] \in Nat
    BY <1>1, <1>3
  <2>2. rev \in [1 .. n -> Nat]
    BY <2>1
  <2> QED BY <1>1, <2>2, SeqDef
<1> HIDE DEF rev
<1>6. Rises(rev)
  <2>1. ASSUME NEW i \in 1 .. n, NEW j \in 1 .. n, i < j PROVE rev[i] < rev[j]
    <3>1. n + 1 - j < n + 1 - i
      BY <1>1, <2>1
    <3>2. s[n + 1 - i] < s[n + 1 - j]
      BY <1>2, <1>3, <3>1
    <3> QED BY <1>3, <3>2
  <2> QED BY <1>4, <2>1 DEF Rises
<1>7. ASSUME NEW x PROVE (\E i \in 1 .. n : rev[i] = x) <=> \E i \in 1 .. n : s[i] = x
  <2>1. ASSUME NEW i \in 1 .. n, rev[i] = x PROVE \E j \in 1 .. n : s[j] = x
    BY <1>3, <2>1
  <2>2. ASSUME NEW i \in 1 .. n, s[i] = x PROVE \E j \in 1 .. n : rev[j] = x
    <3> DEFINE j == n + 1 - i
    <3>1. j \in 1 .. n /\ n + 1 - j = i
      BY <1>3
    <3> HIDE DEF j
    <3>2. rev[j] = s[i]
      BY <1>3, <3>1
    <3> QED BY <2>2, <3>1, <3>2
  <2> QED BY <2>1, <2>2
<1> QED BY <1>1, <1>4, <1>5, <1>6, <1>7 DEF n, rev

\* The fields of a name are found, in their order.
LEMMA NamesFound ==
  ASSUME HeaderTyped, NamesKept, NEW name \in Seq(Symbols)
  PROVE  FieldsNamed(name) = FieldsNamedIn(fields, name)
<1> DEFINE s == IndicesReverse(name)
           n == Len(s)
           rev == [i \in 1 .. n |-> s[n + 1 - i]]
           S == {i \in DOMAIN fields : EqualIgnoringCase(FieldName(fields[i]), name)}
<1>1. /\ s \in Seq(Nat) /\ Falls(s)
      /\ \A k : Named(fields, Lower(name), k) <=> \E i \in DOMAIN s : s[i] = k
  BY DEF NamesKept, Indexed, IndicesReverse
<1>2. n \in Nat /\ DOMAIN s = 1 .. n
  BY <1>1, LenProperties
<1> HIDE DEF s
<1>3. /\ rev \in Seq(Nat) /\ Rises(rev)
      /\ \A x : (\E i \in DOMAIN rev : rev[i] = x) <=> \E i \in DOMAIN s : s[i] = x
  BY <1>1, FallsBackwards
<1>4. \A k : k \in S <=> Named(fields, Lower(name), k)
  <2>1. ASSUME NEW k \in DOMAIN fields
        PROVE  EqualIgnoringCase(FieldName(fields[k]), name)
                 <=> Lower(FieldName(fields[k])) = Lower(name)
    <3>1. fields[k] \in Seq(Symbols)
      BY ElementOfSeq, LenProperties DEF HeaderTyped
    <3>2. FieldName(fields[k]) \in Seq(Symbols)
      BY <3>1, NameTyped
    <3> QED BY <3>2, LowerEqual
  <2> QED BY <2>1 DEF Named
<1> HIDE DEF S, n
<1>5. InOrder(S) = rev
  <2>1. \A x : x \in S <=> \E i \in DOMAIN rev : rev[i] = x
    BY <1>1, <1>3, <1>4
  <2> HIDE DEF rev
  <2> QED BY <1>3, <2>1, InOrderIs
<1>6. FieldsNamedIn(fields, name) = [k \in DOMAIN rev |-> fields[rev[k]]]
  BY <1>5 DEF FieldsNamedIn, S
<1>7. FieldsNamedIn(fields, name) = [k \in 1 .. n |-> fields[s[n + 1 - k]]]
  BY <1>6
<1>8. FieldsNamed(name) = [k \in 1 .. n |-> fields[s[n + 1 - k]]]
  BY <1>2 DEF FieldsNamed, s, n
<1> QED BY <1>7, <1>8

\* What is kept says what is stated of the fields handed over.
LEMMA FieldsAsSent ==
  Inv /\ TextsTyped /\ HeaderTyped /\ FieldsKept /\ NamesKept => FieldsComplete
<1> SUFFICES ASSUME Inv, TextsTyped, HeaderTyped, FieldsKept, NamesKept, HandedOver, pc = "idle"
             PROVE  /\ fields = FieldsOf(Got)
                    /\ \A name \in {<<"x">>, <<"X">>} \cup {FieldName(fields[i]) : i \in DOMAIN fields} :
                         FieldsNamed(name) = FieldsNamedIn(FieldsOf(Got), name)
  BY Zenon DEF FieldsComplete, HandedOver
<1>1. fields = FieldsOf(Got)
  BY FieldsAreSent
<1>2. ASSUME NEW name \in {<<"x">>, <<"X">>} \cup {FieldName(fields[i]) : i \in DOMAIN fields}
      PROVE  name \in Seq(Symbols)
  <2>1. <<"x">> \in Seq(Symbols) /\ <<"X">> \in Seq(Symbols)
    BY DEF Symbols
  <2>2. ASSUME NEW i \in DOMAIN fields PROVE FieldName(fields[i]) \in Seq(Symbols)
    <3>1. fields[i] \in Seq(Symbols)
      BY ElementOfSeq, LenProperties DEF HeaderTyped
    <3> QED BY <3>1, NameTyped
  <2> QED BY <2>1, <2>2
<1>3. ASSUME NEW name \in {<<"x">>, <<"X">>} \cup {FieldName(fields[i]) : i \in DOMAIN fields}
      PROVE  FieldsNamed(name) = FieldsNamedIn(FieldsOf(Got), name)
  BY <1>1, <1>2, NamesFound
<1> QED BY <1>1, <1>3

\* The handler sees every field the client has sent, folded lines with the field they
\* belong to, and HeaderNetside::fields finds those of a name, however that is spelt,
\* all of them and in their order, for any requests and wherever the chunks have been
\* cut: whether a request has several Host fields, and so is refused, is decided by
\* this (httpserver.cpp:224).
THEOREM FieldsAreComplete == Spec => []FieldsComplete
  BY AlwaysFields, FieldsAsSent, PTL
=============================================================================

------------------------- MODULE SplitOptionsProofs -------------------------
(***************************************************************************)
(* Proofs of what SplitOptions states: a description is read field by      *)
(* field as the positions of its separators have it, and the segments a    *)
(* template makes files of are those its text names.                       *)
(***************************************************************************)
EXTENDS SplitOptions, SequenceTheorems, FiniteSetTheorems, WellFoundedInduction, TLAPS

-----------------------------------------------------------------------------
(***************************************************************************)
(* The inductive invariant.  While a description is being read, the fields *)
(* before a position are those that have been read, what is left of it     *)
(* begins there, and the output or template has what they say.             *)
(***************************************************************************)

\* What is left of the text begins with the field at p, or there is nothing left.
LeftAt(text, p, left) ==
    /\ p \in FieldStarts(text) \cup {Len(text) + 1}
    /\ left = SubSeq(text, p, Len(text))

\* What the fields before p say of the start, or of the length.
MeantBefore(text, keys, p, part) ==
    \/ part = Unset /\ \A i \in FieldsWith(text, keys) : p <= i
    \/ \E i \in FieldsWith(text, keys) :
         /\ i < p
         /\ part = Described(keys[KeyOf(FieldAt(text, i))], ValueText(FieldAt(text, i)))
         /\ \A j \in FieldsWith(text, keys) : j < p => j = i

\* The field at i is one that is read.
FieldRead(text, i) ==
    /\ IsField(FieldAt(text, i))
    /\ \/ NumberGiven(FieldAt(text, i), StartKey)
       \/ NumberGiven(FieldAt(text, i), LengthKey)

\* The rest of the text is yet to be taken, or it has been.
RestBefore(text, key, p, rest) ==
    \/ \A r \in RestAt(text, key) : p <= r
    \/ p = Len(text) + 1 /\ rest = RestPart(text, key) /\ rest # <<>>

\* The output that the text describes, by its fields before p.
OutputSoFar(text, p, out) ==
    /\ \A i \in Starts(text, "fileName") : i < p => FieldRead(text, i)
    /\ MeantBefore(text, StartKey, p, out.start)
    /\ MeantBefore(text, LengthKey, p, out.length)
    /\ RestBefore(text, "fileName", p, out.file)

\* The filter in the field at i is one that is read.
FilterRead(text, i) ==
    /\ IsField(FieldAt(text, i)) /\ KeyOf(FieldAt(text, i)) = "discontSegments"
    /\ LET ranges == RangeTexts(ValueText(FieldAt(text, i)))
       IN  \A k \in DOMAIN ranges : IsRange(ranges[k])

\* The ranges of such a filter.
FilterOf(value) == [k \in DOMAIN RangeTexts(value) |-> FromString(RangeTexts(value)[k])]

\* The template that the text describes, by its fields before p.
TemplateSoFar(text, p, t) ==
    /\ \/ /\ t.kind = "none" /\ t.filter = <<>>
          /\ \A i \in FilterStarts(text) : p <= i
       \/ /\ t.kind = "segments"
          /\ \E i \in FilterStarts(text) :
               /\ i < p
               /\ FilterRead(text, i)
               /\ t.filter = FilterOf(ValueText(FieldAt(text, i)))
               /\ \A j \in FilterStarts(text) : j < p => j = i
    /\ RestBefore(text, "fileFormat", p, t.format)

\* The types of outputs and templates.
Kinds     == {"none", "offset", "packet", "segment", "bytes", "packets", "segments"}
Parts     == [kind : Kinds, value : Int]
OutputSet == [file : Seq(Symbols), start : Parts, length : Parts]
RangeSet  == [hasLowerBound : BOOLEAN, lowerBoundValue : Int,
              hasUpperBound : BOOLEAN, upperBoundValue : Int]
TemplateSet == [kind : {"none", "segments"}, filter : Seq(RangeSet), format : Seq(Symbols)]

\* The types of the variables.
Typed ==
    /\ line \in CommandLine
    /\ phase \in {"size", "outfiles", "outfile", "templates", "template", "rest",
                  "splitter", "over"}
    /\ outputs \in Seq(OutputSet)
    /\ outputTemplates \in Seq(TemplateSet)
    /\ phase = "outfile" => current \in OutputSet
    /\ phase = "template" => current \in TemplateSet

\* What has been read of the outputs.
OutputsRead ==
    /\ Len(outputs) <= Len(line.outfiles)
    /\ \A i \in 1 .. Len(outputs) :
         OutputSoFar(line.outfiles[i], Len(line.outfiles[i]) + 1, outputs[i])
    /\ phase = "outfile" =>
         /\ Len(outputs) < Len(line.outfiles)
         /\ \E p \in 1 .. Len(line.outfiles[Len(outputs) + 1]) + 1 :
              /\ LeftAt(line.outfiles[Len(outputs) + 1], p, buf)
              /\ OutputSoFar(line.outfiles[Len(outputs) + 1], p, current)
    /\ (phase \in {"templates", "template", "rest", "splitter"} \/ outcome \in {"running", "aborted"}) =>
         Len(outputs) = Len(line.outfiles)

\* The templates among the first n that have been read.
TemplatesUpTo(n) ==
    \A i \in 1 .. n :
      TemplateSoFar(line.templates[i], Len(line.templates[i]) + 1, outputTemplates[i])

\* What has been read of the templates.
TemplatesRead ==
    /\ phase \in {"size", "outfiles", "outfile"} => outputTemplates = <<>>
    /\ phase \in {"templates", "template"} =>
         /\ Len(outputTemplates) <= Len(line.templates)
         /\ TemplatesUpTo(Len(outputTemplates))
    /\ phase = "template" =>
         /\ Len(outputTemplates) < Len(line.templates)
         /\ \E p \in 1 .. Len(line.templates[Len(outputTemplates) + 1]) + 1 :
              /\ LeftAt(line.templates[Len(outputTemplates) + 1], p, buf)
              /\ TemplateSoFar(line.templates[Len(outputTemplates) + 1], p, current)
    /\ phase = "rest" =>
         Len(outputTemplates) = Len(line.templates) /\ TemplatesUpTo(Len(line.templates))
    /\ (phase = "splitter" \/ outcome \in {"running", "aborted"}) =>
         /\ Len(line.templates) <= Len(outputTemplates)
         /\ TemplatesUpTo(Len(line.templates))
         /\ \A i \in Len(line.templates) + 1 .. Len(outputTemplates) : outputTemplates[i].filter = <<>>
         /\ outputs = <<>> => outputTemplates # <<>>
         /\ line.inputs = 1

\* How the program has ended, if it has.
Ended ==
    /\ phase # "over" => outcome = "none"
    /\ phase = "over" => outcome \in {"usage", "running", "aborted"}
    /\ phase # "size" /\ outcome # "usage" => line.size = NoText \/ IsNumber(line.size, LongMax)
    /\ outcome = "usage" => ~Usable
    /\ outcome = "running" => \A i \in 1 .. Len(outputTemplates) : AcceptsTemplate(outputTemplates[i])

\* The inductive invariant.
IInv == Typed /\ OutputsRead /\ TemplatesRead /\ Ended

-----------------------------------------------------------------------------
(***************************************************************************)
(* Positions in a text.                                                    *)
(***************************************************************************)

\* A set of numbers has a least one.
LEMMA LeastOne ==
  ASSUME NEW S, S \subseteq Nat, S # {}
  PROVE  Min(S) \in S /\ \A k \in S : Min(S) <= k
<1> DEFINE Less == {r \in Nat \X Nat : r[1] < r[2]}
<1>1. IsWellFoundedOn(Less, Nat)
  <2>1. Less = OpToRel(<, Nat)
    BY DEF OpToRel
  <2> QED  BY <2>1, NatLessThanWellFounded
<1>2. PICK m \in S : \A k \in S : <<k, m>> \notin Less
  BY <1>1, WFMin
<1>3. ASSUME NEW k \in S PROVE m <= k
  <2>1. k \in Nat /\ m \in Nat /\ <<k, m>> \notin Less
    BY <1>2
  <2>2. ~(k < m)
    BY <2>1
  <2> QED  BY <2>1, <2>2
<1> QED
  BY <1>3 DEF Min

\* The next symbol is where there is one and none before.
LEMMA NextFound ==
  ASSUME NEW text \in Seq(Symbols), NEW symbol, NEW from \in 1 .. Len(text) + 1
  PROVE  /\ NextAt(text, symbol, from) \in from .. Len(text) + 1
         /\ \A k \in from .. NextAt(text, symbol, from) - 1 : text[k] # symbol
         /\ NextAt(text, symbol, from) <= Len(text) => text[NextAt(text, symbol, from)] = symbol
<1> DEFINE S == {i \in from .. Len(text) : text[i] = symbol} \cup {Len(text) + 1}
<1>1. S \subseteq Nat /\ S # {}
  OBVIOUS
<1>2. Min(S) \in S /\ \A k \in S : Min(S) <= k
  <2> HIDE DEF S
  <2> QED  BY <1>1, LeastOne
<1> DEFINE n == Min(S)
<1>3. NextAt(text, symbol, from) = n
  BY DEF NextAt
<1> HIDE DEF n
<1>4. n \in from .. Len(text) + 1 /\ (n <= Len(text) => text[n] = symbol)
  BY <1>2 DEF n
<1>5. ASSUME NEW k \in from .. n - 1 PROVE text[k] # symbol
  <2>1. k \notin S
    BY <1>2, <1>4 DEF n
  <2> QED
    BY <2>1, <1>4
<1> QED
  BY <1>3, <1>4, <1>5

\* And only there.
LEMMA NextIs ==
  ASSUME NEW text \in Seq(Symbols), NEW symbol, NEW from \in 1 .. Len(text) + 1,
         NEW m \in from .. Len(text) + 1,
         \A k \in from .. m - 1 : text[k] # symbol,
         m <= Len(text) => text[m] = symbol
  PROVE  NextAt(text, symbol, from) = m
<1> DEFINE n == NextAt(text, symbol, from)
<1>1. /\ n \in from .. Len(text) + 1
      /\ \A k \in from .. n - 1 : text[k] # symbol
      /\ n <= Len(text) => text[n] = symbol
  BY NextFound
<1> HIDE DEF n
<1>2. ~(n < m)
  BY <1>1
<1>3. ~(m < n)
  BY <1>1
<1> QED
  BY <1>1, <1>2, <1>3 DEF n

\* What is left of a text from p on.
LEMMA LeftIs ==
  ASSUME NEW text \in Seq(Symbols), NEW p \in 1 .. Len(text) + 1
  PROVE  /\ SubSeq(text, p, Len(text)) \in Seq(Symbols)
         /\ Len(SubSeq(text, p, Len(text))) = Len(text) + 1 - p
         /\ \A k \in 1 .. Len(text) + 1 - p : SubSeq(text, p, Len(text))[k] = text[p + k - 1]
  OBVIOUS

\* The next symbol in what is left.
LEMMA NextInLeft ==
  ASSUME NEW text \in Seq(Symbols), NEW p \in 1 .. Len(text) + 1, NEW symbol
  PROVE  At(SubSeq(text, p, Len(text)), symbol) = NextAt(text, symbol, p) + 1 - p
<1> DEFINE left == SubSeq(text, p, Len(text))
           n == NextAt(text, symbol, p)
<1>1. /\ left \in Seq(Symbols) /\ Len(left) = Len(text) + 1 - p
      /\ \A k \in 1 .. Len(text) + 1 - p : left[k] = text[p + k - 1]
  BY LeftIs
<1>2. /\ n \in p .. Len(text) + 1
      /\ \A k \in p .. n - 1 : text[k] # symbol
      /\ n <= Len(text) => text[n] = symbol
  BY NextFound
<1> HIDE DEF left, n
<1>3. /\ 1 \in 1 .. Len(left) + 1 /\ n + 1 - p \in 1 .. Len(left) + 1
      /\ n + 1 - p <= Len(left) => left[n + 1 - p] = symbol
  BY <1>1, <1>2
<1>4. ASSUME NEW k \in 1 .. (n + 1 - p) - 1
      PROVE  left[k] # symbol
  <2>1. p + k - 1 \in p .. n - 1 /\ k \in 1 .. Len(text) + 1 - p
    BY <1>2
  <2> QED
    BY <2>1, <1>1, <1>2
<1>5. NextAt(left, symbol, 1) = n + 1 - p
  BY <1>1, <1>3, <1>4, NextIs
<1> QED
  BY <1>5 DEF At, left, n

-----------------------------------------------------------------------------
(***************************************************************************)
(* One field.                                                              *)
(***************************************************************************)

\* A key in lower case is one symbol if it was one.
LEMMA LowerCase ==
  /\ \A key \in Seq(Symbols) : Len(ToLower(key)) = Len(key)
  /\ \A c : ToLower(<<c>>) = <<IF c = Upper THEN "startPacket" ELSE c>>
<1>1. \A key \in Seq(Symbols) : Len(ToLower(key)) = Len(key)
  BY DEF ToLower
<1>2. ASSUME NEW c PROVE ToLower(<<c>>) = <<IF c = Upper THEN "startPacket" ELSE c>>
  BY DEF ToLower
<1> QED
  BY <1>1, <1>2

\* There is a key of one symbol exactly if the text goes on with it and "=".
LEMMA KeyHere ==
  ASSUME NEW text \in Seq(Symbols), NEW p \in 1 .. Len(text), buf = SubSeq(text, p, Len(text))
  PROVE  /\ HasKey /\ Len(TakenKey) = 1 <=> p < Len(text) /\ text[p] # "=" /\ text[p + 1] = "="
         /\ p < Len(text) /\ text[p] # "=" /\ text[p + 1] = "=" =>
              TakenKey = ToLower(<<text[p]>>) /\ AfterKey = SubSeq(text, p + 2, Len(text))
<1> DEFINE n == NextAt(text, "=", p)
           key == SubSeq(buf, 1, n - p)
<1>1. /\ n \in p .. Len(text) + 1
      /\ \A k \in p .. n - 1 : text[k] # "="
      /\ n <= Len(text) => text[n] = "="
  BY NextFound
<1>2. At(buf, "=") = n + 1 - p
  BY NextInLeft
<1>3. /\ buf \in Seq(Symbols) /\ Len(buf) = Len(text) + 1 - p
      /\ \A k \in 1 .. Len(text) + 1 - p : buf[k] = text[p + k - 1]
  BY LeftIs
<1> HIDE DEF n
<1>4. HasKey <=> n \in p + 1 .. Len(text)
  BY <1>1, <1>2, <1>3 DEF HasKey
<1>5. TakenKey = ToLower(key)
  <2>1. At(buf, "=") - 1 = n - p
    BY <1>1, <1>2
  <2> QED  BY <2>1 DEF TakenKey
<1>6. n <= Len(text) => key \in Seq(Symbols) /\ Len(key) = n - p
  BY <1>1, <1>3
<1>7. n <= Len(text) => Len(TakenKey) = n - p
  <2> HIDE DEF key
  <2> QED  BY <1>5, <1>6, LowerCase
<1>8. HasKey /\ Len(TakenKey) = 1 <=> n = p + 1 /\ p < Len(text)
  <2>1. HasKey => Len(TakenKey) = n - p
    BY <1>1, <1>4, <1>7
  <2> DEFINE l == Len(TakenKey)
  <2> HIDE DEF l
  <2>2. HasKey => l = n - p
    BY <2>1 DEF l
  <2>3. HasKey /\ l = 1 <=> n = p + 1 /\ p < Len(text)
    BY <2>2, <1>1, <1>4
  <2> QED  BY <2>3 DEF l
<1>9. n = p + 1 /\ p < Len(text) <=> p < Len(text) /\ text[p] # "=" /\ text[p + 1] = "="
  <2>1. ASSUME p < Len(text), text[p] # "=", text[p + 1] = "=" PROVE n = p + 1
    BY <2>1, <1>1
  <2> QED
    BY <2>1, <1>1
<1>10. ASSUME n = p + 1, p < Len(text)
       PROVE  TakenKey = ToLower(<<text[p]>>) /\ AfterKey = SubSeq(text, p + 2, Len(text))
  <2>1. key = <<text[p]>>
    <3>1. key \in Seq(Symbols) /\ Len(key) = 1 /\ key[1] = text[p]
      BY <1>10, <1>3, <1>6
    <3> HIDE DEF key
    <3> QED  BY <3>1
  <2>2. AfterKey = SubSeq(buf, 3, Len(buf))
    <3>1. At(buf, "=") + 1 = 3
      BY <1>10, <1>2, <1>1
    <3> QED  BY <3>1 DEF AfterKey
  <2>3. SubSeq(buf, 3, Len(buf)) = SubSeq(text, p + 2, Len(text))
    <3> DEFINE a == SubSeq(buf, 3, Len(buf))
               b == SubSeq(text, p + 2, Len(text))
    <3>1. a \in Seq(Symbols) /\ Len(a) = Len(buf) - 2 /\ \A k \in 1 .. Len(buf) - 2 : a[k] = buf[k + 2]
      BY <1>3, <1>10
    <3>2. /\ b \in Seq(Symbols) /\ Len(b) = Len(text) - 1 - p
          /\ \A k \in 1 .. Len(text) - 1 - p : b[k] = text[p + k + 1]
      BY <1>10
    <3> HIDE DEF a, b
    <3>3. ASSUME NEW k \in 1 .. Len(a) PROVE a[k] = b[k]
      <4>1. k + 2 \in 1 .. Len(text) + 1 - p /\ p + (k + 2) - 1 = p + k + 1
        BY <1>3, <3>1
      <4>2. buf[k + 2] = text[p + k + 1]
        BY <4>1, <1>3
      <4> QED  BY <4>2, <3>1, <3>2, <1>3
    <3>4. Len(a) = Len(b)
      BY <1>3, <3>1, <3>2
    <3> QED  BY <3>1, <3>2, <3>3, <3>4 DEF a, b
  <2> QED
    BY <2>1, <2>2, <2>3, <1>5
<1> QED
  BY <1>8, <1>9, <1>10

\* Where the field behind the one at p begins, or the text ends.
NextStart(text, p) ==
    IF NextAt(text, Comma, p) <= Len(text) THEN NextAt(text, Comma, p) + 1 ELSE Len(text) + 1

\* Where a field begins there is none before the next comma.
LEMMA NextField ==
  ASSUME NEW text \in Seq(Symbols), NEW p \in 1 .. Len(text), p \in FieldStarts(text)
  PROVE  /\ NextStart(text, p) \in FieldStarts(text) \cup {Len(text) + 1}
         /\ p < NextStart(text, p)
         /\ \A i \in 1 .. Len(text) : i \in FieldStarts(text) /\ i < NextStart(text, p) => i <= p
<1> DEFINE n == NextAt(text, Comma, p)
           q == NextStart(text, p)
<1>1. p \in 1 .. Len(text)
  OBVIOUS
<1>2. /\ n \in p .. Len(text) + 1
      /\ \A k \in p .. n - 1 : text[k] # Comma
      /\ n <= Len(text) => text[n] = Comma
  BY <1>1, NextFound
<1>3. q = IF n <= Len(text) THEN n + 1 ELSE Len(text) + 1
  BY DEF NextStart
<1> HIDE DEF n, q
<1>4. q \in FieldStarts(text) \cup {Len(text) + 1}
  <2>1. CASE n < Len(text)
    <3>1. q \in 1 .. Len(text) /\ text[q - 1] = Comma
      BY <2>1, <1>1, <1>2, <1>3
    <3> QED  BY <3>1 DEF FieldStarts
  <2>2. CASE ~(n < Len(text))
    BY <2>2, <1>1, <1>2, <1>3
  <2> QED  BY <2>1, <2>2
<1>5. p < q
  BY <1>1, <1>2, <1>3
<1>6. ASSUME NEW i \in 1 .. Len(text), i \in FieldStarts(text), i < q PROVE i <= p
  <2> SUFFICES ASSUME p < i PROVE FALSE
    OBVIOUS
  <2>1. i = 1 \/ text[i - 1] = Comma
    BY <1>6 DEF FieldStarts
  <2>2. i - 1 \in p .. n - 1 /\ i # 1
    BY <1>6, <1>1, <1>2, <1>3
  <2> QED
    BY <2>1, <2>2, <1>2
<1> QED
  BY <1>4, <1>5, <1>6 DEF q

\* What such a text as SubSeq is.
LEMMA SliceIs ==
  ASSUME NEW text \in Seq(Symbols), NEW i \in 1 .. Len(text) + 1, NEW j \in i - 1 .. Len(text)
  PROVE  /\ SubSeq(text, i, j) \in Seq(Symbols)
         /\ Len(SubSeq(text, i, j)) = j + 1 - i
         /\ \A k \in 1 .. j + 1 - i : SubSeq(text, i, j)[k] = text[i + k - 1]
  OBVIOUS

\* A slice of a slice is one of the text.
LEMMA SliceOfSlice ==
  ASSUME NEW text \in Seq(Symbols), NEW i \in 1 .. Len(text) + 1, NEW j \in i - 1 .. Len(text),
         NEW a \in 1 .. (j + 1 - i) + 1, NEW b \in a - 1 .. j + 1 - i
  PROVE  SubSeq(SubSeq(text, i, j), a, b) = SubSeq(text, i + a - 1, i + b - 1)
<1> DEFINE s == SubSeq(text, i, j)
           t == SubSeq(s, a, b)
           u == SubSeq(text, i + a - 1, i + b - 1)
<1>1. /\ s \in Seq(Symbols) /\ Len(s) = j + 1 - i
      /\ \A k \in 1 .. j + 1 - i : s[k] = text[i + k - 1]
  BY SliceIs
<1> HIDE DEF s
<1>2. /\ a \in 1 .. Len(s) + 1 /\ b \in a - 1 .. Len(s)
      /\ i + a - 1 \in 1 .. Len(text) + 1 /\ i + b - 1 \in (i + a - 1) - 1 .. Len(text)
  BY <1>1
<1>3. t \in Seq(Symbols) /\ Len(t) = b + 1 - a /\ \A k \in 1 .. b + 1 - a : t[k] = s[a + k - 1]
  BY <1>1, <1>2, SliceIs
<1>4. /\ u \in Seq(Symbols) /\ Len(u) = (i + b - 1) + 1 - (i + a - 1)
      /\ \A k \in 1 .. (i + b - 1) + 1 - (i + a - 1) : u[k] = text[(i + a - 1) + k - 1]
  BY <1>2, SliceIs
<1> HIDE DEF t, u
<1>5. Len(t) = Len(u)
  BY <1>3, <1>4
<1>6. ASSUME NEW k \in 1 .. Len(t) PROVE t[k] = u[k]
  <2>1. /\ a + k - 1 \in 1 .. j + 1 - i
        /\ i + (a + k - 1) - 1 = (i + a - 1) + k - 1
        /\ k \in 1 .. (i + b - 1) + 1 - (i + a - 1) /\ k \in 1 .. b + 1 - a
    BY <1>3
  <2> QED  BY <2>1, <1>1, <1>3, <1>4
<1> QED
  BY <1>3, <1>4, <1>5, <1>6 DEF s, t, u

\* A key and "=" where a field begins make it a field with that key and the value
\* that is taken, and what is left then begins with the next one.
LEMMA FieldHere ==
  ASSUME NEW text \in Seq(Symbols), NEW p \in 1 .. Len(text), p \in FieldStarts(text),
         p < Len(text), text[p] # Comma, text[p + 1] = "="
  PROVE  /\ IsField(FieldAt(text, p))
         /\ KeyOf(FieldAt(text, p)) = ToLower(<<text[p]>>)[1]
         /\ ValueText(FieldAt(text, p)) = TakenValue(SubSeq(text, p + 2, Len(text)))
         /\ ValueText(FieldAt(text, p)) \in Seq(Symbols)
         /\ LeftAt(text, NextStart(text, p), AfterValue(SubSeq(text, p + 2, Len(text))))
<1> DEFINE n == NextAt(text, Comma, p)
           f == SubSeq(text, p, n - 1)
           rest == SubSeq(text, p + 2, Len(text))
           q == NextStart(text, p)
<1>1. /\ n \in p .. Len(text) + 1
      /\ \A k \in p .. n - 1 : text[k] # Comma
      /\ n <= Len(text) => text[n] = Comma
  BY NextFound
<1>2. FieldAt(text, p) = f
  BY DEF FieldAt
<1>3. q = IF n <= Len(text) THEN n + 1 ELSE Len(text) + 1
  BY DEF NextStart
<1>4. p + 2 \in 1 .. Len(text) + 1
  OBVIOUS
<1> HIDE DEF n, f, q, rest
<1>5. n # p + 1
  <2>1. "=" # Comma
    BY DEF Comma
  <2> QED  BY <1>1, <2>1
<1>6. n \in p + 2 .. Len(text) + 1
  BY <1>1, <1>5
<1>7. NextAt(text, Comma, p + 2) = n
  BY <1>4, <1>6, <1>1, NextIs
<1>8. At(rest, Comma) = n - 1 - p
  <2>1. At(rest, Comma) = NextAt(text, Comma, p + 2) + 1 - (p + 2)
    BY <1>4, NextInLeft DEF rest
  <2> QED  BY <2>1, <1>6, <1>7
<1>9. f \in Seq(Symbols) /\ Len(f) = n - p /\ f[1] = text[p] /\ f[2] = text[p + 1]
  BY <1>6 DEF f
<1>10. rest \in Seq(Symbols) /\ Len(rest) = Len(text) - 1 - p
  BY DEF rest
<1>11. SubSeq(f, 3, n - p) = SubSeq(text, p + 2, n - 1)
  <2> DEFINE j == n - 1
             b == n - p
  <2>1. /\ p \in 1 .. Len(text) + 1 /\ j \in p - 1 .. Len(text)
        /\ 3 \in 1 .. (j + 1 - p) + 1 /\ b \in 3 - 1 .. j + 1 - p
        /\ p + 3 - 1 = p + 2 /\ p + b - 1 = n - 1
    BY <1>6
  <2> HIDE DEF j, b
  <2>2. SubSeq(SubSeq(text, p, j), 3, b) = SubSeq(text, p + 3 - 1, p + b - 1)
    BY <2>1, SliceOfSlice
  <2> QED  BY <2>1, <2>2 DEF j, b, f
<1>12. ValueText(FieldAt(text, p)) = SubSeq(text, p + 2, n - 1)
  BY <1>2, <1>9, <1>11 DEF ValueText
<1>13. SubSeq(rest, 1, n - p - 2) = SubSeq(text, p + 2, n - 1)
  <2> DEFINE i == p + 2
             j == Len(text)
             b == n - p - 2
  <2>1. /\ i \in 1 .. Len(text) + 1 /\ j \in i - 1 .. Len(text)
        /\ 1 \in 1 .. (j + 1 - i) + 1 /\ b \in 1 - 1 .. j + 1 - i
        /\ i + 1 - 1 = p + 2 /\ i + b - 1 = n - 1
    BY <1>6
  <2> HIDE DEF i, j, b
  <2>2. SubSeq(SubSeq(text, i, j), 1, b) = SubSeq(text, i + 1 - 1, i + b - 1)
    BY <2>1, SliceOfSlice
  <2> QED  BY <2>1, <2>2 DEF i, j, b, rest
<1>14. TakenValue(rest) = SubSeq(text, p + 2, n - 1)
  <2>1. At(rest, Comma) - 1 = n - p - 2
    BY <1>8, <1>6
  <2> QED  BY <2>1, <1>13 DEF TakenValue
<1>15. SubSeq(text, p + 2, n - 1) \in Seq(Symbols)
  BY <1>6
<1>16. AfterValue(rest) = SubSeq(text, q, Len(text))
  <2>1. AfterValue(rest) = SubSeq(rest, n - p, Len(rest))
    <3>1. At(rest, Comma) + 1 = n - p
      BY <1>8, <1>6
    <3> QED  BY <3>1 DEF AfterValue
  <2>2. CASE n <= Len(text)
    <3> DEFINE i == p + 2
               j == Len(text)
               a == n - p
               b == Len(text) - 1 - p
    <3>1. /\ i \in 1 .. Len(text) + 1 /\ j \in i - 1 .. Len(text)
          /\ a \in 1 .. (j + 1 - i) + 1 /\ b \in a - 1 .. j + 1 - i
          /\ i + a - 1 = n + 1 /\ i + b - 1 = Len(text) /\ q = n + 1
      BY <1>6, <1>3, <2>2
    <3> HIDE DEF i, j, a, b
    <3>2. SubSeq(SubSeq(text, i, j), a, b) = SubSeq(text, i + a - 1, i + b - 1)
      BY <3>1, SliceOfSlice
    <3> QED  BY <3>1, <3>2, <2>1, <1>10 DEF i, j, a, b, rest
  <2>3. CASE ~(n <= Len(text))
    <3>1. n = Len(text) + 1 /\ q = Len(text) + 1
      BY <2>3, <1>3, <1>6
    <3>2. AfterValue(rest) = <<>>
      BY <3>1, <2>1, <1>10
    <3>3. SubSeq(text, q, Len(text)) = <<>>
      BY <3>1
    <3> QED  BY <3>2, <3>3
  <2> QED  BY <2>2, <2>3
<1>17. LeftAt(text, q, AfterValue(rest))
  <2>1. q \in FieldStarts(text) \cup {Len(text) + 1}
    BY NextField DEF q
  <2> QED  BY <2>1, <1>16 DEF LeftAt
<1>18. IsField(f)
  BY <1>6, <1>9 DEF IsField
<1>19. KeyOf(f) = ToLower(<<text[p]>>)[1]
  BY <1>9 DEF KeyOf
<1> QED
  BY <1>2, <1>12, <1>14, <1>15, <1>17, <1>18, <1>19 DEF rest, q

\* And only they do.
LEMMA OnlyFieldsHere ==
  ASSUME NEW text \in Seq(Symbols), NEW p \in 1 .. Len(text), IsField(FieldAt(text, p))
  PROVE  /\ p < Len(text) /\ text[p] # Comma /\ text[p + 1] = "="
         /\ KeyOf(FieldAt(text, p)) = ToLower(<<text[p]>>)[1]
<1> DEFINE n == NextAt(text, Comma, p)
           f == SubSeq(text, p, n - 1)
<1>1. /\ n \in p .. Len(text) + 1
      /\ \A k \in p .. n - 1 : text[k] # Comma
  BY NextFound
<1>2. FieldAt(text, p) = f
  BY DEF FieldAt
<1> HIDE DEF n
<1>3. Len(f) = n - p
  BY <1>1
<1>4. n - p >= 2 /\ f[2] = "="
  BY <1>2, <1>3 DEF IsField
<1>5. f[1] = text[p] /\ f[2] = text[p + 1]
  BY <1>1, <1>4
<1>6. p < Len(text) /\ text[p] # Comma
  BY <1>1, <1>4
<1>7. KeyOf(f) = ToLower(<<text[p]>>)[1]
  BY <1>5 DEF KeyOf
<1> QED
  BY <1>2, <1>4, <1>5, <1>6, <1>7

-----------------------------------------------------------------------------
(***************************************************************************)
(* The keys.                                                               *)
(***************************************************************************)

\* Those of a start, of a length, and the others are different, and none is a separator.
LEMMA Keys ==
  /\ DOMAIN StartKey = {"startOffset", "startPacket", "startDiscontSegment"}
  /\ DOMAIN LengthKey = {"lenBytes", "lenPackets", "lenDiscontSegments"}
  /\ \A k \in DOMAIN StartKey : StartKey[k] \in Kinds \ {"none"}
  /\ \A k \in DOMAIN LengthKey : LengthKey[k] \in Kinds \ {"none"}
<1>1. DOMAIN StartKey = {"startOffset", "startPacket", "startDiscontSegment"}
  BY DEF StartKey
<1>2. DOMAIN LengthKey = {"lenBytes", "lenPackets", "lenDiscontSegments"}
  BY DEF LengthKey
<1>3. /\ StartKey["startOffset"] = "offset" /\ StartKey["startPacket"] = "packet"
      /\ StartKey["startDiscontSegment"] = "segment"
  BY DEF StartKey
<1>4. /\ LengthKey["lenBytes"] = "bytes" /\ LengthKey["lenPackets"] = "packets"
      /\ LengthKey["lenDiscontSegments"] = "segments"
  BY DEF LengthKey
<1>5. ASSUME NEW k \in DOMAIN StartKey PROVE StartKey[k] \in Kinds \ {"none"}
  <2>1. StartKey[k] \in {"offset", "packet", "segment"}
    BY <1>1, <1>3
  <2>2. StartKey[k] # "none"
    BY <2>1
  <2>3. StartKey[k] \in Kinds
    BY <2>1 DEF Kinds
  <2> QED  BY <2>2, <2>3
<1>6. ASSUME NEW k \in DOMAIN LengthKey PROVE LengthKey[k] \in Kinds \ {"none"}
  <2>1. LengthKey[k] \in {"bytes", "packets", "segments"}
    BY <1>2, <1>4
  <2>2. LengthKey[k] # "none"
    BY <2>1
  <2>3. LengthKey[k] \in Kinds
    BY <2>1 DEF Kinds
  <2> QED  BY <2>2, <2>3
<1> QED
  BY <1>1, <1>2, <1>5, <1>6

\* The same of symbols, whatever their case.
LEMMA KeySymbols ==
  ASSUME NEW c, NEW k, ToLower(<<c>>) = <<k>>
  PROVE  /\ k \in DOMAIN StartKey \cup DOMAIN LengthKey \cup {"discontSegments"} =>
              c \notin {Comma, "=", "fileName", "fileFormat"}
         /\ k \in {"fileName", "fileFormat"} => c = k
         /\ c \in {"fileName", "fileFormat"} => c = k
<1>1. k = IF c = Upper THEN "startPacket" ELSE c
  BY LowerCase
<1>2. /\ Upper \notin {Comma, "=", "fileName", "fileFormat"}
      /\ Comma \notin DOMAIN StartKey \cup DOMAIN LengthKey \cup {"discontSegments"}
  BY Keys, Zenon DEF Upper, Comma
<1> QED
  BY <1>1, <1>2, Keys

-----------------------------------------------------------------------------
(***************************************************************************)
(* Where the rest begins.                                                  *)
(***************************************************************************)

\* A field that begins before the rest, or where there is none, is one of the fields.
LEMMA StartHere ==
  ASSUME NEW text \in Seq(Symbols), NEW key, NEW p \in 1 .. Len(text), p \in FieldStarts(text),
         \A r \in RestAt(text, key) : p <= r, p \notin RestAt(text, key)
  PROVE  p \in Starts(text, key)
<1>1. ASSUME NEW r \in RestAt(text, key) PROVE p < r
  <2>1. r \in 1 .. Len(text) /\ p <= r /\ p # r
    BY DEF RestAt, FieldStarts
  <2> QED  BY <2>1
<1> QED
  BY <1>1 DEF Starts

\* The fields are before the rest.
LEMMA StartsBefore ==
  ASSUME NEW text \in Seq(Symbols), NEW key, NEW i \in Starts(text, key)
  PROVE  /\ i \in 1 .. Len(text) /\ i \in FieldStarts(text)
         /\ \A r \in RestAt(text, key) : i < r
  BY DEF Starts, FieldStarts

\* The rest begins at p, where its key is the next one.
LEMMA RestHere ==
  ASSUME NEW text \in Seq(Symbols), NEW key, NEW p \in 1 .. Len(text), p \in RestAt(text, key),
         \A r \in RestAt(text, key) : p <= r
  PROVE  /\ RestPart(text, key) = SubSeq(text, p + 2, Len(text))
         /\ \A i \in Starts(text, key) : i < p
<1>1. RestAt(text, key) \subseteq Nat
  BY DEF RestAt, FieldStarts
<1>2. Min(RestAt(text, key)) = p
  <2>1. /\ Min(RestAt(text, key)) \in RestAt(text, key)
        /\ \A k \in RestAt(text, key) : Min(RestAt(text, key)) <= k
    BY <1>1, LeastOne
  <2> DEFINE m == Min(RestAt(text, key))
  <2> HIDE DEF m
  <2>2. m \in Nat /\ m <= p /\ p <= m
    BY <1>1, <2>1 DEF m
  <2> QED  BY <2>2 DEF m
<1> QED
  BY <1>2 DEF RestPart, Starts

\* There is no rest behind the end.
LEMMA RestNotTaken ==
  ASSUME NEW text \in Seq(Symbols), NEW key, NEW p \in 1 .. Len(text), NEW rest,
         RestBefore(text, key, p, rest)
  PROVE  \A r \in RestAt(text, key) : p <= r
  BY DEF RestBefore

\* Past a field that is not the rest, there still is what there was.
LEMMA RestGoesOn ==
  ASSUME NEW text \in Seq(Symbols), NEW key, NEW p \in 1 .. Len(text), p \in FieldStarts(text),
         \A r \in RestAt(text, key) : p <= r, p \notin RestAt(text, key), NEW rest
  PROVE  RestBefore(text, key, NextStart(text, p), rest)
<1>1. ASSUME NEW r \in RestAt(text, key) PROVE NextStart(text, p) <= r
  <2>1. r \in 1 .. Len(text) /\ r \in FieldStarts(text) /\ p < r
    BY DEF RestAt, FieldStarts
  <2>2. NextStart(text, p) \in Nat
    BY NextField DEF FieldStarts
  <2>3. ~(r < NextStart(text, p))
    BY <2>1, NextField
  <2> QED
    BY <2>1, <2>2, <2>3
<1> QED
  BY <1>1 DEF RestBefore

-----------------------------------------------------------------------------
(***************************************************************************)
(* A field of the description of an output.                                *)
(***************************************************************************)

\* The fields with some keys are among the fields.
LEMMA FieldsWithAre ==
  ASSUME NEW text \in Seq(Symbols), NEW keys, NEW i \in FieldsWith(text, keys)
  PROVE  i \in 1 .. Len(text) /\ i \in Starts(text, "fileName") /\ i \in FieldStarts(text)
  BY StartsBefore DEF FieldsWith

\* The first field with one of the keys says what is meant.
LEMMA MeantHere ==
  ASSUME NEW text \in Seq(Symbols), NEW keys \in {StartKey, LengthKey},
         NEW p \in 1 .. Len(text), p \in FieldsWith(text, keys),
         NEW part, part.kind = "none", MeantBefore(text, keys, p, part)
  PROVE  MeantBefore(text, keys, NextStart(text, p),
                     Described(keys[KeyOf(FieldAt(text, p))], ValueText(FieldAt(text, p))))
<1>1. \A i \in FieldsWith(text, keys) : p <= i
  <2>1. ASSUME NEW i \in FieldsWith(text, keys),
               part = Described(keys[KeyOf(FieldAt(text, i))], ValueText(FieldAt(text, i)))
        PROVE  FALSE
    <3>1. KeyOf(FieldAt(text, i)) \in DOMAIN keys
      BY DEF FieldsWith
    <3>2. keys[KeyOf(FieldAt(text, i))] # "none"
      BY <3>1, Keys
    <3>3. part.kind = keys[KeyOf(FieldAt(text, i))]
      BY <2>1 DEF Described
    <3> QED  BY <3>2, <3>3
  <2> QED
    BY <2>1 DEF MeantBefore
<1>2. ASSUME NEW j \in FieldsWith(text, keys), j < NextStart(text, p) PROVE j = p
  <2>1. j \in 1 .. Len(text) /\ j \in FieldStarts(text) /\ p \in FieldStarts(text)
    BY FieldsWithAre
  <2>2. j <= p
    BY <2>1, <1>2, NextField
  <2> QED  BY <2>1, <2>2, <1>1
<1>3. p < NextStart(text, p)
  BY NextField, FieldsWithAre
<1> QED
  BY <1>2, <1>3 DEF MeantBefore

\* A field with another key says nothing of it.
LEMMA MeantElsewhere ==
  ASSUME NEW text \in Seq(Symbols), NEW keys, NEW p \in 1 .. Len(text), p \in FieldStarts(text),
         p \notin FieldsWith(text, keys), NEW part, MeantBefore(text, keys, p, part)
  PROVE  MeantBefore(text, keys, NextStart(text, p), part)
<1> DEFINE q == NextStart(text, p)
<1>1. q \in Nat /\ p < q
  BY NextField DEF FieldStarts
<1> HIDE DEF q
<1>2. ASSUME NEW j \in FieldsWith(text, keys) PROVE j < q <=> j < p
  <2>1. j \in 1 .. Len(text) /\ j \in FieldStarts(text) /\ j # p
    BY FieldsWithAre
  <2>2. j < q => j <= p
    BY <2>1, NextField DEF q
  <2> QED  BY <2>1, <2>2, <1>1
<1>3. ASSUME NEW j \in FieldsWith(text, keys) PROVE j \in Nat
  BY FieldsWithAre
<1>4. CASE part = Unset /\ \A i \in FieldsWith(text, keys) : p <= i
  <2>1. ASSUME NEW j \in FieldsWith(text, keys) PROVE q <= j
    BY <1>1, <1>2, <1>3, <1>4
  <2> QED  BY <2>1, <1>4 DEF MeantBefore, q
<1>5. ASSUME NEW i \in FieldsWith(text, keys), i < p,
             part = Described(keys[KeyOf(FieldAt(text, i))], ValueText(FieldAt(text, i))),
             \A j \in FieldsWith(text, keys) : j < p => j = i
      PROVE  MeantBefore(text, keys, q, part)
  <2>1. i < q /\ \A j \in FieldsWith(text, keys) : j < q => j = i
    BY <1>2, <1>5
  <2> QED  BY <2>1, <1>5 DEF MeantBefore
<1> QED
  BY <1>4, <1>5 DEF MeantBefore, q

\* Behind the last field nothing more is said of it.
LEMMA MeantAtEnd ==
  ASSUME NEW text \in Seq(Symbols), NEW keys, NEW p \in 1 .. Len(text),
         \A i \in Starts(text, "fileName") : i < p, NEW part, MeantBefore(text, keys, p, part)
  PROVE  MeantBefore(text, keys, Len(text) + 1, part)
<1>1. ASSUME NEW j \in FieldsWith(text, keys) PROVE j < p /\ j < Len(text) + 1 /\ j \in Nat
  BY FieldsWithAre
<1>2. CASE part = Unset /\ \A i \in FieldsWith(text, keys) : p <= i
  <2>1. FieldsWith(text, keys) = {}
    <3>1. ASSUME NEW j \in FieldsWith(text, keys) PROVE FALSE
      BY <1>1, <1>2
    <3> QED  BY <3>1
  <2> QED  BY <2>1, <1>2 DEF MeantBefore
<1>3. CASE \E i \in FieldsWith(text, keys) :
             /\ i < p
             /\ part = Described(keys[KeyOf(FieldAt(text, i))], ValueText(FieldAt(text, i)))
             /\ \A j \in FieldsWith(text, keys) : j < p => j = i
  BY <1>1, <1>3 DEF MeantBefore
<1> QED
  BY <1>2, <1>3 DEF MeantBefore

\* The output so far, and where the next field begins.
OutputAt(text, p) ==
    /\ p \in FieldStarts(text)
    /\ LeftAt(text, p, buf) /\ OutputSoFar(text, p, current)
    /\ current \in OutputSet

\* A key that is none of an output's makes the text unreadable.
LEMMA OutputKeyless ==
  ASSUME NEW text \in Seq(Symbols), NEW p \in 1 .. Len(text), OutputAt(text, p),
         ~(/\ HasKey /\ Len(TakenKey) = 1
           /\ TakenKey[1] \in DOMAIN StartKey \cup DOMAIN LengthKey \cup {"fileName"})
  PROVE  ~OutfileReadable(text)
<1>1. /\ p \in FieldStarts(text) /\ buf = SubSeq(text, p, Len(text))
      /\ \A r \in RestAt(text, "fileName") : p <= r
  BY RestNotTaken DEF OutputAt, LeftAt, OutputSoFar
<1>2. p \notin RestAt(text, "fileName")
  <2> SUFFICES ASSUME p \in RestAt(text, "fileName") PROVE FALSE
    OBVIOUS
  <2>1. p < Len(text) /\ text[p] = "fileName" /\ text[p + 1] = "="
    BY DEF RestAt
  <2>2. HasKey /\ Len(TakenKey) = 1 /\ TakenKey = ToLower(<<text[p]>>)
    BY <1>1, <2>1, KeyHere
  <2>3. ToLower(<<text[p]>>) = <<"fileName">>
    BY <2>1, LowerCase DEF Upper
  <2>4. TakenKey[1] = "fileName"
    BY <2>2, <2>3
  <2> QED  BY <2>2, <2>4
<1>3. p \in Starts(text, "fileName")
  BY <1>1, <1>2, StartHere
<1>4. SUFFICES ASSUME FieldRead(text, p) PROVE FALSE
  BY <1>3 DEF OutfileReadable, FieldRead
<1> DEFINE k == KeyOf(FieldAt(text, p))
<1>5. k \in DOMAIN StartKey \cup DOMAIN LengthKey
  BY <1>4 DEF FieldRead, NumberGiven
<1>6. p < Len(text) /\ text[p + 1] = "=" /\ k = ToLower(<<text[p]>>)[1]
  BY <1>4, OnlyFieldsHere DEF FieldRead
<1> HIDE DEF k
<1>7. ToLower(<<text[p]>>) = <<k>>
  BY <1>6, LowerCase
<1>8. text[p] # "="
  BY <1>5, <1>7, KeySymbols
<1>9. HasKey /\ Len(TakenKey) = 1 /\ TakenKey = <<k>>
  BY <1>1, <1>6, <1>7, <1>8, KeyHere
<1> QED
  BY <1>5, <1>9

\* A key of a start or a length, and what it is a key of.
LEMMA OutputField ==
  ASSUME NEW text \in Seq(Symbols), NEW p \in 1 .. Len(text), OutputAt(text, p),
         HasKey, Len(TakenKey) = 1, NEW keys \in {StartKey, LengthKey}, TakenKey[1] \in DOMAIN keys
  PROVE  /\ \A r \in RestAt(text, "fileName") : p <= r
         /\ p \notin RestAt(text, "fileName")
         /\ p \in FieldsWith(text, keys)
         /\ \A other \in {StartKey, LengthKey} : other # keys => p \notin FieldsWith(text, other)
         /\ IsField(FieldAt(text, p))
         /\ KeyOf(FieldAt(text, p)) = TakenKey[1]
         /\ ValueText(FieldAt(text, p)) = TakenValue(AfterKey)
         /\ TakenValue(AfterKey) \in Seq(Symbols)
         /\ LeftAt(text, NextStart(text, p), AfterValue(AfterKey))
<1>1. /\ p \in FieldStarts(text) /\ buf = SubSeq(text, p, Len(text))
      /\ \A r \in RestAt(text, "fileName") : p <= r
  BY RestNotTaken DEF OutputAt, LeftAt, OutputSoFar
<1> DEFINE k == TakenKey[1]
<1>2. p < Len(text) /\ text[p] # "=" /\ text[p + 1] = "="
  BY <1>1, KeyHere
<1>3. TakenKey = ToLower(<<text[p]>>) /\ AfterKey = SubSeq(text, p + 2, Len(text))
  BY <1>1, <1>2, KeyHere
<1>4. ToLower(<<text[p]>>) = <<k>>
  BY <1>3, LowerCase
<1>5. k \in DOMAIN StartKey \cup DOMAIN LengthKey
  OBVIOUS
<1> HIDE DEF k
<1>6. text[p] \notin {Comma, "=", "fileName"}
  BY <1>4, <1>5, KeySymbols
<1>7. /\ IsField(FieldAt(text, p))
      /\ KeyOf(FieldAt(text, p)) = ToLower(<<text[p]>>)[1]
      /\ ValueText(FieldAt(text, p)) = TakenValue(AfterKey)
      /\ TakenValue(AfterKey) \in Seq(Symbols)
      /\ LeftAt(text, NextStart(text, p), AfterValue(AfterKey))
  BY <1>1, <1>2, <1>3, <1>6, FieldHere
<1>8. KeyOf(FieldAt(text, p)) = k
  BY <1>4, <1>7
<1>9. p \notin RestAt(text, "fileName")
  BY <1>6 DEF RestAt
<1>10. p \in Starts(text, "fileName")
  BY <1>1, <1>9, StartHere
<1>11. p \in FieldsWith(text, keys)
  BY <1>7, <1>8, <1>10 DEF FieldsWith, k
<1>12. ASSUME NEW other \in {StartKey, LengthKey}, other # keys PROVE p \notin FieldsWith(text, other)
  <2>1. k \notin DOMAIN other
    BY <1>12, Keys DEF k
  <2> QED
    BY <2>1, <1>8 DEF FieldsWith
<1> QED
  BY <1>1, <1>7, <1>8, <1>9, <1>11, <1>12 DEF k

\* A number that is read goes on to the next field with what it says.
LEMMA OutputGoesOn ==
  ASSUME NEW text \in Seq(Symbols), NEW p \in 1 .. Len(text), OutputAt(text, p),
         HasKey, Len(TakenKey) = 1, NEW keys \in {StartKey, LengthKey}, TakenKey[1] \in DOMAIN keys,
         IsNumber(TakenValue(AfterKey), MaxOf(keys[TakenKey[1]])),
         NEW part, part.kind = "none", MeantBefore(text, keys, p, part)
  PROVE  /\ \A i \in Starts(text, "fileName") : i < NextStart(text, p) => FieldRead(text, i)
         /\ MeantBefore(text, keys, NextStart(text, p),
                        Described(keys[TakenKey[1]], TakenValue(AfterKey)))
         /\ \A other \in {StartKey, LengthKey} : \A before :
              other # keys /\ MeantBefore(text, other, p, before) =>
                MeantBefore(text, other, NextStart(text, p), before)
         /\ \A rest : RestBefore(text, "fileName", NextStart(text, p), rest)
<1>1. /\ \A r \in RestAt(text, "fileName") : p <= r
      /\ p \notin RestAt(text, "fileName")
      /\ p \in FieldsWith(text, keys)
      /\ \A other \in {StartKey, LengthKey} : other # keys => p \notin FieldsWith(text, other)
      /\ IsField(FieldAt(text, p))
      /\ KeyOf(FieldAt(text, p)) = TakenKey[1]
      /\ ValueText(FieldAt(text, p)) = TakenValue(AfterKey)
  BY OutputField
<1>2. p \in FieldStarts(text)
  BY DEF OutputAt
<1>3. FieldRead(text, p)
  BY <1>1 DEF FieldRead, NumberGiven
<1>4. ASSUME NEW i \in Starts(text, "fileName"), i < NextStart(text, p) PROVE FieldRead(text, i)
  <2>1. i \in 1 .. Len(text) /\ i \in FieldStarts(text)
    BY StartsBefore
  <2>2. i <= p
    BY <2>1, <1>2, <1>4, NextField
  <2>3. i < p => FieldRead(text, i)
    BY DEF OutputAt, OutputSoFar
  <2> QED
    BY <2>1, <2>2, <2>3, <1>3
<1>5. MeantBefore(text, keys, NextStart(text, p),
                  Described(keys[TakenKey[1]], TakenValue(AfterKey)))
  BY <1>1, MeantHere
<1>6. ASSUME NEW other \in {StartKey, LengthKey}, NEW before,
             other # keys, MeantBefore(text, other, p, before)
      PROVE  MeantBefore(text, other, NextStart(text, p), before)
  BY <1>1, <1>2, <1>6, MeantElsewhere
<1>7. \A rest : RestBefore(text, "fileName", NextStart(text, p), rest)
  BY <1>1, <1>2, RestGoesOn
<1> QED
  BY <1>4, <1>5, <1>6, <1>7

\* A number that is not read, or of what is known already, makes the text unreadable.
LEMMA OutputRefused ==
  ASSUME NEW text \in Seq(Symbols), NEW p \in 1 .. Len(text), OutputAt(text, p),
         HasKey, Len(TakenKey) = 1, NEW keys \in {StartKey, LengthKey}, TakenKey[1] \in DOMAIN keys,
         NEW part, MeantBefore(text, keys, p, part),
         ~SetOnce(part, keys[TakenKey[1]], TakenValue(AfterKey))
  PROVE  ~OutfileReadable(text)
<1>1. /\ p \in FieldsWith(text, keys)
      /\ \A other \in {StartKey, LengthKey} : other # keys => p \notin FieldsWith(text, other)
      /\ IsField(FieldAt(text, p))
      /\ KeyOf(FieldAt(text, p)) = TakenKey[1]
      /\ ValueText(FieldAt(text, p)) = TakenValue(AfterKey)
  BY OutputField
<1>2. p \in Starts(text, "fileName")
  BY <1>1, FieldsWithAre
<1>3. CASE ~IsNumber(TakenValue(AfterKey), MaxOf(keys[TakenKey[1]]))
  <2>1. ~NumberGiven(FieldAt(text, p), keys)
    BY <1>1, <1>3 DEF NumberGiven
  <2>2. ASSUME NEW other \in {StartKey, LengthKey}, other # keys
        PROVE  ~NumberGiven(FieldAt(text, p), other)
    BY <1>1, <1>2, <2>2 DEF NumberGiven, FieldsWith
  <2>3. ~NumberGiven(FieldAt(text, p), StartKey) /\ ~NumberGiven(FieldAt(text, p), LengthKey)
    BY <2>1, <2>2
  <2> QED
    BY <2>3, <1>2 DEF OutfileReadable
<1>4. CASE part.kind # "none"
  <2>1. part # Unset
    BY <1>4 DEF Unset
  <2>2. PICK i \in FieldsWith(text, keys) : i < p
    BY <2>1 DEF MeantBefore
  <2>3. i # p
    BY <2>2, FieldsWithAre
  <2> QED
    BY <2>3, <1>1 DEF OutfileReadable
<1> QED
  BY <1>3, <1>4 DEF SetOnce

\* The file name ends the text.
LEMMA OutputFile ==
  ASSUME NEW text \in Seq(Symbols), NEW p \in 1 .. Len(text), OutputAt(text, p),
         HasKey, TakenKey = <<"fileName">>
  PROVE  /\ AfterKey = <<>> => ~OutfileReadable(text)
         /\ AfterKey # <<>> =>
              /\ LeftAt(text, Len(text) + 1, <<>>)
              /\ OutputSoFar(text, Len(text) + 1, [current EXCEPT !.file = AfterKey])
         /\ AfterKey \in Seq(Symbols)
<1>1. /\ p \in FieldStarts(text) /\ buf = SubSeq(text, p, Len(text))
      /\ \A r \in RestAt(text, "fileName") : p <= r
  BY RestNotTaken DEF OutputAt, LeftAt, OutputSoFar
<1>2. Len(TakenKey) = 1
  OBVIOUS
<1>3. p < Len(text) /\ text[p] # "=" /\ text[p + 1] = "="
  BY <1>1, <1>2, KeyHere
<1>4. TakenKey = ToLower(<<text[p]>>) /\ AfterKey = SubSeq(text, p + 2, Len(text))
  BY <1>1, <1>3, KeyHere
<1>5. text[p] = "fileName"
  BY <1>4, KeySymbols
<1>6. p \in RestAt(text, "fileName")
  BY <1>1, <1>3, <1>5 DEF RestAt
<1>7. RestPart(text, "fileName") = AfterKey /\ \A i \in Starts(text, "fileName") : i < p
  BY <1>1, <1>4, <1>6, RestHere
<1>8. AfterKey = <<>> => ~OutfileReadable(text)
  BY <1>6, <1>7 DEF OutfileReadable
<1>9. LeftAt(text, Len(text) + 1, <<>>)
  BY DEF LeftAt
<1>10. ASSUME AfterKey # <<>>
       PROVE  OutputSoFar(text, Len(text) + 1, [current EXCEPT !.file = AfterKey])
  <2> DEFINE new == [current EXCEPT !.file = AfterKey]
  <2>1. new.file = AfterKey /\ new.start = current.start /\ new.length = current.length
    BY DEF OutputAt, OutputSet
  <2> HIDE DEF new
  <2>2. MeantBefore(text, StartKey, p, current.start) /\ MeantBefore(text, LengthKey, p, current.length)
    BY DEF OutputAt, OutputSoFar
  <2>3. /\ MeantBefore(text, StartKey, Len(text) + 1, new.start)
        /\ MeantBefore(text, LengthKey, Len(text) + 1, new.length)
    BY <2>1, <2>2, <1>7, MeantAtEnd
  <2>4. \A i \in Starts(text, "fileName") : FieldRead(text, i)
    BY <1>7 DEF OutputAt, OutputSoFar
  <2>5. RestBefore(text, "fileName", Len(text) + 1, new.file)
    BY <2>1, <1>7, <1>10 DEF RestBefore
  <2> QED
    BY <2>3, <2>4, <2>5 DEF OutputSoFar, new
<1>11. AfterKey \in Seq(Symbols)
  BY <1>4
<1> QED
  BY <1>8, <1>9, <1>10, <1>11

-----------------------------------------------------------------------------
(***************************************************************************)
(* Ranges.                                                                 *)
(***************************************************************************)

\* Induction over the natural numbers, for sets.
LEMMA SetInduction ==
  ASSUME NEW S, 0 \in S, \A n \in Nat : n \in S => n + 1 \in S
  PROVE  Nat \subseteq S
<1> SUFFICES ASSUME NEW n \in Nat, n \notin S PROVE FALSE
  OBVIOUS
<1> DEFINE T == {k \in Nat : k \notin S}
           m == Min(T)
<1>1. T \subseteq Nat /\ n \in T
  OBVIOUS
<1>2. m \in T /\ \A k \in T : m <= k
  <2> HIDE DEF T
  <2> QED  BY <1>1, LeastOne
<1> HIDE DEF m
<1>3. m \in Nat /\ m \notin S /\ m # 0
  BY <1>2
<1>4. m - 1 \in Nat /\ (m - 1) + 1 = m
  BY <1>3
<1>5. m - 1 \notin S
  BY <1>3, <1>4
<1>6. m <= m - 1
  BY <1>2, <1>4, <1>5
<1> QED
  BY <1>3, <1>6

\* There are finitely many separators, as many as they are.
LEMMA PlacesAre ==
  ASSUME NEW text \in Seq(Symbols), NEW symbol
  PROVE  /\ IsFiniteSet(Places(text, symbol)) /\ Cardinality(Places(text, symbol)) \in Nat
         /\ Places(text, symbol) \subseteq 1 .. Len(text)
<1>1. Places(text, symbol) \subseteq 1 .. Len(text)
  BY DEF Places
<1>2. IsFiniteSet(1 .. Len(text))
  BY FS_Interval
<1> HIDE DEF Places
<1>3. IsFiniteSet(Places(text, symbol))
  BY <1>1, <1>2, FS_Subset
<1> QED
  BY <1>1, <1>3, FS_CardinalityType

\* Where the parts begin is as it is written.
LEMMA BeginsAre ==
  ASSUME NEW text \in Seq(Symbols), NEW symbol
  PROVE  /\ Begins(text, symbol)[0] = 1
         /\ \A k \in 1 .. Cardinality(Places(text, symbol)) :
              Begins(text, symbol)[k] = NextAt(text, symbol, Begins(text, symbol)[k - 1]) + 1
<1> DEFINE count == Cardinality(Places(text, symbol))
           Step(f, k) == IF k = 0 THEN 1 ELSE NextAt(text, symbol, f[k - 1]) + 1
           P(f) == f = [k \in 0 .. count |-> Step(f, k)]
           S == {n \in Nat : \E f : f = [k \in 0 .. n |-> Step(f, k)]}
           begin == Begins(text, symbol)
<1>1. begin = CHOOSE f : P(f)
  BY DEF Begins
<1>2. 0 \in S
  <2> DEFINE f == [k \in 0 .. 0 |-> 1]
  <2>1. f = [k \in 0 .. 0 |-> Step(f, k)]
    OBVIOUS
  <2> QED  BY <2>1
<1>3. ASSUME NEW n \in Nat, n \in S PROVE n + 1 \in S
  <2>1. PICK f : f = [k \in 0 .. n |-> Step(f, k)]
    BY <1>3
  <2>2. \A k \in 0 .. n : f[k] = Step(f, k)
    <3> HIDE DEF Step
    <3> QED  BY <2>1
  <2> DEFINE g == [k \in 0 .. n + 1 |-> IF k <= n THEN f[k] ELSE Step(f, n + 1)]
  <2>3. ASSUME NEW k \in 0 .. n + 1 PROVE g[k] = Step(g, k)
    <3>1. k # 0 => k - 1 \in 0 .. n /\ g[k - 1] = f[k - 1]
      OBVIOUS
    <3>2. Step(g, k) = Step(f, k)
      BY <3>1
    <3>3. k <= n => f[k] = Step(f, k)
      BY <2>2
    <3>4. g[k] = Step(f, k)
      BY <3>3
    <3> QED  BY <3>2, <3>4
  <2>4. g = [k \in 0 .. n + 1 |-> Step(g, k)]
    <3> HIDE DEF Step
    <3> QED  BY <2>3
  <2>5. \E h : h = [k \in 0 .. n + 1 |-> Step(h, k)]
    <3> HIDE DEF g, Step
    <3> QED  BY <2>4
  <2> HIDE DEF Step
  <2> QED  BY <2>5
<1>4. count \in Nat
  BY PlacesAre
<1>5. \E f : P(f)
  <2>1. count \in S
    BY <1>2, <1>3, <1>4, SetInduction
  <2> QED  BY <2>1
<1>6. P(CHOOSE f : P(f))
  <2> HIDE DEF P
  <2> QED  BY <1>5
<1>7. P(begin)
  <2> HIDE DEF P
  <2> QED  BY <1>1, <1>6
<1> HIDE DEF begin
<1>8. \A k \in 0 .. count : begin[k] = Step(begin, k)
  <2> HIDE DEF Step
  <2> QED  BY <1>7
<1>9. begin[0] = 1
  BY <1>4, <1>8
<1>10. ASSUME NEW k \in 1 .. count PROVE begin[k] = NextAt(text, symbol, begin[k - 1]) + 1
  BY <1>4, <1>8
<1> QED
  BY <1>9, <1>10 DEF begin

\* They are in the text, or just behind its end.
LEMMA BeginsInText ==
  ASSUME NEW text \in Seq(Symbols), NEW symbol
  PROVE  \A k \in 0 .. Cardinality(Places(text, symbol)) :
           Begins(text, symbol)[k] \in 1 .. Len(text) + 1
<1> DEFINE count == Cardinality(Places(text, symbol))
           begin == Begins(text, symbol)
           Before(b) == {i \in Places(text, symbol) : i < b}
           S == {k \in Nat : k <= count =>
                   /\ begin[k] \in 1 .. Len(text) + 1
                   /\ Cardinality(Before(begin[k])) = k}
<1>1. /\ count \in Nat
      /\ IsFiniteSet(Places(text, symbol)) /\ Places(text, symbol) \subseteq 1 .. Len(text)
  BY PlacesAre
<1>2. /\ begin[0] = 1
      /\ \A k \in 1 .. count : begin[k] = NextAt(text, symbol, begin[k - 1]) + 1
  BY BeginsAre
<1> HIDE DEF begin
<1>3. 0 \in S
  <2>1. Before(1) = {}
    BY <1>1
  <2>2. Cardinality(Before(1)) = 0
    BY <2>1, FS_EmptySet
  <2>3. 1 \in 1 .. Len(text) + 1
    OBVIOUS
  <2> HIDE DEF Before, count
  <2> QED
    BY <1>2, <2>2, <2>3
<1>4. ASSUME NEW k \in Nat, k \in S PROVE k + 1 \in S
  <2> SUFFICES ASSUME k + 1 <= count
               PROVE  /\ begin[k + 1] \in 1 .. Len(text) + 1
                      /\ Cardinality(Before(begin[k + 1])) = k + 1
    OBVIOUS
  <2> DEFINE b == begin[k]
             n == NextAt(text, symbol, b)
  <2>1. b \in 1 .. Len(text) + 1 /\ Cardinality(Before(b)) = k
    BY <1>1, <1>4
  <2>2. begin[k + 1] = n + 1
    <3>1. k + 1 \in 1 .. count /\ (k + 1) - 1 = k
      BY <1>1
    <3> QED  BY <3>1, <1>2
  <2> HIDE DEF b
  <2>3. /\ n \in b .. Len(text) + 1
        /\ \A i \in b .. n - 1 : text[i] # symbol
        /\ n <= Len(text) => text[n] = symbol
    BY <2>1, NextFound
  <2> HIDE DEF n
  <2>4. ASSUME NEW i \in Places(text, symbol) PROVE i < n <=> i < b
    <3>1. i \in 1 .. Len(text) /\ text[i] = symbol
      BY <1>1 DEF Places
    <3>2. i \notin b .. n - 1
      BY <3>1, <2>3
    <3> QED  BY <3>1, <3>2, <2>1, <2>3
  <2>5. IsFiniteSet(Before(b))
    <3>1. Before(b) \subseteq Places(text, symbol)
      OBVIOUS
    <3> HIDE DEF Before
    <3> QED  BY <3>1, <1>1, FS_Subset
  <2>6. n <= Len(text)
    <3> SUFFICES ASSUME n = Len(text) + 1 PROVE FALSE
      BY <2>3, <2>1
    <3>1. Before(b) = Places(text, symbol)
      <4>1. ASSUME NEW i \in Places(text, symbol) PROVE i < b
        <5>1. i < n
          BY <1>1
        <5> QED  BY <5>1, <2>4
      <4> QED  BY <4>1
    <3> HIDE DEF Before
    <3>2. count = k
      BY <3>1, <2>1
    <3> HIDE DEF count
    <3> QED
      BY <3>2, <1>1
  <2>7. n \in Places(text, symbol) /\ n \notin Before(b)
    BY <2>3, <2>6, <2>1 DEF Places
  <2>8. Before(n + 1) = Before(b) \cup {n}
    <3>1. ASSUME NEW i \in Places(text, symbol) PROVE i < n + 1 <=> i < b \/ i = n
      <4>1. i \in Nat /\ (i < n <=> i < b)
        BY <1>1, <2>4
      <4> QED  BY <4>1, <2>1, <2>3
    <3> QED  BY <3>1, <2>7
  <2>9. Cardinality(Before(n + 1)) = k + 1
    <3> HIDE DEF Before
    <3> QED  BY <2>1, <2>5, <2>7, <2>8, FS_AddElement
  <2> QED
    BY <2>2, <2>3, <2>6, <2>9, <2>1
<1>5. Nat \subseteq S
  <2> HIDE DEF S
  <2> QED  BY <1>3, <1>4, SetInduction
<1>6. ASSUME NEW k \in 0 .. count PROVE begin[k] \in 1 .. Len(text) + 1
  <2>1. k \in Nat /\ k <= count
    BY <1>1
  <2>2. k \in S
    BY <2>1, <1>5
  <2> QED  BY <2>1, <2>2
<1> QED
  BY <1>6 DEF begin

\* The parts of a text, one more than there are separators.
LEMMA SplitIs ==
  ASSUME NEW text \in Seq(Symbols), NEW symbol
  PROVE  /\ Split(text, symbol) \in Seq(Seq(Symbols))
         /\ Len(Split(text, symbol)) = Cardinality(Places(text, symbol)) + 1
         /\ \A k \in 1 .. Cardinality(Places(text, symbol)) + 1 :
              Split(text, symbol)[k] =
                SubSeq(text, Begins(text, symbol)[k - 1],
                       NextAt(text, symbol, Begins(text, symbol)[k - 1]) - 1)
<1> DEFINE count == Cardinality(Places(text, symbol))
           Part(k) == SubSeq(text, Begins(text, symbol)[k - 1],
                             NextAt(text, symbol, Begins(text, symbol)[k - 1]) - 1)
<1>1. count \in Nat
  BY PlacesAre
<1>2. Split(text, symbol) = [k \in 1 .. count + 1 |-> Part(k)]
  BY DEF Split
<1>3. ASSUME NEW k \in 1 .. count + 1 PROVE Part(k) \in Seq(Symbols)
  <2> DEFINE b == Begins(text, symbol)[k - 1]
             n == NextAt(text, symbol, b)
  <2>1. b \in 1 .. Len(text) + 1
    <3>1. k - 1 \in 0 .. count
      BY <1>1
    <3> QED  BY <3>1, BeginsInText
  <2> HIDE DEF b
  <2>2. n \in b .. Len(text) + 1
    BY <2>1, NextFound
  <2> HIDE DEF n
  <2>3. SubSeq(text, b, n - 1) \in Seq(Symbols)
    BY <2>1, <2>2
  <2> QED
    BY <2>3 DEF b, n
<1> HIDE DEF count, Part
<1>4. Split(text, symbol) \in Seq(Seq(Symbols)) /\ Len(Split(text, symbol)) = count + 1
  BY <1>1, <1>2, <1>3
<1>5. \A k \in 1 .. count + 1 : Split(text, symbol)[k] = Part(k)
  BY <1>2
<1> QED
  BY <1>4, <1>5 DEF count, Part

\* One part: there is no separator.
LEMMA SplitOne ==
  ASSUME NEW text \in Seq(Symbols), NEW symbol, Len(Split(text, symbol)) = 1
  PROVE  ~Has(text, symbol) /\ Split(text, symbol)[1] = text
<1> DEFINE count == Cardinality(Places(text, symbol))
<1>1. count = 0
  BY SplitIs, PlacesAre
<1>2. Places(text, symbol) = {}
  BY <1>1, PlacesAre, FS_EmptySet
<1>3. \A i \in 1 .. Len(text) : text[i] # symbol
  BY <1>2 DEF Places
<1>4. NextAt(text, symbol, 1) = Len(text) + 1
  BY <1>3, NextIs
<1>5. Split(text, symbol)[1] = SubSeq(text, Begins(text, symbol)[0],
                                      NextAt(text, symbol, Begins(text, symbol)[0]) - 1)
  <2>1. 1 \in 1 .. count + 1 /\ 1 - 1 = 0
    BY <1>1
  <2> QED  BY <2>1, SplitIs
<1>6. Begins(text, symbol)[0] = 1
  BY BeginsAre
<1>7. Split(text, symbol)[1] = SubSeq(text, 1, Len(text))
  BY <1>4, <1>5, <1>6
<1> QED
  BY <1>2, <1>7 DEF Has

\* Two parts: they are what lies before and behind the only separator.
LEMMA SplitTwo ==
  ASSUME NEW text \in Seq(Symbols), NEW symbol, Len(Split(text, symbol)) = 2
  PROVE  \E m \in 1 .. Len(text) :
           /\ \A i \in 1 .. Len(text) : text[i] = symbol <=> i = m
           /\ Split(text, symbol)[1] = SubSeq(text, 1, m - 1)
           /\ Split(text, symbol)[2] = SubSeq(text, m + 1, Len(text))
<1> DEFINE count == Cardinality(Places(text, symbol))
           begin == Begins(text, symbol)
<1>1. count = 1
  <2>1. Len(Split(text, symbol)) = count + 1 /\ count \in Nat
    BY SplitIs, PlacesAre
  <2> HIDE DEF count
  <2> QED  BY <2>1
<1>2. PICK m : Places(text, symbol) = {m}
  BY <1>1, PlacesAre, FS_Singleton
<1>3. m \in 1 .. Len(text) /\ \A i \in 1 .. Len(text) : text[i] = symbol <=> i = m
  BY <1>2 DEF Places
<1>4. NextAt(text, symbol, 1) = m
  <2>1. /\ 1 \in 1 .. Len(text) + 1 /\ m \in 1 .. Len(text) + 1
        /\ \A k \in 1 .. m - 1 : text[k] # symbol
        /\ m <= Len(text) => text[m] = symbol
    BY <1>3
  <2> QED  BY <2>1, NextIs
<1>5. NextAt(text, symbol, m + 1) = Len(text) + 1
  <2>1. /\ m + 1 \in 1 .. Len(text) + 1 /\ Len(text) + 1 \in m + 1 .. Len(text) + 1
        /\ \A k \in m + 1 .. (Len(text) + 1) - 1 : text[k] # symbol
    BY <1>3
  <2> QED  BY <2>1, NextIs
<1>6. begin[0] = 1
  BY BeginsAre
<1>7. begin[1] = m + 1
  <2>1. 1 \in 1 .. count /\ 1 - 1 = 0
    BY <1>1
  <2> QED  BY <2>1, <1>4, <1>6, BeginsAre
<1>8. /\ Split(text, symbol)[1] = SubSeq(text, begin[0], NextAt(text, symbol, begin[0]) - 1)
      /\ Split(text, symbol)[2] = SubSeq(text, begin[1], NextAt(text, symbol, begin[1]) - 1)
  <2>1. 1 \in 1 .. count + 1 /\ 1 - 1 = 0 /\ 2 \in 1 .. count + 1 /\ 2 - 1 = 1
    BY <1>1
  <2> QED  BY <2>1, SplitIs
<1>9. (Len(text) + 1) - 1 = Len(text)
  OBVIOUS
<1> HIDE DEF begin
<1> QED
  BY <1>3, <1>4, <1>5, <1>6, <1>7, <1>8, <1>9

\* What is read as a number is one.
LEMMA NumberIs ==
  ASSUME NEW text \in Seq(Symbols), NEW max, IsNumber(text, max)
  PROVE  /\ Number(text) \in Int
         /\ ~Has(text, Minus) =>
              /\ Len(text) = 1
              /\ Number(text) = ValueOf[text[1]]
              /\ Number(text) \in Nat /\ Number(text) <= max
<1>1. /\ Len(Digits(text)) = 1 /\ Digits(text)[1] \in DOMAIN ValueOf
      /\ ValueOf[Digits(text)[1]] <= max
  BY DEF IsNumber
<1>2. ValueOf[Digits(text)[1]] \in Nat
  BY <1>1, NumbersAssumption
<1>3. CASE text # <<>> /\ text[1] = Minus
  <2>1. Digits(text) = Tail(text)
    BY <1>3 DEF Digits
  <2>2. Digits(text)[1] = text[2]
    BY <1>1, <1>3, <2>1
  <2>3. Number(text) = -ValueOf[text[2]]
    BY <1>3 DEF Number
  <2>4. Number(text) \in Int
    BY <1>2, <2>2, <2>3
  <2>5. Has(text, Minus)
    BY <1>3 DEF Has, Places
  <2> QED  BY <2>4, <2>5
<1>4. CASE ~(text # <<>> /\ text[1] = Minus)
  <2>1. Digits(text) = text
    BY <1>4 DEF Digits
  <2>2. Len(text) = 1 /\ text[1] # Minus
    BY <1>1, <1>4, <2>1
  <2>3. Number(text) = ValueOf[text[1]]
    BY <2>2 DEF Number
  <2> QED
    BY <1>1, <1>2, <2>1, <2>2, <2>3
<1> QED
  BY <1>3, <1>4

\* A number is compared with a range by its bounds.
LEMMA CompareIs ==
  ASSUME NEW range \in RangeSet, NEW n \in Int
  PROVE  Compare(range, n) = 0 <=>
           /\ range.hasLowerBound => range.lowerBoundValue <= n
           /\ range.hasUpperBound => n <= range.upperBoundValue
<1>1. /\ range.hasLowerBound \in BOOLEAN /\ range.hasUpperBound \in BOOLEAN
      /\ range.lowerBoundValue \in Int /\ range.upperBoundValue \in Int
  BY DEF RangeSet
<1> QED
  BY <1>1 DEF Compare

\* The fields of a range.
RangeFields == {"hasLowerBound", "lowerBoundValue", "hasUpperBound", "upperBoundValue"}
RangeLike(range) == range = [i \in RangeFields |-> range[i]]

\* Another range with a bound of its own, and the other one as it was.
LowerSet(range, n, new) ==
    /\ RangeLike(new)
    /\ new.hasLowerBound = TRUE /\ new.lowerBoundValue = n
    /\ new.hasUpperBound = range.hasUpperBound /\ new.upperBoundValue = range.upperBoundValue
UpperSet(range, n, new) ==
    /\ RangeLike(new)
    /\ new.hasUpperBound = TRUE /\ new.upperBoundValue = n
    /\ new.hasLowerBound = range.hasLowerBound /\ new.lowerBoundValue = range.lowerBoundValue

\* Setting one bound leaves the other one alone.
LEMMA SetBounds ==
  ASSUME NEW range, RangeLike(range), NEW n
  PROVE  LowerSet(range, n, SetLowerBound(range, n)) /\ UpperSet(range, n, SetUpperBound(range, n))
<1>1. DOMAIN range = RangeFields
  BY DEF RangeLike
<1> QED
  BY <1>1 DEF RangeLike, RangeFields, SetLowerBound, SetUpperBound, LowerSet, UpperSet

\* A range has the bounds of the two ends of its text.
LEMMA FromStringIs ==
  ASSUME NEW text, NEW from, NEW to, from = Split(text, Minus)[1],
         to = Split(text, Minus)[Len(Split(text, Minus))]
  PROVE  /\ RangeLike(FromString(text))
         /\ FromString(text).hasLowerBound = (from # <<>>)
         /\ FromString(text).hasUpperBound = (to # <<>>)
         /\ FromString(text).lowerBoundValue = IF from # <<>> THEN Number(from) ELSE 0
         /\ FromString(text).upperBoundValue = IF to # <<>> THEN Number(to) ELSE 0
<1> DEFINE lower == IF from = <<>> THEN Everything ELSE SetLowerBound(Everything, Number(from))
           range == IF to = <<>> THEN lower ELSE SetUpperBound(lower, Number(to))
<1>1. FromString(text) = range
  BY DEF FromString
<1>2. RangeLike(Everything)
  BY DEF Everything, RangeFields, RangeLike
<1>3. /\ Everything.hasLowerBound = FALSE /\ Everything.lowerBoundValue = 0
      /\ Everything.hasUpperBound = FALSE /\ Everything.upperBoundValue = 0
  BY DEF Everything
<1>4. /\ RangeLike(lower)
      /\ lower.hasLowerBound = (from # <<>>)
      /\ lower.lowerBoundValue = IF from # <<>> THEN Number(from) ELSE 0
      /\ lower.hasUpperBound = FALSE /\ lower.upperBoundValue = 0
  <2> DEFINE a == Number(from)
             set == SetLowerBound(Everything, a)
  <2> HIDE DEF a
  <2>1. /\ RangeLike(set)
        /\ set.hasLowerBound = TRUE /\ set.lowerBoundValue = a
        /\ set.hasUpperBound = FALSE /\ set.upperBoundValue = 0
    <3>1. LowerSet(Everything, a, set)
      BY <1>2, SetBounds
    <3> HIDE DEF set
    <3> QED  BY <3>1, <1>3 DEF LowerSet
  <2> HIDE DEF set
  <2>2. CASE from = <<>>
    <3>1. lower = Everything
      BY <2>2
    <3> HIDE DEF lower
    <3> QED  BY <2>2, <3>1, <1>2, <1>3
  <2>3. CASE from # <<>>
    <3>1. lower = set
      BY <2>3 DEF set, a
    <3> HIDE DEF lower
    <3> QED  BY <2>3, <3>1, <2>1 DEF a
  <2> QED  BY <2>2, <2>3
<1> HIDE DEF lower
<1>5. /\ RangeLike(range)
      /\ range.hasLowerBound = (from # <<>>)
      /\ range.hasUpperBound = (to # <<>>)
      /\ range.lowerBoundValue = IF from # <<>> THEN Number(from) ELSE 0
      /\ range.upperBoundValue = IF to # <<>> THEN Number(to) ELSE 0
  <2> DEFINE b == Number(to)
             set == SetUpperBound(lower, b)
  <2> HIDE DEF b
  <2>1. /\ RangeLike(set)
        /\ set.hasUpperBound = TRUE /\ set.upperBoundValue = b
        /\ set.hasLowerBound = lower.hasLowerBound /\ set.lowerBoundValue = lower.lowerBoundValue
    <3>1. UpperSet(lower, b, set)
      BY <1>4, SetBounds
    <3> HIDE DEF set
    <3> QED  BY <3>1 DEF UpperSet
  <2> HIDE DEF set
  <2>2. CASE to = <<>>
    <3>1. range = lower
      BY <2>2
    <3> HIDE DEF range
    <3> QED  BY <2>2, <3>1, <1>4
  <2>3. CASE to # <<>>
    <3>1. range = set
      BY <2>3 DEF set, b
    <3> HIDE DEF range
    <3> QED  BY <2>3, <3>1, <2>1, <1>4 DEF b
  <2> QED  BY <2>2, <2>3
<1> QED
  BY <1>1, <1>5

\* What has the fields of a range, of their types, is one.
LEMMA RangeTyped ==
  ASSUME NEW range, RangeLike(range),
         range.hasLowerBound \in BOOLEAN, range.lowerBoundValue \in Int,
         range.hasUpperBound \in BOOLEAN, range.upperBoundValue \in Int
  PROVE  range \in RangeSet
  BY DEF RangeLike, RangeFields, RangeSet

\* What is read as a range has bounds an int holds, and covers what it is written for.
LEMMA RangeIs ==
  ASSUME NEW text \in Seq(Symbols), IsRange(text)
  PROVE  /\ FromString(text) \in RangeSet
         /\ FromString(text).hasLowerBound => FromString(text).lowerBoundValue \in 0 .. IntMax
         /\ FromString(text).hasUpperBound => FromString(text).upperBoundValue \in 0 .. IntMax
         /\ \A n \in Nat : Compare(FromString(text), n) = 0 <=> Covers(text, n)
<1> DEFINE bounds == Split(text, Minus)
           range == FromString(text)
<1>a. IntMax \in Nat
  BY NumbersAssumption
<1>1. CASE Len(bounds) = 1 /\ IsNumber(text, IntMax)
  <2>1. ~Has(text, Minus) /\ bounds[1] = text
    BY <1>1, SplitOne
  <2>2. Len(text) = 1 /\ Number(text) \in 0 .. IntMax
    BY <1>1, <1>a, <2>1, NumberIs
  <2> DEFINE v == Number(text)
  <2>3. /\ RangeLike(range)
        /\ range.hasLowerBound = (text # <<>>) /\ range.hasUpperBound = (text # <<>>)
        /\ range.lowerBoundValue = IF text # <<>> THEN v ELSE 0
        /\ range.upperBoundValue = IF text # <<>> THEN v ELSE 0
    <3>1. text = Split(text, Minus)[1] /\ text = Split(text, Minus)[Len(Split(text, Minus))]
      BY <1>1, <2>1
    <3> QED  BY <3>1, FromStringIs
  <2>c. text # <<>>
    BY <2>2
  <2> HIDE DEF range, v
  <2>d. /\ range.hasLowerBound = TRUE /\ range.hasUpperBound = TRUE
        /\ range.lowerBoundValue = v /\ range.upperBoundValue = v
    BY <2>3, <2>c
  <2>4. /\ range \in RangeSet /\ range.hasLowerBound /\ range.hasUpperBound
        /\ range.lowerBoundValue = v /\ range.upperBoundValue = v
    <3>1. v \in Int
      BY <2>2, <1>a DEF v
    <3> QED  BY <3>1, <2>3, <2>d, RangeTyped
  <2>5. ASSUME NEW n \in Nat PROVE Compare(range, n) = 0 <=> Covers(text, n)
    <3>1. Compare(range, n) = 0 <=> v <= n /\ n <= v
      BY <2>4, CompareIs
    <3>2. Covers(text, n) <=> n = v
      BY <2>1 DEF Covers, v
    <3> QED  BY <3>1, <3>2, <2>2 DEF v
  <2> QED
    BY <2>2, <2>4, <2>5 DEF range, v
<1>2. CASE Len(bounds) = 2 /\ \A k \in 1 .. 2 : bounds[k] = <<>> \/ IsNumber(bounds[k], IntMax)
  <2>1. PICK m \in 1 .. Len(text) :
          /\ \A i \in 1 .. Len(text) : text[i] = Minus <=> i = m
          /\ bounds[1] = SubSeq(text, 1, m - 1)
          /\ bounds[2] = SubSeq(text, m + 1, Len(text))
    BY <1>2, SplitTwo
  <2> DEFINE from == SubSeq(text, 1, m - 1)
             to == SubSeq(text, m + 1, Len(text))
             hasLower == from # <<>>
             hasUpper == to # <<>>
             lower == Number(from)
             upper == Number(to)
  <2>2. /\ from \in Seq(Symbols) /\ Len(from) = m - 1
        /\ \A i \in 1 .. m - 1 : from[i] = text[i]
    OBVIOUS
  <2>3. /\ to \in Seq(Symbols) /\ Len(to) = Len(text) - m
        /\ \A i \in 1 .. Len(text) - m : to[i] = text[m + i]
    OBVIOUS
  <2>4. /\ RangeLike(range)
        /\ range.hasLowerBound = hasLower /\ range.hasUpperBound = hasUpper
        /\ range.lowerBoundValue = IF hasLower THEN lower ELSE 0
        /\ range.upperBoundValue = IF hasUpper THEN upper ELSE 0
    <3>1. from = Split(text, Minus)[1] /\ to = Split(text, Minus)[Len(Split(text, Minus))]
      BY <1>2, <2>1
    <3> HIDE DEF from, to
    <3> QED  BY <3>1, FromStringIs
  <2> HIDE DEF from, to, range
  <2>5. ~Has(from, Minus)
    <3>1. \A i \in 1 .. Len(from) : from[i] # Minus
      BY <2>1, <2>2
    <3> QED  BY <3>1, <2>2 DEF Has, Places
  <2>6. ~Has(to, Minus)
    <3>1. \A i \in 1 .. Len(to) : to[i] # Minus
      <4> SUFFICES ASSUME NEW i \in 1 .. Len(to) PROVE to[i] # Minus
        OBVIOUS
      <4>1. m + i \in 1 .. Len(text) /\ m + i # m /\ i \in 1 .. Len(text) - m
        BY <2>3
      <4> QED  BY <4>1, <2>1, <2>3
    <3> QED  BY <3>1, <2>3 DEF Has, Places
  <2>7. hasLower => IsNumber(from, IntMax)
    <3>1. bounds[1] = <<>> \/ IsNumber(bounds[1], IntMax)
      BY <1>2
    <3>2. bounds[1] = from
      BY <2>1 DEF from
    <3> HIDE DEF bounds
    <3> QED  BY <3>1, <3>2
  <2>8. hasUpper => IsNumber(to, IntMax)
    <3>1. bounds[2] = <<>> \/ IsNumber(bounds[2], IntMax)
      BY <1>2
    <3>2. bounds[2] = to
      BY <2>1 DEF to
    <3> HIDE DEF bounds
    <3> QED  BY <3>1, <3>2
  <2>9. hasLower => m = 2 /\ lower \in 0 .. IntMax
    BY <1>a, <2>2, <2>5, <2>7, NumberIs
  <2>10. hasUpper => Len(text) = m + 1 /\ upper \in 0 .. IntMax
    <3> SUFFICES ASSUME hasUpper PROVE Len(text) = m + 1 /\ upper \in 0 .. IntMax
      OBVIOUS
    <3>1. Len(to) = 1 /\ upper \in Nat /\ upper <= IntMax
      BY <2>3, <2>6, <2>8, NumberIs
    <3>2. Len(text) = m + 1
      <4> DEFINE l == Len(to)
      <4>1. l = 1 /\ l = Len(text) - m
        BY <2>3, <3>1
      <4> HIDE DEF l
      <4> QED  BY <4>1
    <3> HIDE DEF upper
    <3> QED  BY <1>a, <3>1, <3>2
  <2>11. hasLower <=> text[1] # Minus
    <3>1. hasLower <=> m # 1
      BY <2>2
    <3> QED  BY <3>1, <2>1
  <2>12. hasUpper <=> text[Len(text)] # Minus
    <3>1. hasUpper <=> m # Len(text)
      BY <2>3
    <3> QED  BY <3>1, <2>1
  <2>13. hasLower => SubSeq(text, 1, 1) = from
    BY <2>9 DEF from
  <2>14. hasUpper => <<text[Len(text)]>> = to
    <3> SUFFICES ASSUME hasUpper PROVE <<text[Len(text)]>> = to
      OBVIOUS
    <3>1. Len(to) = 1 /\ to[1] = text[Len(text)]
      BY <2>3, <2>10
    <3> QED  BY <3>1, <2>3
  <2>15. Has(text, Minus)
    BY <2>1 DEF Has, Places
  <2>b. hasLower \in BOOLEAN /\ hasUpper \in BOOLEAN
    OBVIOUS
  <2> HIDE DEF hasLower, hasUpper, lower, upper
  <2>16. /\ range.hasLowerBound = hasLower /\ range.hasUpperBound = hasUpper
         /\ hasLower => range.lowerBoundValue = lower
         /\ hasUpper => range.upperBoundValue = upper
    BY <2>4
  <2>17. range \in RangeSet
    <3>1. range.lowerBoundValue \in Int
      BY <2>4, <2>9, <1>a
    <3>2. range.upperBoundValue \in Int
      BY <2>4, <2>10, <1>a
    <3> QED  BY <3>1, <3>2, <2>4, <2>b, RangeTyped
  <2>18. ASSUME NEW n \in Nat PROVE Compare(range, n) = 0 <=> Covers(text, n)
    <3>1. Compare(range, n) = 0 <=> (hasLower => lower <= n) /\ (hasUpper => n <= upper)
      BY <2>16, <2>17, CompareIs
    <3>2. Covers(text, n) <=> /\ text[1] # Minus => Number(SubSeq(text, 1, 1)) <= n
                              /\ text[Len(text)] # Minus => n <= Number(<<text[Len(text)]>>)
      BY <2>15 DEF Covers
    <3>3. hasLower => Number(SubSeq(text, 1, 1)) = lower
      BY <2>13 DEF lower
    <3>4. hasUpper => Number(<<text[Len(text)]>>) = upper
      BY <2>14 DEF upper
    <3> QED
      BY <3>1, <3>2, <3>3, <3>4, <2>11, <2>12
  <2> QED
    BY <2>9, <2>10, <2>16, <2>17, <2>18 DEF range
<1> QED
  BY <1>1, <1>2 DEF IsRange

-----------------------------------------------------------------------------
(***************************************************************************)
(* A field of the description of a template.                               *)
(***************************************************************************)

\* The texts of ranges are those between colons, of which there is none in no text.
LEMMA RangeTextsAre ==
  ASSUME NEW value \in Seq(Symbols)
  PROVE  /\ RangeTexts(value) \in Seq(Seq(Symbols))
         /\ value = <<>> => RangeTexts(value) = <<>>
         /\ value # <<>> => RangeTexts(value) = Split(value, Colon) /\ RangeTexts(value) # <<>>
<1>1. /\ Split(value, Colon) \in Seq(Seq(Symbols))
      /\ Len(Split(value, Colon)) = Cardinality(Places(value, Colon)) + 1
      /\ Cardinality(Places(value, Colon)) \in Nat
  BY SplitIs, PlacesAre
<1> DEFINE parts == Split(value, Colon)
           count == Cardinality(Places(value, Colon))
<1> HIDE DEF parts, count
<1>2. parts \in Seq(Seq(Symbols)) /\ Len(parts) = count + 1 /\ count \in Nat
  BY <1>1 DEF parts, count
<1>3. parts # <<>>
  BY <1>2
<1>4. RangeTexts(value) = IF value = <<>> THEN <<>> ELSE parts
  BY DEF RangeTexts, parts
<1> QED
  BY <1>2, <1>3, <1>4 DEF parts

\* The ranges of a filter that is read.
LEMMA FilterIs ==
  ASSUME NEW value \in Seq(Symbols), \A k \in DOMAIN RangeTexts(value) : IsRange(RangeTexts(value)[k])
  PROVE  /\ FilterOf(value) \in Seq(RangeSet)
         /\ DOMAIN FilterOf(value) = DOMAIN RangeTexts(value)
         /\ \A k \in DOMAIN FilterOf(value) : FilterOf(value)[k] = FromString(RangeTexts(value)[k])
<1> DEFINE texts == RangeTexts(value)
           filter == FilterOf(value)
<1>1. texts \in Seq(Seq(Symbols))
  BY RangeTextsAre
<1>2. filter = [k \in DOMAIN texts |-> FromString(texts[k])]
  BY DEF FilterOf
<1>3. \A k \in DOMAIN texts : IsRange(texts[k])
  OBVIOUS
<1> HIDE DEF texts, filter
<1>4. ASSUME NEW k \in DOMAIN texts PROVE FromString(texts[k]) \in RangeSet
  <2>1. texts[k] \in Seq(Symbols) /\ IsRange(texts[k])
    BY <1>1, <1>3
  <2> QED  BY <2>1, RangeIs
<1>5. DOMAIN texts = 1 .. Len(texts) /\ Len(texts) \in Nat
  BY <1>1
<1>6. filter \in Seq(RangeSet)
  BY <1>2, <1>4, <1>5
<1>7. DOMAIN filter = DOMAIN texts /\ \A k \in DOMAIN filter : filter[k] = FromString(texts[k])
  BY <1>2
<1> QED
  BY <1>6, <1>7 DEF texts, filter

\* Which fields with a filter are read is said twice, in the same way.
LEMMA FilterReadIs ==
  ASSUME NEW text \in Seq(Symbols), NEW i, ValueText(FieldAt(text, i)) \in Seq(Symbols)
  PROVE  FilterRead(text, i) <=>
           /\ IsField(FieldAt(text, i)) /\ KeyOf(FieldAt(text, i)) = "discontSegments"
           /\ ValueText(FieldAt(text, i)) # <<>> =>
                \A k \in DOMAIN Split(ValueText(FieldAt(text, i)), Colon) :
                  IsRange(Split(ValueText(FieldAt(text, i)), Colon)[k])
<1> DEFINE value == ValueText(FieldAt(text, i))
<1>1. CASE value = <<>>
  <2>1. RangeTexts(value) = <<>>
    BY <1>1, RangeTextsAre
  <2> HIDE DEF value
  <2>2. DOMAIN RangeTexts(value) = {}
    BY <2>1
  <2> QED  BY <1>1, <2>2 DEF FilterRead, value
<1>2. CASE value # <<>>
  <2>1. RangeTexts(value) = Split(value, Colon)
    BY <1>2, RangeTextsAre
  <2> QED  BY <1>2, <2>1 DEF FilterRead
<1> QED
  BY <1>1, <1>2

\* A field with a filter has a value.
LEMMA FieldValue ==
  ASSUME NEW text \in Seq(Symbols), NEW p \in 1 .. Len(text), p \in FieldStarts(text),
         IsField(FieldAt(text, p)), KeyOf(FieldAt(text, p)) # "="
  PROVE  ValueText(FieldAt(text, p)) \in Seq(Symbols)
<1>1. p < Len(text) /\ text[p] # Comma /\ text[p + 1] = "="
  BY OnlyFieldsHere
<1> QED
  BY <1>1, FieldHere

\* The template so far, and where the next field begins.
TemplateAt(text, p) ==
    /\ p \in FieldStarts(text)
    /\ LeftAt(text, p, buf) /\ TemplateSoFar(text, p, current)
    /\ current \in TemplateSet

\* A key that is none of a template's makes the text unreadable.
LEMMA TemplateKeyless ==
  ASSUME NEW text \in Seq(Symbols), NEW p \in 1 .. Len(text), TemplateAt(text, p),
         ~(HasKey /\ (TakenKey = <<"discontSegments">> \/ TakenKey = <<"fileFormat">>))
  PROVE  ~TemplateReadable(text)
<1>1. /\ p \in FieldStarts(text) /\ buf = SubSeq(text, p, Len(text))
      /\ \A r \in RestAt(text, "fileFormat") : p <= r
  BY RestNotTaken DEF TemplateAt, LeftAt, TemplateSoFar
<1>2. p \notin RestAt(text, "fileFormat")
  <2> SUFFICES ASSUME p \in RestAt(text, "fileFormat") PROVE FALSE
    OBVIOUS
  <2>1. p < Len(text) /\ text[p] = "fileFormat" /\ text[p + 1] = "="
    BY DEF RestAt
  <2>2. HasKey /\ TakenKey = ToLower(<<text[p]>>)
    BY <1>1, <2>1, KeyHere
  <2>3. ToLower(<<text[p]>>) = <<"fileFormat">>
    BY <2>1, LowerCase DEF Upper
  <2> QED  BY <2>2, <2>3
<1>3. p \in FilterStarts(text)
  BY <1>1, <1>2, StartHere DEF FilterStarts
<1>4. SUFFICES ASSUME IsField(FieldAt(text, p)), KeyOf(FieldAt(text, p)) = "discontSegments"
               PROVE  FALSE
  BY <1>3 DEF TemplateReadable
<1>6. p < Len(text) /\ text[p + 1] = "=" /\ ToLower(<<text[p]>>)[1] = "discontSegments"
  BY <1>4, OnlyFieldsHere
<1>7. ToLower(<<text[p]>>) = <<"discontSegments">>
  BY <1>6, LowerCase
<1>8. text[p] # "="
  BY <1>7, KeySymbols
<1>9. HasKey /\ TakenKey = <<"discontSegments">>
  BY <1>1, <1>6, <1>7, <1>8, KeyHere
<1> QED
  BY <1>9

\* The key of a filter, and what it is the key of.
LEMMA FilterField ==
  ASSUME NEW text \in Seq(Symbols), NEW p \in 1 .. Len(text), TemplateAt(text, p),
         HasKey, TakenKey = <<"discontSegments">>
  PROVE  /\ \A r \in RestAt(text, "fileFormat") : p <= r
         /\ p \notin RestAt(text, "fileFormat")
         /\ p \in FilterStarts(text)
         /\ IsField(FieldAt(text, p))
         /\ KeyOf(FieldAt(text, p)) = "discontSegments"
         /\ ValueText(FieldAt(text, p)) = TakenValue(AfterKey)
         /\ TakenValue(AfterKey) \in Seq(Symbols)
         /\ LeftAt(text, NextStart(text, p), AfterValue(AfterKey))
<1>1. /\ p \in FieldStarts(text) /\ buf = SubSeq(text, p, Len(text))
      /\ \A r \in RestAt(text, "fileFormat") : p <= r
  BY RestNotTaken DEF TemplateAt, LeftAt, TemplateSoFar
<1>2. p < Len(text) /\ text[p] # "=" /\ text[p + 1] = "="
  <2>1. Len(TakenKey) = 1
    OBVIOUS
  <2> QED  BY <2>1, <1>1, KeyHere
<1>3. TakenKey = ToLower(<<text[p]>>) /\ AfterKey = SubSeq(text, p + 2, Len(text))
  BY <1>1, <1>2, KeyHere
<1>4. text[p] \notin {Comma, "=", "fileFormat"}
  BY <1>3, KeySymbols
<1>5. /\ IsField(FieldAt(text, p))
      /\ KeyOf(FieldAt(text, p)) = ToLower(<<text[p]>>)[1]
      /\ ValueText(FieldAt(text, p)) = TakenValue(AfterKey)
      /\ TakenValue(AfterKey) \in Seq(Symbols)
      /\ LeftAt(text, NextStart(text, p), AfterValue(AfterKey))
  BY <1>1, <1>2, <1>3, <1>4, FieldHere
<1>6. p \notin RestAt(text, "fileFormat")
  BY <1>4 DEF RestAt
<1>7. p \in FilterStarts(text)
  BY <1>1, <1>6, StartHere DEF FilterStarts
<1>8. KeyOf(FieldAt(text, p)) = "discontSegments"
  BY <1>3, <1>5
<1> QED
  BY <1>1, <1>5, <1>6, <1>7, <1>8

\* Nothing has been read of a filter where none begins before.
LEMMA NoFilterBefore ==
  ASSUME NEW text \in Seq(Symbols), NEW p \in 1 .. Len(text), TemplateAt(text, p)
  PROVE  /\ current.kind = "none" => \A i \in FilterStarts(text) : p <= i
         /\ current.kind # "none" => \E i \in FilterStarts(text) : i < p
  BY DEF TemplateAt, TemplateSoFar

\* A filter that is not read, or is a second one, makes the text unreadable.
LEMMA FilterRefused ==
  ASSUME NEW text \in Seq(Symbols), NEW p \in 1 .. Len(text), TemplateAt(text, p),
         HasKey, TakenKey = <<"discontSegments">>,
         ~(/\ current.kind = "none"
           /\ \A i \in DOMAIN RangeTexts(TakenValue(AfterKey)) :
                IsRange(RangeTexts(TakenValue(AfterKey))[i]))
  PROVE  ~TemplateReadable(text)
<1>1. /\ p \in FilterStarts(text)
      /\ ValueText(FieldAt(text, p)) = TakenValue(AfterKey)
      /\ TakenValue(AfterKey) \in Seq(Symbols)
  BY FilterField
<1>2. CASE current.kind # "none"
  <2>1. PICK i \in FilterStarts(text) : i < p
    BY <1>2, NoFilterBefore
  <2>2. i \in 1 .. Len(text)
    BY StartsBefore DEF FilterStarts
  <2>3. i # p
    BY <2>1, <2>2
  <2> QED
    BY <2>3, <1>1 DEF TemplateReadable
<1>3. CASE ~\A i \in DOMAIN RangeTexts(TakenValue(AfterKey)) :
             IsRange(RangeTexts(TakenValue(AfterKey))[i])
  <2>1. ~FilterRead(text, p)
    BY <1>1, <1>3 DEF FilterRead
  <2>2. TemplateReadable(text) => FilterRead(text, p)
    BY <1>1, FilterReadIs DEF TemplateReadable
  <2> QED  BY <2>1, <2>2
<1> QED
  BY <1>2, <1>3

\* A filter that is read goes on to the next field with its ranges.
LEMMA FilterGoesOn ==
  ASSUME NEW text \in Seq(Symbols), NEW p \in 1 .. Len(text), TemplateAt(text, p),
         HasKey, TakenKey = <<"discontSegments">>, current.kind = "none",
         \A i \in DOMAIN RangeTexts(TakenValue(AfterKey)) :
           IsRange(RangeTexts(TakenValue(AfterKey))[i]),
         NEW new \in TemplateSet, new.kind = "segments", new.filter = FilterOf(TakenValue(AfterKey))
  PROVE  TemplateSoFar(text, NextStart(text, p), new)
<1>1. /\ \A r \in RestAt(text, "fileFormat") : p <= r
      /\ p \notin RestAt(text, "fileFormat")
      /\ p \in FilterStarts(text)
      /\ IsField(FieldAt(text, p))
      /\ KeyOf(FieldAt(text, p)) = "discontSegments"
      /\ ValueText(FieldAt(text, p)) = TakenValue(AfterKey)
  BY FilterField
<1>2. p \in FieldStarts(text)
  BY DEF TemplateAt
<1>3. FilterRead(text, p)
  BY <1>1 DEF FilterRead
<1>4. RestBefore(text, "fileFormat", NextStart(text, p), new.format)
  BY <1>1, <1>2, RestGoesOn
<1>5. \A i \in FilterStarts(text) : p <= i
  BY NoFilterBefore
<1>6. ASSUME NEW j \in FilterStarts(text), j < NextStart(text, p) PROVE j = p
  <2>1. j \in 1 .. Len(text) /\ j \in FieldStarts(text)
    BY StartsBefore DEF FilterStarts
  <2>2. j <= p /\ p <= j
    BY <2>1, <1>2, <1>5, <1>6, NextField
  <2> QED  BY <2>1, <2>2
<1>7. p < NextStart(text, p)
  BY <1>2, NextField
<1> QED
  BY <1>1, <1>3, <1>4, <1>6, <1>7 DEF TemplateSoFar

\* The format ends the text.
LEMMA TemplateFormat ==
  ASSUME NEW text \in Seq(Symbols), NEW p \in 1 .. Len(text), TemplateAt(text, p),
         HasKey, TakenKey = <<"fileFormat">>
  PROVE  /\ AfterKey = <<>> => ~TemplateReadable(text)
         /\ AfterKey # <<>> =>
              /\ LeftAt(text, Len(text) + 1, <<>>)
              /\ TemplateSoFar(text, Len(text) + 1, [current EXCEPT !.format = AfterKey])
         /\ AfterKey \in Seq(Symbols)
<1>1. /\ p \in FieldStarts(text) /\ buf = SubSeq(text, p, Len(text))
      /\ \A r \in RestAt(text, "fileFormat") : p <= r
  BY RestNotTaken DEF TemplateAt, LeftAt, TemplateSoFar
<1>2. Len(TakenKey) = 1
  OBVIOUS
<1>3. p < Len(text) /\ text[p] # "=" /\ text[p + 1] = "="
  BY <1>1, <1>2, KeyHere
<1>4. TakenKey = ToLower(<<text[p]>>) /\ AfterKey = SubSeq(text, p + 2, Len(text))
  BY <1>1, <1>3, KeyHere
<1>5. text[p] = "fileFormat"
  BY <1>4, KeySymbols
<1>6. p \in RestAt(text, "fileFormat")
  BY <1>1, <1>3, <1>5 DEF RestAt
<1>7. RestPart(text, "fileFormat") = AfterKey /\ \A i \in Starts(text, "fileFormat") : i < p
  BY <1>1, <1>4, <1>6, RestHere
<1>8. AfterKey = <<>> => ~TemplateReadable(text)
  BY <1>6, <1>7 DEF TemplateReadable
<1>9. LeftAt(text, Len(text) + 1, <<>>)
  BY DEF LeftAt
<1>10. ASSUME AfterKey # <<>>
       PROVE  TemplateSoFar(text, Len(text) + 1, [current EXCEPT !.format = AfterKey])
  <2> DEFINE new == [current EXCEPT !.format = AfterKey]
  <2>1. new.format = AfterKey /\ new.kind = current.kind /\ new.filter = current.filter
    BY DEF TemplateAt, TemplateSet
  <2> HIDE DEF new
  <2>2. RestBefore(text, "fileFormat", Len(text) + 1, new.format)
    BY <2>1, <1>7, <1>10 DEF RestBefore
  <2>3. \A i \in FilterStarts(text) : i < p /\ i < Len(text) + 1 /\ i \in Nat
    BY <1>7, StartsBefore DEF FilterStarts
  <2>4. CASE current.kind = "none"
    <3>1. current.filter = <<>> /\ \A i \in FilterStarts(text) : p <= i
      BY <2>4 DEF TemplateAt, TemplateSoFar
    <3>2. FilterStarts(text) = {}
      <4>1. ASSUME NEW i \in FilterStarts(text) PROVE FALSE
        BY <3>1, <2>3
      <4> QED  BY <4>1
    <3> QED
      BY <2>1, <2>2, <2>4, <3>1, <3>2 DEF TemplateSoFar, new
  <2>5. CASE current.kind # "none"
    <3>1. /\ current.kind = "segments"
          /\ \E i \in FilterStarts(text) :
               /\ i < p
               /\ FilterRead(text, i)
               /\ current.filter = FilterOf(ValueText(FieldAt(text, i)))
               /\ \A j \in FilterStarts(text) : j < p => j = i
      BY <2>5 DEF TemplateAt, TemplateSoFar
    <3> QED
      BY <2>1, <2>2, <2>3, <3>1 DEF TemplateSoFar, new
  <2> QED  BY <2>4, <2>5
<1>11. AfterKey \in Seq(Symbols)
  BY <1>4
<1> QED
  BY <1>8, <1>9, <1>10, <1>11

-----------------------------------------------------------------------------
(***************************************************************************)
(* The beginning and the end of a description.                             *)
(***************************************************************************)

\* At the beginning all of a text is left.
LEMMA LeftAtBegin ==
  ASSUME NEW text \in Seq(Symbols)
  PROVE  LeftAt(text, 1, text)
<1>1. SubSeq(text, 1, Len(text)) = text
  OBVIOUS
<1>2. 1 \in FieldStarts(text) \cup {Len(text) + 1}
  <2>1. CASE Len(text) = 0
    BY <2>1
  <2>2. CASE Len(text) # 0
    <3>1. 1 \in 1 .. Len(text)
      BY <2>2
    <3> QED  BY <3>1 DEF FieldStarts
  <2> QED  BY <2>1, <2>2
<1> QED
  BY <1>1, <1>2 DEF LeftAt

\* Something is left where a field begins, and nothing at the end.
LEMMA LeftIsSome ==
  ASSUME NEW text \in Seq(Symbols), NEW p \in 1 .. Len(text) + 1, NEW left, LeftAt(text, p, left)
  PROVE  /\ left # <<>> => p \in 1 .. Len(text) /\ p \in FieldStarts(text)
         /\ left = <<>> => p = Len(text) + 1
<1>1. left = SubSeq(text, p, Len(text)) /\ p \in FieldStarts(text) \cup {Len(text) + 1}
  BY DEF LeftAt
<1>2. left \in Seq(Symbols) /\ Len(left) = Len(text) + 1 - p
  BY <1>1, LeftIs
<1>3. left = <<>> <=> p = Len(text) + 1
  <2>1. left = <<>> <=> Len(left) = 0
    BY <1>2
  <2> DEFINE l == Len(left)
  <2> HIDE DEF l
  <2>2. l = 0 <=> p = Len(text) + 1
    BY <1>2 DEF l
  <2> QED  BY <2>1, <2>2 DEF l
<1> QED
  BY <1>1, <1>3

\* Where fields and the rest may begin.
LEMMA StartsArePositive ==
  ASSUME NEW text \in Seq(Symbols)
  PROVE  /\ \A key : \A i \in Starts(text, key) : i \in 1 .. Len(text)
         /\ \A key : \A i \in RestAt(text, key) : i \in 1 .. Len(text)
         /\ \A keys : \A i \in FieldsWith(text, keys) : i \in 1 .. Len(text)
  BY DEF Starts, RestAt, FieldsWith, FieldStarts

\* Nothing has been read of an output at the beginning.
LEMMA OutputBegins ==
  ASSUME NEW text \in Seq(Symbols), NEW out \in NewOutput
  PROVE  OutputSoFar(text, 1, out) /\ out \in OutputSet
<1>1. out.start = Unset /\ out.length = Unset
  BY DEF NewOutput
<1>2. MeantBefore(text, StartKey, 1, Unset) /\ MeantBefore(text, LengthKey, 1, Unset)
  BY StartsArePositive DEF MeantBefore
<1>3. RestBefore(text, "fileName", 1, out.file)
  BY StartsArePositive DEF RestBefore
<1>4. \A i \in Starts(text, "fileName") : ~(i < 1)
  BY StartsArePositive
<1>5. Unset \in Parts
  BY DEF Unset, Parts, Kinds
<1>6. out \in OutputSet
  <2>1. NullFile \in Seq(Symbols) /\ Garbage \in Seq(Symbols)
    BY TextsAssumption DEF NullFile
  <2>2. PICK f \in {NullFile, Garbage} : out = [file |-> f, start |-> Unset, length |-> Unset]
    BY DEF NewOutput
  <2>3. f \in Seq(Symbols)
    BY <2>1
  <2> QED  BY <1>5, <2>2, <2>3 DEF OutputSet
<1> QED
  BY <1>1, <1>2, <1>3, <1>4, <1>6 DEF OutputSoFar

\* And nothing of a template.
LEMMA TemplateBegins ==
  ASSUME NEW text \in Seq(Symbols)
  PROVE  TemplateSoFar(text, 1, NewTemplate) /\ NewTemplate \in TemplateSet
<1>1. NewTemplate.kind = "none" /\ NewTemplate.filter = <<>> /\ NewTemplate.format = <<>>
  BY DEF NewTemplate
<1>2. RestBefore(text, "fileFormat", 1, NewTemplate.format)
  BY StartsArePositive DEF RestBefore
<1>3. \A i \in FilterStarts(text) : 1 <= i
  BY StartsArePositive DEF FilterStarts
<1>4. NewTemplate \in TemplateSet
  BY DEF NewTemplate, TemplateSet
<1> QED
  BY <1>1, <1>2, <1>3, <1>4 DEF TemplateSoFar

\* What has been read of an output at the end is what is meant.
LEMMA MeantDone ==
  ASSUME NEW text \in Seq(Symbols), NEW keys, NEW part,
         MeantBefore(text, keys, Len(text) + 1, part)
  PROVE  part = Meant(text, keys) /\ \A i, j \in FieldsWith(text, keys) : i = j
<1>1. \A i \in FieldsWith(text, keys) : i \in 1 .. Len(text) /\ i < Len(text) + 1
  BY StartsArePositive
<1>2. CASE FieldsWith(text, keys) = {}
  BY <1>2 DEF MeantBefore, Meant
<1>3. CASE FieldsWith(text, keys) # {}
  <2>1. PICK i \in FieldsWith(text, keys) :
          /\ part = Described(keys[KeyOf(FieldAt(text, i))], ValueText(FieldAt(text, i)))
          /\ \A j \in FieldsWith(text, keys) : j = i
    <3>1. ~\A i \in FieldsWith(text, keys) : Len(text) + 1 <= i
      <4>1. PICK i \in FieldsWith(text, keys) : TRUE
        BY <1>3
      <4>2. ~(Len(text) + 1 <= i)
        BY <1>1
      <4> QED  BY <4>2
    <3> QED
      BY <1>1, <3>1 DEF MeantBefore
  <2>2. (CHOOSE j \in FieldsWith(text, keys) : TRUE) = i
    BY <2>1
  <2>3. part = Meant(text, keys)
    BY <1>3, <2>1, <2>2 DEF Meant
  <2> QED
    BY <2>1, <2>3
<1> QED
  BY <1>2, <1>3

\* The rest, once everything has been read.
LEMMA RestDone ==
  ASSUME NEW text \in Seq(Symbols), NEW key, NEW rest,
         RestBefore(text, key, Len(text) + 1, rest), RestAt(text, key) # {}
  PROVE  rest = RestPart(text, key) /\ rest # <<>>
<1>1. PICK r \in RestAt(text, key) : r \in 1 .. Len(text)
  BY StartsArePositive
<1>2. ~(Len(text) + 1 <= r)
  BY <1>1
<1> QED
  BY <1>1, <1>2 DEF RestBefore

\* A description of an output that has been read is readable, and says what was read.
LEMMA OutputDone ==
  ASSUME NEW text \in Seq(Symbols), NEW out, OutputSoFar(text, Len(text) + 1, out)
  PROVE  /\ OutfileReadable(text)
         /\ out.start = Meant(text, StartKey)
         /\ out.length = Meant(text, LengthKey)
         /\ RestAt(text, "fileName") # {} => out.file = RestPart(text, "fileName")
<1>1. \A i \in Starts(text, "fileName") : FieldRead(text, i)
  <2>1. \A i \in Starts(text, "fileName") : i < Len(text) + 1
    BY StartsArePositive
  <2> QED  BY <2>1 DEF OutputSoFar
<1>2. /\ out.start = Meant(text, StartKey) /\ \A i, j \in FieldsWith(text, StartKey) : i = j
      /\ out.length = Meant(text, LengthKey) /\ \A i, j \in FieldsWith(text, LengthKey) : i = j
  BY MeantDone DEF OutputSoFar
<1>3. RestAt(text, "fileName") # {} => out.file = RestPart(text, "fileName") /\ out.file # <<>>
  BY RestDone DEF OutputSoFar
<1>4. OutfileReadable(text)
  <2>1. \A keys \in {StartKey, LengthKey} : \A i, j \in FieldsWith(text, keys) : i = j
    BY <1>2
  <2> QED  BY <1>1, <1>3, <2>1 DEF OutfileReadable, FieldRead
<1> QED
  BY <1>2, <1>3, <1>4

\* And so is one of a template, whose filter has the ranges that it says.
LEMMA TemplateDone ==
  ASSUME NEW text \in Seq(Symbols), NEW t, TemplateSoFar(text, Len(text) + 1, t)
  PROVE  /\ TemplateReadable(text)
         /\ t.kind = "segments" =>
              /\ FilterText(text) \in Seq(Symbols)
              /\ \A k \in DOMAIN RangeTexts(FilterText(text)) : IsRange(RangeTexts(FilterText(text))[k])
              /\ t.filter = FilterOf(FilterText(text))
<1>1. \A i \in FilterStarts(text) : i \in 1 .. Len(text) /\ i < Len(text) + 1 /\ ~(Len(text) + 1 <= i)
  BY StartsArePositive DEF FilterStarts
<1>2. RestAt(text, "fileFormat") # {} => RestPart(text, "fileFormat") # <<>>
  BY RestDone DEF TemplateSoFar
<1>3. CASE FilterStarts(text) = {}
  <2>1. t.kind # "segments"
    BY <1>3 DEF TemplateSoFar
  <2> QED
    BY <1>2, <1>3, <2>1 DEF TemplateReadable
<1>4. CASE FilterStarts(text) # {}
  <2>1. PICK i \in FilterStarts(text) :
          /\ FilterRead(text, i)
          /\ t.filter = FilterOf(ValueText(FieldAt(text, i)))
          /\ \A j \in FilterStarts(text) : j = i
    <3>1. ~\A i \in FilterStarts(text) : Len(text) + 1 <= i
      BY <1>1, <1>4
    <3> QED
      BY <1>1, <3>1 DEF TemplateSoFar
  <2>2. (CHOOSE j \in FilterStarts(text) : TRUE) = i
    BY <2>1
  <2>3. FilterText(text) = ValueText(FieldAt(text, i))
    BY <2>2 DEF FilterText
  <2>4. ValueText(FieldAt(text, i)) \in Seq(Symbols)
    <3>1. i \in 1 .. Len(text) /\ i \in FieldStarts(text)
      BY StartsBefore DEF FilterStarts
    <3>2. IsField(FieldAt(text, i)) /\ KeyOf(FieldAt(text, i)) # "="
      BY <2>1 DEF FilterRead
    <3> QED  BY <3>1, <3>2, FieldValue
  <2>5. \A k \in DOMAIN RangeTexts(FilterText(text)) : IsRange(RangeTexts(FilterText(text))[k])
    BY <2>1, <2>3 DEF FilterRead
  <2>6. TemplateReadable(text)
    <3>1. /\ IsField(FieldAt(text, i)) /\ KeyOf(FieldAt(text, i)) = "discontSegments"
          /\ ValueText(FieldAt(text, i)) # <<>> =>
               \A k \in DOMAIN Split(ValueText(FieldAt(text, i)), Colon) :
                 IsRange(Split(ValueText(FieldAt(text, i)), Colon)[k])
      BY <2>1, <2>4, FilterReadIs
    <3> QED
      BY <1>2, <2>1, <3>1 DEF TemplateReadable
  <2> QED
    BY <2>1, <2>3, <2>4, <2>5, <2>6
<1> QED
  BY <1>3, <1>4

-----------------------------------------------------------------------------
(***************************************************************************)
(* Steps that read the descriptions of output files.                       *)
(***************************************************************************)

\* Nothing has been read at first.
LEMMA InitInv ==
  Init => IInv
<1> SUFFICES ASSUME Init PROVE IInv
  OBVIOUS
<1>1. /\ line \in CommandLine /\ phase = "size" /\ outcome = "none"
      /\ outputs = <<>> /\ outputTemplates = <<>>
  BY CommandLinesAssumption DEF Init
<1>2. Typed
  BY <1>1 DEF Typed
<1>3. line.outfiles \in Seq(Seq(Symbols))
  BY <1>1 DEF CommandLine
<1>4. OutputsRead
  BY <1>1, <1>3 DEF OutputsRead
<1>5. TemplatesRead
  BY <1>1 DEF TemplatesRead
<1>6. Ended
  BY <1>1 DEF Ended
<1> QED
  BY <1>2, <1>4, <1>5, <1>6 DEF IInv

\* The types of a command line.
LEMMA LineTypes ==
  ASSUME IInv
  PROVE  /\ line.outfiles \in Seq(Seq(Symbols)) /\ line.templates \in Seq(Seq(Symbols))
         /\ line.formats \in Seq(Seq(Symbols))
         /\ outputs \in Seq(OutputSet) /\ outputTemplates \in Seq(TemplateSet)
  BY DEF IInv, Typed, CommandLine

\* A command line that cannot be used is refused.
LEMMA Refused ==
  ASSUME IInv, Exit("usage"), ~Usable
  PROVE  IInv'
<1>1. /\ phase' = "over" /\ outcome' = "usage" /\ line' = line
      /\ outputs' = outputs /\ outputTemplates' = outputTemplates
  BY DEF Exit
<1>2. Typed'
  BY <1>1 DEF IInv, Typed
<1>3. OutputsRead'
  BY <1>1 DEF IInv, OutputsRead
<1>4. TemplatesRead'
  BY <1>1 DEF TemplatesRead
<1>5. ~Usable'
  BY <1>1 DEF Usable
<1>6. Ended'
  BY <1>1, <1>5 DEF Ended
<1> QED
  BY <1>2, <1>3, <1>4, <1>6 DEF IInv

\* The packet size is read.
LEMMA PacketSizeInv ==
  ASSUME IInv, PacketSize
  PROVE  IInv'
<1>1. phase = "size"
  BY DEF PacketSize
<1>2. CASE line.size = NoText \/ IsNumber(line.size, LongMax)
  <2>1. /\ phase' = "outfiles" /\ outcome' = outcome /\ line' = line
        /\ outputs' = outputs /\ outputTemplates' = outputTemplates
    BY <1>2 DEF PacketSize
  <2>2. outcome = "none" /\ outputTemplates = <<>>
    BY <1>1 DEF IInv, Ended, TemplatesRead
  <2>3. Typed'
    BY <2>1 DEF IInv, Typed
  <2>4. OutputsRead'
    BY <2>1, <2>2 DEF IInv, OutputsRead
  <2>5. TemplatesRead'
    BY <2>1, <2>2 DEF TemplatesRead
  <2>6. Ended'
    BY <1>2, <2>1, <2>2 DEF Ended
  <2> QED
    BY <2>3, <2>4, <2>5, <2>6 DEF IInv
<1>3. CASE ~(line.size = NoText \/ IsNumber(line.size, LongMax))
  <2>1. Exit("usage")
    BY <1>1, <1>3 DEF PacketSize, Exit
  <2>2. ~Usable
    BY <1>3 DEF Usable
  <2> QED  BY <2>1, <2>2, Refused
<1> QED
  BY <1>2, <1>3

\* Reading an output goes on with the next field.
LEMMA OutputContinues ==
  ASSUME IInv, phase = "outfile", NEW q \in 1 .. Len(line.outfiles[Len(outputs) + 1]) + 1,
         NEW next \in OutputSet, NEW left,
         LeftAt(line.outfiles[Len(outputs) + 1], q, left),
         OutputSoFar(line.outfiles[Len(outputs) + 1], q, next),
         Continue(next, left)
  PROVE  IInv'
<1>1. /\ current' = next /\ buf' = left /\ phase' = "outfile" /\ line' = line /\ outcome' = outcome
      /\ outputs' = outputs /\ outputTemplates' = outputTemplates
  BY DEF Continue
<1>2. outcome = "none" /\ outputTemplates = <<>>
  BY DEF IInv, Ended, TemplatesRead
<1>3. Typed'
  BY <1>1 DEF IInv, Typed
<1>4. OutputsRead'
  <2>1. /\ Len(outputs) <= Len(line.outfiles)
        /\ \A i \in 1 .. Len(outputs) :
             OutputSoFar(line.outfiles[i], Len(line.outfiles[i]) + 1, outputs[i])
        /\ Len(outputs) < Len(line.outfiles)
    BY DEF IInv, OutputsRead
  <2> QED
    BY <1>1, <1>2, <2>1 DEF OutputsRead
<1>5. TemplatesRead'
  BY <1>1, <1>2 DEF TemplatesRead
<1>6. Ended'
  BY <1>1, <1>2 DEF IInv, Ended
<1> QED
  BY <1>3, <1>4, <1>5, <1>6 DEF IInv

\* The next output is begun, or there is none.
LEMMA NextOutfileInv ==
  ASSUME IInv, NextOutfile
  PROVE  IInv'
<1>1. /\ phase = "outfiles" /\ line' = line /\ outputs' = outputs
      /\ outputTemplates' = outputTemplates /\ outcome' = outcome
  BY DEF NextOutfile
<1>2. outcome = "none" /\ outputTemplates = <<>>
  BY <1>1 DEF IInv, Ended, TemplatesRead
<1>3. /\ line.outfiles \in Seq(Seq(Symbols)) /\ outputs \in Seq(OutputSet)
      /\ line.templates \in Seq(Seq(Symbols))
  BY LineTypes
<1>4. /\ Len(outputs) <= Len(line.outfiles)
      /\ \A i \in 1 .. Len(outputs) :
           OutputSoFar(line.outfiles[i], Len(line.outfiles[i]) + 1, outputs[i])
  BY DEF IInv, OutputsRead
<1>5. CASE Len(outputs) < Len(line.outfiles)
  <2> DEFINE text == line.outfiles[Len(outputs) + 1]
  <2>1. phase' = "outfile" /\ buf' = text /\ current' \in NewOutput
    BY <1>5 DEF NextOutfile
  <2>2. text \in Seq(Symbols)
    BY <1>3, <1>5
  <2> HIDE DEF text
  <2>3. LeftAt(text, 1, buf') /\ OutputSoFar(text, 1, current') /\ current' \in OutputSet
    BY <2>1, <2>2, LeftAtBegin, OutputBegins
  <2>4. 1 \in 1 .. Len(text) + 1
    BY <2>2
  <2>5. Typed'
    BY <1>1, <2>1, <2>3 DEF IInv, Typed
  <2>6. OutputsRead'
    <3>1. \E p \in 1 .. Len(text) + 1 : LeftAt(text, p, buf') /\ OutputSoFar(text, p, current')
      BY <2>3, <2>4
    <3> QED
      BY <1>1, <1>2, <1>4, <1>5, <2>1, <3>1 DEF OutputsRead, text
  <2>7. TemplatesRead'
    BY <1>1, <1>2, <2>1 DEF TemplatesRead
  <2>8. Ended'
    BY <1>1, <1>2, <2>1 DEF IInv, Ended
  <2> QED
    BY <2>5, <2>6, <2>7, <2>8 DEF IInv
<1>6. CASE ~(Len(outputs) < Len(line.outfiles))
  <2>1. phase' = "templates"
    BY <1>6 DEF NextOutfile
  <2>2. Len(outputs) = Len(line.outfiles)
    BY <1>3, <1>4, <1>6
  <2>3. Typed'
    BY <1>1, <2>1 DEF IInv, Typed
  <2>4. OutputsRead'
    BY <1>1, <1>4, <2>1, <2>2 DEF OutputsRead
  <2>5. TemplatesRead'
    <3>1. Len(outputTemplates) = 0 /\ Len(line.templates) \in Nat
      BY <1>2, <1>3
    <3>2. TemplatesUpTo(Len(outputTemplates))'
      BY <1>1, <3>1 DEF TemplatesUpTo
    <3> QED  BY <1>1, <1>2, <2>1, <3>1, <3>2 DEF TemplatesRead
  <2>6. Ended'
    BY <1>1, <1>2, <2>1 DEF IInv, Ended
  <2> QED
    BY <2>3, <2>4, <2>5, <2>6 DEF IInv
<1> QED
  BY <1>5, <1>6

\* What is being read of an output.
LEMMA OutputBeingRead ==
  ASSUME IInv, phase = "outfile"
  PROVE  /\ Len(outputs) + 1 \in 1 .. Len(line.outfiles)
         /\ line.outfiles[Len(outputs) + 1] \in Seq(Symbols)
         /\ current \in OutputSet
         /\ \E p \in 1 .. Len(line.outfiles[Len(outputs) + 1]) + 1 :
              /\ LeftAt(line.outfiles[Len(outputs) + 1], p, buf)
              /\ OutputSoFar(line.outfiles[Len(outputs) + 1], p, current)
<1>1. line.outfiles \in Seq(Seq(Symbols)) /\ outputs \in Seq(OutputSet)
  BY LineTypes
<1>2. /\ Len(outputs) < Len(line.outfiles)
      /\ \E p \in 1 .. Len(line.outfiles[Len(outputs) + 1]) + 1 :
           /\ LeftAt(line.outfiles[Len(outputs) + 1], p, buf)
           /\ OutputSoFar(line.outfiles[Len(outputs) + 1], p, current)
  BY DEF IInv, OutputsRead
<1>3. current \in OutputSet
  BY DEF IInv, Typed
<1> QED
  BY <1>1, <1>2, <1>3

\* A text that cannot be read makes the command line unusable.
LEMMA OutfileUnusable ==
  ASSUME IInv, NEW i \in 1 .. Len(line.outfiles), ~OutfileReadable(line.outfiles[i])
  PROVE  ~Usable
<1>1. i \in DOMAIN line.outfiles
  BY LineTypes
<1> QED
  BY <1>1 DEF Usable

\* A field with a start or a length is read.
LEMMA OutfileFieldInv ==
  ASSUME IInv, OutfileField
  PROVE  IInv'
<1> DEFINE text == line.outfiles[Len(outputs) + 1]
           value == TakenValue(AfterKey)
           left == AfterValue(AfterKey)
           key == TakenKey[1]
<1>1. phase = "outfile" /\ buf # <<>>
  BY DEF OutfileField
<1>2. /\ Len(outputs) + 1 \in 1 .. Len(line.outfiles) /\ text \in Seq(Symbols) /\ current \in OutputSet
      /\ \E p \in 1 .. Len(text) + 1 : LeftAt(text, p, buf) /\ OutputSoFar(text, p, current)
  BY <1>1, OutputBeingRead
<1>3. ~OutfileReadable(text) => ~Usable
  BY <1>2, OutfileUnusable
<1>a. ASSUME NEW q \in 1 .. Len(text) + 1, NEW next \in OutputSet, NEW rest,
             LeftAt(text, q, rest), OutputSoFar(text, q, next), Continue(next, rest)
      PROVE  IInv'
  BY <1>1, <1>a, OutputContinues
<1> HIDE DEF text
<1>4. PICK p \in 1 .. Len(text) + 1 : LeftAt(text, p, buf) /\ OutputSoFar(text, p, current)
  BY <1>2
<1>5. p \in 1 .. Len(text) /\ OutputAt(text, p)
  BY <1>1, <1>2, <1>4, LeftIsSome DEF OutputAt
<1>6. NextStart(text, p) \in 1 .. Len(text) + 1
  <2>1. NextStart(text, p) \in FieldStarts(text) \cup {Len(text) + 1}
    BY <1>2, <1>5, NextField DEF OutputAt
  <2> QED  BY <2>1, <1>2 DEF FieldStarts
<1>7. ASSUME Exit("usage"), ~OutfileReadable(text) PROVE IInv'
  BY <1>7, <1>3, Refused
<1>8. CASE ~(/\ HasKey /\ Len(TakenKey) = 1
             /\ key \in DOMAIN StartKey \cup DOMAIN LengthKey \cup {"fileName"})
  <2>1. ~OutfileReadable(text)
    BY <1>2, <1>5, <1>8, OutputKeyless
  <2>2. ~HasKey \/ (/\ ~(Len(TakenKey) = 1 /\ key \in DOMAIN StartKey)
                    /\ ~(Len(TakenKey) = 1 /\ key \in DOMAIN LengthKey)
                    /\ TakenKey # <<"fileName">>)
    BY <1>8
  <2>3. Exit("usage")
    <3> HIDE DEF key
    <3> QED  BY <2>2 DEF OutfileField, key
  <2> QED  BY <1>7, <2>1, <2>3
<1>9. CASE HasKey /\ Len(TakenKey) = 1 /\ key \in DOMAIN StartKey
  <2> DEFINE kind == StartKey[key]
             next == [current EXCEPT !.start = Described(kind, value)]
  <2>0. key \notin DOMAIN LengthKey /\ TakenKey # <<"fileName">> /\ StartKey # LengthKey
    <3>1. key \notin DOMAIN LengthKey /\ key # "fileName"
      BY <1>9, Keys
    <3>2. StartKey # LengthKey
      BY <1>9, <3>1
    <3> QED  BY <3>1, <3>2
  <2>1. IF SetOnce(current.start, kind, value) THEN Continue(next, left) ELSE Exit("usage")
    BY <1>9, <2>0 DEF OutfileField
  <2>2. MeantBefore(text, StartKey, p, current.start) /\ MeantBefore(text, LengthKey, p, current.length)
    BY <1>5 DEF OutputAt, OutputSoFar
  <2>3. CASE ~SetOnce(current.start, kind, value)
    <3>1. ~OutfileReadable(text)
      BY <1>2, <1>5, <1>9, <2>2, <2>3, OutputRefused
    <3> QED  BY <1>7, <2>1, <2>3, <3>1
  <2>4. CASE SetOnce(current.start, kind, value)
    <3>1. IsNumber(value, MaxOf(kind)) /\ current.start.kind = "none"
      BY <2>4 DEF SetOnce
    <3>2. /\ \A i \in Starts(text, "fileName") : i < NextStart(text, p) => FieldRead(text, i)
          /\ MeantBefore(text, StartKey, NextStart(text, p), Described(kind, value))
          /\ MeantBefore(text, LengthKey, NextStart(text, p), current.length)
          /\ \A rest : RestBefore(text, "fileName", NextStart(text, p), rest)
      BY <1>2, <1>5, <1>9, <2>0, <2>2, <3>1, OutputGoesOn
    <3>3. LeftAt(text, NextStart(text, p), left) /\ value \in Seq(Symbols)
      BY <1>2, <1>5, <1>9, OutputField
    <3>4. kind \in Kinds /\ Number(value) \in Int
      BY <1>9, <3>1, <3>3, Keys, NumberIs
    <3>5. /\ next \in OutputSet
          /\ next.start = Described(kind, value) /\ next.length = current.length
      BY <1>2, <3>4 DEF OutputSet, Described, Parts
    <3> HIDE DEF next, left, kind, value
    <3>6. OutputSoFar(text, NextStart(text, p), next)
      BY <3>2, <3>5 DEF OutputSoFar
    <3> QED
      BY <1>6, <1>a, <2>1, <2>4, <3>3, <3>5, <3>6
  <2> QED  BY <2>3, <2>4
<1>10. CASE HasKey /\ Len(TakenKey) = 1 /\ key \in DOMAIN LengthKey
  <2> DEFINE kind == LengthKey[key]
             next == [current EXCEPT !.length = Described(kind, value)]
  <2>0. key \notin DOMAIN StartKey /\ TakenKey # <<"fileName">> /\ StartKey # LengthKey
    <3>1. key \notin DOMAIN StartKey /\ key # "fileName"
      BY <1>10, Keys
    <3>2. StartKey # LengthKey
      BY <1>10, <3>1
    <3> QED  BY <3>1, <3>2
  <2>1. IF SetOnce(current.length, kind, value) THEN Continue(next, left) ELSE Exit("usage")
    BY <1>10, <2>0 DEF OutfileField
  <2>2. MeantBefore(text, StartKey, p, current.start) /\ MeantBefore(text, LengthKey, p, current.length)
    BY <1>5 DEF OutputAt, OutputSoFar
  <2>3. CASE ~SetOnce(current.length, kind, value)
    <3>1. ~OutfileReadable(text)
      BY <1>2, <1>5, <1>10, <2>2, <2>3, OutputRefused
    <3> QED  BY <1>7, <2>1, <2>3, <3>1
  <2>4. CASE SetOnce(current.length, kind, value)
    <3>1. IsNumber(value, MaxOf(kind)) /\ current.length.kind = "none"
      BY <2>4 DEF SetOnce
    <3>2. /\ \A i \in Starts(text, "fileName") : i < NextStart(text, p) => FieldRead(text, i)
          /\ MeantBefore(text, LengthKey, NextStart(text, p), Described(kind, value))
          /\ MeantBefore(text, StartKey, NextStart(text, p), current.start)
          /\ \A rest : RestBefore(text, "fileName", NextStart(text, p), rest)
      BY <1>2, <1>5, <1>10, <2>0, <2>2, <3>1, OutputGoesOn
    <3>3. LeftAt(text, NextStart(text, p), left) /\ value \in Seq(Symbols)
      BY <1>2, <1>5, <1>10, OutputField
    <3>4. kind \in Kinds /\ Number(value) \in Int
      BY <1>10, <3>1, <3>3, Keys, NumberIs
    <3>5. /\ next \in OutputSet
          /\ next.length = Described(kind, value) /\ next.start = current.start
      BY <1>2, <3>4 DEF OutputSet, Described, Parts
    <3> HIDE DEF next, left, kind, value
    <3>6. OutputSoFar(text, NextStart(text, p), next)
      BY <3>2, <3>5 DEF OutputSoFar
    <3> QED
      BY <1>6, <1>a, <2>1, <2>4, <3>3, <3>5, <3>6
  <2> QED  BY <2>3, <2>4
<1>11. CASE HasKey /\ Len(TakenKey) = 1 /\ key = "fileName"
  <2>1. TakenKey = <<"fileName">>
    <3>1. p < Len(text) /\ text[p] # "=" /\ text[p + 1] = "=" /\ buf = SubSeq(text, p, Len(text))
      BY <1>2, <1>4, <1>5, <1>11, KeyHere DEF LeftAt
    <3>2. TakenKey = ToLower(<<text[p]>>)
      BY <1>2, <1>5, <3>1, KeyHere
    <3>3. TakenKey = <<TakenKey[1]>>
      BY <3>2, LowerCase
    <3> QED  BY <1>11, <3>3
  <2>2. key \notin DOMAIN StartKey /\ key \notin DOMAIN LengthKey
    BY <1>11, Keys
  <2> DEFINE next == [current EXCEPT !.file = AfterKey]
  <2>3. IF AfterKey # <<>> THEN Continue(next, <<>>) ELSE Exit("usage")
    BY <1>11, <2>1, <2>2 DEF OutfileField
  <2>4. /\ AfterKey = <<>> => ~OutfileReadable(text)
        /\ AfterKey # <<>> => LeftAt(text, Len(text) + 1, <<>>) /\ OutputSoFar(text, Len(text) + 1, next)
        /\ AfterKey \in Seq(Symbols)
    BY <1>2, <1>5, <1>11, <2>1, OutputFile
  <2>5. next \in OutputSet
    BY <1>2, <2>4 DEF OutputSet
  <2>6. Len(text) + 1 \in 1 .. Len(text) + 1
    BY <1>2
  <2> HIDE DEF next
  <2> QED
    BY <1>7, <1>a, <2>3, <2>4, <2>5, <2>6
<1> QED
  BY <1>8, <1>9, <1>10, <1>11

\* An output is done with.
LEMMA OutfileEndInv ==
  ASSUME IInv, OutfileEnd
  PROVE  IInv'
<1> DEFINE text == line.outfiles[Len(outputs) + 1]
<1>1. /\ phase = "outfile" /\ buf = <<>> /\ phase' = "outfiles" /\ outputs' = Append(outputs, current)
      /\ line' = line /\ outputTemplates' = outputTemplates /\ outcome' = outcome
  BY DEF OutfileEnd
<1>2. outcome = "none" /\ outputTemplates = <<>>
  BY <1>1 DEF IInv, Ended, TemplatesRead
<1>3. /\ Len(outputs) + 1 \in 1 .. Len(line.outfiles) /\ text \in Seq(Symbols) /\ current \in OutputSet
      /\ \E p \in 1 .. Len(text) + 1 : LeftAt(text, p, buf) /\ OutputSoFar(text, p, current)
  BY <1>1, OutputBeingRead
<1>4. outputs \in Seq(OutputSet)
  BY LineTypes
<1>5. OutputSoFar(text, Len(text) + 1, current)
  <2> HIDE DEF text
  <2>1. PICK p \in 1 .. Len(text) + 1 : LeftAt(text, p, buf) /\ OutputSoFar(text, p, current)
    BY <1>3
  <2>2. p = Len(text) + 1
    BY <1>1, <1>3, <2>1, LeftIsSome
  <2> QED  BY <2>1, <2>2
<1>6. /\ outputs' \in Seq(OutputSet) /\ Len(outputs') = Len(outputs) + 1
      /\ \A i \in 1 .. Len(outputs) : outputs'[i] = outputs[i]
      /\ outputs'[Len(outputs) + 1] = current
  BY <1>1, <1>3, <1>4
<1>7. Typed'
  BY <1>1, <1>6 DEF IInv, Typed
<1>8. OutputsRead'
  <2>1. ASSUME NEW i \in 1 .. Len(outputs')
        PROVE  OutputSoFar(line.outfiles[i], Len(line.outfiles[i]) + 1, outputs'[i])
    <3>1. CASE i = Len(outputs) + 1
      BY <3>1, <1>5, <1>6
    <3>2. CASE i # Len(outputs) + 1
      <4>1. i \in 1 .. Len(outputs)
        BY <3>2, <1>4, <1>6
      <4>2. OutputSoFar(line.outfiles[i], Len(line.outfiles[i]) + 1, outputs[i])
        BY <4>1 DEF IInv, OutputsRead
      <4> QED  BY <4>1, <4>2, <1>6
    <3> QED  BY <3>1, <3>2
  <2>2. Len(outputs') <= Len(line.outfiles)
    BY <1>3, <1>6
  <2> QED
    BY <1>1, <1>2, <2>1, <2>2 DEF OutputsRead
<1>9. TemplatesRead'
  BY <1>1, <1>2 DEF TemplatesRead
<1>10. Ended'
  BY <1>1, <1>2 DEF IInv, Ended
<1> QED
  BY <1>7, <1>8, <1>9, <1>10 DEF IInv

-----------------------------------------------------------------------------
(***************************************************************************)
(* Steps that read the descriptions of templates.                          *)
(***************************************************************************)

\* What has been read of the outputs stays so.
LEMMA OutputsStay ==
  ASSUME IInv, phase \in {"templates", "template", "rest", "splitter"},
         line' = line, outputs' = outputs, phase' # "outfile"
  PROVE  OutputsRead' /\ Len(outputs) = Len(line.outfiles)
<1>1. /\ Len(outputs) <= Len(line.outfiles)
      /\ \A i \in 1 .. Len(outputs) :
           OutputSoFar(line.outfiles[i], Len(line.outfiles[i]) + 1, outputs[i])
      /\ Len(outputs) = Len(line.outfiles)
  BY DEF IInv, OutputsRead
<1> QED
  BY <1>1 DEF OutputsRead

\* Reading a template goes on with the next field.
LEMMA TemplateContinues ==
  ASSUME IInv, phase = "template", NEW q \in 1 .. Len(line.templates[Len(outputTemplates) + 1]) + 1,
         NEW next \in TemplateSet, NEW left,
         LeftAt(line.templates[Len(outputTemplates) + 1], q, left),
         TemplateSoFar(line.templates[Len(outputTemplates) + 1], q, next),
         Continue(next, left)
  PROVE  IInv'
<1>1. /\ current' = next /\ buf' = left /\ phase' = "template" /\ line' = line /\ outcome' = outcome
      /\ outputs' = outputs /\ outputTemplates' = outputTemplates
  BY DEF Continue
<1>2. outcome = "none"
  BY DEF IInv, Ended
<1>3. Typed'
  BY <1>1 DEF IInv, Typed
<1>4. OutputsRead'
  BY <1>1, OutputsStay
<1>5. TemplatesRead'
  <2>1. /\ Len(outputTemplates) <= Len(line.templates)
        /\ TemplatesUpTo(Len(outputTemplates))
        /\ Len(outputTemplates) < Len(line.templates)
    BY DEF IInv, TemplatesRead
  <2>2. TemplatesUpTo(Len(outputTemplates))'
    BY <1>1, <2>1 DEF TemplatesUpTo
  <2> QED
    BY <1>1, <1>2, <2>1, <2>2 DEF TemplatesRead
<1>6. Ended'
  BY <1>1, <1>2 DEF IInv, Ended
<1> QED
  BY <1>3, <1>4, <1>5, <1>6 DEF IInv

\* The next template is begun, or there is none.
LEMMA NextTemplateInv ==
  ASSUME IInv, NextTemplate
  PROVE  IInv'
<1>1. /\ phase = "templates" /\ line' = line /\ outputs' = outputs
      /\ outputTemplates' = outputTemplates /\ outcome' = outcome
  BY DEF NextTemplate
<1>2. outcome = "none"
  BY <1>1 DEF IInv, Ended
<1>3. line.templates \in Seq(Seq(Symbols)) /\ outputTemplates \in Seq(TemplateSet)
  BY LineTypes
<1>4. Len(outputTemplates) <= Len(line.templates) /\ TemplatesUpTo(Len(outputTemplates))
  BY <1>1 DEF IInv, TemplatesRead
<1>5. TemplatesUpTo(Len(outputTemplates))'
  BY <1>1, <1>4 DEF TemplatesUpTo
<1>6. CASE Len(outputTemplates) < Len(line.templates)
  <2> DEFINE text == line.templates[Len(outputTemplates) + 1]
  <2>1. phase' = "template" /\ buf' = text /\ current' = NewTemplate
    BY <1>6 DEF NextTemplate
  <2>2. text \in Seq(Symbols)
    BY <1>3, <1>6
  <2> HIDE DEF text
  <2>3. LeftAt(text, 1, buf') /\ TemplateSoFar(text, 1, current') /\ current' \in TemplateSet
    BY <2>1, <2>2, LeftAtBegin, TemplateBegins
  <2>4. 1 \in 1 .. Len(text) + 1
    BY <2>2
  <2>5. Typed'
    BY <1>1, <2>1, <2>3 DEF IInv, Typed
  <2>6. OutputsRead'
    BY <1>1, <2>1, OutputsStay
  <2>7. TemplatesRead'
    <3>1. \E p \in 1 .. Len(text) + 1 : LeftAt(text, p, buf') /\ TemplateSoFar(text, p, current')
      BY <2>3, <2>4
    <3> QED
      BY <1>1, <1>2, <1>4, <1>5, <1>6, <2>1, <3>1 DEF TemplatesRead, text
  <2>8. Ended'
    BY <1>1, <1>2, <2>1 DEF IInv, Ended
  <2> QED
    BY <2>5, <2>6, <2>7, <2>8 DEF IInv
<1>7. CASE ~(Len(outputTemplates) < Len(line.templates))
  <2>1. phase' = "rest"
    BY <1>7 DEF NextTemplate
  <2>2. Len(outputTemplates) = Len(line.templates)
    BY <1>3, <1>4, <1>7
  <2>3. Typed'
    BY <1>1, <2>1 DEF IInv, Typed
  <2>4. OutputsRead'
    BY <1>1, <2>1, OutputsStay
  <2>5. TemplatesRead'
    BY <1>1, <1>2, <1>5, <2>1, <2>2 DEF TemplatesRead
  <2>6. Ended'
    BY <1>1, <1>2, <2>1 DEF IInv, Ended
  <2> QED
    BY <2>3, <2>4, <2>5, <2>6 DEF IInv
<1> QED
  BY <1>6, <1>7

\* What is being read of a template.
LEMMA TemplateBeingRead ==
  ASSUME IInv, phase = "template"
  PROVE  /\ Len(outputTemplates) + 1 \in 1 .. Len(line.templates)
         /\ line.templates[Len(outputTemplates) + 1] \in Seq(Symbols)
         /\ current \in TemplateSet
         /\ \E p \in 1 .. Len(line.templates[Len(outputTemplates) + 1]) + 1 :
              /\ LeftAt(line.templates[Len(outputTemplates) + 1], p, buf)
              /\ TemplateSoFar(line.templates[Len(outputTemplates) + 1], p, current)
<1>1. line.templates \in Seq(Seq(Symbols)) /\ outputTemplates \in Seq(TemplateSet)
  BY LineTypes
<1>2. /\ Len(outputTemplates) < Len(line.templates)
      /\ \E p \in 1 .. Len(line.templates[Len(outputTemplates) + 1]) + 1 :
           /\ LeftAt(line.templates[Len(outputTemplates) + 1], p, buf)
           /\ TemplateSoFar(line.templates[Len(outputTemplates) + 1], p, current)
  BY DEF IInv, TemplatesRead
<1>3. current \in TemplateSet
  BY DEF IInv, Typed
<1> QED
  BY <1>1, <1>2, <1>3

\* A template that cannot be read makes the command line unusable.
LEMMA TemplateUnusable ==
  ASSUME IInv, NEW i \in 1 .. Len(line.templates), ~TemplateReadable(line.templates[i])
  PROVE  ~Usable
<1>1. i \in DOMAIN line.templates
  BY LineTypes
<1> QED
  BY <1>1 DEF Usable

\* A field of a template is read.
LEMMA TemplateFieldInv ==
  ASSUME IInv, TemplateField
  PROVE  IInv'
<1> DEFINE text == line.templates[Len(outputTemplates) + 1]
           value == TakenValue(AfterKey)
           left == AfterValue(AfterKey)
           ranges == RangeTexts(value)
           filter == [i \in DOMAIN ranges |-> FromString(ranges[i])]
<1>1. phase = "template" /\ buf # <<>>
  BY DEF TemplateField
<1>2. /\ Len(outputTemplates) + 1 \in 1 .. Len(line.templates)
      /\ text \in Seq(Symbols) /\ current \in TemplateSet
      /\ \E p \in 1 .. Len(text) + 1 : LeftAt(text, p, buf) /\ TemplateSoFar(text, p, current)
  BY <1>1, TemplateBeingRead
<1>3. ~TemplateReadable(text) => ~Usable
  BY <1>2, TemplateUnusable
<1>a. ASSUME NEW q \in 1 .. Len(text) + 1, NEW next \in TemplateSet, NEW rest,
             LeftAt(text, q, rest), TemplateSoFar(text, q, next), Continue(next, rest)
      PROVE  IInv'
  BY <1>1, <1>a, TemplateContinues
<1> HIDE DEF text
<1>4. PICK p \in 1 .. Len(text) + 1 : LeftAt(text, p, buf) /\ TemplateSoFar(text, p, current)
  BY <1>2
<1>5. p \in 1 .. Len(text) /\ TemplateAt(text, p)
  BY <1>1, <1>2, <1>4, LeftIsSome DEF TemplateAt
<1>6. NextStart(text, p) \in 1 .. Len(text) + 1
  <2>1. NextStart(text, p) \in FieldStarts(text) \cup {Len(text) + 1}
    BY <1>2, <1>5, NextField DEF TemplateAt
  <2> QED  BY <2>1, <1>2 DEF FieldStarts
<1>7. ASSUME Exit("usage"), ~TemplateReadable(text) PROVE IInv'
  BY <1>7, <1>3, Refused
<1>8. CASE ~(HasKey /\ (TakenKey = <<"discontSegments">> \/ TakenKey = <<"fileFormat">>))
  <2>1. ~TemplateReadable(text)
    BY <1>2, <1>5, <1>8, TemplateKeyless
  <2>2. Exit("usage")
    BY <1>8 DEF TemplateField
  <2> QED  BY <1>7, <2>1, <2>2
<1>9. CASE HasKey /\ TakenKey = <<"discontSegments">>
  <2> DEFINE next == [current EXCEPT !.kind = "segments", !.filter = filter]
             readable == current.kind = "none" /\ \A i \in DOMAIN ranges : IsRange(ranges[i])
  <2>1. IF readable THEN Continue(next, left) ELSE Exit("usage")
    BY <1>9 DEF TemplateField
  <2>2. CASE ~readable
    <3>1. ~TemplateReadable(text)
      BY <1>2, <1>5, <1>9, <2>2, FilterRefused
    <3>2. Exit("usage")
      BY <2>1, <2>2
    <3> QED  BY <1>7, <3>1, <3>2
  <2>3. CASE readable
    <3>1. Continue(next, left)
      BY <2>1, <2>3
    <3>2. LeftAt(text, NextStart(text, p), left) /\ value \in Seq(Symbols)
      BY <1>2, <1>5, <1>9, FilterField
    <3>3. filter = FilterOf(value) /\ FilterOf(value) \in Seq(RangeSet)
      <4>1. \A k \in DOMAIN RangeTexts(value) : IsRange(RangeTexts(value)[k])
        BY <2>3
      <4>2. FilterOf(value) \in Seq(RangeSet)
        BY <3>2, <4>1, FilterIs
      <4> QED  BY <4>2 DEF FilterOf
    <3> HIDE DEF filter
    <3>4. next \in TemplateSet /\ next.kind = "segments" /\ next.filter = FilterOf(value)
      BY <1>2, <3>3 DEF TemplateSet
    <3> HIDE DEF next
    <3>5. TemplateSoFar(text, NextStart(text, p), next)
      BY <1>2, <1>5, <1>9, <2>3, <3>4, FilterGoesOn
    <3> HIDE DEF left
    <3> QED
      BY <1>6, <1>a, <3>1, <3>2, <3>4, <3>5
  <2> QED  BY <2>2, <2>3
<1>10. CASE HasKey /\ TakenKey = <<"fileFormat">>
  <2> DEFINE next == [current EXCEPT !.format = AfterKey]
  <2>1. TakenKey # <<"discontSegments">>
    BY <1>10
  <2>2. IF AfterKey # <<>> THEN Continue(next, <<>>) ELSE Exit("usage")
    BY <1>10, <2>1 DEF TemplateField
  <2>3. /\ AfterKey = <<>> => ~TemplateReadable(text)
        /\ AfterKey # <<>> => LeftAt(text, Len(text) + 1, <<>>) /\ TemplateSoFar(text, Len(text) + 1, next)
        /\ AfterKey \in Seq(Symbols)
    BY <1>2, <1>5, <1>10, TemplateFormat
  <2>4. next \in TemplateSet
    BY <1>2, <2>3 DEF TemplateSet
  <2>5. Len(text) + 1 \in 1 .. Len(text) + 1
    BY <1>2
  <2> HIDE DEF next
  <2> QED
    BY <1>7, <1>a, <2>2, <2>3, <2>4, <2>5
<1> QED
  BY <1>8, <1>9, <1>10

\* A template is done with.
LEMMA TemplateEndInv ==
  ASSUME IInv, TemplateEnd
  PROVE  IInv'
<1> DEFINE text == line.templates[Len(outputTemplates) + 1]
<1>1. /\ phase = "template" /\ buf = <<>> /\ phase' = "templates"
      /\ outputTemplates' = Append(outputTemplates, current)
      /\ line' = line /\ outputs' = outputs /\ outcome' = outcome
  BY DEF TemplateEnd
<1>2. outcome = "none"
  BY <1>1 DEF IInv, Ended
<1>3. /\ Len(outputTemplates) + 1 \in 1 .. Len(line.templates)
      /\ text \in Seq(Symbols) /\ current \in TemplateSet
      /\ \E p \in 1 .. Len(text) + 1 : LeftAt(text, p, buf) /\ TemplateSoFar(text, p, current)
  BY <1>1, TemplateBeingRead
<1>4. outputTemplates \in Seq(TemplateSet)
  BY LineTypes
<1>5. TemplateSoFar(text, Len(text) + 1, current)
  <2> HIDE DEF text
  <2>1. PICK p \in 1 .. Len(text) + 1 : LeftAt(text, p, buf) /\ TemplateSoFar(text, p, current)
    BY <1>3
  <2>2. p = Len(text) + 1
    BY <1>1, <1>3, <2>1, LeftIsSome
  <2> QED  BY <2>1, <2>2
<1>6. /\ outputTemplates' \in Seq(TemplateSet) /\ Len(outputTemplates') = Len(outputTemplates) + 1
      /\ \A i \in 1 .. Len(outputTemplates) : outputTemplates'[i] = outputTemplates[i]
      /\ outputTemplates'[Len(outputTemplates) + 1] = current
  BY <1>1, <1>3, <1>4
<1>7. Typed'
  BY <1>1, <1>6 DEF IInv, Typed
<1>8. OutputsRead'
  BY <1>1, OutputsStay
<1>9. TemplatesRead'
  <2>1. ASSUME NEW i \in 1 .. Len(outputTemplates')
        PROVE  TemplateSoFar(line.templates[i], Len(line.templates[i]) + 1, outputTemplates'[i])
    <3>1. CASE i = Len(outputTemplates) + 1
      BY <3>1, <1>5, <1>6
    <3>2. CASE i # Len(outputTemplates) + 1
      <4>1. i \in 1 .. Len(outputTemplates)
        BY <3>2, <1>4, <1>6
      <4>2. TemplatesUpTo(Len(outputTemplates))
        BY <1>1 DEF IInv, TemplatesRead
      <4>3. TemplateSoFar(line.templates[i], Len(line.templates[i]) + 1, outputTemplates[i])
        BY <4>1, <4>2 DEF TemplatesUpTo
      <4> QED  BY <4>1, <4>3, <1>6
    <3> QED  BY <3>1, <3>2
  <2>2. TemplatesUpTo(Len(outputTemplates))'
    BY <1>1, <2>1 DEF TemplatesUpTo
  <2>3. Len(outputTemplates') <= Len(line.templates)
    BY <1>3, <1>6
  <2> QED
    BY <1>1, <1>2, <2>2, <2>3 DEF TemplatesRead
<1>10. Ended'
  BY <1>1, <1>2 DEF IInv, Ended
<1> QED
  BY <1>7, <1>8, <1>9, <1>10 DEF IInv

-----------------------------------------------------------------------------
(***************************************************************************)
(* The rest of the command line, and the Splitter.                         *)
(***************************************************************************)

\* A format makes a template of every segment.
LEMMA FormatTemplate ==
  ASSUME NEW format \in Seq(Symbols)
  PROVE  DiscontSegments(format) \in TemplateSet /\ DiscontSegments(format).filter = <<>>
  BY DEF DiscontSegments, TemplateSet

\* The templates that were described, and those of the formats.
LEMMA RestInv ==
  ASSUME IInv, Rest
  PROVE  IInv'
<1> DEFINE n == Len(line.templates)
           forms == [i \in DOMAIN line.formats |-> DiscontSegments(line.formats[i])]
           all == outputTemplates \o forms
<1>1. phase = "rest" /\ outcome = "none"
  BY DEF Rest, IInv, Ended
<1>2. CASE line.inputs # 1
  <2>1. Exit("usage")
    BY <1>2 DEF Rest
  <2>2. ~Usable
    BY <1>2 DEF Usable
  <2> QED  BY <2>1, <2>2, Refused
<1>3. CASE line.inputs = 1
  <2>1. /\ outputTemplates' = IF outputs = <<>> /\ all = <<>>
                                THEN <<DiscontSegments(DefaultFormat)>> ELSE all
        /\ phase' = "splitter" /\ line' = line /\ outputs' = outputs /\ outcome' = outcome
    BY <1>3 DEF Rest
  <2>2. /\ line.formats \in Seq(Seq(Symbols)) /\ line.templates \in Seq(Seq(Symbols))
        /\ outputTemplates \in Seq(TemplateSet)
    BY LineTypes
  <2>3. Len(outputTemplates) = n /\ TemplatesUpTo(n)
    BY <1>1 DEF IInv, TemplatesRead
  <2>4. /\ forms \in Seq(TemplateSet)
        /\ \A i \in 1 .. Len(forms) : forms[i].filter = <<>>
    <3>1. \A i \in DOMAIN line.formats :
            /\ DiscontSegments(line.formats[i]) \in TemplateSet
            /\ DiscontSegments(line.formats[i]).filter = <<>>
      BY <2>2, FormatTemplate
    <3>2. DOMAIN line.formats = 1 .. Len(line.formats) /\ Len(line.formats) \in Nat
      BY <2>2
    <3> QED  BY <3>1, <3>2
  <2> HIDE DEF forms
  <2>5. /\ all \in Seq(TemplateSet) /\ Len(all) = Len(outputTemplates) + Len(forms)
        /\ \A i \in 1 .. Len(outputTemplates) : all[i] = outputTemplates[i]
        /\ \A i \in Len(outputTemplates) + 1 .. Len(all) : all[i] = forms[i - Len(outputTemplates)]
    BY <2>2, <2>4
  <2> HIDE DEF all
  <2>6. \A i \in n + 1 .. Len(all) : all[i].filter = <<>>
    <3> SUFFICES ASSUME NEW i \in n + 1 .. Len(all) PROVE all[i].filter = <<>>
      OBVIOUS
    <3> DEFINE m == Len(outputTemplates)
               f == Len(forms)
               a == Len(all)
    <3>1. m \in Nat /\ f \in Nat /\ a = m + f /\ m = n /\ i \in n + 1 .. a
      BY <2>2, <2>3, <2>4, <2>5
    <3> HIDE DEF m, f, a
    <3>2. i - m \in 1 .. f /\ i \in m + 1 .. a
      BY <3>1
    <3>3. all[i] = forms[i - m]
      BY <3>2, <2>5 DEF m, a
    <3> QED  BY <3>2, <3>3, <2>4 DEF f
  <2>7. n \in Nat /\ n <= Len(all)
    BY <2>2, <2>3, <2>4, <2>5
  <2>8. \A i \in 1 .. n : TemplateSoFar(line.templates[i], Len(line.templates[i]) + 1, all[i])
    BY <2>3, <2>5 DEF TemplatesUpTo
  <2>9. /\ outputTemplates' \in Seq(TemplateSet) /\ n <= Len(outputTemplates')
        /\ \A i \in 1 .. n :
             TemplateSoFar(line.templates[i], Len(line.templates[i]) + 1, outputTemplates'[i])
        /\ \A i \in n + 1 .. Len(outputTemplates') : outputTemplates'[i].filter = <<>>
        /\ outputs = <<>> => outputTemplates' # <<>>
    <3>1. CASE outputs = <<>> /\ all = <<>>
      <4> DEFINE d == DiscontSegments(DefaultFormat)
      <4>1. d \in TemplateSet /\ d.filter = <<>>
        BY TextsAssumption, FormatTemplate
      <4>2. outputTemplates' = <<d>>
        BY <3>1, <2>1
      <4> HIDE DEF d
      <4>3. n = 0
        <5>1. Len(all) = 0
          BY <3>1
        <5> DEFINE l == Len(all)
        <5> HIDE DEF l
        <5>2. l = 0 /\ n <= l /\ n \in Nat
          BY <5>1, <2>7 DEF l
        <5> QED  BY <5>2
      <4> HIDE DEF n
      <4>4. /\ outputTemplates' \in Seq(TemplateSet) /\ Len(outputTemplates') = 1
            /\ outputTemplates'[1] = d
        BY <4>1, <4>2
      <4> QED  BY <4>1, <4>3, <4>4
    <3>2. CASE ~(outputs = <<>> /\ all = <<>>)
      <4>1. outputTemplates' = all
        BY <3>2, <2>1
      <4> QED  BY <3>2, <4>1, <2>5, <2>6, <2>7, <2>8
    <3> QED  BY <3>1, <3>2
  <2>10. Typed'
    BY <2>1, <2>9 DEF IInv, Typed
  <2>11. OutputsRead'
    BY <1>1, <2>1, OutputsStay
  <2>12. TemplatesRead'
    <3>1. TemplatesUpTo(n)'
      BY <2>1, <2>9 DEF TemplatesUpTo
    <3> QED  BY <1>1, <1>3, <2>1, <2>9, <3>1 DEF TemplatesRead
  <2>13. Ended'
    BY <1>1, <2>1 DEF IInv, Ended
  <2> QED
    BY <2>10, <2>11, <2>12, <2>13 DEF IInv
<1> QED
  BY <1>2, <1>3

\* The Splitter takes what it is given, or nobody catches what it throws.
LEMMA SetOutputsInv ==
  ASSUME IInv, SetOutputs
  PROVE  IInv'
<1>1. phase = "splitter" /\ outcome = "none"
  BY DEF SetOutputs, IInv, Ended
<1>2. /\ phase' = "over" /\ outcome' \in {"running", "aborted"} /\ line' = line
      /\ outputs' = outputs /\ outputTemplates' = outputTemplates
      /\ outcome' = "running" => \A i \in DOMAIN outputTemplates : AcceptsTemplate(outputTemplates[i])
  <2>1. CASE Exit("running") /\ \A i \in DOMAIN outputTemplates : AcceptsTemplate(outputTemplates[i])
    BY <2>1 DEF Exit
  <2>2. CASE Exit("aborted")
    BY <2>2 DEF Exit
  <2> QED  BY <2>1, <2>2 DEF SetOutputs
<1>3. DOMAIN outputTemplates = 1 .. Len(outputTemplates)
  BY LineTypes
<1>4. Typed'
  BY <1>2 DEF IInv, Typed
<1>5. OutputsRead'
  BY <1>1, <1>2, OutputsStay
<1>6. TemplatesRead'
  <2>1. /\ Len(line.templates) <= Len(outputTemplates)
        /\ TemplatesUpTo(Len(line.templates))
        /\ \A i \in Len(line.templates) + 1 .. Len(outputTemplates) : outputTemplates[i].filter = <<>>
        /\ outputs = <<>> => outputTemplates # <<>>
        /\ line.inputs = 1
    BY <1>1 DEF IInv, TemplatesRead
  <2>2. TemplatesUpTo(Len(line.templates))'
    BY <1>2, <2>1 DEF TemplatesUpTo
  <2> QED
    BY <1>2, <2>1, <2>2 DEF TemplatesRead
<1>7. Ended'
  <2>1. line.size = NoText \/ IsNumber(line.size, LongMax)
    BY <1>1 DEF IInv, Ended
  <2>2. outcome' # "usage"
    BY <1>2
  <2>3. outcome' = "running" => \A i \in 1 .. Len(outputTemplates') : AcceptsTemplate(outputTemplates'[i])
    BY <1>2, <1>3
  <2> QED
    BY <1>2, <2>1, <2>2, <2>3 DEF Ended
<1> QED
  BY <1>4, <1>5, <1>6, <1>7 DEF IInv

\* No step falsifies the invariant.
LEMMA NextInv ==
  IInv /\ [Next]_vars => IInv'
<1> SUFFICES ASSUME IInv, [Next]_vars PROVE IInv'
  OBVIOUS
<1>1. CASE UNCHANGED vars
  <2>1. Typed'
    BY <1>1 DEF vars, IInv, Typed
  <2>2. OutputsRead'
    BY <1>1 DEF vars, IInv, OutputsRead
  <2>3. TemplatesRead'
    BY <1>1 DEF vars, IInv, TemplatesRead, TemplatesUpTo
  <2>4. Usable' <=> Usable
    BY <1>1 DEF vars, Usable
  <2>5. Ended'
    BY <1>1, <2>4 DEF vars, IInv, Ended
  <2> QED  BY <2>1, <2>2, <2>3, <2>5 DEF IInv
<1>2. CASE PacketSize
  BY <1>2, PacketSizeInv
<1>3. CASE NextOutfile
  BY <1>3, NextOutfileInv
<1>4. CASE OutfileField
  BY <1>4, OutfileFieldInv
<1>5. CASE OutfileEnd
  BY <1>5, OutfileEndInv
<1>6. CASE NextTemplate
  BY <1>6, NextTemplateInv
<1>7. CASE TemplateField
  BY <1>7, TemplateFieldInv
<1>8. CASE TemplateEnd
  BY <1>8, TemplateEndInv
<1>9. CASE Rest
  BY <1>9, RestInv
<1>10. CASE SetOutputs
  BY <1>10, SetOutputsInv
<1> QED
  BY <1>1, <1>2, <1>3, <1>4, <1>5, <1>6, <1>7, <1>8, <1>9, <1>10 DEF Next

\* The invariant holds of every command line, whatever symbols it is made of.
THEOREM OptionsInvariant ==
  Spec => []IInv
<1>1. Init => IInv
  BY InitInv
<1>2. IInv /\ [Next]_vars => IInv'
  BY NextInv
<1> QED
  BY <1>1, <1>2, PTL DEF Spec

-----------------------------------------------------------------------------
(***************************************************************************)
(* What is written is what is read.                                        *)
(***************************************************************************)

\* What a command line that was not refused says could be used.
LEMMA UsableIfTaken ==
  ASSUME IInv, outcome \in {"running", "aborted"}
  PROVE  Usable
<1>1. phase = "over"
  BY DEF IInv, Ended
<1>2. /\ line.outfiles \in Seq(Seq(Symbols)) /\ line.templates \in Seq(Seq(Symbols))
  BY LineTypes
<1>3. line.size = NoText \/ IsNumber(line.size, LongMax)
  BY <1>1 DEF IInv, Ended
<1>4. line.inputs = 1 /\ TemplatesUpTo(Len(line.templates))
  BY DEF IInv, TemplatesRead
<1>5. ASSUME NEW i \in DOMAIN line.outfiles PROVE OutfileReadable(line.outfiles[i])
  <2>1. /\ Len(outputs) = Len(line.outfiles)
        /\ \A k \in 1 .. Len(outputs) :
             OutputSoFar(line.outfiles[k], Len(line.outfiles[k]) + 1, outputs[k])
    BY DEF IInv, OutputsRead
  <2>2. i \in 1 .. Len(outputs) /\ line.outfiles[i] \in Seq(Symbols)
    BY <1>2, <2>1
  <2> QED  BY <2>1, <2>2, OutputDone
<1>6. ASSUME NEW i \in DOMAIN line.templates PROVE TemplateReadable(line.templates[i])
  <2>1. i \in 1 .. Len(line.templates) /\ line.templates[i] \in Seq(Symbols)
    BY <1>2
  <2>2. TemplateSoFar(line.templates[i], Len(line.templates[i]) + 1, outputTemplates[i])
    BY <1>4, <2>1 DEF TemplatesUpTo
  <2> QED  BY <2>1, <2>2, TemplateDone
<1> QED
  BY <1>3, <1>4, <1>5, <1>6 DEF Usable

\* A command line is refused exactly if a description in it cannot be read, or its size or
\* its number of inputs; and what is read of an output file is what its description says.
LEMMA AsWritten ==
  IInv => ReadAsWritten
<1> SUFFICES ASSUME IInv, phase = "over" PROVE
      /\ outcome = "usage" <=> ~Usable
      /\ outcome # "usage" =>
           /\ Len(outputs) = Len(line.outfiles)
           /\ \A i \in DOMAIN outputs :
                /\ outputs[i].start = Meant(line.outfiles[i], StartKey)
                /\ outputs[i].length = Meant(line.outfiles[i], LengthKey)
                /\ RestAt(line.outfiles[i], "fileName") # {} =>
                     outputs[i].file = RestPart(line.outfiles[i], "fileName")
  BY DEF ReadAsWritten
<1>1. outcome \in {"usage", "running", "aborted"} /\ (outcome = "usage" => ~Usable)
  BY DEF IInv, Ended
<1>2. outcome # "usage" => Usable
  BY <1>1, UsableIfTaken
<1>3. ASSUME outcome # "usage" PROVE Len(outputs) = Len(line.outfiles)
  BY <1>1, <1>3 DEF IInv, OutputsRead
<1>4. ASSUME outcome # "usage", NEW i \in DOMAIN outputs
      PROVE  /\ outputs[i].start = Meant(line.outfiles[i], StartKey)
             /\ outputs[i].length = Meant(line.outfiles[i], LengthKey)
             /\ RestAt(line.outfiles[i], "fileName") # {} =>
                  outputs[i].file = RestPart(line.outfiles[i], "fileName")
  <2>1. line.outfiles \in Seq(Seq(Symbols)) /\ outputs \in Seq(OutputSet)
    BY LineTypes
  <2>2. i \in 1 .. Len(outputs) /\ line.outfiles[i] \in Seq(Symbols)
    BY <1>3, <1>4, <2>1
  <2>3. OutputSoFar(line.outfiles[i], Len(line.outfiles[i]) + 1, outputs[i])
    BY <2>2 DEF IInv, OutputsRead
  <2> QED  BY <2>2, <2>3, OutputDone
<1> QED
  BY <1>1, <1>2, <1>3, <1>4

\* The ranges of a filter match the numbers that its text is written for.
LEMMA FilterMatches ==
  ASSUME NEW value \in Seq(Symbols), NEW s \in Nat,
         \A k \in DOMAIN RangeTexts(value) : IsRange(RangeTexts(value)[k])
  PROVE  Matches(FilterOf(value), s) <=>
           value = <<>> \/ \E k \in DOMAIN Split(value, Colon) : Covers(Split(value, Colon)[k], s)
<1> DEFINE texts == RangeTexts(value)
           filter == FilterOf(value)
<1>1. /\ texts \in Seq(Seq(Symbols))
      /\ value = <<>> => texts = <<>>
      /\ value # <<>> => texts = Split(value, Colon) /\ texts # <<>>
  BY RangeTextsAre
<1>2. /\ filter \in Seq(RangeSet) /\ DOMAIN filter = DOMAIN texts
      /\ \A k \in DOMAIN filter : filter[k] = FromString(texts[k])
  BY FilterIs
<1>3. \A k \in DOMAIN texts : IsRange(texts[k])
  OBVIOUS
<1> HIDE DEF texts, filter
<1>4. ASSUME NEW k \in DOMAIN texts PROVE Compare(filter[k], s) = 0 <=> Covers(texts[k], s)
  <2>1. texts[k] \in Seq(Symbols) /\ IsRange(texts[k])
    BY <1>1, <1>3
  <2>2. Compare(FromString(texts[k]), s) = 0 <=> Covers(texts[k], s)
    BY <2>1, RangeIs
  <2> QED  BY <2>2, <1>2
<1>5. filter = <<>> <=> texts = <<>>
  BY <1>1, <1>2
<1>6. Matches(filter, s) <=> texts = <<>> \/ \E k \in DOMAIN texts : Covers(texts[k], s)
  BY <1>2, <1>4, <1>5 DEF Matches
<1> QED
  BY <1>1, <1>6 DEF filter

\* Something lies in a range that is accepted.
LEMMA RangeHasNumbers ==
  ASSUME NEW text \in Seq(Symbols), IsRange(text), AcceptsRange(FromString(text))
  PROVE  \E s \in 0 .. IntMax : Compare(FromString(text), s) = 0
<1> DEFINE range == FromString(text)
<1>1. /\ range \in RangeSet
      /\ range.hasLowerBound => range.lowerBoundValue \in 0 .. IntMax
      /\ range.hasUpperBound => range.upperBoundValue \in 0 .. IntMax
      /\ range.hasLowerBound /\ range.hasUpperBound => range.lowerBoundValue <= range.upperBoundValue
  BY RangeIs DEF AcceptsRange
<1>2. IntMax \in Nat
  BY NumbersAssumption
<1> HIDE DEF range
<1>3. CASE range.hasLowerBound
  <2>1. range.lowerBoundValue \in 0 .. IntMax
    BY <1>1, <1>3
  <2>2. range.hasUpperBound => range.lowerBoundValue <= range.upperBoundValue
    BY <1>1, <1>3
  <2>3. Compare(range, range.lowerBoundValue) = 0
    BY <1>1, <2>1, <2>2, CompareIs
  <2> QED  BY <2>1, <2>3 DEF range
<1>4. CASE ~range.hasLowerBound
  <2>1. range.hasUpperBound => 0 <= range.upperBoundValue
    BY <1>1
  <2>2. Compare(range, 0) = 0
    BY <1>1, <1>4, <2>1, CompareIs
  <2>3. 0 \in 0 .. IntMax
    BY <1>2
  <2> QED  BY <2>2, <2>3 DEF range
<1> QED
  BY <1>3, <1>4

\* The segments that ts-split makes files of are those that the templates name.
LEMMA Filtered ==
  IInv => FiltersAsWritten
<1> SUFFICES ASSUME IInv, outcome = "running" PROVE FiltersAsWritten
  BY DEF FiltersAsWritten
<1> DEFINE n == Len(line.templates)
<1>1. /\ n <= Len(outputTemplates) /\ TemplatesUpTo(n)
      /\ \A i \in n + 1 .. Len(outputTemplates) : outputTemplates[i].filter = <<>>
      /\ outputs = <<>> => outputTemplates # <<>>
  BY DEF IInv, TemplatesRead
<1>2. line.templates \in Seq(Seq(Symbols)) /\ outputTemplates \in Seq(TemplateSet) /\ IntMax \in Nat
  BY LineTypes, NumbersAssumption
<1>3. \A i \in 1 .. Len(outputTemplates) : AcceptsTemplate(outputTemplates[i])
  BY DEF IInv, Ended
<1>4. ASSUME NEW i \in 1 .. n
      PROVE  /\ \A s \in 1 .. IntMax + 1 :
                  Matches(outputTemplates[i].filter, s) <=> Wanted(line.templates[i], s)
             /\ \A k \in DOMAIN outputTemplates[i].filter :
                  \E s \in 0 .. IntMax : Compare(outputTemplates[i].filter[k], s) = 0
  <2> DEFINE text == line.templates[i]
             t == outputTemplates[i]
             value == FilterText(text)
  <2>1. text \in Seq(Symbols) /\ i \in 1 .. Len(outputTemplates)
    BY <1>1, <1>2
  <2>2. t.kind = "segments" /\ \A k \in DOMAIN t.filter : AcceptsRange(t.filter[k])
    BY <1>3, <2>1 DEF AcceptsTemplate
  <2>3. TemplateSoFar(text, Len(text) + 1, t)
    BY <1>1, <1>4 DEF TemplatesUpTo
  <2> HIDE DEF text, t
  <2>4. /\ value \in Seq(Symbols)
        /\ \A k \in DOMAIN RangeTexts(value) : IsRange(RangeTexts(value)[k])
        /\ t.filter = FilterOf(value)
    BY <2>1, <2>2, <2>3, TemplateDone
  <2> HIDE DEF value
  <2>5. ASSUME NEW s \in 1 .. IntMax + 1 PROVE Matches(t.filter, s) <=> Wanted(text, s)
    <3>1. s \in Nat
      BY <1>2
    <3>2. Matches(t.filter, s) <=>
            value = <<>> \/ \E k \in DOMAIN Split(value, Colon) : Covers(Split(value, Colon)[k], s)
      BY <3>1, <2>4, FilterMatches
    <3> QED  BY <3>2 DEF Wanted, value
  <2>6. ASSUME NEW k \in DOMAIN t.filter PROVE \E s \in 0 .. IntMax : Compare(t.filter[k], s) = 0
    <3> DEFINE part == RangeTexts(value)[k]
    <3>1. /\ RangeTexts(value) \in Seq(Seq(Symbols)) /\ k \in DOMAIN RangeTexts(value)
          /\ t.filter[k] = FromString(part)
      BY <2>4, RangeTextsAre, FilterIs
    <3>2. part \in Seq(Symbols) /\ IsRange(part)
      BY <3>1, <2>4
    <3>3. AcceptsRange(FromString(part))
      BY <3>1, <2>2
    <3> HIDE DEF part
    <3> QED  BY <3>1, <3>2, <3>3, RangeHasNumbers
  <2> QED
    BY <2>5, <2>6 DEF text, t
<1>5. ASSUME NEW i \in n + 1 .. Len(outputTemplates), NEW s \in 1 .. IntMax + 1
      PROVE  Matches(outputTemplates[i].filter, s)
  BY <1>1 DEF Matches
<1> QED
  BY <1>1, <1>4, <1>5 DEF FiltersAsWritten

\* Whatever the command line: main() refuses it exactly if it cannot be used, and reads
\* descriptions of output files field by field as the positions of their commas have it.
THEOREM DescriptionsAsWritten ==
  Spec => []ReadAsWritten
<1>1. IInv => ReadAsWritten
  BY AsWritten
<1> QED
  BY <1>1, OptionsInvariant, PTL

\* Whatever the command line: the filters of the templates that run match exactly the
\* segments their descriptions name, and no range of them is empty.
THEOREM TemplatesAsWritten ==
  Spec => []FiltersAsWritten
<1>1. IInv => FiltersAsWritten
  BY Filtered
<1> QED
  BY <1>1, OptionsInvariant, PTL
=============================================================================

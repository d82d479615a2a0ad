--------------------------- MODULE TsReaderProofs ---------------------------
(***************************************************************************)
(* What the reader emits, for any tape, packet sizes and chunks: detection *)
(* and resync drop bytes and make bytes up, but no byte is emitted twice   *)
(* or out of its place.  Of a regular stream it emits the packets, and at  *)
(* the end of it holds none back but where sync bytes are missing.         *)
(***************************************************************************)
EXTENDS TsReader, SequenceTheorems, FiniteSetTheorems, TLAPS

\* Of two bytes in w the one behind comes later on the tape, or is made up.
Rising(w) == \A i, j \in DOMAIN w : i < j => w[j] = 0 \/ w[i] < w[j]

\* So do the bytes of w, compared with those of v.
Before(v, w) == \A i \in DOMAIN v, j \in DOMAIN w : w[j] = 0 \/ v[i] < w[j]

\* BytesInOrder compares neighbours; what keeps it true is that everything
\* emitted is before everything that is still in the buffer.
Ordered ==
    /\ Rising(buf)
    /\ \A e \in DOMAIN emitted :
         emitted[e] # <<>> /\ Rising(emitted[e]) /\ Before(emitted[e], buf)
    /\ \A e, f \in DOMAIN emitted : e < f => Before(emitted[e], emitted[f])

IInv == TypeOK /\ Ordered

-----------------------------------------------------------------------------
\* The sizes are such that there is always a byte to a packet.
LEMMA Sizes ==
    /\ Basic \in Nat /\ Basic > 0 /\ Prefix \in Nat
    /\ \A s \in Nat : Effective(s) \in Nat /\ Effective(s) > 0
    /\ \A s : PrefixOf(s) \in {0, Prefix}
  BY SizeAssumption DEF Effective, PrefixOf

\* A candidate is a prefix and a packet size.
LEMMA Candidates ==
    ASSUME NEW i \in DOMAIN Candidate
    PROVE  Candidate[i][1] \in {0, Prefix} /\ Candidate[i][2] \in Nat
  <1> DEFINE n == Len(Suffixes)
  <1>1. n \in Nat /\ \A j \in 1 .. n : Suffixes[j] \in Nat
    BY SizeAssumption
  <1>2. Candidate = [j \in 1 .. 2 * n |->
                       IF j <= n THEN <<0, Basic + Suffixes[j]>>
                       ELSE <<Prefix, Prefix + Basic + Suffixes[j - n]>>]
    BY DEF Candidate
  <1> HIDE DEF n
  <1>3. i \in 1 .. 2 * n
    BY <1>2
  <1>4. CASE i <= n
    <2>1. Candidate[i] = <<0, Basic + Suffixes[i]>> /\ Suffixes[i] \in Nat
      BY <1>1, <1>2, <1>3, <1>4
    <2> QED BY <2>1, Sizes
  <1>5. CASE i > n
    <2>1. i - n \in 1 .. n
      BY <1>1, <1>3, <1>5
    <2>2. Candidate[i] = <<Prefix, Prefix + Basic + Suffixes[i - n]>> /\ Suffixes[i - n] \in Nat
      BY <1>1, <1>2, <1>3, <1>5, <2>1
    <2> QED BY <2>2, Sizes
  <1> QED BY <1>1, <1>3, <1>4, <1>5

\* What is missing to the next full packet is a number of bytes.
LEMMA MissingType ==
    ASSUME TypeOK
    PROVE  Missing \in Nat
  <1> DEFINE l == Len(buf)
             s == Effective(packetSize)
             q == l \div s
  <1>1. l \in Nat /\ s \in Nat /\ s > 0
    <2>1. packetSize \in Nat /\ buf \in Seq(0 .. taken)
      BY Zenon DEF TypeOK
    <2>2. s \in Nat /\ s > 0
      BY <2>1, Sizes
    <2> QED BY <2>1, <2>2
  <1>2. Missing = (q + 1) * s - l
    BY DEF Missing
  <1> HIDE DEF l, s
  <1>3. q \in Nat /\ l < (q + 1) * s
    BY <1>1, SMTT(20)
  <1> HIDE DEF q
  <1>4. (q + 1) * s \in Nat
    BY <1>1, <1>3
  <1> QED BY <1>1, <1>2, <1>3, <1>4

\* Bytes that are read come behind all others.
LEMMA TakeRises ==
    ASSUME NEW t \in Nat, NEW n \in Nat, NEW w \in Seq(0 .. t)
    PROVE  LET more == w \o [i \in 1 .. n |-> t + i]
           IN  /\ more \in Seq(0 .. t + n)
               /\ Rising(w) => Rising(more)
               /\ \A v \in Seq(0 .. t) : Before(v, w) => Before(v, more)
  <1> DEFINE r == [i \in 1 .. n |-> t + i]
             more == w \o r
             l == Len(w)
  <1>1. /\ r \in Seq(0 .. t + n) /\ Len(r) = n /\ DOMAIN r = 1 .. n
        /\ \A i \in 1 .. n : r[i] = t + i
    OBVIOUS
  <1>2. w \in Seq(0 .. t + n) /\ l \in Nat /\ DOMAIN w = 1 .. l
    OBVIOUS
  <1>3. \A i \in 1 .. l : w[i] \in 0 .. t
    OBVIOUS
  <1> HIDE DEF r, l
  <1>4. /\ more \in Seq(0 .. t + n) /\ DOMAIN more = 1 .. l + n
        /\ \A i \in 1 .. l : more[i] = w[i]
        /\ \A i \in l + 1 .. l + n : more[i] = t + (i - l)
    <2>1. more \in Seq(0 .. t + n) /\ Len(more) = l + n
      BY <1>1, <1>2, ConcatProperties DEF l
    <2>2. \A i \in 1 .. l + n : more[i] = IF i <= l THEN w[i] ELSE r[i - l]
      BY <1>1, <1>2, ConcatProperties DEF l
    <2>3. DOMAIN more = 1 .. l + n
      BY <2>1
    <2>4. \A i \in 1 .. l : more[i] = w[i]
      BY <1>2, <2>2
    <2>5. ASSUME NEW i \in l + 1 .. l + n
          PROVE  more[i] = t + (i - l)
      <3>1. i \in 1 .. l + n /\ ~(i <= l) /\ i - l \in 1 .. n
        BY <1>2
      <3> QED BY <1>1, <2>2, <3>1
    <2> QED BY <2>1, <2>3, <2>4, <2>5
  <1> HIDE DEF more
  <1>5. ASSUME Rising(w)
        PROVE  Rising(more)
    <2> SUFFICES ASSUME NEW i \in 1 .. l + n, NEW j \in 1 .. l + n, i < j
                 PROVE  more[j] = 0 \/ more[i] < more[j]
      BY <1>4 DEF Rising
    <2>1. CASE j <= l
      <3>1. i \in DOMAIN w /\ j \in DOMAIN w /\ more[i] = w[i] /\ more[j] = w[j]
        BY <1>2, <1>4, <2>1
      <3> QED BY <1>5, <3>1, Zenon DEF Rising
    <2>2. CASE j > l
      <3>1. more[j] = t + (j - l) /\ j - l > 0
        BY <1>2, <1>4, <2>2
      <3>2. CASE i <= l
        BY <1>2, <1>3, <1>4, <3>1, <3>2
      <3>3. CASE i > l
        BY <1>2, <1>4, <3>1, <3>3
      <3> QED BY <1>2, <3>2, <3>3
    <2> QED BY <1>2, <2>1, <2>2
  <1>6. ASSUME NEW v \in Seq(0 .. t), Before(v, w)
        PROVE  Before(v, more)
    <2> SUFFICES ASSUME NEW i \in DOMAIN v, NEW j \in 1 .. l + n
                 PROVE  more[j] = 0 \/ v[i] < more[j]
      BY <1>4 DEF Before
    <2>1. v[i] \in 0 .. t
      OBVIOUS
    <2>2. CASE j <= l
      <3>1. j \in DOMAIN w /\ more[j] = w[j]
        BY <1>2, <1>4, <2>2
      <3> QED BY <1>6, <3>1, Zenon DEF Before
    <2>3. CASE j > l
      BY <1>2, <1>4, <2>1, <2>3
    <2> QED BY <1>2, <2>2, <2>3
  <1> QED BY <1>4, <1>5, <1>6 DEF more, r

\* What is left of a sequence when bytes are dropped, and what is cut off.
LEMMA CutRises ==
    ASSUME NEW t \in Nat, NEW w \in Seq(0 .. t), NEW n \in 0 .. Len(w)
    PROVE  LET left == SubSeq(w, n + 1, Len(w))
               cut  == SubSeq(w, 1, n)
           IN  /\ left \in Seq(0 .. t) /\ cut \in Seq(0 .. t)
               /\ n > 0 => cut # <<>>
               /\ Rising(w) => Rising(left) /\ Rising(cut) /\ Before(cut, left)
               /\ \A v \in Seq(0 .. t) : Before(v, w) => Before(v, left) /\ Before(v, cut)
  <1> DEFINE left == SubSeq(w, n + 1, Len(w))
             cut  == SubSeq(w, 1, n)
             l    == Len(w)
  <1>1. l \in Nat /\ n \in Nat /\ n <= l /\ DOMAIN w = 1 .. l
    OBVIOUS
  <1>2. /\ left \in Seq(0 .. t) /\ DOMAIN left = 1 .. l - n
        /\ \A i \in 1 .. l - n : left[i] = w[n + i] /\ n + i \in 1 .. l
    <2>1. n + 1 \in 1 .. l + 1 /\ l \in n .. l
      BY <1>1
    <2>2. left \in Seq(0 .. t) /\ Len(left) = l - n
      BY <2>1, SubSeqProperties
    <2>3. \A i \in 1 .. l - n : left[i] = w[n + 1 + i - 1]
      BY <2>1, SubSeqProperties
    <2>4. DOMAIN left = 1 .. l - n
      BY <2>2
    <2>5. ASSUME NEW i \in 1 .. l - n
          PROVE  left[i] = w[n + i] /\ n + i \in 1 .. l
      <3>1. n + 1 + i - 1 = n + i /\ n + i \in 1 .. l
        BY <1>1
      <3> QED BY <2>3, <3>1
    <2> QED BY <2>2, <2>4, <2>5
  <1>3. /\ cut \in Seq(0 .. t) /\ DOMAIN cut = 1 .. n
        /\ \A i \in 1 .. n : cut[i] = w[i] /\ i \in 1 .. l
    <2>1. n \in 1 - 1 .. l /\ 1 \in 1 .. l + 1
      BY <1>1
    <2>2. cut \in Seq(0 .. t) /\ Len(cut) = n
      BY <2>1, SubSeqProperties
    <2>3. \A i \in 1 .. n : cut[i] = w[1 + i - 1]
      BY <2>1, SubSeqProperties
    <2>4. DOMAIN cut = 1 .. n
      BY <2>2
    <2>5. ASSUME NEW i \in 1 .. n
          PROVE  cut[i] = w[i] /\ i \in 1 .. l
      <3>1. 1 + i - 1 = i /\ i \in 1 .. l
        BY <1>1
      <3> QED BY <2>3, <3>1
    <2> QED BY <2>2, <2>4, <2>5
  <1> HIDE DEF left, cut, l
  <1>4. ASSUME Rising(w)
        PROVE  Rising(left) /\ Rising(cut) /\ Before(cut, left)
    <2>1. Rising(left)
      <3> SUFFICES ASSUME NEW i \in 1 .. l - n, NEW j \in 1 .. l - n, i < j
                   PROVE  left[j] = 0 \/ left[i] < left[j]
        BY <1>2, Zenon DEF Rising
      <3>1. n + i < n + j
        BY <1>1
      <3> QED BY <1>1, <1>2, <1>4, <3>1, Zenon DEF Rising
    <2>2. Rising(cut)
      <3> SUFFICES ASSUME NEW i \in 1 .. n, NEW j \in 1 .. n, i < j
                   PROVE  cut[j] = 0 \/ cut[i] < cut[j]
        BY <1>3, Zenon DEF Rising
      <3> QED BY <1>1, <1>3, <1>4, Zenon DEF Rising
    <2>3. Before(cut, left)
      <3> SUFFICES ASSUME NEW i \in 1 .. n, NEW j \in 1 .. l - n
                   PROVE  left[j] = 0 \/ cut[i] < left[j]
        BY <1>2, <1>3, Zenon DEF Before
      <3>1. i < n + j
        BY <1>1
      <3> QED BY <1>1, <1>2, <1>3, <1>4, <3>1, Zenon DEF Rising
    <2> QED BY <2>1, <2>2, <2>3
  <1>5. ASSUME NEW v \in Seq(0 .. t), Before(v, w)
        PROVE  Before(v, left) /\ Before(v, cut)
    BY <1>1, <1>2, <1>3, <1>5 DEF Before
  <1>6. n > 0 => cut # <<>>
    BY <1>1, <1>3
  <1> QED BY <1>2, <1>3, <1>4, <1>5, <1>6 DEF left, cut, l

\* Bytes made up in front of others.
LEMMA FillRises ==
    ASSUME NEW t \in Nat, NEW n \in Nat, NEW w \in Seq(0 .. t)
    PROVE  LET more == [i \in 1 .. n |-> 0] \o w
           IN  /\ more \in Seq(0 .. t)
               /\ Rising(w) => Rising(more)
               /\ \A v \in Seq(0 .. t) : Before(v, w) => Before(v, more)
  <1> DEFINE z == [i \in 1 .. n |-> 0]
             more == z \o w
             l == Len(w)
  <1>1. /\ z \in Seq(0 .. t) /\ Len(z) = n /\ \A i \in 1 .. n : z[i] = 0
        /\ l \in Nat /\ DOMAIN w = 1 .. l /\ \A i \in 1 .. l : w[i] \in 0 .. t
    OBVIOUS
  <1> HIDE DEF z
  <1>2. /\ more \in Seq(0 .. t) /\ Len(more) = n + l
        /\ \A i \in 1 .. n + l : more[i] = IF i <= n THEN z[i] ELSE w[i - n]
    BY <1>1, ConcatProperties
  <1> HIDE DEF l, more
  <1>3. DOMAIN more = 1 .. n + l
    BY <1>2
  <1>4. \A i \in 1 .. n + l :
          \/ more[i] = 0 /\ i <= n
          \/ i > n /\ i - n \in 1 .. l /\ more[i] = w[i - n] /\ w[i - n] \in 0 .. t
    BY <1>1, <1>2
  <1>5. ASSUME Rising(w)
        PROVE  Rising(more)
    <2> SUFFICES ASSUME NEW i \in 1 .. n + l, NEW j \in 1 .. n + l, i < j, more[j] # 0
                 PROVE  more[i] < more[j]
      BY <1>3 DEF Rising
    <2>1. j > n /\ j - n \in 1 .. l /\ more[j] = w[j - n] /\ w[j - n] \in 0 .. t
      BY <1>4
    <2>2. CASE i <= n
      BY <1>4, <2>1, <2>2
    <2>3. CASE i > n
      <3>1. i - n \in 1 .. l /\ more[i] = w[i - n] /\ i - n < j - n
        BY <1>4, <2>1, <2>3
      <3> QED BY <1>1, <1>5, <2>1, <3>1 DEF Rising
    <2> QED BY <2>2, <2>3
  <1>6. ASSUME NEW v \in Seq(0 .. t), Before(v, w)
        PROVE  Before(v, more)
    BY <1>1, <1>3, <1>4, <1>6 DEF Before
  <1> QED BY <1>2, <1>5, <1>6 DEF more, z

-----------------------------------------------------------------------------
\* Types and order of the bytes read.
BytesOK ==
    /\ taken \in 0 .. Len(tape.sync)
    /\ buf \in Seq(0 .. taken)
    /\ emitted \in Seq(Seq(0 .. taken))
    /\ Ordered

\* A sequence's elements are a set's.
LEMMA EmittedType ==
    ASSUME BytesOK, TypeOK
    PROVE  /\ taken \in Nat /\ Len(tape.sync) \in Nat
           /\ emitted \in Seq(Seq(0 .. taken))
           /\ \A e \in DOMAIN emitted : emitted[e] \in Seq(0 .. taken)
  <1>1. Len(tape.sync) \in Nat
    <2>1. tape \in Tape
      BY TapesAssumption, Zenon DEF TypeOK
    <2>2. tape.sync \in Seq(BOOLEAN)
      BY <2>1, Zenon DEF Tape
    <2> QED BY <2>2
  <1>2. emitted \in Seq(Seq(0 .. taken)) /\ taken \in 0 .. Len(tape.sync)
    BY Zenon DEF BytesOK
  <1> QED BY <1>1, <1>2, ElementOfSeq

\* Reading keeps the order.
LEMMA TakeKeeps ==
    ASSUME TypeOK, BytesOK, NEW n \in Nat, taken + n <= Len(tape.sync), Take(n)
    PROVE  BytesOK'
  <1>1. /\ buf' = buf \o [i \in 1 .. n |-> taken + i] /\ taken' = taken + n
        /\ tape' = tape /\ emitted' = emitted
    BY DEF Take
  <1>2. /\ taken \in Nat /\ Len(tape.sync) \in Nat /\ buf \in Seq(0 .. taken)
        /\ emitted \in Seq(Seq(0 .. taken))
        /\ \A e \in DOMAIN emitted : emitted[e] \in Seq(0 .. taken)
    BY EmittedType, Zenon DEF BytesOK
  <1>3. taken' \in 0 .. Len(tape'.sync)
    BY <1>1, <1>2
  <1>4. /\ buf' \in Seq(0 .. taken')
        /\ Rising(buf) => Rising(buf')
        /\ \A v \in Seq(0 .. taken) : Before(v, buf) => Before(v, buf')
    BY <1>1, <1>2, TakeRises, Zenon
  <1>5. emitted' \in Seq(Seq(0 .. taken'))
    <2>1. 0 .. taken \subseteq 0 .. taken'
      BY <1>1, <1>2
    <2>3. Seq(0 .. taken) \subseteq Seq(0 .. taken')
      BY <2>1, SeqMonotonic, Zenon
    <2> DEFINE S == Seq(0 .. taken)
               T == Seq(0 .. taken')
    <2>4. S \subseteq T /\ emitted \in Seq(S)
      BY <1>2, <2>3
    <2> HIDE DEF S, T
    <2>5. emitted \in Seq(T)
      BY <2>4
    <2> QED BY <1>1, <2>5, Zenon DEF T
  <1>6. Ordered'
    BY <1>1, <1>2, <1>4, Zenon DEF BytesOK, Ordered
  <1> QED BY <1>3, <1>4, <1>5, <1>6, Zenon DEF BytesOK

\* Resync keeps the order, whether it drops bytes or makes them up.
LEMMA ResyncKeeps ==
    ASSUME TypeOK, BytesOK, NEW n \in Nat, UNCHANGED <<tape, taken, emitted>>,
           \/ n <= Len(buf) /\ buf' = Drop(n)
           \/ buf' = [i \in 1 .. n |-> 0] \o buf
    PROVE  BytesOK'
  <1>1. /\ taken \in Nat /\ buf \in Seq(0 .. taken)
        /\ \A e \in DOMAIN emitted : emitted[e] \in Seq(0 .. taken)
    BY EmittedType, Zenon DEF BytesOK
  <1>2. /\ buf' \in Seq(0 .. taken)
        /\ Rising(buf) => Rising(buf')
        /\ \A v \in Seq(0 .. taken) : Before(v, buf) => Before(v, buf')
    <2>1. CASE n <= Len(buf) /\ buf' = Drop(n)
      <3>1. n \in 0 .. Len(buf)
        BY <1>1, <2>1
      <3>2. buf' = SubSeq(buf, n + 1, Len(buf))
        BY <2>1, Zenon DEF Drop
      <3> QED BY <1>1, <3>1, <3>2, CutRises, Zenon
    <2>2. CASE buf' = [i \in 1 .. n |-> 0] \o buf
      BY <1>1, <2>2, FillRises, Zenon
    <2> QED BY <2>1, <2>2
  <1>3. Ordered'
    BY <1>1, <1>2, Zenon DEF BytesOK, Ordered
  <1> QED BY <1>2, <1>3, Zenon DEF BytesOK

\* A packet is emitted behind the others, and what is left is behind it.
LEMMA EmitKeeps ==
    ASSUME TypeOK, BytesOK, NEW s \in Nat, s > 0, s <= Len(buf), Emit(s),
           UNCHANGED <<tape, taken>>
    PROVE  BytesOK'
  <1> DEFINE cut == SubSeq(buf, 1, s)
             n   == Len(emitted)
  <1>1. /\ taken \in Nat /\ buf \in Seq(0 .. taken)
        /\ emitted \in Seq(Seq(0 .. taken))
        /\ \A e \in DOMAIN emitted : emitted[e] \in Seq(0 .. taken)
    BY EmittedType, Zenon DEF BytesOK
  <1>2. /\ buf' \in Seq(0 .. taken) /\ cut \in Seq(0 .. taken) /\ cut # <<>>
        /\ Rising(buf) => Rising(buf') /\ Rising(cut) /\ Before(cut, buf')
        /\ \A v \in Seq(0 .. taken) : Before(v, buf) => Before(v, buf') /\ Before(v, cut)
    <2>1. s \in 0 .. Len(buf)
      BY <1>1
    <2>2. buf' = SubSeq(buf, s + 1, Len(buf))
      BY Zenon DEF Emit, Drop
    <2> QED BY <1>1, <2>1, <2>2, CutRises, Zenon
  <1>3. emitted' = Append(emitted, cut)
    BY DEF Emit
  <1> HIDE DEF cut
  <1> DEFINE S == Seq(0 .. taken)
  <1>4. emitted \in Seq(S) /\ cut \in S
    BY <1>1, <1>2, Zenon
  <1> HIDE DEF S
  <1>5. /\ emitted' \in Seq(S) /\ n \in Nat
        /\ DOMAIN emitted = 1 .. n /\ DOMAIN emitted' = 1 .. n + 1
        /\ \A e \in 1 .. n : emitted'[e] = emitted[e]
        /\ emitted'[n + 1] = cut
    BY <1>3, <1>4
  <1> HIDE DEF n
  <1>6. /\ Rising(buf') /\ Rising(cut) /\ Before(cut, buf')
        /\ \A e \in DOMAIN emitted :
             /\ emitted[e] # <<>> /\ Rising(emitted[e])
             /\ Before(emitted[e], buf') /\ Before(emitted[e], cut)
        /\ \A e, f \in DOMAIN emitted : e < f => Before(emitted[e], emitted[f])
    BY <1>1, <1>2, Zenon DEF BytesOK, Ordered
  <1>7. \A e \in 1 .. n + 1 : e \in 1 .. n \/ e = n + 1
    BY <1>5
  <1>8. ASSUME NEW e \in DOMAIN emitted'
        PROVE  emitted'[e] # <<>> /\ Rising(emitted'[e]) /\ Before(emitted'[e], buf')
    <2>1. CASE e \in 1 .. n
      BY <1>5, <1>6, <2>1, Zenon
    <2>2. CASE e = n + 1
      BY <1>2, <1>5, <1>6, <2>2, Zenon
    <2> QED BY <1>5, <1>7, <2>1, <2>2, Zenon
  <1>9. ASSUME NEW e \in DOMAIN emitted', NEW f \in DOMAIN emitted', e < f
        PROVE  Before(emitted'[e], emitted'[f])
    <2>1. e \in 1 .. n
      BY <1>5, <1>9
    <2>2. CASE f \in 1 .. n
      BY <1>5, <1>6, <1>9, <2>1, <2>2, Zenon
    <2>3. CASE f = n + 1
      BY <1>5, <1>6, <2>1, <2>3, Zenon
    <2> QED BY <1>5, <1>7, <2>2, <2>3, Zenon
  <1>10. Ordered'
    BY <1>6, <1>8, <1>9, Zenon DEF Ordered
  <1> QED BY <1>2, <1>5, <1>10, Zenon DEF BytesOK, S

-----------------------------------------------------------------------------
\* Types of what is not bytes.
ControlOK ==
    /\ tape \in Tapes
    /\ autosize \in BOOLEAN
    /\ packetSize \in Nat
    /\ size \in Nat /\ prefix \in {0, Prefix}
    /\ pc \in {"idle", "read", "check", "drain", "eof", "failed"}

LEMMA InvariantParts ==
    /\ IInv <=> ControlOK /\ BytesOK
    /\ ControlOK' /\ BytesOK' => IInv'
  BY Zenon DEF IInv, TypeOK, ControlOK, BytesOK

\* A call of checkIsReady begins with a packet size of its own.
LEMMA EnterCheckType ==
    ASSUME NEW s \in Nat, EnterCheck(s)
    PROVE  size' \in Nat /\ prefix' \in {0, Prefix} /\ pc' = "check"
  BY Sizes DEF EnterCheck

\* The reader begins with nothing read.
LEMMA InitInvariant == Init => IInv
  <1> SUFFICES ASSUME Init PROVE IInv
    OBVIOUS
  <1>1. ControlOK
    <2>1. packetSize \in Nat
      BY SizeAssumption DEF Init
    <2>2. (packetSize = 0) \in BOOLEAN /\ tape \in Tapes
      BY DEF Init
    <2>3. size \in Nat /\ prefix \in {0, Prefix}
      BY Sizes DEF Init
    <2>4. autosize = (packetSize = 0) /\ pc = "idle"
      BY Zenon DEF Init
    <2>5. "idle" \in {"idle", "read", "check", "drain", "eof", "failed"}
      OBVIOUS
    <2> QED BY <2>1, <2>2, <2>3, <2>4, <2>5, Zenon DEF ControlOK
  <1>2. BytesOK
    <2>1. Len(tape.sync) \in Nat
      <3>1. tape \in Tape
        BY <1>1, TapesAssumption, Zenon DEF ControlOK
      <3>2. tape.sync \in Seq(BOOLEAN)
        BY <3>1, Zenon DEF Tape
      <3> QED BY <3>2
    <2>2. taken = 0 /\ buf = <<>> /\ emitted = <<>>
      BY DEF Init
    <2> QED BY <2>1, <2>2 DEF BytesOK, Ordered, Rising
  <1> QED BY <1>1, <1>2, InvariantParts

-----------------------------------------------------------------------------
\* Steps that take no bytes and emit none.
LEMMA ControlStep ==
    ASSUME IInv, UNCHANGED <<tape, taken, buf, emitted>>, ControlOK'
    PROVE  IInv'
  <1>1. BytesOK'
    BY InvariantParts, Zenon DEF BytesOK, Ordered
  <1> QED BY <1>1, InvariantParts

\* Every step keeps the invariant.
LEMMA StepInvariant == IInv /\ [Next]_vars => IInv'
  <1> SUFFICES ASSUME IInv, [Next]_vars PROVE IInv'
    OBVIOUS
  <1> DEFINE Pcs == {"idle", "read", "check", "drain", "eof", "failed"}
  <1>1. /\ TypeOK /\ BytesOK /\ ControlOK
        /\ tape \in Tapes /\ autosize \in BOOLEAN /\ packetSize \in Nat
        /\ size \in Nat /\ prefix \in {0, Prefix} /\ pc \in Pcs
    BY InvariantParts, Zenon DEF IInv, ControlOK
  <1>2. \A s \in {"idle", "read", "check", "drain", "eof", "failed"} : s \in Pcs
    OBVIOUS
  <1> HIDE DEF Pcs
  <1>3. ASSUME tape' = tape, autosize' = autosize, packetSize' \in Nat, size' \in Nat,
               prefix' \in {0, Prefix}, pc' \in Pcs
        PROVE  ControlOK'
    BY <1>1, <1>3, Zenon DEF ControlOK, Pcs
  <1>4. CASE Activated \/ ReadEnds \/ RunsOut \/ KeepsSize \/ DetectLater
    <2>1. /\ UNCHANGED <<tape, taken, buf, emitted, autosize, size, prefix>>
          /\ packetSize' = packetSize \/ packetSize' = 0
      BY <1>4, Zenon DEF Activated, ReadEnds, RunsOut, KeepsSize, DetectLater
    <2>2. pc' \in Pcs
      BY <1>4 DEF Activated, ReadEnds, RunsOut, KeepsSize, DetectLater, Pcs
    <2>3. packetSize' \in Nat
      BY <1>1, <2>1
    <2> QED BY <1>1, <1>3, <2>1, <2>2, <2>3, ControlStep, Zenon
  <1>5. CASE DetectWinner
    <2>1. PICK i \in DOMAIN Candidate :
            /\ packetSize' = Candidate[i][2] /\ size' = Candidate[i][2]
            /\ prefix' = Candidate[i][1]
      BY <1>5, Zenon DEF DetectWinner
    <2>2. packetSize' \in Nat /\ size' \in Nat /\ prefix' \in {0, Prefix}
      BY <2>1, Candidates
    <2>3. pc' = "drain" \/ pc' = "failed"
      BY <1>5, Zenon DEF DetectWinner
    <2>4. pc' \in Pcs
      BY <2>3 DEF Pcs
    <2>5. UNCHANGED <<tape, autosize, taken, buf, emitted>>
      BY <1>5, Zenon DEF DetectWinner
    <2> QED BY <1>3, <2>2, <2>4, <2>5, ControlStep, Zenon
  <1>6. ASSUME NeedsResync
        PROVE  packetSize' \in Nat /\ size' \in Nat /\ prefix' \in {0, Prefix}
    <2>1. CASE FailedDetection
      <3>1. PICK i \in DOMAIN Candidate :
              \/ size' = Candidate[i][2] /\ prefix' = Candidate[i][1]
              \/ size' = size /\ prefix' = prefix
        BY <2>1, Zenon DEF FailedDetection
      <3>2. packetSize' = 0
        BY <2>1, Zenon DEF FailedDetection
      <3> QED BY <1>1, <3>1, <3>2, Candidates
    <2>2. CASE UNCHANGED <<packetSize, size, prefix>>
      BY <1>1, <2>2
    <2> QED BY <1>6, <2>1, <2>2, Zenon DEF NeedsResync
  <1>7. CASE ResyncGivesUp
    <2>1. /\ NeedsResync /\ pc' = "drain"
          /\ UNCHANGED <<tape, autosize, taken, buf, emitted>>
      BY <1>7, Zenon DEF ResyncGivesUp
    <2> QED BY <1>2, <1>3, <1>6, <2>1, ControlStep, Zenon
  <1>8. CASE ResyncDrops
    <2>1. NeedsResync /\ UNCHANGED <<tape, autosize, taken, emitted, pc>>
      BY <1>8, Zenon DEF ResyncDrops
    <2>2. ControlOK'
      BY <1>1, <1>3, <1>6, <2>1, Zenon
    <2>3. PICK first \in 0 .. Len(buf) - 1 :
            \/ buf' = Drop(first)
            \/ buf' = IF first >= Prefix THEN Drop(first - Prefix)
                      ELSE [i \in 1 .. Prefix - first |-> 0] \o buf
      BY <1>8, Zenon DEF ResyncDrops
    <2>4. Len(buf) \in Nat /\ Prefix \in Nat
      <3>1. buf \in Seq(0 .. taken)
        BY <1>1, Zenon DEF BytesOK
      <3> QED BY <3>1, Sizes
    <2>5. \E n \in Nat : \/ n <= Len(buf) /\ buf' = Drop(n)
                         \/ buf' = [i \in 1 .. n |-> 0] \o buf
      <3>1. CASE buf' = Drop(first)
        <4>1. first \in Nat /\ first <= Len(buf)
          BY <2>4
        <4> QED BY <3>1, <4>1, Zenon
      <3>2. CASE first >= Prefix /\ buf' = Drop(first - Prefix)
        <4>1. first - Prefix \in Nat /\ first - Prefix <= Len(buf)
          BY <2>4, <3>2
        <4> QED BY <3>2, <4>1, Zenon
      <3>3. CASE ~(first >= Prefix) /\ buf' = [i \in 1 .. Prefix - first |-> 0] \o buf
        <4>1. Prefix - first \in Nat
          BY <2>4, <3>3
        <4> QED BY <3>3, <4>1, Zenon
      <3> QED BY <2>3, <3>1, <3>2, <3>3, Zenon
    <2>6. BytesOK'
      BY <1>1, <2>1, <2>5, ResyncKeeps, Zenon
    <2> QED BY <2>2, <2>6, InvariantParts
  <1>9. CASE ReadFull
    <2>1. /\ taken + Missing <= Len(tape.sync) /\ Take(Missing) /\ EnterCheck(packetSize)
      BY <1>9, Zenon DEF ReadFull
    <2>2. BytesOK'
      BY <1>1, <2>1, MissingType, TakeKeeps, Zenon
    <2>3. UNCHANGED <<tape, autosize, packetSize>>
      BY <2>1, Zenon DEF Take
    <2>4. size' \in Nat /\ prefix' \in {0, Prefix} /\ pc' = "check"
      BY <1>1, <2>1, EnterCheckType, Zenon
    <2> QED BY <1>1, <1>2, <1>3, <2>2, <2>3, <2>4, InvariantParts, Zenon
  <1>10. CASE ReadShort
    <2>1. PICK n \in 1 .. Missing - 1 : taken + n <= Len(tape.sync) /\ Take(n)
      BY <1>10, Zenon DEF ReadShort
    <2>2. n \in Nat
      BY <1>1, MissingType
    <2>3. BytesOK'
      BY <1>1, <2>1, <2>2, TakeKeeps, Zenon
    <2>4. UNCHANGED <<tape, autosize, packetSize, size, prefix>> /\ pc' = "idle"
      BY <1>10, <2>1, Zenon DEF ReadShort, Take
    <2> QED BY <1>1, <1>2, <1>3, <2>3, <2>4, InvariantParts, Zenon
  <1>11. CASE Drain
    <2> DEFINE s == Effective(packetSize)
    <2>1. s \in Nat /\ s > 0
      BY <1>1, Sizes
    <2>2. UNCHANGED <<tape, autosize, taken, packetSize>>
      BY <1>11, Zenon DEF Drain
    <2>3. CASE Len(buf) < s
      <3>1. pc' = "read" /\ UNCHANGED <<buf, size, prefix, emitted>>
        BY <1>11, <2>3, Zenon DEF Drain
      <3> QED BY <1>1, <1>2, <1>3, <2>2, <3>1, ControlStep, Zenon
    <2>4. CASE ~(Len(buf) < s)
      <3>1. Emit(s) /\ EnterCheck(packetSize)
        BY <1>11, <2>4, Zenon DEF Drain
      <3>2. s <= Len(buf)
        <4>1. buf \in Seq(0 .. taken)
          BY <1>1, Zenon DEF BytesOK
        <4> HIDE DEF s
        <4> QED BY <2>1, <2>4, <4>1
      <3>3. BytesOK'
        BY <1>1, <2>1, <2>2, <3>1, <3>2, EmitKeeps, Zenon
      <3>4. size' \in Nat /\ prefix' \in {0, Prefix} /\ pc' = "check"
        BY <1>1, <3>1, EnterCheckType, Zenon
      <3> QED BY <1>1, <1>2, <1>3, <2>2, <3>3, <3>4, InvariantParts, Zenon
    <2> QED BY <2>3, <2>4
  <1>12. CASE UNCHANGED vars
    <2>1. UNCHANGED <<tape, taken, buf, emitted, autosize, size, prefix, packetSize, pc>>
      BY <1>12, Zenon DEF vars
    <2> QED BY <1>1, <1>3, <2>1, ControlStep, Zenon
  <1> QED BY <1>4, <1>5, <1>7, <1>8, <1>9, <1>10, <1>11, <1>12, Zenon DEF Next, Step

-----------------------------------------------------------------------------
THEOREM Invariant == Spec => []IInv
  BY InitInvariant, StepInvariant, PTL DEF Spec

\* For any tape and any sizes every variable keeps its type.
THEOREM TypeCorrect == Spec => []TypeOK
  <1>1. IInv => TypeOK
    BY DEF IInv
  <1> QED BY <1>1, Invariant, PTL

\* Whatever detection and resync do to the buffer, no byte is emitted twice or
\* out of its place (tsreader.cpp:235).
THEOREM EmittedInOrder == Spec => []BytesInOrder
  <1>1. IInv => BytesInOrder
    <2> SUFFICES ASSUME IInv, NEW e \in DOMAIN emitted
                 PROVE  /\ \A i \in 1 .. Len(emitted[e]) - 1 :
                             emitted[e][i] < emitted[e][i + 1] \/ emitted[e][i + 1] = 0
                        /\ e > 1 => \A i \in DOMAIN emitted[e] :
                             \/ emitted[e][i] > emitted[e - 1][Len(emitted[e - 1])]
                             \/ emitted[e][i] = 0
      BY Zenon DEF BytesInOrder
    <2>1. /\ emitted \in Seq(Seq(0 .. taken)) /\ taken \in Nat
          /\ \A f \in DOMAIN emitted : emitted[f] \in Seq(0 .. taken)
          /\ BytesOK
      BY InvariantParts, EmittedType, Zenon DEF IInv
    <2>2. \A f \in DOMAIN emitted :
            Len(emitted[f]) \in Nat /\ DOMAIN emitted[f] = 1 .. Len(emitted[f])
      BY <2>1, LenProperties, Zenon
    <2>3. ASSUME NEW i \in 1 .. Len(emitted[e]) - 1
          PROVE  emitted[e][i] < emitted[e][i + 1] \/ emitted[e][i + 1] = 0
      <3>1. i \in DOMAIN emitted[e] /\ i + 1 \in DOMAIN emitted[e] /\ i < i + 1
        BY <2>2
      <3>2. Rising(emitted[e])
        BY Zenon DEF IInv, Ordered
      <3> QED BY <3>1, <3>2, Zenon DEF Rising
    <2>4. ASSUME e > 1, NEW i \in DOMAIN emitted[e]
          PROVE  emitted[e][i] > emitted[e - 1][Len(emitted[e - 1])] \/ emitted[e][i] = 0
      <3> DEFINE d == e - 1
                 l == Len(emitted[d])
      <3>1. d \in DOMAIN emitted /\ d < e
        <4>1. DOMAIN emitted = 1 .. Len(emitted) /\ Len(emitted) \in Nat
          BY <2>1, LenProperties
        <4> QED BY <2>4, <4>1
      <3> HIDE DEF d
      <3>2. emitted[d] # <<>> /\ emitted[d] \in Seq(0 .. taken)
        BY <2>1, <3>1, Zenon DEF IInv, Ordered
      <3>3. l \in DOMAIN emitted[d]
        BY <3>2
      <3>4. Before(emitted[d], emitted[e])
        BY <3>1, Zenon DEF IInv, Ordered
      <3> DEFINE x == emitted[d][l]
                 y == emitted[e][i]
      <3>5. y = 0 \/ x < y
        BY <3>3, <3>4, Zenon DEF Before
      <3>6. x \in 0 .. taken /\ y \in 0 .. taken
        BY <2>1, <3>2, <3>3
      <3>7. y > x \/ y = 0
        <4> HIDE DEF x, y
        <4> QED BY <2>1, <3>5, <3>6
      <3> QED BY <3>7, Zenon DEF d
    <2> QED BY <2>3, <2>4
  <1> QED BY <1>1, Invariant, PTL

-----------------------------------------------------------------------------
(***************************************************************************)
(* The packets of a regular stream.                                        *)
(***************************************************************************)

\* The bytes detection looks at, and those that are not in the buffer any more.
Enough == Detect * Basic
Behind == taken - Len(buf)

\* The buffer holds the bytes read last.
Gapless == buf = [b \in 1 .. Len(buf) |-> Behind + b]

\* The size is not known yet.
Searching ==
    /\ packetSize = 0 /\ emitted = <<>>
    /\ Behind \in {0, tape.starts[1]}
    /\ pc \in {"idle", "read"} => Len(buf) < Enough
    /\ pc = "check" => Len(buf) <= Enough /\ size <= Enough
    /\ pc \notin {"drain", "eof"}

\* Of n packets behind the first k, too few have a sync byte.
TooFew(k, n) == 100 * Cardinality({i \in k + 1 .. k + n : HasSync(i)}) < 60 * n

\* The size is known, the first packets have been emitted, the next ones are in the buffer.
Running ==
    LET k == Len(emitted)
        n == Len(buf) \div tape.size
    IN  /\ packetSize = tape.size
        /\ k \in 0 .. Len(tape.starts) /\ Behind = tape.starts[1] + k * tape.size
        /\ \A i \in DOMAIN emitted : emitted[i] = TapePacket(i)
        /\ pc = "check" => size = tape.size /\ prefix = SyncOffset
        /\ pc \in {"check", "drain"} => n <= Limit
        /\ pc \in {"idle", "read", "eof"} => n = 0 \/ TooFew(k, n)
        /\ pc = "eof" => taken = Len(tape.sync)

OnTrack == Gapless /\ (Searching \/ Running)

\* The inductive invariant.
TrackInv == TypeOK /\ (autosize /\ Regular => OnTrack)

\* Where n packets of the stream end.
Base(n) == tape.starts[1] + n * tape.size

\* A number of packets goes into a number of bytes, and no more.
LEMMA Quotient ==
    ASSUME NEW l \in Nat, NEW s \in Nat, s > 0
    PROVE  /\ l \div s \in Nat /\ (l \div s) * s <= l /\ l < (l \div s + 1) * s
           /\ l \div s = 0 <=> l < s
  <1> DEFINE q == l \div s
  <1>1. q \in Nat /\ q * s <= l /\ l < (q + 1) * s
    BY SMTT(20)
  <1> HIDE DEF q
  <1>2. q = 0 <=> l < s
    BY <1>1, SMTT(20)
  <1> QED BY <1>1, <1>2 DEF q

\* More packets take more bytes.
LEMMA TimesRises ==
    ASSUME NEW a \in Nat, NEW b \in Nat, NEW s \in Nat
    PROVE  /\ a * s \in Nat
           /\ a <= b => a * s <= b * s
           /\ s > 0 /\ a * s < b * s => a < b
  BY SMTT(20)

\* How many packets go into bytes between two multiples.
LEMMA QuotientIs ==
    ASSUME NEW l \in Nat, NEW s \in Nat, s > 0, NEW q \in Nat, q * s <= l, l < (q + 1) * s
    PROVE  l \div s = q
  <1> DEFINE r == l \div s
  <1>1. r \in Nat /\ r * s <= l /\ l < (r + 1) * s
    BY Quotient
  <1> HIDE DEF r
  <1>2. q * s \in Nat /\ r * s \in Nat /\ (q + 1) * s \in Nat /\ (r + 1) * s \in Nat
    BY <1>1, TimesRises
  <1>3. q * s < (r + 1) * s /\ r * s < (q + 1) * s
    BY <1>1, <1>2
  <1>4. q < r + 1 /\ r < q + 1
    <2>1. q + 1 \in Nat /\ r + 1 \in Nat
      BY <1>1
    <2> QED BY <1>1, <1>3, <2>1, TimesRises
  <1> QED BY <1>1, <1>4 DEF r

\* What is known of a regular stream.
LEMMA TapeFacts ==
    ASSUME TypeOK, Regular
    PROVE  /\ tape.starts[1] \in Nat /\ tape.size \in Nat
           /\ Basic <= tape.size /\ 0 < tape.size
           /\ Len(tape.starts) \in Nat /\ OnTape = 1 .. Len(tape.starts)
           /\ Len(tape.sync) \in Nat /\ DOMAIN tape.sync = 1 .. Len(tape.sync)
           /\ SyncOffset \in Nat /\ SyncOffset < tape.size
           /\ Effective(tape.size) = tape.size /\ PrefixOf(tape.size) = SyncOffset
           /\ tape.size \in WithSuffix \cup {Basic + Prefix}
  <1>1. tape \in Tape
    BY TapesAssumption, Zenon DEF TypeOK
  <1>2. tape.starts \in Seq(Nat) /\ tape.sync \in Seq(BOOLEAN) /\ tape.size \in Nat
    BY <1>1 DEF Tape
  <1>3. /\ Len(tape.starts) \in Nat /\ OnTape = 1 .. Len(tape.starts)
        /\ Len(tape.sync) \in Nat /\ DOMAIN tape.sync = 1 .. Len(tape.sync)
    BY <1>2, LenProperties DEF OnTape
  <1>4. tape.starts[1] \in Nat
    <2>1. OnTape # {}
      BY DEF Regular, InPlace
    <2>2. 1 \in 1 .. Len(tape.starts)
      BY <1>3, <2>1
    <2> QED BY <1>2, <2>2, ElementOfSeq
  <1>5. PICK i \in DOMAIN Candidate : Candidate[i] = <<SyncOffset, tape.size>>
    BY DEF Regular, Telling
  <1>6. /\ Basic \in Nat /\ Basic > 0 /\ Prefix \in Nat /\ Prefix > 0 /\ Prefix < Basic
        /\ Len(Suffixes) \in Nat
        /\ \A j \in 1 .. Len(Suffixes) : Suffixes[j] \in Nat /\ Suffixes[j] # Prefix
    BY SizeAssumption
  <1>7. SyncOffset \in Nat /\ SyncOffset < Basic
        /\ (SyncOffset = Prefix => tape.size = Basic + Prefix)
    BY <1>6 DEF SyncOffset
  <1>8. /\ tape.size >= Basic
        /\ tape.size \in WithSuffix \cup {Basic + Prefix}
    <2> DEFINE n == Len(Suffixes)
    <2>1. Candidate = [j \in 1 .. 2 * n |->
                         IF j <= n THEN <<0, Basic + Suffixes[j]>>
                         ELSE <<Prefix, Prefix + Basic + Suffixes[j - n]>>]
      BY DEF Candidate
    <2>2. WithSuffix = {Basic + Suffixes[j] : j \in 1 .. n}
      BY <1>6, SizeAssumption DEF WithSuffix
    <2> HIDE DEF n
    <2>3. i \in 1 .. 2 * n
      BY <1>5, <2>1
    <2>4. CASE i <= n
      <3>1. i \in 1 .. n /\ Candidate[i] = <<0, Basic + Suffixes[i]>>
        BY <1>6, <2>1, <2>3, <2>4 DEF n
      <3>2. tape.size = Basic + Suffixes[i]
        BY <1>5, <3>1
      <3> QED BY <1>6, <2>2, <3>1, <3>2 DEF n
    <2>5. CASE ~(i <= n)
      <3>1. Candidate[i] = <<Prefix, Prefix + Basic + Suffixes[i - n]>>
        BY <2>1, <2>3, <2>5
      <3>2. tape.size = Basic + Prefix
        BY <1>5, <1>7, <3>1
      <3> QED BY <1>6, <3>2
    <2> QED BY <2>4, <2>5
  <1>9. Effective(tape.size) = tape.size /\ PrefixOf(tape.size) = SyncOffset
    BY <1>6, <1>8, <1>2 DEF Effective, PrefixOf, SyncOffset
  <1> QED BY <1>2, <1>3, <1>4, <1>6, <1>7, <1>8, <1>9

\* The packets are in their places.
LEMMA Places ==
    ASSUME TypeOK, Regular, NEW k \in Nat
    PROVE  /\ Base(k) \in Nat /\ Base(k + 1) = Base(k) + tape.size
           /\ k < Len(tape.starts) => tape.starts[k + 1] = Base(k)
           /\ Base(Len(tape.starts)) <= Len(tape.sync)
           /\ \A n \in Nat : Base(k) + n * tape.size <= Len(tape.sync) => k + n <= Len(tape.starts)
  <1> DEFINE s == tape.size
             g == tape.starts[1]
             last == Len(tape.starts)
             all == Len(tape.sync)
  <1>1. /\ s \in Nat /\ 0 < s /\ g \in Nat /\ last \in Nat /\ all \in Nat
        /\ OnTape = 1 .. last /\ Basic <= s /\ Basic \in Nat
    BY TapeFacts, Sizes
  <1>2. /\ \A i \in OnTape : tape.starts[i] = g + (i - 1) * s /\ tape.starts[i] + s <= all
        /\ OnTape # {} /\ all < g + last * s + Basic
    BY DEF Regular, InPlace
  <1>3. Base(k) = g + k * s /\ Base(k + 1) = g + (k + 1) * s /\ Base(last) = g + last * s
    BY DEF Base
  <1> HIDE DEF s, g, last, all
  <1>4. k * s \in Nat /\ (k + 1) * s = k * s + s /\ last * s \in Nat
    BY <1>1, SMTT(20)
  <1>5. ASSUME k < last PROVE tape.starts[k + 1] = Base(k)
    <2>1. k + 1 \in OnTape /\ (k + 1) - 1 = k
      BY <1>1, <1>5
    <2> QED BY <1>2, <1>3, <2>1
  <1>6. Base(last) <= all
    <2>1. last \in OnTape /\ last > 0
      BY <1>1, <1>2
    <2>2. tape.starts[last] = g + (last - 1) * s /\ tape.starts[last] + s <= all
      BY <1>2, <2>1
    <2>3. (last - 1) * s + s = last * s /\ (last - 1) * s \in Nat
      BY <1>1, <2>1, SMTT(20)
    <2> QED BY <1>1, <1>3, <2>2, <2>3
  <1>7. \A n \in Nat : Base(k) + n * s <= all => k + n <= last
    <2> SUFFICES ASSUME NEW n \in Nat, Base(k) + n * s <= all
                 PROVE  k + n <= last
      OBVIOUS
    <2> DEFINE x == k * s
               y == n * s
               z == last * s
               b == Base(k)
    <2>1. x + y = (k + n) * s /\ x \in Nat /\ y \in Nat /\ z \in Nat /\ z + s = (last + 1) * s
      BY <1>1, SMTT(20)
    <2>2. b = g + x /\ b + y <= all /\ all < g + z + Basic /\ Basic <= s
      BY <1>1, <1>2, <1>3
    <2>3. g \in Nat /\ all \in Nat /\ s \in Nat /\ Basic \in Nat /\ last \in Nat
      BY <1>1
    <2> HIDE DEF x, y, z, b
    <2>4. x + y < z + s
      BY <2>1, <2>2, <2>3
    <2>5. k + n \in Nat /\ last + 1 \in Nat /\ (k + n) * s < (last + 1) * s
      BY <2>1, <2>3, <2>4
    <2>6. k + n < last + 1
      BY <1>1, <2>5, TimesRises
    <2> QED BY <2>3, <2>5, <2>6
  <1>8. Base(k) \in Nat /\ Base(k + 1) = Base(k) + s
    <2> DEFINE x == k * s
    <2>1. x \in Nat /\ (k + 1) * s = x + s /\ Base(k) = g + x /\ Base(k + 1) = g + (k + 1) * s
      BY <1>3, <1>4
    <2> HIDE DEF x
    <2> QED BY <1>1, <2>1
  <1> QED BY <1>5, <1>6, <1>7, <1>8, Zenon DEF s, last, all

\* Every position is in one packet only.
LEMMA OnePlace ==
    ASSUME NEW i \in Nat, NEW j \in Nat, NEW s \in Nat, NEW a \in Nat, NEW b \in Nat,
           a < s, b < s, i * s + a = j * s + b
    PROVE  i = j
  <1> DEFINE x == i * s
             y == j * s
  <1>1. x \in Nat /\ y \in Nat /\ (i + 1) * s = x + s /\ (j + 1) * s = y + s
    BY SMTT(20)
  <1>2. x < y + s /\ y < x + s
    <2> HIDE DEF x, y
    <2> QED BY <1>1
  <1>3. i * s < (j + 1) * s /\ j * s < (i + 1) * s /\ s > 0
    BY <1>1, <1>2
  <1> HIDE DEF x, y
  <1>4. i < j + 1 /\ j < i + 1
    <2>1. i + 1 \in Nat /\ j + 1 \in Nat
      OBVIOUS
    <2> QED BY <1>3, <2>1, TimesRises
  <1> QED BY <1>4

\* A packet that has a sync byte has it in its place.
LEMMA SyncInPlace ==
    ASSUME TypeOK, Regular, NEW i \in OnTape, HasSync(i)
    PROVE  tape.sync[SyncPlace(i)]
  <1> DEFINE s == tape.size
             g == tape.starts[1]
             p == SyncOffset
             last == Len(tape.starts)
             all == Len(tape.sync)
  <1>1. /\ g \in Nat /\ s \in Nat /\ last \in Nat /\ all \in Nat /\ p \in Nat /\ p < s
        /\ OnTape = 1 .. last /\ DOMAIN tape.sync = 1 .. all
    BY TapeFacts, Zenon
  <1>2. PICK b \in 1 .. s : tape.sync[tape.starts[i] + b]
    BY Zenon DEF HasSync
  <1>3. \A j \in OnTape : tape.starts[j] = g + (j - 1) * s /\ tape.starts[j] + s <= all
    BY DEF Regular, InPlace
  <1>4. \A c \in DOMAIN tape.sync : tape.sync[c] => \E j \in OnTape : c = SyncPlace(j)
    BY DEF Regular, Sound
  <1>5. \A j : SyncPlace(j) = tape.starts[j] + p + 1
    BY Zenon DEF SyncPlace
  <1> HIDE DEF s, g, p, last, all
  <1>6. tape.starts[i] = g + (i - 1) * s /\ (i - 1) * s \in Nat /\ tape.starts[i] + s <= all /\ i - 1 \in Nat
    BY <1>1, <1>3
  <1>7. tape.starts[i] + b \in DOMAIN tape.sync
    <2> DEFINE x == (i - 1) * s
               at == tape.starts[i]
    <2>1. x \in Nat /\ at = g + x /\ at + s <= all /\ b \in 1 .. s
      BY <1>6
    <2> HIDE DEF x, at
    <2>2. at + b \in 1 .. all
      BY <1>1, <2>1
    <2> QED BY <1>1, <2>2 DEF at
  <1>8. PICK j \in OnTape : tape.starts[i] + b = SyncPlace(j)
    BY <1>2, <1>4, <1>7, Zenon
  <1>9. i = j
    <2>1. tape.starts[j] = g + (j - 1) * s /\ (j - 1) * s \in Nat /\ j - 1 \in Nat
      BY <1>1, <1>3
    <2>2. tape.starts[i] + b = tape.starts[j] + p + 1
      BY <1>5, <1>8
    <2> DEFINE x == (i - 1) * s
               y == (j - 1) * s
    <2>3. x \in Nat /\ y \in Nat /\ (g + x) + b = (g + y) + p + 1
      BY <1>6, <2>1, <2>2
    <2>4. b - 1 \in Nat /\ b - 1 < s
      BY <1>1
    <2>5. x + (b - 1) = y + p
      <3> HIDE DEF x, y
      <3> QED BY <1>1, <2>3, <2>4
    <2>6. i - 1 = j - 1
      BY <1>1, <1>6, <2>1, <2>4, <2>5, OnePlace
    <2> QED BY <1>1, <2>6
  <1> QED BY <1>2, <1>8, <1>9

\* Among the packets on the tape at most two lack their sync byte.
LEMMA Few ==
    ASSUME TypeOK, Regular, NEW k \in Nat, NEW n \in Nat, k + n <= Len(tape.starts)
    PROVE  LET with == {i \in k + 1 .. k + n : HasSync(i)}
           IN  IsFiniteSet(with) /\ Cardinality(with) \in Nat /\ n <= Cardinality(with) + 2
  <1> DEFINE I    == k + 1 .. k + n
             with == {i \in I : HasSync(i)}
             bad  == {i \in OnTape : ~tape.sync[SyncPlace(i)]}
             last == Len(tape.starts)
             c    == Cardinality(I)
             d    == Cardinality(with)
             e    == Cardinality(I \ with)
             m    == Cardinality(bad)
  <1>1. last \in Nat /\ OnTape = 1 .. last
    BY TapeFacts, Zenon
  <1>2. IsFiniteSet(I) /\ c = n
    <2>1. k + 1 \in Int /\ k + n \in Int
      OBVIOUS
    <2>2. IsFiniteSet(I) /\ c = IF k + 1 > k + n THEN 0 ELSE k + n - (k + 1) + 1
      BY <2>1, FS_Interval
    <2> HIDE DEF c, I
    <2> QED BY <2>2
  <1>3. IsFiniteSet(bad)
    <2>1. IsFiniteSet(OnTape)
      BY <1>1, FS_Interval
    <2>2. bad \in SUBSET OnTape
      OBVIOUS
    <2> HIDE DEF bad
    <2> QED BY <2>1, <2>2, FS_Subset
  <1>4. m <= 2
    BY DEF Regular, Sound
  <1>5. I \subseteq OnTape
    BY <1>1
  <1>6. I \ with \in SUBSET bad
    <2> SUFFICES ASSUME NEW i \in I, ~HasSync(i)
                 PROVE  i \in OnTape /\ ~tape.sync[SyncPlace(i)]
      OBVIOUS
    <2>1. i \in OnTape
      BY <1>5
    <2>2. ASSUME tape.sync[SyncPlace(i)] PROVE FALSE
      <3>1. SyncPlace(i) = tape.starts[i] + (SyncOffset + 1)
        <4>1. tape.starts[i] \in Nat
          <5>1. tape \in Tape
            BY TapesAssumption, Zenon DEF TypeOK
          <5>2. tape.starts \in Seq(Nat)
            BY <5>1, Zenon DEF Tape
          <5> QED BY <2>1, <5>2 DEF OnTape
        <4>2. SyncOffset \in Nat
          BY TapeFacts
        <4> QED BY <4>1, <4>2 DEF SyncPlace
      <3>2. SyncOffset + 1 \in 1 .. tape.size
        BY TapeFacts
      <3> HIDE DEF I, bad
      <3> QED BY <2>2, <3>1, <3>2 DEF HasSync
    <2> QED BY <2>1, <2>2
  <1>7. with \in SUBSET I
    OBVIOUS
  <1> HIDE DEF I, bad
  <1>8. IsFiniteSet(with) /\ d \in Nat
    <2> HIDE DEF with
    <2>1. IsFiniteSet(with)
      BY <1>2, <1>7, FS_Subset, Zenon
    <2> QED BY <2>1, FS_CardinalityType
  <1>9. e \in Nat /\ e <= m /\ m \in Nat /\ e = c - d
    <2> HIDE DEF with
    <2>1. IsFiniteSet(I \ with) /\ e <= m
      BY <1>3, <1>6, FS_Subset
    <2>2. e = c - Cardinality(I \cap with)
      BY <1>2, FS_Difference
    <2>3. I \cap with = with
      BY <1>7
    <2> QED BY <1>3, <2>1, <2>2, <2>3, FS_CardinalityType
  <1>10. n <= d + 2
    <2> HIDE DEF c, d, e, m
    <2> QED BY <1>2, <1>4, <1>8, <1>9
  <1> QED BY <1>8, <1>10 DEF I

\* So few are too few only of a few.
LEMMA FewAreFew ==
    ASSUME TypeOK, Regular, NEW k \in Nat, NEW n \in Nat, k + n <= Len(tape.starts), TooFew(k, n)
    PROVE  n <= 4
  <1> DEFINE d == Cardinality({i \in k + 1 .. k + n : HasSync(i)})
  <1>1. d \in Nat /\ n <= d + 2
    BY Few
  <1>2. 100 * d < 60 * n
    BY DEF TooFew
  <1> HIDE DEF d
  <1> QED BY <1>1, <1>2

-----------------------------------------------------------------------------
\* How much has been read, and how much of it is not in the buffer any more.
LEMMA Lengths ==
    ASSUME TypeOK
    PROVE  /\ Len(buf) \in Nat /\ taken \in Nat /\ Len(tape.sync) \in Nat
           /\ taken <= Len(tape.sync) /\ Behind + Len(buf) = taken /\ Behind = taken - Len(buf)
           /\ tape \in Tape /\ emitted \in Seq(Seq(0 .. taken)) /\ Len(emitted) \in Nat
           /\ packetSize \in Nat /\ size \in Nat
           /\ Enough \in Nat /\ Detect \in Nat /\ Limit \in Nat /\ Basic \in Nat /\ 0 < Basic
  <1>1. tape \in Tape
    BY TapesAssumption, Zenon DEF TypeOK
  <1>2. Len(tape.sync) \in Nat
    <2>1. tape.sync \in Seq(BOOLEAN)
      BY <1>1, Zenon DEF Tape
    <2> QED BY <2>1
  <1>3. taken \in 0 .. Len(tape.sync) /\ buf \in Seq(0 .. taken) /\ emitted \in Seq(Seq(0 .. taken))
    BY Zenon DEF TypeOK
  <1>4. taken \in Nat /\ taken <= Len(tape.sync) /\ Len(buf) \in Nat /\ Len(emitted) \in Nat
    BY <1>2, <1>3
  <1>5. packetSize \in Nat /\ size \in Nat
    BY Zenon DEF TypeOK
  <1>6. Enough \in Nat /\ Detect \in Nat /\ Limit \in Nat /\ Basic \in Nat /\ 0 < Basic
    BY SizeAssumption DEF Enough
  <1>7. Behind + Len(buf) = taken /\ Behind = taken - Len(buf)
    <2> DEFINE l == Len(buf)
    <2>1. Behind = taken - l /\ l \in Nat
      BY <1>4 DEF Behind
    <2> HIDE DEF l
    <2> QED BY <1>4, <2>1 DEF l
  <1> QED BY <1>1, <1>2, <1>3, <1>4, <1>5, <1>6, <1>7, Zenon

\* The packets in a buffer that begins with a packet are on the tape.
LEMMA Inside ==
    ASSUME TypeOK, Regular, NEW k \in Nat, Behind = Base(k)
    PROVE  LET n == Len(buf) \div tape.size
           IN  /\ n \in Nat /\ n * tape.size \in Nat
               /\ n * tape.size <= Len(buf) /\ Len(buf) < (n + 1) * tape.size
               /\ k + n <= Len(tape.starts)
               /\ n = 0 <=> Len(buf) < tape.size
  <1> DEFINE n == Len(buf) \div tape.size
             s == tape.size
             l == Len(buf)
             last == Len(tape.starts)
             all == Len(tape.sync)
             b == Base(k)
             m == n * s
  <1>1. l \in Nat /\ taken <= all /\ b + l = taken /\ taken \in Nat /\ all \in Nat
    BY Lengths
  <1>2. s \in Nat /\ 0 < s
    BY TapeFacts
  <1>3. b \in Nat /\ \A j \in Nat : b + j * s <= all => k + j <= last
    BY Places
  <1> HIDE DEF b, last, all, s, l
  <1>4. n \in Nat /\ m <= l /\ l < (n + 1) * s /\ (n = 0 <=> l < s)
    BY <1>1, <1>2, Quotient DEF s, l
  <1> HIDE DEF n
  <1>5. m \in Nat
    BY <1>2, <1>4, TimesRises
  <1>6. b + m <= all
    <2> HIDE DEF m
    <2> QED BY <1>1, <1>3, <1>4, <1>5
  <1> QED BY <1>3, <1>4, <1>5, <1>6 DEF n, s, l, last

\* checkIsReady counts what is there: where it is not content, sync bytes are missing.
LEMMA CountsSyncs ==
    ASSUME TypeOK, Regular, Gapless, NEW k \in Nat, Behind = Base(k),
           ~MostlyInSync(tape.size, SyncOffset)
    PROVE  TooFew(k, Len(buf) \div tape.size)
  <1> DEFINE s == tape.size
             p == SyncOffset
             l == Len(buf)
             n == l \div s
             with  == {i \in k + 1 .. k + n : HasSync(i)}
             spots == {j \in 0 .. n - 1 : IsSync(buf[j * s + p + 1])}
             g == tape.starts[1]
             last == Len(tape.starts)
  <1>1. /\ g \in Nat /\ s \in Nat /\ 0 < s /\ p \in Nat /\ p < s /\ last \in Nat
        /\ OnTape = 1 .. last
    BY TapeFacts, Zenon
  <1>2. n \in Nat /\ n * s \in Nat /\ n * s <= l /\ k + n <= last /\ l \in Nat
    BY Inside, Lengths
  <1>3. Cardinality(spots) * 100 < n * 60
    <2>1. SyncCount(buf, s, p) = Cardinality(spots) /\ PacketCount(buf, s) = n
      BY DEF SyncCount, PacketCount
    <2>2. IsFiniteSet(spots)
      <3>1. spots \in SUBSET (0 .. n - 1)
        OBVIOUS
      <3> HIDE DEF spots, n
      <3>2. IsFiniteSet(0 .. n - 1)
        BY <1>2, FS_Interval
      <3> QED BY <3>1, <3>2, FS_Subset, Zenon
    <2> DEFINE c == Cardinality(spots)
    <2>3. c \in Nat
      BY <2>2, FS_CardinalityType
    <2>4. ~(c * 100 >= n * 60)
      BY <2>1 DEF MostlyInSync
    <2> HIDE DEF c, n
    <2> QED BY <1>2, <2>3, <2>4 DEF c
  <1>4. IsFiniteSet(with) /\ Cardinality(with) \in Nat
    BY <1>2, Few
  <1>5. IsFiniteSet(spots) /\ Cardinality(spots) \in Nat
    <2>1. spots \in SUBSET (0 .. n - 1)
      OBVIOUS
    <2> HIDE DEF spots, n
    <2>2. IsFiniteSet(0 .. n - 1)
      BY <1>2, FS_Interval
    <2>3. IsFiniteSet(spots)
      BY <2>1, <2>2, FS_Subset, Zenon
    <2> QED BY <2>3, FS_CardinalityType
  <1>6. ASSUME NEW i \in with PROVE i - k - 1 \in spots
    <2> DEFINE j == i - k - 1
               x == j * s
               y == k * s
               m == n * s
    <2> HIDE DEF n
    <2>1. i \in k + 1 .. k + n /\ HasSync(i)
      OBVIOUS
    <2>2. j \in Nat /\ j <= n - 1 /\ i \in OnTape /\ j \in 0 .. n - 1 /\ i - 1 = k + j
      BY <1>1, <1>2, <2>1
    <2>3. tape.sync[SyncPlace(i)]
      BY <2>1, <2>2, SyncInPlace
    <2> HIDE DEF j
    <2>4. x \in Nat /\ y \in Nat /\ (i - 1) * s = y + x
      BY <1>1, <2>2, SMTT(20)
    <2>5. x + s <= m
      <3>1. j + 1 <= n /\ j + 1 \in Nat
        <4> HIDE DEF x
        <4> QED BY <1>2, <2>2
      <3>3. (j + 1) * s = x + s
        <4>1. j \in Nat /\ s \in Nat
          BY <1>1, <2>2
        <4> HIDE DEF s
        <4> QED BY <4>1, SMTT(20)
      <3>2. (j + 1) * s <= n * s
        BY <1>1, <1>2, <3>1, TimesRises
      <3> QED BY <3>2, <3>3
    <2>6. tape.starts[i] = g + (i - 1) * s
      BY <2>2 DEF Regular, InPlace
    <2> HIDE DEF x, y, m
    <2>7. x + p + 1 \in 1 .. l
      <3>1. m \in Nat /\ m <= l
        BY <1>2 DEF m
      <3> HIDE DEF l, s, p
      <3> QED BY <1>1, <1>2, <2>4, <2>5, <3>1
    <2>8. buf[x + p + 1] = Behind + (x + p + 1)
      <3> DEFINE at == x + p + 1
      <3>1. at \in 1 .. Len(buf)
        BY <2>7
      <3> HIDE DEF at
      <3>2. buf[at] = Behind + at
        BY <3>1 DEF Gapless
      <3> QED BY <3>2 DEF at
    <2>9. Behind = g + y
      BY DEF Base, y
    <2>10. SyncPlace(i) = buf[x + p + 1] /\ buf[x + p + 1] # 0
      <3>1. SyncPlace(i) = (g + (y + x)) + p + 1
        BY <2>4, <2>6 DEF SyncPlace
      <3>2. buf[x + p + 1] = (g + y) + (x + p + 1)
        BY <2>8, <2>9
      <3> HIDE DEF g, s, p
      <3> QED BY <1>1, <2>4, <3>1, <3>2
    <2>11. IsSync(buf[x + p + 1])
      BY <2>3, <2>10 DEF IsSync
    <2> QED BY <2>2, <2>11 DEF j, x
  <1>7. Cardinality(with) <= Cardinality(spots)
    <2> DEFINE f == [i \in with |-> i - k - 1]
    <2>1. f \in [with -> spots]
      BY <1>6
    <2>2. \A a, b \in with : f[a] = f[b] => a = b
      <3> SUFFICES ASSUME NEW a \in with, NEW b \in with, f[a] = f[b] PROVE a = b
        OBVIOUS
      <3> HIDE DEF n
      <3>1. a \in Int /\ b \in Int
        BY <1>2
      <3>2. a - k - 1 = b - k - 1
        OBVIOUS
      <3> QED BY <3>1, <3>2
    <2> HIDE DEF with, spots, f
    <2>3. f \in Injection(with, spots)
      BY <2>1, <2>2 DEF Injection, IsInjective
    <2> QED BY <1>5, <2>3, FS_Injection
  <1> DEFINE c == Cardinality(with)
             d == Cardinality(spots)
  <1>8. 100 * c < 60 * n
    <2>1. c \in Nat /\ d \in Nat /\ c <= d /\ d * 100 < n * 60 /\ n \in Nat
      BY <1>2, <1>3, <1>4, <1>5, <1>7
    <2> HIDE DEF c, d, n
    <2> QED BY <2>1
  <1> QED BY <1>8 DEF TooFew

-----------------------------------------------------------------------------
\* What is said of the tape alone stays as it is.
LEMMA SameTape ==
    ASSUME tape' = tape
    PROVE  /\ Regular' <=> Regular
           /\ SyncOffset' = SyncOffset
           /\ \A n : Base(n)' = Base(n)
           /\ \A i : TapePacket(i)' = TapePacket(i)
           /\ \A k, n : TooFew(k, n)' <=> TooFew(k, n)
  <1>1. SyncOffset' = SyncOffset /\ OnTape' = OnTape
    BY DEF SyncOffset, OnTape
  <1>2. \A n : Base(n)' = Base(n)
    BY DEF Base
  <1>3. \A i : TapePacket(i)' = TapePacket(i)
    BY DEF TapePacket
  <1>4. \A k, n : TooFew(k, n)' <=> TooFew(k, n)
    BY DEF TooFew, HasSync
  <1>5. InPlace' <=> InPlace
    BY <1>1 DEF InPlace
  <1>6. Sound' <=> Sound
    <2>1. \A i : SyncPlace(i)' = SyncPlace(i)
      BY <1>1 DEF SyncPlace
    <2> QED BY <1>1, <2>1 DEF Sound
  <1>7. Telling' <=> Telling
    <2>1. \A w, i : IsBest(w, i)' <=> IsBest(w, i)
      BY DEF IsBest, Beats, Syncs, Packets, SyncCount, IsSync
    <2>2. \A w, i : Tells(w, i)' <=> Tells(w, i)
      BY <2>1 DEF Tells, Syncs, Packets, SyncCount, IsSync
    <2>3. \A w, i, j : SyncsAt(w, i, j)' <=> SyncsAt(w, i, j)
      BY DEF SyncsAt, FirstSync, IsSync
    <2> QED BY <1>1, <2>1, <2>2, <2>3 DEF Telling
  <1> QED BY <1>1, <1>2, <1>3, <1>4, <1>5, <1>6, <1>7 DEF Regular

\* Bytes without a gap, as many as there are.
LEMMA GaplessIs ==
    ASSUME NEW o, NEW l \in Nat, Len(buf) = l, Behind = o
    PROVE  Gapless <=> buf = [b \in 1 .. l |-> o + b]
  BY DEF Gapless

\* What detection looks at is a window of the tape.
LEMMA GaplessWindow ==
    ASSUME Gapless, Len(buf) = Enough
    PROVE  buf = Window(Behind)
  BY DEF Gapless, Enough, Window

\* Bytes read behind others leave no gap.
LEMMA TakeGapless ==
    ASSUME TypeOK, TypeOK', Gapless, NEW n \in Nat, Take(n)
    PROVE  Gapless' /\ Behind' = Behind /\ Len(buf') = Len(buf) + n
  <1> DEFINE l == Len(buf)
             o == Behind
             more == [i \in 1 .. n |-> taken + i]
  <1>1. l \in Nat /\ taken \in Nat /\ o \in Int /\ o + l = taken /\ buf = [b \in 1 .. l |-> o + b]
    <2>1. l \in Nat /\ taken \in Nat /\ o = taken - l
      BY Lengths
    <2>2. buf = [b \in 1 .. l |-> o + b]
      BY DEF Gapless
    <2> HIDE DEF o, l
    <2> QED BY <2>1, <2>2
  <1>2. buf' = buf \o more /\ taken' = taken + n
    BY DEF Take
  <1>3. Behind' = taken' - Len(buf')
    BY DEF Behind
  <1> HIDE DEF l, o
  <1>4. buf \o more = [b \in 1 .. l + n |-> o + b]
    <2> DEFINE w == [b \in 1 .. l |-> o + b]
               v == [b \in 1 .. l + n |-> o + b]
    <2>1. w \in Seq(Int) /\ Len(w) = l /\ \A b \in 1 .. l : w[b] = o + b
      BY <1>1
    <2>2. more \in Seq(Int) /\ Len(more) = n /\ \A b \in 1 .. n : more[b] = taken + b
      BY <1>1
    <2>3. v \in Seq(Int) /\ Len(v) = l + n /\ \A b \in 1 .. l + n : v[b] = o + b
      BY <1>1
    <2> HIDE DEF w, v, more
    <2>4. /\ w \o more \in Seq(Int) /\ Len(w \o more) = l + n
          /\ \A b \in 1 .. l + n : (w \o more)[b] = IF b <= l THEN w[b] ELSE more[b - l]
      BY <2>1, <2>2, ConcatProperties
    <2>5. ASSUME NEW b \in 1 .. l + n PROVE (w \o more)[b] = v[b]
      <3>1. CASE b <= l
        <4>1. b \in 1 .. l
          BY <1>1, <3>1
        <4> QED BY <2>1, <2>3, <2>4, <3>1, <4>1
      <3>2. CASE ~(b <= l)
        <4>1. b - l \in 1 .. n /\ taken + (b - l) = o + b
          BY <1>1, <3>2
        <4> QED BY <2>2, <2>3, <2>4, <3>2, <4>1
      <3> QED BY <3>1, <3>2
    <2>6. w \o more = v
      <3> DEFINE u == w \o more
      <3> HIDE DEF u
      <3> QED BY <2>3, <2>4, <2>5, SeqEqual DEF u
    <2> QED BY <1>1, <2>6, Zenon DEF w, v
  <1> HIDE DEF more
  <1>5. Len(buf') = l + n
    BY <1>1, <1>2, <1>4
  <1>6. Behind' = o
    <2> DEFINE m == Len(buf')
    <2>1. m = l + n /\ taken' = taken + n /\ Behind' = taken' - m
      BY <1>2, <1>3, <1>5
    <2>2. l \in Nat /\ taken \in Nat /\ o \in Int /\ o + l = taken
      BY <1>1
    <2> HIDE DEF m
    <2> QED BY <2>1, <2>2
  <1>7. Gapless'
    <2>1. Gapless' <=> buf' = [b \in 1 .. Len(buf') |-> Behind' + b]
      BY DEF Gapless
    <2> QED BY <1>2, <1>4, <1>5, <1>6, <2>1
  <1> QED BY <1>5, <1>6, <1>7 DEF l, o

\* Nor do bytes that are dropped from the front.
LEMMA DropGapless ==
    ASSUME TypeOK, TypeOK', Gapless, NEW n \in 0 .. Len(buf), buf' = Drop(n), taken' = taken
    PROVE  Gapless' /\ Behind' = Behind + n /\ Len(buf') = Len(buf) - n
  <1> DEFINE l == Len(buf)
             o == Behind
  <1>1. l \in Nat /\ taken \in Nat /\ o \in Int /\ o + l = taken /\ buf = [b \in 1 .. l |-> o + b]
    <2>1. l \in Nat /\ taken \in Nat /\ o = taken - l
      BY Lengths
    <2>2. buf = [b \in 1 .. l |-> o + b]
      BY DEF Gapless
    <2> HIDE DEF o, l
    <2> QED BY <2>1, <2>2
  <1>2. buf' = SubSeq(buf, n + 1, l)
    BY DEF Drop
  <1>3. Behind' = taken' - Len(buf')
    BY DEF Behind
  <1>4. n \in Nat /\ n <= l
    BY <1>1
  <1> HIDE DEF l, o
  <1>5. SubSeq(buf, n + 1, l) = [b \in 1 .. l - n |-> (o + n) + b] /\ Len(SubSeq(buf, n + 1, l)) = l - n
    <2> DEFINE w == [b \in 1 .. l |-> o + b]
               v == [b \in 1 .. l - n |-> (o + n) + b]
               u == SubSeq(w, n + 1, l)
    <2>1. w \in Seq(Int) /\ Len(w) = l /\ \A b \in 1 .. l : w[b] = o + b
      BY <1>1
    <2>2. v \in Seq(Int) /\ Len(v) = l - n /\ \A b \in 1 .. l - n : v[b] = (o + n) + b
      BY <1>1, <1>4
    <2> HIDE DEF w, v
    <2>3. /\ u \in Seq(Int) /\ Len(u) = l - n
          /\ \A b \in 1 .. l - n : u[b] = w[n + 1 + b - 1]
      <3>1. n + 1 \in 1 .. l + 1 /\ l \in n .. l /\ n + 1 - 1 = n /\ l - (n + 1) + 1 = l - n
        BY <1>1, <1>4
      <3>2. u \in Seq(Int)
        BY <2>1, <3>1, SubSeqProperties
      <3>3. Len(u) = l - n
        BY <2>1, <3>1, SubSeqProperties
      <3>4. \A b \in 1 .. l - n : u[b] = w[n + 1 + b - 1]
        BY <2>1, <3>1, SubSeqProperties
      <3> QED BY <3>2, <3>3, <3>4
    <2> HIDE DEF u
    <2>4. ASSUME NEW b \in 1 .. l - n PROVE u[b] = v[b]
      <3>1. n + 1 + b - 1 \in 1 .. l /\ o + (n + 1 + b - 1) = (o + n) + b
        BY <1>1, <1>4
      <3> QED BY <2>1, <2>2, <2>3, <3>1
    <2>5. u = v
      BY <2>2, <2>3, <2>4, SeqEqual
    <2> QED BY <1>1, <2>2, <2>5, Zenon DEF w, v, u
  <1>6. Len(buf') = l - n /\ Behind' = o + n
    BY <1>1, <1>2, <1>3, <1>4, <1>5
  <1>7. Gapless'
    <2>1. Gapless' <=> buf' = [b \in 1 .. Len(buf') |-> Behind' + b]
      BY DEF Gapless
    <2> QED BY <1>2, <1>5, <1>6, <2>1
  <1> QED BY <1>6, <1>7 DEF l, o

-----------------------------------------------------------------------------
\* There are two candidates to a suffix.
LEMMA CandidateRange ==
    /\ \E m \in Nat : DOMAIN Candidate = 1 .. m
    /\ \A i \in DOMAIN Candidate : Candidate[i][2] <= Enough
  <1> DEFINE n == Len(Suffixes)
  <1>1. /\ n \in Nat /\ Basic \in Nat /\ Prefix \in Nat /\ Enough \in Nat
        /\ \A j \in 1 .. n : Suffixes[j] \in Nat /\ Prefix + Basic + Suffixes[j] <= Enough
    BY SizeAssumption DEF Enough
  <1>2. Candidate = [j \in 1 .. 2 * n |->
                       IF j <= n THEN <<0, Basic + Suffixes[j]>>
                       ELSE <<Prefix, Prefix + Basic + Suffixes[j - n]>>]
    BY DEF Candidate
  <1> HIDE DEF n
  <1>3. 2 * n \in Nat /\ DOMAIN Candidate = 1 .. 2 * n
    BY <1>1, <1>2
  <1>4. ASSUME NEW i \in 1 .. 2 * n PROVE Candidate[i][2] <= Enough
    <2>1. CASE i <= n
      <3>1. i \in 1 .. n /\ Candidate[i] = <<0, Basic + Suffixes[i]>>
        BY <1>1, <1>2, <2>1
      <3> QED BY <1>1, <3>1
    <2>2. CASE ~(i <= n)
      <3>1. i - n \in 1 .. n /\ Candidate[i] = <<Prefix, Prefix + Basic + Suffixes[i - n]>>
        BY <1>1, <1>2, <2>2
      <3> QED BY <1>1, <3>1
    <2> QED BY <2>1, <2>2
  <1> QED BY <1>3, <1>4

\* One candidate is the first of the best.
LEMMA OneBest ==
    ASSUME NEW w, NEW i, NEW j, IsBest(w, i), IsBest(w, j)
    PROVE  i = j
  <1>1. PICK m \in Nat : DOMAIN Candidate = 1 .. m
    BY CandidateRange
  <1>2. i \in 1 .. m /\ j \in 1 .. m
    BY <1>1, Zenon DEF IsBest
  <1>3. ASSUME NEW a \in 1 .. m, NEW b \in 1 .. m, IsBest(w, a), IsBest(w, b), a < b PROVE FALSE
    <2>1. a \in 1 .. b - 1 /\ b \in DOMAIN Candidate
      BY <1>1, <1>3
    <2>2. Beats(w, b, a)
      BY <1>3, <2>1, Zenon DEF IsBest
    <2>3. ~Beats(w, b, a)
      BY <1>3, <2>1, Zenon DEF IsBest
    <2> QED BY <2>2, <2>3
  <1>4. ~(i < j) /\ ~(j < i)
    BY <1>2, <1>3
  <1> QED BY <1>2, <1>4

\* One place is the first with a sync byte.
LEMMA OneFirstSync ==
    ASSUME NEW w, NEW from \in Int, NEW i \in Int, NEW j \in Int,
           FirstSync(w, from, i), FirstSync(w, from, j)
    PROVE  i = j
  <1>1. ASSUME NEW a \in Int, NEW b \in Int, FirstSync(w, from, a), FirstSync(w, from, b), a < b
        PROVE  FALSE
    <2>1. from <= a
      BY <1>1, Zenon DEF FirstSync
    <2>2. a \in from .. b - 1
      BY <1>1, <2>1
    <2>3. ~IsSync(w[a + 1])
      BY <1>1, <2>2, Zenon DEF FirstSync
    <2>4. IsSync(w[a + 1])
      BY <1>1, Zenon DEF FirstSync
    <2> QED BY <2>3, <2>4
  <1>2. ~(i < j) /\ ~(j < i)
    BY <1>1
  <1> QED BY <1>2

\* So are the two a resync goes by.
LEMMA OneSyncsAt ==
    ASSUME NEW w, NEW i \in Int, NEW j \in Int, NEW a \in Int, NEW b \in Int,
           SyncsAt(w, i, j), SyncsAt(w, a, b)
    PROVE  i = a /\ j = b
  <1>1. FirstSync(w, 0, i) /\ FirstSync(w, 0, a)
    BY DEF SyncsAt
  <1>2. i = a
    BY <1>1, OneFirstSync
  <1>3. FirstSync(w, i + Basic, j) /\ FirstSync(w, i + Basic, b)
    BY <1>2, Zenon DEF SyncsAt
  <1>4. i + Basic \in Int
    BY Sizes
  <1>5. j = b
    BY <1>3, <1>4, OneFirstSync
  <1> QED BY <1>2, <1>5

\* Reading stops where the next packet ends.
LEMMA MissingIs ==
    ASSUME TypeOK
    PROVE  LET s == Effective(packetSize)
               q == Len(buf) \div s
           IN  /\ s \in Nat /\ 0 < s /\ q \in Nat /\ q * s \in Nat /\ (q + 1) * s = q * s + s
               /\ q * s <= Len(buf) /\ Len(buf) < (q + 1) * s
               /\ Missing \in Nat /\ Len(buf) + Missing = (q + 1) * s
  <1> DEFINE l == Len(buf)
             s == Effective(packetSize)
             q == l \div s
             x == q * s
  <1>1. l \in Nat /\ packetSize \in Nat
    BY Lengths
  <1>2. s \in Nat /\ 0 < s
    BY <1>1, Sizes
  <1>3. Missing = (q + 1) * s - l
    BY DEF Missing
  <1> HIDE DEF l, s
  <1>4. q \in Nat /\ x <= l /\ l < (q + 1) * s
    BY <1>1, <1>2, Quotient
  <1> HIDE DEF q
  <1>5. x \in Nat /\ (q + 1) * s = x + s
    BY <1>2, <1>4, SMTT(20)
  <1>6. Missing \in Nat /\ l + Missing = (q + 1) * s
    <2> HIDE DEF x
    <2> QED BY <1>1, <1>2, <1>3, <1>4, <1>5
  <1> QED BY <1>2, <1>4, <1>5, <1>6 DEF l, s, q, x

-----------------------------------------------------------------------------
\* What a step has to establish while the size is not known.
LEMMA SearchingNext ==
    ASSUME tape' = tape, packetSize' = 0, emitted' = <<>>,
           Behind' \in {0, tape.starts[1]},
           pc' \in {"idle", "read"} => Len(buf') < Enough,
           pc' = "check" => Len(buf') <= Enough /\ size' <= Enough,
           pc' \notin {"drain", "eof"}
    PROVE  Searching'
  <1>1. Enough' = Enough
    BY DEF Enough
  <1> QED BY <1>1 DEF Searching

\* What a step has to establish when it is known.
LEMMA RunningNext ==
    ASSUME tape' = tape, NEW k \in Nat, NEW n, Len(emitted') = k, Len(buf') \div tape.size = n,
           packetSize' = tape.size, k \in 0 .. Len(tape.starts), Behind' = Base(k),
           \A i \in DOMAIN emitted' : emitted'[i] = TapePacket(i),
           pc' = "check" => size' = tape.size /\ prefix' = SyncOffset,
           pc' \in {"check", "drain"} => n <= Limit,
           pc' \in {"idle", "read", "eof"} => n = 0 \/ TooFew(k, n),
           pc' = "eof" => taken' = Len(tape.sync)
    PROVE  Running'
  <1>1. SyncOffset' = SyncOffset /\ \A i : TapePacket(i)' = TapePacket(i)
    BY SameTape
  <1>2. \A m, j : TooFew(m, j)' <=> TooFew(m, j)
    BY SameTape
  <1>3. TooFew(k, n) => TooFew(Len(emitted), Len(buf) \div tape.size)'
    <2> SUFFICES ASSUME TooFew(k, n) PROVE TooFew(Len(emitted), Len(buf) \div tape.size)'
      OBVIOUS
    <2> QED BY DEF TooFew, HasSync
  <1>4. Behind' = tape'.starts[1] + Len(emitted') * tape'.size
    BY DEF Base
  <1> QED BY <1>1, <1>3, <1>4 DEF Running

\* The steps of a reader that does not know the size yet.
LEMMA SearchingStep ==
    ASSUME IInv, IInv', autosize, Regular, Gapless, Searching, [Next]_vars
    PROVE  (Gapless /\ (Searching \/ Running))'
  <1> DEFINE start == tape.starts[1]
             l == Len(buf)
             all == Len(tape.sync)
  <1>1. TypeOK /\ TypeOK'
    BY DEF IInv
  <1>2. /\ l \in Nat /\ taken \in Nat /\ all \in Nat /\ taken <= all /\ Behind + l = taken
        /\ Enough \in Nat /\ Detect \in Nat /\ Limit \in Nat /\ Basic \in Nat /\ 0 < Basic
        /\ size \in Nat
    BY <1>1, Lengths
  <1>3. /\ packetSize = 0 /\ emitted = <<>> /\ Behind \in {0, start}
        /\ pc \in {"idle", "read"} => l < Enough
        /\ pc = "check" => l <= Enough /\ size <= Enough
        /\ pc \notin {"drain", "eof"}
    BY DEF Searching
  <1>4. start \in Nat /\ start + Enough <= all
    <2>1. start \in Nat
      BY <1>1, TapeFacts
    <2>2. start + Enough <= all
      BY DEF Regular, Telling, Enough
    <2> QED BY <2>1, <2>2
  <1>5. ASSUME UNCHANGED <<tape, taken, buf>> PROVE Gapless' /\ Behind' = Behind
    BY <1>5 DEF Gapless, Behind
  <1>6. CASE Activated
    <2>1. UNCHANGED <<tape, taken, buf, packetSize, emitted>> /\ pc = "idle" /\ pc' = "read"
      BY <1>6, Zenon DEF Activated
    <2>2. Searching'
      BY <1>3, <1>5, <2>1, SearchingNext
    <2> QED BY <1>5, <2>1, <2>2
  <1>7. ASSUME pc = "read"
        PROVE  /\ Effective(packetSize) = Basic /\ Basic <= Enough
               /\ Missing \in Nat /\ l + Missing <= Enough
    <2> DEFINE q == l \div Basic
               x == q * Basic
    <2>1. Effective(packetSize) = Basic
      BY <1>2, <1>3 DEF Effective
    <2>2. /\ q \in Nat /\ x \in Nat /\ (q + 1) * Basic = x + Basic /\ x <= l
          /\ Missing \in Nat /\ l + Missing = (q + 1) * Basic
      BY <1>1, <2>1, MissingIs
    <2>3. x < Enough
      <3> HIDE DEF x, l
      <3> QED BY <1>2, <1>3, <1>7, <2>2
    <2>4. q < Detect
      <3> HIDE DEF q
      <3>1. q * Basic < Detect * Basic
        BY <2>3 DEF Enough
      <3> QED BY <1>2, <2>2, <3>1, TimesRises
    <2>5. (q + 1) * Basic <= Enough
      <3> HIDE DEF q
      <3>1. q + 1 <= Detect /\ q + 1 \in Nat
        BY <1>2, <2>2, <2>4
      <3>2. (q + 1) * Basic <= Detect * Basic
        BY <1>2, <3>1, TimesRises
      <3> QED BY <3>2 DEF Enough
    <2>6. Basic <= Enough
      <3> HIDE DEF x, q
      <3> QED BY <1>2, <2>2, <2>5
    <2> QED BY <2>1, <2>2, <2>5, <2>6
  <1>8. CASE ReadFull
    <2>1. pc = "read" /\ Take(Missing) /\ EnterCheck(packetSize)
      BY <1>8, Zenon DEF ReadFull
    <2>2. UNCHANGED <<tape, packetSize, emitted>>
      BY <2>1, Zenon DEF Take
    <2>3. Gapless' /\ Behind' = Behind /\ Len(buf') = l + Missing
      BY <1>1, <1>7, <2>1, TakeGapless
    <2>4. size' = Basic /\ pc' = "check"
      BY <1>7, <2>1, Zenon DEF EnterCheck
    <2>5. Len(buf') <= Enough /\ size' <= Enough
      BY <1>7, <2>1, <2>3, <2>4
    <2>6. Searching'
      BY <1>3, <2>2, <2>3, <2>4, <2>5, SearchingNext
    <2> QED BY <2>3, <2>6
  <1>9. CASE ReadShort
    <2>1. PICK n \in 1 .. Missing - 1 : Take(n)
      BY <1>9, Zenon DEF ReadShort
    <2>2. pc = "read" /\ pc' = "idle" /\ UNCHANGED <<tape, packetSize, emitted>>
      BY <1>9, <2>1, Zenon DEF ReadShort, Take
    <2>3. n \in Nat /\ n < Missing
      BY <1>7, <2>2
    <2>4. Gapless' /\ Behind' = Behind /\ Len(buf') = l + n
      BY <1>1, <2>1, <2>3, TakeGapless
    <2>5. Len(buf') < Enough
      <3> HIDE DEF l
      <3> QED BY <1>2, <1>7, <2>2, <2>3, <2>4
    <2>6. Searching'
      BY <1>3, <2>2, <2>4, <2>5, SearchingNext
    <2> QED BY <2>4, <2>6
  <1>10. CASE ReadEnds
    <2>1. pc = "read" /\ UNCHANGED <<tape, taken, buf, packetSize, emitted>>
      BY <1>10, Zenon DEF ReadEnds
    <2>2. taken # all
      <3> HIDE DEF l, all, start
      <3> QED BY <1>2, <1>3, <1>4, <2>1
    <2>3. pc' = "failed"
      BY <1>10, <2>2, Zenon DEF ReadEnds
    <2>4. Searching'
      BY <1>3, <1>5, <2>1, <2>3, SearchingNext
    <2> QED BY <1>5, <2>1, <2>4
  <1>11. CASE RunsOut \/ DetectLater
    <2>1. /\ UNCHANGED <<tape, taken, buf, emitted>> /\ pc = "check" /\ pc' = "read"
          /\ packetSize' = 0 /\ (l < size \/ l < Enough)
      BY <1>3, <1>11 DEF RunsOut, DetectLater, LooksFurther, Enough
    <2>2. l < Enough
      <3> HIDE DEF l
      <3> QED BY <1>2, <1>3, <2>1
    <2>3. Searching'
      BY <1>3, <1>5, <2>1, <2>2, SearchingNext
    <2> QED BY <1>5, <2>1, <2>3
  <1>12. ASSUME pc = "check", l >= Enough
         PROVE  /\ l = Enough /\ buf = Window(Behind)
                /\ \A i \in DOMAIN Candidate :
                     Behind # start /\ IsBest(buf, i) => ~GoodEnough(buf, i)
                /\ \A i \in DOMAIN Candidate :
                     Behind = start /\ IsBest(buf, i) =>
                       GoodEnough(buf, i) /\ Candidate[i] = <<SyncOffset, tape.size>>
    <2>1. l = Enough
      <3> HIDE DEF l
      <3> QED BY <1>2, <1>3, <1>12
    <2>2. buf = Window(Behind)
      BY <2>1, GaplessWindow
    <2>3. ASSUME NEW i \in DOMAIN Candidate, Behind # start, IsBest(buf, i)
          PROVE  ~GoodEnough(buf, i)
      <3>1. Behind = 0 /\ start > 0
        BY <1>3, <1>4, <2>3
      <3>2. buf = Window(0)
        BY <2>2, <3>1
      <3>3. ~Tells(Window(0), i)
        BY <3>1 DEF Regular, Telling
      <3> QED BY <2>3, <3>2, <3>3 DEF Tells, GoodEnough
    <2>4. ASSUME NEW i \in DOMAIN Candidate, Behind = start, IsBest(buf, i)
          PROVE  GoodEnough(buf, i) /\ Candidate[i] = <<SyncOffset, tape.size>>
      <3>1. PICK j \in DOMAIN Candidate :
              /\ Candidate[j] = <<SyncOffset, tape.size>>
              /\ IsBest(Window(start), j) /\ GoodEnough(Window(start), j)
        BY Zenon DEF Regular, Telling, Tells, GoodEnough
      <3>2. IsBest(buf, j) /\ GoodEnough(buf, j)
        BY <2>2, <2>4, <3>1
      <3>3. i = j
        BY <2>4, <3>2, OneBest
      <3> QED BY <3>1, <3>2, <3>3
    <2> QED BY <2>1, <2>2, <2>3, <2>4
  <1>13. CASE DetectWinner
    <2>1. /\ pc = "check" /\ l >= Enough /\ UNCHANGED <<tape, taken, buf, emitted>>
          /\ pc' = IF prefix' = 0 \/ size' = Prefix + Basic THEN "drain" ELSE "failed"
      BY <1>13, Zenon DEF DetectWinner, LooksFurther, Enough
    <2>2. PICK i \in DOMAIN Candidate :
            /\ IsBest(buf, i) /\ GoodEnough(buf, i)
            /\ packetSize' = Candidate[i][2] /\ size' = Candidate[i][2]
            /\ prefix' = Candidate[i][1]
      BY <1>13, Zenon DEF DetectWinner
    <2>3. Behind = start /\ Candidate[i] = <<SyncOffset, tape.size>> /\ l = Enough
      BY <1>12, <2>1, <2>2, Zenon
    <2>4. packetSize' = tape.size /\ size' = tape.size /\ prefix' = SyncOffset
      BY <2>2, <2>3
    <2>5. pc' = "drain"
      <3>1. SyncOffset = 0 \/ tape.size = Prefix + Basic
        BY SizeAssumption DEF SyncOffset
      <3> QED BY <2>1, <2>4, <3>1
    <2> DEFINE s == tape.size
               n == l \div s
               x == n * s
               y == n * Basic
    <2>6. s \in Nat /\ 0 < s /\ Basic <= s
      BY <1>1, TapeFacts
    <2>7. n <= Limit
      <3>1. n \in Nat /\ x <= l
        BY <1>2, <2>6, Quotient
      <3> HIDE DEF n
      <3>2. x \in Nat /\ y \in Nat /\ y <= x
        BY <1>2, <2>6, <3>1, SMTT(20)
      <3>3. n * Basic <= Detect * Basic
        <4>1. y <= Enough
          <5> HIDE DEF x, y, l
          <5> QED BY <1>2, <2>3, <3>1, <3>2
        <4> QED BY <4>1 DEF Enough
      <3>4. (Detect + 1) * Basic = Detect * Basic + Basic
        BY <1>2, SMTT(20)
      <3>5. n * Basic < (Detect + 1) * Basic
        <4> DEFINE z == Detect * Basic
        <4>1. z \in Nat /\ y <= z /\ (Detect + 1) * Basic = z + Basic
          BY <1>2, <3>3, <3>4 DEF Enough
        <4> HIDE DEF z, y
        <4>2. y < (Detect + 1) * Basic
          BY <1>2, <3>2, <4>1
        <4> QED BY <4>2 DEF y
      <3>6. n < Detect + 1
        <4>1. Detect + 1 \in Nat
          BY <1>2
        <4> QED BY <1>2, <3>1, <3>5, <4>1, TimesRises
      <3>7. Detect <= Limit
        BY SizeAssumption
      <3> QED BY <1>2, <3>1, <3>6, <3>7
    <2>8. Base(0) = start /\ Len(emitted') = 0 /\ DOMAIN emitted' = {}
      <3>1. 0 * tape.size = 0
        BY <2>6
      <3>2. emitted' = <<>>
        BY <1>3, <2>1
      <3> QED BY <1>4, <3>1, <3>2 DEF Base
    <2>9. 0 \in 0 .. Len(tape.starts)
      BY <1>1, TapeFacts
    <2>10. Behind' = Base(0) /\ Len(buf') \div tape.size = n
      BY <1>5, <2>1, <2>3, <2>8
    <2>11. Running'
      <3> HIDE DEF n, s
      <3> QED BY <2>1, <2>4, <2>5, <2>7, <2>8, <2>9, <2>10, RunningNext
    <2> QED BY <1>5, <2>1, <2>11
  <1>14. ASSUME NeedsResync
         PROVE  /\ pc = "check" /\ l >= Enough /\ packetSize' = 0 /\ size' <= Enough
                /\ Behind # start
    <2>1. FailedDetection /\ pc = "check"
      BY <1>14, Zenon DEF NeedsResync, LooksFurther
    <2>2. l >= Enough /\ packetSize' = 0
      BY <2>1, Zenon DEF FailedDetection, Enough
    <2>3. PICK i \in DOMAIN Candidate :
            /\ IsBest(buf, i) /\ ~GoodEnough(buf, i)
            /\ size' = Candidate[i][2] \/ size' = size
      BY <2>1, Zenon DEF FailedDetection
    <2>4. size' <= Enough
      BY <1>3, <2>1, <2>3, CandidateRange
    <2>5. Behind # start
      BY <1>12, <2>1, <2>2, <2>3, Zenon
    <2> QED BY <2>1, <2>2, <2>4, <2>5
  <1>15. ASSUME NeedsResync
         PROVE  LET sync == start + SyncOffset
                IN  /\ Behind = 0 /\ start > 0 /\ l = Enough
                    /\ SyncsAt(buf, sync, sync + tape.size)
                    /\ sync \in 0 .. l - 1 /\ sync + tape.size \in 0 .. l - 1
                    /\ sync \in Nat
    <2>1. Behind = 0 /\ start > 0
      BY <1>3, <1>4, <1>14, <1>15
    <2>2. l = Enough /\ buf = Window(0)
      BY <1>12, <1>14, <1>15, <2>1
    <2> DEFINE sync == start + SyncOffset
    <2>3. sync + tape.size < Enough /\ SyncsAt(Window(0), sync, sync + tape.size)
      BY <2>1 DEF Regular, Telling, Enough
    <2>4. SyncOffset \in Nat /\ tape.size \in Nat /\ 0 < tape.size
      BY <1>1, TapeFacts
    <2>5. sync \in Nat
      BY <1>4, <2>4
    <2> HIDE DEF sync, start, l
    <2>6. sync \in 0 .. l - 1 /\ sync + tape.size \in 0 .. l - 1
      BY <1>2, <2>2, <2>3, <2>4, <2>5
    <2> QED BY <2>1, <2>2, <2>3, <2>5, <2>6 DEF sync
  <1>16. CASE ResyncDrops
    <2> DEFINE sync == start + SyncOffset
    <2>1. NeedsResync /\ UNCHANGED <<tape, taken, emitted, pc>>
      BY <1>16, Zenon DEF ResyncDrops
    <2>2. /\ Behind = 0 /\ start > 0 /\ l = Enough /\ SyncsAt(buf, sync, sync + tape.size)
          /\ sync \in Nat /\ sync \in 0 .. l - 1
      BY <1>15, <2>1
    <2>3. pc = "check" /\ packetSize' = 0 /\ size' <= Enough
      BY <1>14, <2>1
    <2>4. PICK first, second \in 0 .. l - 1 :
            /\ SyncsAt(buf, first, second)
            /\ \/ second - first \in WithSuffix /\ buf' = Drop(first)
               \/ /\ second - first = Basic + Prefix
                  /\ buf' = IF first >= Prefix THEN Drop(first - Prefix)
                            ELSE [i \in 1 .. Prefix - first |-> 0] \o buf
      BY <1>16, Zenon DEF ResyncDrops
    <2>5. /\ SyncOffset \in Nat /\ tape.size \in Nat /\ Prefix \in Nat /\ 0 < Prefix
          /\ SyncOffset = IF tape.size = Basic + Prefix THEN Prefix ELSE 0
      BY <1>1, TapeFacts, SizeAssumption DEF SyncOffset
    <2>6. first = sync /\ second - first = tape.size
      <3>1. first \in Int /\ second \in Int /\ sync \in Int /\ sync + tape.size \in Int
        <4> HIDE DEF sync, l
        <4> QED BY <1>2, <2>2, <2>4, <2>5
      <3>2. first = sync /\ second = sync + tape.size
        <4> HIDE DEF sync
        <4> QED BY <2>2, <2>4, <3>1, OneSyncsAt
      <3> HIDE DEF sync
      <3> QED BY <2>2, <2>5, <3>2
    <2>7. buf' = Drop(start)
      <3>1. CASE second - first \in WithSuffix /\ buf' = Drop(first)
        <4>1. tape.size # Basic + Prefix
          <5>1. PICK j \in DOMAIN Suffixes : tape.size = Basic + Suffixes[j]
            BY <2>6, <3>1 DEF WithSuffix
          <5>2. Suffixes[j] \in Nat /\ Suffixes[j] # Prefix
            BY SizeAssumption
          <5> QED BY <1>2, <2>5, <5>1, <5>2
        <4>2. sync = start
          BY <1>4, <2>5, <4>1
        <4> QED BY <2>6, <3>1, <4>2
      <3>2. CASE second - first = Basic + Prefix /\ ~(second - first \in WithSuffix /\ buf' = Drop(first))
        <4>1. SyncOffset = Prefix
          BY <2>5, <2>6, <3>2
        <4>2. first >= Prefix /\ first - Prefix = start
          <5>1. first = start + Prefix
            BY <2>6, <4>1
          <5> HIDE DEF start
          <5> QED BY <1>4, <2>5, <5>1
        <4>3. buf' = Drop(first - Prefix)
          BY <2>4, <3>2, <4>2
        <4> QED BY <4>2, <4>3
      <3> QED BY <2>4, <3>1, <3>2
    <2>8. start \in 0 .. l
      <3> HIDE DEF l, start
      <3> QED BY <1>2, <1>4, <2>2, <2>5
    <2>9. Gapless' /\ Behind' = Behind + start /\ Len(buf') = l - start
      <3> HIDE DEF start
      <3> QED BY <1>1, <2>1, <2>7, <2>8, DropGapless
    <2>10. Behind' = start /\ Len(buf') <= Enough
      <3> HIDE DEF start, l
      <3> QED BY <1>2, <1>4, <2>2, <2>9
    <2>11. Searching'
      BY <1>3, <2>1, <2>3, <2>10, SearchingNext
    <2> QED BY <2>9, <2>11
  <1>17. CASE ResyncGivesUp
    <2> DEFINE sync == start + SyncOffset
               two == sync + tape.size
    <2>1. NeedsResync
      BY <1>17, Zenon DEF ResyncGivesUp
    <2>2. SyncsAt(buf, sync, two) /\ sync \in 0 .. l - 1 /\ two \in 0 .. l - 1 /\ sync \in Nat
      BY <1>15, <2>1
    <2>3. two - sync \in WithSuffix \cup {Basic + Prefix}
      <3>1. tape.size \in Nat /\ tape.size \in WithSuffix \cup {Basic + Prefix}
        BY <1>1, TapeFacts
      <3>2. two - sync = tape.size
        <4> HIDE DEF sync
        <4> QED BY <2>2, <3>1
      <3> QED BY <3>1, <3>2
    <2> HIDE DEF sync, two
    <2> QED BY <1>17, <2>2, <2>3, Zenon DEF ResyncGivesUp
  <1>18. CASE KeepsSize \/ Drain
    BY <1>3, <1>18, Zenon DEF KeepsSize, Drain
  <1>19. CASE UNCHANGED vars
    <2>1. UNCHANGED <<tape, taken, buf, packetSize, emitted, pc, size>>
      BY <1>19, Zenon DEF vars
    <2>2. Searching'
      BY <1>3, <1>5, <2>1, SearchingNext
    <2> QED BY <1>5, <2>1, <2>2
  <1> QED BY <1>6, <1>8, <1>9, <1>10, <1>11, <1>13, <1>16, <1>17, <1>18, <1>19, Zenon DEF Next, Step

\* The steps of a reader that knows it.
LEMMA RunningStep ==
    ASSUME IInv, IInv', autosize, Regular, Gapless, Running, [Next]_vars
    PROVE  (Gapless /\ Running)'
  <1> DEFINE s == tape.size
             k == Len(emitted)
             l == Len(buf)
             n == l \div s
             last == Len(tape.starts)
             all == Len(tape.sync)
  <1>1. TypeOK /\ TypeOK'
    BY DEF IInv
  <1>2. /\ l \in Nat /\ taken \in Nat /\ all \in Nat /\ taken <= all /\ Behind + l = taken
        /\ k \in Nat /\ emitted \in Seq(Seq(0 .. taken)) /\ Limit \in Nat
    BY <1>1, Lengths
  <1>3. /\ s \in Nat /\ 0 < s /\ last \in Nat
        /\ Effective(s) = s /\ PrefixOf(s) = SyncOffset
    BY <1>1, TapeFacts
  <1>4. /\ packetSize = s /\ k \in 0 .. last /\ Behind = Base(k)
        /\ \A i \in DOMAIN emitted : emitted[i] = TapePacket(i)
        /\ pc = "check" => size = s /\ prefix = SyncOffset
        /\ pc \in {"check", "drain"} => n <= Limit
        /\ pc \in {"idle", "read", "eof"} => n = 0 \/ TooFew(k, n)
        /\ pc = "eof" => taken = all
    BY DEF Running, Base
  <1>5. /\ n \in Nat /\ n * s \in Nat /\ n * s <= l /\ l < (n + 1) * s
        /\ k + n <= last /\ (n = 0 <=> l < s)
    BY <1>1, <1>2, <1>4, Inside
  <1>6. ASSUME UNCHANGED <<tape, taken, buf>> PROVE Gapless' /\ Behind' = Behind
    BY <1>6 DEF Gapless, Behind
  <1>7. ASSUME UNCHANGED <<tape, taken, buf, packetSize, emitted>>,
               pc' = "check" => size' = s /\ prefix' = SyncOffset,
               pc' \in {"check", "drain"} => n <= Limit,
               pc' \in {"idle", "read", "eof"} => n = 0 \/ TooFew(k, n),
               pc' = "eof" => taken = all
        PROVE  (Gapless /\ Running)'
    <2>1. Len(emitted') = k /\ Len(buf') \div s = n /\ Behind' = Base(k)
      BY <1>4, <1>6, <1>7
    <2>2. Running'
      <3> HIDE DEF k, n
      <3> QED BY <1>2, <1>4, <1>7, <2>1, RunningNext DEF k, n
    <2> QED BY <1>6, <1>7, <2>2
  <1>8. CASE Activated
    <2>1. UNCHANGED <<tape, taken, buf, packetSize, emitted>> /\ pc = "idle" /\ pc' = "read"
      BY <1>8, Zenon DEF Activated
    <2> HIDE DEF n, k
    <2> QED BY <1>4, <1>7, <2>1
  <1>9. ASSUME pc = "read"
        PROVE  /\ Missing \in Nat /\ l + Missing = (n + 1) * s /\ n + 1 <= Limit
    <2>1. Effective(packetSize) = s
      BY <1>3, <1>4
    <2>2. Missing \in Nat /\ l + Missing = (n + 1) * s
      BY <1>1, <2>1, MissingIs
    <2>3. n <= 4
      <3>1. CASE n = 0
        BY <3>1
      <3>2. CASE TooFew(k, n)
        <4> HIDE DEF k, n
        <4> QED BY <1>1, <1>2, <1>5, <3>2, FewAreFew
      <3> QED BY <1>4, <1>9, <3>1, <3>2
    <2>4. 5 <= Limit
      BY SizeAssumption
    <2> HIDE DEF n
    <2>5. n + 1 <= Limit
      BY <1>2, <1>5, <2>3, <2>4
    <2> QED BY <2>2, <2>5
  <1>10. CASE ReadFull
    <2>1. pc = "read" /\ Take(Missing) /\ EnterCheck(packetSize)
      BY <1>10, Zenon DEF ReadFull
    <2>2. UNCHANGED <<tape, packetSize, emitted>>
      BY <2>1, Zenon DEF Take
    <2>3. Gapless' /\ Behind' = Behind /\ Len(buf') = l + Missing
      BY <1>1, <1>9, <2>1, TakeGapless
    <2>4. Len(buf') = (n + 1) * s /\ n + 1 \in Nat
      BY <1>5, <1>9, <2>1, <2>3
    <2>5. Len(buf') \div s = n + 1
      <3> HIDE DEF n, s
      <3>1. ((n + 1) + 1) * s = (n + 1) * s + s /\ (n + 1) * s \in Nat
        BY <1>3, <1>5, SMTT(20)
      <3>2. (n + 1) * s < ((n + 1) + 1) * s
        BY <1>3, <3>1
      <3>3. (n + 1) * s <= (n + 1) * s
        BY <3>1
      <3>4. ((n + 1) * s) \div s = n + 1
        BY <1>3, <2>4, <3>1, <3>2, <3>3, QuotientIs
      <3> QED BY <2>4, <3>4
    <2>6. pc' = "check" /\ size' = s /\ prefix' = SyncOffset
      BY <1>3, <1>4, <2>1, Zenon DEF EnterCheck
    <2>7. n + 1 <= Limit
      BY <1>9, <2>1
    <2>8. Running'
      <3> DEFINE m == n + 1
      <3>1. Len(buf') \div s = m /\ m <= Limit /\ Len(emitted') = k
        BY <2>2, <2>5, <2>7
      <3>2. \A i \in DOMAIN emitted' : emitted'[i] = TapePacket(i)
        BY <1>4, <2>2
      <3> HIDE DEF m, k
      <3> QED BY <1>2, <1>4, <2>2, <2>3, <2>6, <3>1, <3>2, RunningNext
    <2> QED BY <2>3, <2>8
  <1>11. CASE ReadShort
    <2>1. PICK m \in 1 .. Missing - 1 : Take(m)
      BY <1>11, Zenon DEF ReadShort
    <2>2. pc = "read" /\ pc' = "idle" /\ UNCHANGED <<tape, packetSize, emitted>>
      BY <1>11, <2>1, Zenon DEF ReadShort, Take
    <2>3. m \in Nat /\ m < Missing
      BY <1>9, <2>2
    <2>4. Gapless' /\ Behind' = Behind /\ Len(buf') = l + m
      BY <1>1, <2>1, <2>3, TakeGapless
    <2>5. Len(buf') \div s = n
      <3> DEFINE v == l + m
                 x == n * s
                 y == (n + 1) * s
      <3>1. x \in Nat /\ x <= l /\ l + Missing = y /\ Missing \in Nat
        BY <1>5, <1>9, <2>2
      <3>2. v \in Nat /\ x <= v /\ v < y
        <4> HIDE DEF x, y, l
        <4> QED BY <1>2, <2>3, <3>1
      <3> HIDE DEF v, n, s
      <3>3. v \div s = n
        BY <1>3, <1>5, <3>2, QuotientIs
      <3> QED BY <2>4, <3>3 DEF v
    <2>6. n = 0 \/ TooFew(k, n)
      BY <1>4, <2>2
    <2>7. Running'
      <3>1. Len(emitted') = k /\ \A i \in DOMAIN emitted' : emitted'[i] = TapePacket(i)
        BY <1>4, <2>2
      <3> HIDE DEF n, k
      <3> QED BY <1>2, <1>4, <2>2, <2>4, <2>5, <2>6, <3>1, RunningNext
    <2> QED BY <2>4, <2>7
  <1>12. CASE ReadEnds
    <2>1. pc = "read" /\ UNCHANGED <<tape, taken, buf, packetSize, emitted>>
      BY <1>12, Zenon DEF ReadEnds
    <2>2. (pc' = "eof" /\ taken = all) \/ pc' = "failed"
      BY <1>12, Zenon DEF ReadEnds
    <2> HIDE DEF n, k, all
    <2> QED BY <1>4, <1>7, <2>1, <2>2
  <1>13. CASE RunsOut
    <2>1. /\ UNCHANGED <<tape, taken, buf, packetSize, emitted>> /\ pc = "check" /\ pc' = "read"
          /\ l < size
      BY <1>13, Zenon DEF RunsOut
    <2>2. n = 0
      <3> HIDE DEF n
      <3> QED BY <1>4, <1>5, <2>1
    <2> HIDE DEF n, k
    <2> QED BY <1>7, <2>1, <2>2
  <1>14. CASE KeepsSize
    <2>1. UNCHANGED <<tape, taken, buf, packetSize, emitted>> /\ pc = "check"
      BY <1>14, Zenon DEF KeepsSize
    <2>2. pc' = IF MostlyInSync(s, SyncOffset) THEN "drain" ELSE "read"
      BY <1>4, <1>14, <2>1, Zenon DEF KeepsSize
    <2>3. CASE MostlyInSync(s, SyncOffset)
      <3>1. pc' = "drain"
        BY <2>2, <2>3
      <3> HIDE DEF n, k
      <3> QED BY <1>4, <1>7, <2>1, <3>1
    <2>4. CASE ~MostlyInSync(s, SyncOffset)
      <3>1. pc' = "read"
        BY <2>2, <2>4
      <3>2. TooFew(k, n)
        BY <1>1, <1>2, <1>4, <2>4, CountsSyncs
      <3> HIDE DEF n, k
      <3> QED BY <1>7, <2>1, <3>1, <3>2
    <2> QED BY <2>3, <2>4
  <1>15. CASE DetectLater \/ DetectWinner \/ ResyncDrops \/ ResyncGivesUp
    <2>1. LooksFurther
      BY <1>15, Zenon DEF DetectLater, DetectWinner, ResyncDrops, ResyncGivesUp, NeedsResync
    <2>2. pc = "check" /\ (packetSize # 0 => PacketCount(buf, size) > Limit)
      BY <2>1, Zenon DEF LooksFurther
    <2>3. PacketCount(buf, size) = n /\ packetSize # 0
      BY <1>3, <1>4, <2>2 DEF PacketCount
    <2> HIDE DEF n
    <2> QED BY <1>2, <1>4, <1>5, <2>2, <2>3
  <1>16. CASE Drain
    <2>1. UNCHANGED <<tape, taken, packetSize>> /\ pc = "drain" /\ Effective(packetSize) = s
      BY <1>3, <1>4, <1>16, Zenon DEF Drain
    <2>2. CASE l < s
      <3>1. pc' = "read" /\ UNCHANGED <<buf, emitted>> /\ n = 0
        BY <1>5, <1>16, <2>1, <2>2, Zenon DEF Drain
      <3> HIDE DEF n, k
      <3> QED BY <1>7, <2>1, <3>1
    <2>3. CASE ~(l < s)
      <3>1. Emit(s) /\ EnterCheck(packetSize)
        BY <1>16, <2>1, <2>3, Zenon DEF Drain
      <3>2. n >= 1 /\ k < last /\ s \in 0 .. l /\ k + 1 \in 0 .. last
        <4> HIDE DEF n, k, last, s, l
        <4> QED BY <1>2, <1>3, <1>5, <2>3
      <3>3. buf' = Drop(s) /\ emitted' = Append(emitted, SubSeq(buf, 1, s))
        BY <3>1, Zenon DEF Emit
      <3>4. Gapless' /\ Behind' = Behind + s /\ Len(buf') = l - s
        BY <1>1, <2>1, <3>2, <3>3, DropGapless
      <3>5. Base(k + 1) = Base(k) + s /\ tape.starts[k + 1] = Base(k) /\ Base(k) \in Nat
        BY <1>1, <1>2, <3>2, Places
      <3>6. SubSeq(buf, 1, s) = TapePacket(k + 1)
        <4> DEFINE w == SubSeq(buf, 1, s)
                   v == [b \in 1 .. s |-> Base(k) + b]
        <4>1. buf = [b \in 1 .. l |-> Base(k) + b] /\ s <= l
          BY <1>4, <3>2 DEF Gapless
        <4>2. /\ buf \in Seq(Int) /\ Len(buf) = l /\ \A b \in 1 .. l : buf[b] = Base(k) + b
          <5> DEFINE o == Base(k)
          <5>1. o \in Nat /\ l \in Nat /\ buf = [b \in 1 .. l |-> o + b]
            BY <1>2, <3>5, <4>1
          <5> HIDE DEF o, l
          <5> QED BY <5>1 DEF o, l
        <4>3. v \in Seq(Int) /\ Len(v) = s /\ \A b \in 1 .. s : v[b] = Base(k) + b
          <5> DEFINE o == Base(k)
          <5>1. o \in Nat
            BY <3>5
          <5> HIDE DEF o, s
          <5> QED BY <1>3, <5>1 DEF o
        <4>4. w \in Seq(Int) /\ Len(w) = s /\ \A b \in 1 .. s : w[b] = buf[1 + b - 1]
          <5>1. s \in 1 - 1 .. l /\ 1 \in 1 .. l + 1 /\ s - 1 + 1 = s
            <6> HIDE DEF s, l
            <6> QED BY <1>2, <1>3, <3>2
          <5> HIDE DEF s, l
          <5> QED BY <4>2, <5>1, SubSeqProperties DEF l
        <4> HIDE DEF w, v
        <4>5. ASSUME NEW b \in 1 .. s PROVE w[b] = v[b]
          <5>1. 1 + b - 1 = b /\ b \in 1 .. l
            <6> HIDE DEF s, l
            <6> QED BY <1>2, <1>3, <4>1
          <5> QED BY <4>2, <4>3, <4>4, <5>1
        <4>6. w = v
          <5> HIDE DEF s
          <5> QED BY <4>3, <4>4, <4>5, SeqEqual
        <4>7. TapePacket(k + 1) = v
          BY <3>5 DEF TapePacket, PacketOf, v
        <4> QED BY <4>6, <4>7 DEF w
      <3>7. /\ Len(emitted') = k + 1 /\ k + 1 \in Nat
            /\ \A i \in DOMAIN emitted' : emitted'[i] = TapePacket(i)
        <4> DEFINE S == Seq(0 .. taken)
                   cut == SubSeq(buf, 1, s)
        <4>1. emitted \in Seq(S)
          BY <1>2
        <4>2. cut \in S
          <5>1. buf \in Seq(0 .. taken)
            BY <1>1, Zenon DEF TypeOK
          <5>2. s \in 1 - 1 .. l /\ 1 \in 1 .. l + 1
            <6> HIDE DEF s, l
            <6> QED BY <1>2, <1>3, <3>2
          <5> DEFINE T == 0 .. taken
          <5>3. buf \in Seq(T) /\ s \in 1 - 1 .. Len(buf) /\ 1 \in 1 .. Len(buf) + 1
            BY <5>1, <5>2
          <5> HIDE DEF s, T
          <5>4. SubSeq(buf, 1, s) \in Seq(T)
            BY <5>3, SubSeqProperties
          <5> QED BY <5>4 DEF T
        <4> HIDE DEF S, cut
        <4>3. emitted' = Append(emitted, cut) /\ cut = TapePacket(k + 1)
          BY <3>3, <3>6 DEF cut
        <4>4. /\ Len(emitted') = k + 1 /\ DOMAIN emitted' = 1 .. k + 1 /\ DOMAIN emitted = 1 .. k
              /\ \A i \in 1 .. k : emitted'[i] = emitted[i]
              /\ emitted'[k + 1] = cut
          BY <4>1, <4>2, <4>3
        <4>5. \A i \in 1 .. k + 1 : i \in 1 .. k \/ i = k + 1
          <5> HIDE DEF k
          <5> QED BY <1>2
        <4>6. k + 1 \in Nat
          BY <1>2
        <4> HIDE DEF k
        <4> QED BY <1>4, <4>3, <4>4, <4>5, <4>6, Zenon
      <3>8. Len(buf') \div s = n - 1 /\ n - 1 <= Limit
        <4> DEFINE x == (n - 1) * s
                   v == l - s
                   m == n - 1
        <4>1. n - 1 \in Nat /\ n \in Nat /\ n - 1 <= Limit /\ n = (n - 1) + 1
          <5>1. n <= Limit
            BY <1>4, <2>1
          <5> HIDE DEF n
          <5> QED BY <1>2, <1>5, <3>2, <5>1
        <4>2. x \in Nat /\ n * s = x + s /\ (n + 1) * s = x + s + s
          <5> HIDE DEF n, s
          <5> QED BY <1>3, <4>1, SMTT(20)
        <4>3. v \in Nat /\ x <= v /\ v < x + s
          <5>1. x + s <= l /\ l < x + s + s
            BY <1>5, <4>2
          <5> HIDE DEF x, l, s
          <5> QED BY <1>2, <1>3, <3>2, <4>2, <5>1
        <4>4. m \in Nat /\ m * s = x /\ (m + 1) * s = x + s
          <5> HIDE DEF x, s, n
          <5>1. m + 1 = n
            BY <4>1
          <5> QED BY <4>1, <4>2, <5>1 DEF x
        <4>5. v \in Nat /\ m * s <= v /\ v < (m + 1) * s
          BY <4>3, <4>4
        <4> HIDE DEF m, v, x, s
        <4>6. v \div s = m
          BY <1>3, <4>4, <4>5, QuotientIs
        <4> QED BY <3>4, <4>1, <4>6 DEF m, v
      <3>9. pc' = "check" /\ size' = s /\ prefix' = SyncOffset
        BY <1>3, <1>4, <3>1, Zenon DEF EnterCheck
      <3>10. Behind' = Base(k + 1)
        BY <1>4, <3>4, <3>5
      <3>11. Running'
        <4> DEFINE m == n - 1
                   j == k + 1
        <4>1. Len(buf') \div s = m /\ m <= Limit /\ Len(emitted') = j /\ j \in Nat
              /\ j \in 0 .. Len(tape.starts) /\ Behind' = Base(j)
          BY <3>2, <3>7, <3>8, <3>10
        <4>2. packetSize' = s
          BY <1>4, <2>1
        <4> HIDE DEF m, j, k
        <4> QED BY <2>1, <3>7, <3>9, <4>1, <4>2, RunningNext
      <3> QED BY <3>4, <3>11
    <2> QED BY <2>2, <2>3
  <1>17. CASE UNCHANGED vars
    <2>1. UNCHANGED <<tape, taken, buf, packetSize, emitted, pc, size, prefix>>
      BY <1>17, Zenon DEF vars
    <2> HIDE DEF n, k
    <2> QED BY <1>4, <1>7, <2>1
  <1> QED BY <1>8, <1>10, <1>11, <1>12, <1>13, <1>14, <1>15, <1>16, <1>17, Zenon DEF Next, Step

-----------------------------------------------------------------------------
\* The reader begins on track.
LEMMA TrackInit == Init => TrackInv
  <1> SUFFICES ASSUME Init, autosize, Regular PROVE OnTrack
    BY InitInvariant DEF IInv, TrackInv
  <1>1. /\ TypeOK /\ taken = 0 /\ buf = <<>> /\ emitted = <<>> /\ packetSize = 0 /\ pc = "idle"
    BY InitInvariant, Zenon DEF Init, IInv
  <1>2. Behind = 0 /\ Len(buf) = 0
    <2> DEFINE l == Len(buf)
    <2>1. l = 0 /\ taken = 0
      BY <1>1
    <2>2. Behind = taken - l
      BY DEF Behind
    <2> HIDE DEF l
    <2> QED BY <2>1, <2>2 DEF l
  <1>3. Gapless
    BY <1>1, <1>2 DEF Gapless
  <1>4. 0 < Enough
    <2>1. PICK i \in DOMAIN Candidate : Candidate[i] = <<SyncOffset, tape.size>>
      BY Zenon DEF Regular, Telling
    <2>2. tape.size <= Enough
      BY <2>1, CandidateRange
    <2>3. tape.size \in Nat /\ 0 < tape.size /\ Enough \in Nat
      BY <1>1, TapeFacts, Lengths
    <2> QED BY <2>2, <2>3
  <1>5. Searching
    BY <1>1, <1>2, <1>4 DEF Searching
  <1> QED BY <1>3, <1>5 DEF OnTrack

\* Every step keeps it on track.
LEMMA TrackKept == IInv /\ TrackInv /\ [Next]_vars => TrackInv'
  <1> SUFFICES ASSUME IInv, TrackInv, [Next]_vars PROVE TrackInv'
    OBVIOUS
  <1>1. IInv'
    BY StepInvariant
  <1>2. tape' = tape /\ autosize' = autosize
    BY Zenon DEF Next, Step, vars, Activated, ReadFull, ReadShort, Take, ReadEnds, RunsOut,
             KeepsSize, DetectLater, DetectWinner, ResyncDrops, ResyncGivesUp, Drain
  <1>3. Regular' <=> Regular
    BY <1>2, SameTape
  <1>4. ASSUME autosize, Regular PROVE OnTrack'
    <2>1. Gapless /\ (Searching \/ Running)
      BY <1>4, Zenon DEF TrackInv, OnTrack
    <2>2. CASE Searching
      <3>1. (Gapless /\ (Searching \/ Running))'
        BY <1>1, <1>4, <2>1, <2>2, SearchingStep
      <3> QED BY <3>1, Zenon DEF OnTrack
    <2>3. CASE Running
      <3>1. (Gapless /\ Running)'
        BY <1>1, <1>4, <2>1, <2>3, RunningStep
      <3> QED BY <3>1, Zenon DEF OnTrack
    <2> QED BY <2>1, <2>2, <2>3
  <1>5. TypeOK'
    BY <1>1, Zenon DEF IInv
  <1> QED BY <1>2, <1>3, <1>4, <1>5, Zenon DEF TrackInv

\* The reader of a regular stream is always on track.
THEOREM StaysOnTrack == Spec => [](IInv /\ TrackInv)
  <1>1. Init => IInv /\ TrackInv
    BY InitInvariant, TrackInit
  <1>2. IInv /\ TrackInv /\ [Next]_vars => (IInv /\ TrackInv)'
    BY StepInvariant, TrackKept
  <1> QED BY <1>1, <1>2, PTL DEF Spec

\* For any regular tape and any chunks the packets emitted are those on the tape,
\* one after the other and from the first one on, whatever bytes are in front of
\* them and although up to two of them lack their sync byte (tsreader.cpp:361).
THEOREM PacketsStayIntact == Spec => []PacketsIntact
  <1>1. IInv /\ TrackInv => PacketsIntact
    <2> SUFFICES ASSUME TrackInv, autosize, Regular, NEW i \in DOMAIN emitted
                 PROVE  i \in OnTape /\ emitted[i] = TapePacket(i)
      BY DEF PacketsIntact
    <2>1. TypeOK /\ (Searching \/ Running)
      BY Zenon DEF TrackInv, OnTrack
    <2>2. CASE Searching
      <3>1. DOMAIN emitted = {}
        BY <2>2 DEF Searching
      <3> QED BY <3>1
    <2>3. CASE Running
      <3> DEFINE k == Len(emitted)
                 last == Len(tape.starts)
      <3>1. k \in 0 .. last /\ emitted[i] = TapePacket(i)
        BY <2>3 DEF Running
      <3>2. i \in 1 .. k
        <4>1. emitted \in Seq(Seq(0 .. taken))
          BY <2>1, Lengths
        <4> QED BY <4>1, LenProperties
      <3>3. last \in Nat /\ OnTape = 1 .. last
        BY <2>1, TapeFacts
      <3> HIDE DEF k, last
      <3>4. i \in 1 .. last
        BY <3>1, <3>2, <3>3
      <3> QED BY <3>1, <3>3, <3>4
    <2> QED BY <2>1, <2>2, <2>3
  <1> QED BY <1>1, StaysOnTrack, PTL

\* For any regular tape: at its end the reader holds back packets only when too
\* few of them have a sync byte (tsreader.cpp:620).
THEOREM NothingStaysBehind == Spec => []NothingHeldBack
  <1>1. IInv /\ TrackInv => NothingHeldBack
    <2> DEFINE held == OnTape \ DOMAIN emitted
    <2> SUFFICES ASSUME TrackInv, pc = "eof", autosize, Regular, held # {}
                 PROVE  100 * Cardinality({i \in held : HasSync(i)}) < 60 * Cardinality(held)
      BY Zenon DEF NothingHeldBack
    <2> DEFINE k == Len(emitted)
               s == tape.size
               l == Len(buf)
               n == l \div s
               last == Len(tape.starts)
               all == Len(tape.sync)
    <2>1. TypeOK /\ Running
      BY DEF TrackInv, OnTrack, Searching
    <2>2. /\ k \in 0 .. last /\ Behind = Base(k) /\ (n = 0 \/ TooFew(k, n)) /\ taken = all
      BY <2>1 DEF Running, Base
    <2>3. /\ last \in Nat /\ OnTape = 1 .. last /\ s \in Nat /\ 0 < s
      BY <2>1, TapeFacts
    <2>4. n \in Nat /\ k + n <= last /\ k \in Nat
      <3>1. k \in Nat
        BY <2>1, Lengths
      <3> QED BY <2>1, <2>2, <3>1, Inside
    <2>5. DOMAIN emitted = 1 .. k
      <3>1. emitted \in Seq(Seq(0 .. taken))
        BY <2>1, Lengths
      <3> QED BY <3>1, LenProperties
    <2>6. last <= k + n
      <3> DEFINE d == last - k
                 x == k * s
                 y == d * s
                 z == last * s
      <3>1. d \in Nat /\ last = k + d
        <4> HIDE DEF k, last
        <4> QED BY <2>2, <2>3, <2>4
      <3>2. x \in Nat /\ y \in Nat /\ z = x + y
        <4> HIDE DEF d, k, s, last
        <4> QED BY <2>3, <2>4, <3>1, SMTT(20)
      <3>3. tape.starts[1] + z <= all /\ tape.starts[1] + x + l = all
        <4>1. Base(last) <= all
          BY <2>1, <2>3, Places
        <4>2. Behind + l = taken
          BY <2>1, Lengths
        <4> QED BY <2>2, <4>1, <4>2 DEF Base
      <3>4. y <= l
        <4>1. tape.starts[1] \in Nat /\ l \in Nat /\ all \in Nat
          BY <2>1, TapeFacts, Lengths
        <4> DEFINE g == tape.starts[1]
        <4>2. g \in Nat /\ g + z <= all /\ g + x + l = all
          BY <3>3, <4>1
        <4> HIDE DEF x, y, z, l, all, g
        <4> QED BY <3>2, <4>1, <4>2
      <3>5. l < (n + 1) * s
        BY <2>1, <2>2, <2>4, Inside
      <3>6. d < n + 1
        <4>1. d * s < (n + 1) * s
          <5>1. l \in Nat /\ y \in Nat /\ (n + 1) * s \in Nat
            <6>1. n + 1 \in Nat /\ l \in Nat
              BY <2>1, <2>4, Lengths
            <6> HIDE DEF n, s, y
            <6> QED BY <2>3, <3>2, <6>1, TimesRises
          <5> DEFINE w == (n + 1) * s
          <5>2. l < w /\ w \in Nat
            BY <3>5, <5>1
          <5> HIDE DEF y, l, w
          <5>3. y < w
            BY <3>4, <5>1, <5>2
          <5> QED BY <5>3 DEF y, w
        <4>2. n + 1 \in Nat
          BY <2>4
        <4> HIDE DEF n, d, s
        <4> QED BY <2>3, <3>1, <4>1, <4>2, TimesRises
      <3> HIDE DEF k, n, last, d
      <3> QED BY <2>3, <2>4, <3>1, <3>6
    <2>7. held = k + 1 .. k + n
      <3> HIDE DEF k, n, last
      <3>1. last = k + n
        BY <2>3, <2>4, <2>6
      <3> QED BY <2>3, <2>4, <2>5, <3>1
    <2>8. Cardinality(k + 1 .. k + n) = n
      <3> HIDE DEF k, n
      <3> DEFINE a == k + 1
                 b == k + n
                 c == Cardinality(a .. b)
      <3>1. a \in Int /\ b \in Int /\ b - a + 1 = n /\ (a > b => n = 0)
        BY <2>4
      <3> HIDE DEF a, b
      <3>2. c = IF a > b THEN 0 ELSE b - a + 1
        BY <3>1, FS_Interval
      <3> HIDE DEF c
      <3>3. c = n
        BY <3>1, <3>2
      <3> QED BY <3>3 DEF a, b, c
    <2>9. n # 0
      <3> HIDE DEF k, n, held
      <3>1. held # {}
        OBVIOUS
      <3> QED BY <2>4, <2>7, <3>1
    <2>10. TooFew(k, n)
      BY <2>2, <2>9
    <2> HIDE DEF k, n, held
    <2> QED BY <2>7, <2>8, <2>10 DEF TooFew
  <1> QED BY <1>1, StaysOnTrack, PTL
=============================================================================

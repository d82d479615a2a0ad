------------------------- MODULE ForwardingV2Proofs -------------------------
(***************************************************************************)
(* What the conversion store and the clients do, for any packets, any      *)
(* number of clients with any prefixes and queues of any length: nothing   *)
(* leaks and nothing needed is freed, what is sent at once is sent as it   *)
(* was read, a flag arrives, and nothing sound is dropped.                 *)
(*                                                                         *)
(* Sequences and stores are worked on by recursive functions; what these   *)
(* compute is proved by induction over sets of numbers.                    *)
(*                                                                         *)
(* Then the bytes under the packets, what a BitStream keeps through every  *)
(* sequence of calls: whatever the number of bits of a byte, the bytes,    *)
(* the arrays and the counts.                                              *)
(***************************************************************************)
EXTENDS ForwardingV2, BitStreamCalls, TLAPS, FiniteSetTheorems, SequenceTheorems, WellFoundedInduction

\* The data of packet nodes and of bytes nodes.  A packet is what the parser makes of it.
PacketDatas ==
    {d \in [name : FirstPackets, content : Content, flagged : BOOLEAN] : d.content = ContentOf[d.name]}
BytesDatas  == [name : FirstPackets, flagged : BOOLEAN, prefix : Nat, asRead : BOOLEAN]
\* The nodes, and their ids.
PacketNodes == [kind : {"packet"}, data : PacketDatas]
BytesNodes  == [kind : {"bytes"}, data : BytesDatas]
Ids         == Nat \ {0}
\* The edges of a store.
EdgeRecords == [from : Ids, to : Ids, metadata : Nat, success : BOOLEAN]

\* The nodes and edges of a store are of their types, and there are finitely many nodes.
IsStore(s) ==
    /\ s = [nodes |-> s.nodes, edges |-> s.edges]
    /\ s.nodes \in [DOMAIN s.nodes -> PacketNodes \cup BytesNodes]
    /\ IsFiniteSet(DOMAIN s.nodes)
    /\ DOMAIN s.nodes \subseteq Ids
    /\ s.edges \in Seq(EdgeRecords)

Data(s, id)    == s.nodes[id].data
\* What an id stands for.
IsPacket(s, id) == Has(s, id) /\ s.nodes[id].kind = "packet"
IsBytes(s, id)  == Has(s, id) /\ s.nodes[id].kind = "bytes"

\* An edge to something that has been made of a packet.
ResultEdge(s, e) ==
    /\ IsPacket(s, e.from) /\ IsBytes(s, e.to)
    /\ Data(s, e.to).flagged = Data(s, e.from).flagged
    /\ Data(s, e.to).prefix = e.metadata
    /\ Data(s, e.from).content.generates[Data(s, e.from).flagged] => e.success

\* The edge from what has been read to the packet it has been parsed to.
ParseEdge(s, e) ==
    /\ IsBytes(s, e.from) /\ IsPacket(s, e.to)
    /\ Data(s, e.from).asRead /\ ~Data(s, e.from).flagged /\ ~Data(s, e.to).flagged
    /\ Data(s, e.from).prefix = Data(s, e.to).content.prefix
    /\ e.metadata = Data(s, e.to).content.prefix
    /\ \A other \in Edges(s) : other.to # e.from

\* All edges are to what has been made of a packet, but for the one to the packet `now'
\* that has just been read; 0 stands for none.
EdgesRight(s, now) ==
    \A e \in Edges(s) : ResultEdge(s, e) \/ (e.to = now /\ ParseEdge(s, e))

\* Nothing has been made of a node twice.
NothingTwice(s) ==
    \A i, j \in DOMAIN s.edges :
      (s.edges[i].from = s.edges[j].from /\ s.edges[i].metadata = s.edges[j].metadata) => i = j

\* The inductive invariant of a store, in the course of a step.
StoreRight(s, now) == IsStore(s) /\ EdgesRight(s, now) /\ NothingTwice(s)

\* While the packet that has just been read is queued.
AtOnce(s, now) ==
    now # 0 /\ ~Data(s, now).flagged =>
      /\ \E e \in Edges(s) : e.to = now
      /\ \A e \in Edges(s) : e.from = now => e.success /\ Data(s, e.to).asRead

\* What has been made in a step.  If it has been discarded, the generator has refused it.
EntryRight(e) ==
    /\ e.packet \in PacketDatas
    /\ e.outcome \in {"sent", "discarded", "exception"}
    /\ e.outcome = "exception" => ~Available(e)
    /\ e.outcome = "discarded" => ~e.packet.content.generates[e.packet.flagged]
    /\ e.outcome = "sent" => e.bytes.flagged = e.packet.flagged
    /\ ~e.late /\ ~e.packet.flagged /\ Available(e) =>
         e.outcome = "sent" /\ e.bytes.asRead /\ e.bytes.prefix = e.prefix

\* What waits is a packet.
QueuesRight(queues, s) ==
    \A c \in Clients : /\ queues[c] \in Seq(Ids) /\ Len(queues[c]) <= MaxQueue
                       /\ \A i \in DOMAIN queues[c] : IsPacket(s, queues[c][i])

\* Nothing is in the store but what is held, and what has been made of that.
NothingElse(s, held) ==
    \A id \in DOMAIN s.nodes :
       id \in held \/ \E e \in Edges(s) : e.to = id /\ e.from \in held

\* The inductive invariant, between two steps.
Inv ==
    /\ StoreRight(store, 0)
    /\ NothingElse(store, Queued(queue))
    /\ queue \in [Clients -> Seq(Ids)] /\ QueuesRight(queue, store)
    /\ lastPcr \in Nat
    /\ \A e \in Entries : EntryRight(e)

-----------------------------------------------------------------------------
\* Induction over the natural numbers, for sets.
LEMMA NatSetInduction ==
  ASSUME NEW S, 0 \in S, \A n \in Nat : n \in S => n + 1 \in S
  PROVE  Nat \subseteq S
<1> DEFINE Less == {r \in Nat \X Nat : r[1] < r[2]}
           T == {n \in Nat : n \notin S}
<1>1. IsWellFoundedOn(Less, Nat)
  <2>1. Less = OpToRel(<, Nat)
    BY DEF OpToRel
  <2> QED BY <2>1, NatLessThanWellFounded
<1>2. SUFFICES ASSUME T # {} PROVE FALSE
  OBVIOUS
<1>3. PICK x \in T : \A y \in T : <<y, x>> \notin Less
  BY <1>2, <1>1, WFMin
<1>4. x # 0 /\ x \in Nat
  OBVIOUS
<1>5. x - 1 \in Nat /\ <<x - 1, x>> \in Less /\ (x - 1) + 1 = x
  BY <1>4
<1>6. x - 1 \in S
  BY <1>3, <1>5
<1> QED BY <1>5, <1>6

\* Those is built up as it is written.
LEMMA ThoseUpToDef ==
  ASSUME NEW seq, NEW set, Len(seq) \in Nat
  PROVE  /\ ThoseUpTo(seq, set)[0] = <<>>
         /\ \A i \in 0 .. Len(seq) - 1 :
              ThoseUpTo(seq, set)[i + 1] =
                IF seq[i + 1] \in set THEN Append(ThoseUpTo(seq, set)[i], seq[i + 1])
                ELSE ThoseUpTo(seq, set)[i]
<1> DEFINE Step(f, i) == IF i = 0 THEN <<>>
                         ELSE IF seq[i] \in set THEN Append(f[i - 1], seq[i]) ELSE f[i - 1]
           P(f) == f = [i \in 0 .. Len(seq) |-> Step(f, i)]
           S == {n \in Nat : \E f : f = [i \in 0 .. n |-> Step(f, i)]}
<1>1. ThoseUpTo(seq, set) = CHOOSE f : P(f)
  BY DEF ThoseUpTo
<1>2. 0 \in S
  <2> DEFINE f == [i \in 0 .. 0 |-> <<>>]
  <2>1. f = [i \in 0 .. 0 |-> Step(f, i)]
    OBVIOUS
  <2> QED BY <2>1
<1>3. ASSUME NEW n \in Nat, n \in S PROVE n + 1 \in S
  <2>1. PICK f : f = [i \in 0 .. n |-> Step(f, i)]
    BY <1>3
  <2>a. \A i \in 0 .. n : f[i] = Step(f, i)
    <3> HIDE DEF Step
    <3> QED BY <2>1
  <2> DEFINE g == [i \in 0 .. n + 1 |-> IF i <= n THEN f[i] ELSE Step(f, n + 1)]
  <2>2. \A i \in 0 .. n + 1 : g[i] = Step(g, i)
    <3> SUFFICES ASSUME NEW i \in 0 .. n + 1 PROVE g[i] = Step(g, i)
      OBVIOUS
    <3>1. i # 0 => i - 1 \in 0 .. n /\ g[i - 1] = f[i - 1]
      OBVIOUS
    <3>2. Step(g, i) = Step(f, i)
      BY <3>1
    <3>3. i <= n => f[i] = Step(f, i)
      BY <2>a
    <3>4. g[i] = Step(f, i)
      BY <3>3
    <3> QED BY <3>2, <3>4
  <2>3. g = [i \in 0 .. n + 1 |-> Step(g, i)]
    <3> HIDE DEF Step
    <3> QED BY <2>2
  <2>4. \E h : h = [i \in 0 .. n + 1 |-> Step(h, i)]
    <3> HIDE DEF g, Step
    <3> QED BY <2>3
  <2>6. n + 1 \in Nat
    OBVIOUS
  <2> HIDE DEF Step
  <2> QED BY <2>4, <2>6
<1>4. \E f : P(f)
  BY <1>2, <1>3, NatSetInduction
<1>5. P(CHOOSE f : P(f))
  <2> HIDE DEF P
  <2> QED BY <1>4
<1> DEFINE up == ThoseUpTo(seq, set)
<1>6. P(up)
  <2> HIDE DEF P
  <2> QED BY <1>1, <1>5
<1> HIDE DEF up
<1>7. \A i \in 0 .. Len(seq) : up[i] = Step(up, i)
  <2> HIDE DEF Step
  <2> QED BY <1>6
<1>8. \A i \in 0 .. Len(seq) - 1 : up[i + 1] = Step(up, i + 1)
  <2> HIDE DEF Step
  <2> QED BY <1>7
<1>9. \A i \in 0 .. Len(seq) - 1 : i + 1 # 0 /\ (i + 1) - 1 = i
  OBVIOUS
<1> QED BY <1>7, <1>8, <1>9 DEF up

\* Those(seq, set) has the members of seq that are in set, each once, in order.
LEMMA ThoseMembers ==
  ASSUME NEW T, NEW seq \in Seq(T), NEW set
  PROVE  /\ Those(seq, set) \in Seq(T)
         /\ \A k \in DOMAIN seq : seq[k] \in set =>
              \E i \in DOMAIN Those(seq, set) : Those(seq, set)[i] = seq[k]
         /\ \E h \in [DOMAIN Those(seq, set) -> DOMAIN seq] :
              /\ \A i \in DOMAIN h : Those(seq, set)[i] = seq[h[i]] /\ seq[h[i]] \in set
              /\ \A i, j \in DOMAIN h : i < j => h[i] < h[j]
<1> DEFINE up == ThoseUpTo(seq, set)
           Chosen(t, n, h) ==
              /\ h \in [1 .. Len(t) -> 1 .. n]
              /\ \A i \in 1 .. Len(t) : t[i] = seq[h[i]] /\ seq[h[i]] \in set
              /\ \A i, j \in 1 .. Len(t) : i < j => h[i] < h[j]
           All(t, n) == \A k \in 1 .. n : seq[k] \in set => \E i \in 1 .. Len(t) : t[i] = seq[k]
           Good(t, n) == t \in Seq(T) /\ All(t, n) /\ \E h : Chosen(t, n, h)
           S == {n \in Nat : n <= Len(seq) => Good(up[n], n)}
<1>1. Len(seq) \in Nat /\ DOMAIN seq = 1 .. Len(seq) /\ \A i \in 1 .. Len(seq) : seq[i] \in T
  OBVIOUS
<1>2. 0 \in S
  <2>1. up[0] = <<>>
    BY <1>1, ThoseUpToDef
  <2>2. Chosen(<<>>, 0, [i \in 1 .. 0 |-> i])
    OBVIOUS
  <2>3. \E h : Chosen(<<>>, 0, h)
    <3> HIDE DEF Chosen
    <3> QED BY <2>2
  <2>4. Good(<<>>, 0)
    <3> HIDE DEF Chosen
    <3> QED BY <2>3
  <2> HIDE DEF Good, up
  <2> QED BY <2>1, <2>4
<1>3. ASSUME NEW n \in Nat, n \in S PROVE n + 1 \in S
  <2> SUFFICES ASSUME n + 1 <= Len(seq) PROVE Good(up[n + 1], n + 1)
    OBVIOUS
  <2>1. Good(up[n], n)
    BY <1>3, <1>1
  <2>2. up[n + 1] = IF seq[n + 1] \in set THEN Append(up[n], seq[n + 1]) ELSE up[n]
    <3>1. n \in 0 .. Len(seq) - 1
      BY <1>1
    <3> QED BY <3>1, <1>1, ThoseUpToDef
  <2> DEFINE t == up[n]
  <2>3. PICK h : Chosen(t, n, h)
    <3> HIDE DEF Chosen
    <3> QED BY <2>1
  <2>4. t \in Seq(T) /\ All(t, n) /\ Len(t) \in Nat
    BY <2>1
  <2>5. seq[n + 1] \in T
    BY <1>1
  <2> HIDE DEF t, up
  <2>6. CASE seq[n + 1] \in set
    <3> DEFINE u == Append(t, seq[n + 1])
               g == [i \in 1 .. Len(u) |-> IF i = Len(u) THEN n + 1 ELSE h[i]]
    <3>1. u \in Seq(T) /\ Len(u) = Len(t) + 1 /\ u[Len(t) + 1] = seq[n + 1]
          /\ \A i \in 1 .. Len(t) : u[i] = t[i]
      BY <2>4, <2>5, AppendProperties
    <3> HIDE DEF u
    <3>2. Chosen(u, n + 1, g)
      <4>1. g \in [1 .. Len(u) -> 1 .. n + 1]
        BY <3>1, <2>3, <2>4
      <4>2. \A i \in 1 .. Len(u) : u[i] = seq[g[i]] /\ seq[g[i]] \in set
        BY <3>1, <2>3, <2>4, <2>6
      <4>3. ASSUME NEW i \in 1 .. Len(u), NEW j \in 1 .. Len(u), i < j PROVE g[i] < g[j]
        <5>0. i \in 1 .. Len(t) /\ i # Len(u)
          BY <4>3, <3>1, <2>4
        <5>1. i \in 1 .. Len(t) /\ g[i] = h[i] /\ h[i] \in 1 .. n
          BY <5>0, <2>3
        <5>2. CASE j = Len(u)
          BY <5>1, <5>2
        <5>3. CASE j # Len(u)
          <6>1. j \in 1 .. Len(t) /\ g[j] = h[j]
            BY <5>3, <3>1, <2>4
          <6> QED BY <6>1, <5>1, <4>3, <2>3
        <5> QED BY <5>2, <5>3
      <4> QED BY <4>1, <4>2, <4>3
    <3>3. All(u, n + 1)
      <4> SUFFICES ASSUME NEW k \in 1 .. n + 1, seq[k] \in set
                   PROVE  \E i \in 1 .. Len(u) : u[i] = seq[k]
        OBVIOUS
      <4>1. CASE k = n + 1
        BY <4>1, <3>1, <2>4
      <4>2. CASE k \in 1 .. n
        BY <4>2, <3>1, <2>4
      <4> QED BY <4>1, <4>2
    <3>4. Good(u, n + 1)
      <4> HIDE DEF Chosen, All, g
      <4> QED BY <3>1, <3>2, <3>3
    <3> QED BY <3>4, <2>2, <2>6 DEF t, u
  <2>7. CASE seq[n + 1] \notin set
    <3>1. Chosen(t, n + 1, h)
      BY <2>3, <2>4
    <3>2. All(t, n + 1)
      BY <2>4, <2>7
    <3>3. Good(t, n + 1)
      <4> HIDE DEF Chosen, All
      <4> QED BY <3>1, <3>2, <2>4
    <3> QED BY <3>3, <2>2, <2>7 DEF t
  <2> QED BY <2>6, <2>7
<1>4. Good(up[Len(seq)], Len(seq))
  <2> HIDE DEF Good
  <2>1. Len(seq) \in S
    <3> HIDE DEF S
    <3> QED BY <1>1, <1>2, <1>3, NatSetInduction
  <2> QED BY <2>1, <1>1
<1>5. up[Len(seq)] = Those(seq, set)
  BY DEF Those
<1>6. PICK h : Chosen(Those(seq, set), Len(seq), h)
  <2> HIDE DEF Chosen, up
  <2> QED BY <1>4, <1>5
<1>7. Those(seq, set) \in Seq(T) /\ All(Those(seq, set), Len(seq))
  <2> HIDE DEF Chosen, up, All
  <2> QED BY <1>4, <1>5
<1>8. DOMAIN Those(seq, set) = 1 .. Len(Those(seq, set))
  BY <1>7
<1>9. h \in [DOMAIN Those(seq, set) -> DOMAIN seq] /\ DOMAIN h = 1 .. Len(Those(seq, set))
  BY <1>6, <1>8, <1>1
<1> HIDE DEF up
<1> QED BY <1>1, <1>6, <1>7, <1>8, <1>9

\* What follows for what is in it and for what is there only once.
LEMMA ThoseFacts ==
  ASSUME NEW T, NEW seq \in Seq(T), NEW set
  PROVE  LET those == Those(seq, set) IN
         /\ those \in Seq(T)
         /\ {those[i] : i \in DOMAIN those} = {seq[i] : i \in DOMAIN seq} \cap set
         /\ those # <<>> => those[1] \in {seq[i] : i \in DOMAIN seq} \cap set
         /\ those = <<>> => {seq[i] : i \in DOMAIN seq} \cap set = {}
<1> DEFINE those == Those(seq, set)
<1>1. those \in Seq(T) /\ \A k \in DOMAIN seq : seq[k] \in set => \E i \in DOMAIN those : those[i] = seq[k]
  BY ThoseMembers
<1>2. \A i \in DOMAIN those : \E k \in DOMAIN seq : those[i] = seq[k] /\ seq[k] \in set
  <2>1. PICK h \in [DOMAIN those -> DOMAIN seq] :
              \A i \in DOMAIN h : those[i] = seq[h[i]] /\ seq[h[i]] \in set
    BY ThoseMembers
  <2> HIDE DEF those
  <2> QED BY <2>1
<1> HIDE DEF those
<1>3. {those[i] : i \in DOMAIN those} = {seq[i] : i \in DOMAIN seq} \cap set
  BY <1>1, <1>2
<1>4. those # <<>> => 1 \in DOMAIN those
  BY <1>1
<1>5. those = <<>> => DOMAIN those = {}
  OBVIOUS
<1> QED BY <1>1, <1>3, <1>4, <1>5 DEF those

\* What is still held is found as it is written: by asking again and again.
LEMMA KeptAfterDef ==
  ASSUME NEW s, NEW held, IsFiniteSet(DOMAIN s.nodes)
  PROVE  LET kept == KeptAfter(s, held)
             n    == Cardinality(DOMAIN s.nodes)
         IN  /\ n \in Nat
             /\ kept[0] = DOMAIN s.nodes
             /\ \A k \in 0 .. n - 1 : kept[k + 1] = StillHeld(s, held, kept[k])
<1> DEFINE size == Cardinality(DOMAIN s.nodes)
           Step(f, k) == IF k = 0 THEN DOMAIN s.nodes ELSE StillHeld(s, held, f[k - 1])
           P(f) == f = [k \in 0 .. size |-> Step(f, k)]
           S == {n \in Nat : \E f : f = [k \in 0 .. n |-> Step(f, k)]}
<1>0. size \in Nat
  BY FS_CardinalityType
<1>1. KeptAfter(s, held) = CHOOSE f : P(f)
  BY DEF KeptAfter
<1> HIDE DEF size
<1>2. 0 \in S
  <2> DEFINE f == [k \in 0 .. 0 |-> DOMAIN s.nodes]
  <2>1. f = [k \in 0 .. 0 |-> Step(f, k)]
    OBVIOUS
  <2> QED BY <2>1
<1>3. ASSUME NEW n \in Nat, n \in S PROVE n + 1 \in S
  <2>1. PICK f : f = [k \in 0 .. n |-> Step(f, k)]
    BY <1>3
  <2>2. \A k \in 0 .. n : f[k] = Step(f, k)
    <3> HIDE DEF Step
    <3> QED BY <2>1
  <2> DEFINE g == [k \in 0 .. n + 1 |-> IF k <= n THEN f[k] ELSE Step(f, n + 1)]
  <2>3. \A k \in 0 .. n + 1 : g[k] = Step(g, k)
    <3> SUFFICES ASSUME NEW k \in 0 .. n + 1 PROVE g[k] = Step(g, k)
      OBVIOUS
    <3>1. k # 0 => k - 1 \in 0 .. n /\ g[k - 1] = f[k - 1]
      OBVIOUS
    <3>2. Step(g, k) = Step(f, k)
      BY <3>1
    <3>3. k <= n => f[k] = Step(f, k)
      BY <2>2
    <3>4. g[k] = Step(f, k)
      BY <3>3
    <3> QED BY <3>2, <3>4
  <2>4. g = [k \in 0 .. n + 1 |-> Step(g, k)]
    <3> HIDE DEF Step
    <3> QED BY <2>3
  <2>5. \E h : h = [k \in 0 .. n + 1 |-> Step(h, k)]
    <3> HIDE DEF g, Step
    <3> QED BY <2>4
  <2>6. n + 1 \in Nat
    OBVIOUS
  <2> HIDE DEF Step
  <2> QED BY <2>5, <2>6
<1>4. \E f : P(f)
  BY <1>0, <1>2, <1>3, NatSetInduction
<1>5. P(CHOOSE f : P(f))
  <2> HIDE DEF P
  <2> QED BY <1>4
<1> DEFINE kept == KeptAfter(s, held)
<1>6. P(kept)
  <2> HIDE DEF P
  <2> QED BY <1>1, <1>5
<1> HIDE DEF kept
<1>7. \A k \in 0 .. size : kept[k] = Step(kept, k)
  <2> HIDE DEF Step
  <2> QED BY <1>6
<1>8. \A k \in 0 .. size - 1 : k + 1 \in 0 .. size /\ k + 1 # 0 /\ (k + 1) - 1 = k
  BY <1>0
<1>9. kept[0] = DOMAIN s.nodes /\ \A k \in 0 .. size - 1 : kept[k + 1] = StillHeld(s, held, kept[k])
  BY <1>0, <1>7, <1>8
<1> QED BY <1>0, <1>9 DEF kept, size

\* Having asked as often as there are nodes, nothing changes any more: what is kept is
\* held by somebody or by what is kept.  And all that holds itself together is kept.
LEMMA KeptFacts ==
  ASSUME NEW s, NEW held, IsFiniteSet(DOMAIN s.nodes)
  PROVE  /\ Kept(s, held) \subseteq DOMAIN s.nodes
         /\ Kept(s, held) = StillHeld(s, held, Kept(s, held))
         /\ \A K \in SUBSET DOMAIN s.nodes :
              K \subseteq StillHeld(s, held, K) => K \subseteq Kept(s, held)
<1> DEFINE size == Cardinality(DOMAIN s.nodes)
           kept == KeptAfter(s, held)
           Next1(K) == StillHeld(s, held, K)
           Good(K, k) == /\ K \subseteq DOMAIN s.nodes
                         /\ Next1(K) = K \/ Cardinality(K) <= size - k
           S == {k \in Nat : k <= size => Good(kept[k], k)}
           T(K) == {k \in Nat : k <= size => K \subseteq kept[k]}
<1>1. /\ size \in Nat
      /\ kept[0] = DOMAIN s.nodes
      /\ \A k \in 0 .. size - 1 : kept[k + 1] = Next1(kept[k])
  BY KeptAfterDef
<1>2. Kept(s, held) = kept[size]
  BY DEF Kept
<1>3. \A K : Next1(K) \subseteq K
  BY DEF StillHeld
<1>4. \A K, L : K \subseteq L => Next1(K) \subseteq Next1(L)
  BY DEF StillHeld
<1>a. \A K \in SUBSET DOMAIN s.nodes : IsFiniteSet(K) /\ Cardinality(K) \in Nat /\ Cardinality(K) <= size
  BY FS_Subset, FS_CardinalityType
<1>b. \A K \in SUBSET DOMAIN s.nodes : \A L \in SUBSET K : L # K => Cardinality(L) < Cardinality(K)
  BY <1>a, FS_Subset, FS_CardinalityType
<1>c. \A K \in SUBSET DOMAIN s.nodes : Cardinality(K) = 0 => K = {}
  BY <1>a, FS_EmptySet
<1> HIDE DEF size, kept, Next1
<1>5. 0 \in S
  BY <1>1, <1>a
<1>6. ASSUME NEW k \in Nat, k \in S PROVE k + 1 \in S
  <2> SUFFICES ASSUME k + 1 <= size PROVE Good(kept[k + 1], k + 1)
    OBVIOUS
  <2>1. k \in 0 .. size - 1 /\ k <= size
    BY <1>1
  <2>2. Good(kept[k], k) /\ kept[k + 1] = Next1(kept[k])
    BY <2>1, <1>6, <1>1
  <2>3. CASE Next1(kept[k]) = kept[k]
    <3>1. kept[k + 1] = kept[k]
      BY <2>2, <2>3
    <3> QED BY <3>1, <2>2, <2>3
  <2>4. CASE Next1(kept[k]) # kept[k]
    <3>1. Cardinality(kept[k + 1]) < Cardinality(kept[k]) /\ kept[k + 1] \subseteq DOMAIN s.nodes
      BY <2>2, <2>4, <1>3, <1>b
    <3>2. Cardinality(kept[k]) <= size - k /\ Cardinality(kept[k]) \in Nat /\ Cardinality(kept[k + 1]) \in Nat
      BY <2>2, <2>4, <3>1, <1>a
    <3>3. Cardinality(kept[k + 1]) <= size - (k + 1)
      BY <3>1, <3>2, <1>1
    <3> QED BY <3>1, <3>3
  <2> QED BY <2>3, <2>4
<1>7. Good(kept[size], size)
  <2> HIDE DEF Good
  <2>1. size \in S
    <3> HIDE DEF S
    <3> QED BY <1>1, <1>5, <1>6, NatSetInduction
  <2> QED BY <2>1, <1>1
<1>8. Next1(kept[size]) = kept[size]
  <2>1. CASE Cardinality(kept[size]) <= size - size
    <3>1. kept[size] = {}
      BY <2>1, <1>7, <1>1, <1>a, <1>c
    <3> QED BY <3>1, <1>3
  <2> QED BY <1>7, <2>1
<1>9. ASSUME NEW K \in SUBSET DOMAIN s.nodes, K \subseteq Next1(K) PROVE K \subseteq kept[size]
  <2>1. 0 \in T(K)
    BY <1>1
  <2>2. ASSUME NEW k \in Nat, k \in T(K) PROVE k + 1 \in T(K)
    <3> SUFFICES ASSUME k + 1 <= size PROVE K \subseteq kept[k + 1]
      OBVIOUS
    <3>1. k \in 0 .. size - 1 /\ k <= size
      BY <1>1
    <3>2. K \subseteq kept[k] /\ kept[k + 1] = Next1(kept[k])
      BY <3>1, <2>2, <1>1
    <3> QED BY <3>2, <1>9, <1>4
  <2>3. size \in T(K)
    <3> HIDE DEF T
    <3> QED BY <1>1, <2>1, <2>2, NatSetInduction
  <2> QED BY <2>3, <1>1
<1> QED BY <1>2, <1>7, <1>8, <1>9 DEF Next1

-----------------------------------------------------------------------------
\* A new id is one that no node has.
LEMMA NewIdFresh ==
  ASSUME NEW s, IsFiniteSet(DOMAIN s.nodes)
  PROVE  NewId(s) \in Ids /\ ~Has(s, NewId(s))
<1> DEFINE n == Cardinality(DOMAIN s.nodes)
           I == 1 .. n + 1
<1>1. n \in Nat
  BY FS_CardinalityType
<1>2. IsFiniteSet(I) /\ Cardinality(I) = n + 1
  BY <1>1, FS_Interval
<1>3. ~(I \subseteq DOMAIN s.nodes)
  <2> SUFFICES ASSUME I \subseteq DOMAIN s.nodes PROVE FALSE
    OBVIOUS
  <2> HIDE DEF I
  <2>1. Cardinality(I) <= n
    BY FS_Subset
  <2> QED BY <2>1, <1>1, <1>2
<1>4. \E id \in I : ~Has(s, id)
  BY <1>3 DEF Has
<1>5. NewId(s) \in I /\ ~Has(s, NewId(s))
  BY <1>4 DEF NewId
<1> QED BY <1>1, <1>5 DEF Ids

\* The store with a node more, and with an edge more.
LEMMA AddNodeFacts ==
  ASSUME NEW s, IsStore(s), NEW id \in Ids, NEW kind, NEW data,
         [kind |-> kind, data |-> data] \in PacketNodes \cup BytesNodes
  PROVE  LET t == AddNode(s, id, kind, data) IN
         /\ IsStore(t) /\ t.edges = s.edges /\ Edges(t) = Edges(s)
         /\ DOMAIN t.nodes = DOMAIN s.nodes \cup {id}
         /\ t.nodes[id] = [kind |-> kind, data |-> data]
         /\ \A other \in DOMAIN s.nodes \ {id} : t.nodes[other] = s.nodes[other]
<1> DEFINE node == [kind |-> kind, data |-> data]
           nodes == [n \in DOMAIN s.nodes \cup {id} |-> IF n = id THEN node ELSE s.nodes[n]]
           t == AddNode(s, id, kind, data)
<1>1. t = [nodes |-> nodes, edges |-> s.edges]
  BY DEF AddNode, IsStore
<1>2. nodes \in [DOMAIN s.nodes \cup {id} -> PacketNodes \cup BytesNodes]
  BY DEF IsStore
<1>3. IsFiniteSet(DOMAIN s.nodes \cup {id})
  BY FS_AddElement DEF IsStore
<1>4. nodes[id] = node /\ DOMAIN nodes = DOMAIN s.nodes \cup {id}
      /\ \A other \in DOMAIN s.nodes \ {id} : nodes[other] = s.nodes[other]
  BY DEF Has
<1>5. DOMAIN s.nodes \cup {id} \subseteq Ids /\ s.edges \in Seq(EdgeRecords)
  BY DEF IsStore
<1> HIDE DEF nodes, t, node
<1>6. t.nodes = nodes /\ t.edges = s.edges
  BY <1>1
<1>7. IsStore(t)
  BY <1>1, <1>2, <1>3, <1>4, <1>5, <1>6 DEF IsStore
<1>8. Edges(t) = Edges(s)
  BY <1>6 DEF Edges
<1> QED BY <1>4, <1>6, <1>7, <1>8 DEF t, node

\* A store with one more edge.
LEMMA AddEdgeFacts ==
  ASSUME NEW s, IsStore(s), NEW e \in EdgeRecords
  PROVE  LET t == AddEdge(s, e.from, e.to, e.metadata, e.success) IN
         /\ IsStore(t) /\ t.nodes = s.nodes /\ t.edges = Append(s.edges, e)
         /\ Edges(t) = Edges(s) \cup {e}
<1> DEFINE t == AddEdge(s, e.from, e.to, e.metadata, e.success)
<1>1. e = [from |-> e.from, to |-> e.to, metadata |-> e.metadata, success |-> e.success]
  BY DEF EdgeRecords
<1>2. t = [nodes |-> s.nodes, edges |-> Append(s.edges, e)]
  <2> DEFINE r == [from |-> e.from, to |-> e.to, metadata |-> e.metadata, success |-> e.success]
  <2>1. t = [s EXCEPT !.edges = Append(@, r)]
    BY DEF AddEdge
  <2>2. r = e
    BY <1>1
  <2> HIDE DEF t, r
  <2>3. s = [nodes |-> s.nodes, edges |-> s.edges]
    BY DEF IsStore
  <2>4. [s EXCEPT !.edges = Append(@, e)] = [nodes |-> s.nodes, edges |-> Append(s.edges, e)]
    <3> DEFINE n == s.nodes
               es == s.edges
    <3>1. s = [nodes |-> n, edges |-> es]
      BY <2>3
    <3> HIDE DEF n, es
    <3>2. [s EXCEPT !.edges = Append(@, e)] = [nodes |-> n, edges |-> Append(es, e)]
      BY <3>1
    <3> QED BY <3>2 DEF n, es
  <2> QED BY <2>1, <2>2, <2>4
<1>3. s.edges \in Seq(EdgeRecords)
  BY DEF IsStore
<1>4. Append(s.edges, e) \in Seq(EdgeRecords) /\ Len(Append(s.edges, e)) = Len(s.edges) + 1
      /\ Append(s.edges, e)[Len(s.edges) + 1] = e
      /\ \A i \in 1 .. Len(s.edges) : Append(s.edges, e)[i] = s.edges[i]
  BY <1>3, AppendProperties
<1> HIDE DEF t
<1>5. t.nodes = s.nodes /\ t.edges = Append(s.edges, e)
  BY <1>2
<1>6. IsStore(t)
  BY <1>2, <1>4, <1>5 DEF IsStore
<1>7. Edges(t) = Edges(s) \cup {e}
  <2> DEFINE es == s.edges
             fs == Append(s.edges, e)
             n  == Len(s.edges)
  <2>1. DOMAIN es = 1 .. n /\ DOMAIN fs = 1 .. n + 1 /\ n \in Nat
    BY <1>3, <1>4
  <2>2. fs[n + 1] = e /\ \A i \in 1 .. n : fs[i] = es[i]
    BY <1>4
  <2> HIDE DEF es, fs, n
  <2>3. {fs[i] : i \in 1 .. n + 1} = {es[i] : i \in 1 .. n} \cup {e}
    <3>1. 1 .. n + 1 = (1 .. n) \cup {n + 1}
      BY <2>1
    <3> QED BY <3>1, <2>2
  <2> QED BY <2>1, <2>3, <1>5 DEF Edges, es, fs
<1> QED BY <1>5, <1>6, <1>7 DEF t

\* What is found is at the end of an edge out, or at the beginning of an edge in.
LEMMA EdgesFound ==
  ASSUME NEW s, IsStore(s), NEW set, set \subseteq Edges(s)
  PROVE  LET found == Those(s.edges, set) IN
         /\ found \in Seq(EdgeRecords)
         /\ {found[i] : i \in DOMAIN found} = set
         /\ found # <<>> => found[1] \in set
         /\ found = <<>> => set = {}
<1>1. s.edges \in Seq(EdgeRecords)
  BY DEF IsStore
<1>2. {s.edges[i] : i \in DOMAIN s.edges} \cap set = set
  BY DEF Edges
<1> QED BY <1>1, <1>2, ThoseFacts

\* An edge to bytes that have been made of a node, and one from bytes to the node.
MadeOf(s, id, metadata, e) == e.from = id /\ s.nodes[e.to].kind = "bytes" /\ e.metadata = metadata
\* And one from what it has been read from.
ReadFrom(s, id, metadata, e) == e.to = id /\ s.nodes[e.from].kind = "bytes" /\ e.metadata = metadata

\* What is found in another format is at one end of such an edge.
LEMMA FindOtherFormatFacts ==
  ASSUME NEW s, IsStore(s), NEW id, NEW metadata
  PROVE  LET found == FindOtherFormat(s, id, "bytes", metadata) IN
         /\ found # <<>> =>
              \/ \E e \in Edges(s) : /\ MadeOf(s, id, metadata, e)
                                     /\ found[1].node = e.to /\ found[1].success = e.success
              \/ \E e \in Edges(s) : /\ ReadFrom(s, id, metadata, e)
                                     /\ found[1].node = e.from /\ found[1].success = TRUE
         /\ found = <<>> => \A e \in Edges(s) : ~MadeOf(s, id, metadata, e) /\ ~ReadFrom(s, id, metadata, e)
<1> DEFINE OutSet == {e \in Edges(s) : /\ e.from = id /\ s.nodes[e.to].kind = "bytes"
                                       /\ e.metadata = metadata}
           InAll  == {e \in Edges(s) : e.to = id /\ s.nodes[e.from].kind = "bytes"}
           Right  == {e \in Edges(s) : e.metadata = metadata}
           out    == EdgesOutByResults(s, id, "bytes", metadata)
           all    == Those(s.edges, InAll)
           in     == Those(all, Right)
           outs   == [i \in DOMAIN out |-> [node |-> out[i].to, success |-> out[i].success]]
           ins    == [i \in DOMAIN in |-> [node |-> in[i].from, success |-> TRUE]]
<1>1. /\ out \in Seq(EdgeRecords)
      /\ out # <<>> => out[1] \in OutSet
      /\ out = <<>> => OutSet = {}
  <2>1. OutSet \subseteq Edges(s)
    OBVIOUS
  <2>2. out = Those(s.edges, OutSet)
    BY DEF EdgesOutByResults
  <2> HIDE DEF OutSet, out
  <2> QED BY <2>1, <2>2, EdgesFound
<1>2. /\ all \in Seq(EdgeRecords)
      /\ {all[i] : i \in DOMAIN all} = InAll
  <2>1. InAll \subseteq Edges(s)
    OBVIOUS
  <2> HIDE DEF InAll
  <2> QED BY <2>1, EdgesFound
<1>3. /\ in \in Seq(EdgeRecords)
      /\ in # <<>> => in[1] \in InAll \cap Right
      /\ in = <<>> => InAll \cap Right = {}
  <2>1. {all[i] : i \in DOMAIN all} \cap Right = InAll \cap Right
    BY <1>2
  <2> HIDE DEF InAll, Right, all
  <2> QED BY <1>2, <2>1, ThoseFacts
<1>4. FindOtherFormat(s, id, "bytes", metadata) = outs \o ins
  BY DEF FindOtherFormat, EdgesInBySource
<1> HIDE DEF out, all, in
<1> DEFINE R == [node : Ids, success : BOOLEAN]
<1>5. outs \in Seq(R) /\ Len(outs) = Len(out)
  <2>1. \A i \in DOMAIN out : out[i] \in EdgeRecords
    BY <1>1
  <2>2. \A i \in DOMAIN out : [node |-> out[i].to, success |-> out[i].success] \in R
    BY <2>1 DEF EdgeRecords
  <2>3. DOMAIN out = 1 .. Len(out) /\ Len(out) \in Nat
    BY <1>1
  <2> QED BY <2>2, <2>3
<1>6. ins \in Seq(R) /\ Len(ins) = Len(in)
  <2>1. \A i \in DOMAIN in : in[i] \in EdgeRecords
    BY <1>3
  <2>2. \A i \in DOMAIN in : [node |-> in[i].from, success |-> TRUE] \in R
    BY <2>1 DEF EdgeRecords
  <2>3. DOMAIN in = 1 .. Len(in) /\ Len(in) \in Nat
    BY <1>3
  <2> QED BY <2>2, <2>3
<1>7. out # <<>> => 1 \in DOMAIN out /\ outs[1] = [node |-> out[1].to, success |-> out[1].success]
  BY <1>1
<1>8. in # <<>> => 1 \in DOMAIN in /\ ins[1] = [node |-> in[1].from, success |-> TRUE]
  <2>1. in # <<>> => 1 \in DOMAIN in
    BY <1>3
  <2> QED BY <2>1
<1>9. Len(out) \in Nat /\ Len(in) \in Nat /\ (out # <<>> => Len(out) >= 1)
      /\ (in # <<>> => Len(in) >= 1) /\ (out = <<>> => Len(out) = 0) /\ (in = <<>> => Len(in) = 0)
  BY <1>1, <1>3
<1> HIDE DEF outs, ins
<1>10. out # <<>> => (outs \o ins)[1] = outs[1]
  BY <1>5, <1>6, <1>9
<1>11. out = <<>> /\ in # <<>> => (outs \o ins)[1] = ins[1]
  BY <1>5, <1>6, <1>9
<1>12. outs \o ins = <<>> => out = <<>> /\ in = <<>>
  BY <1>5, <1>6, <1>9
<1>13. outs \o ins # <<>> => out # <<>> \/ in # <<>>
  BY <1>5, <1>6, <1>9
<1> DEFINE found == FindOtherFormat(s, id, "bytes", metadata)
<1>14. CASE out # <<>>
  <2>1. out[1] \in OutSet /\ outs[1].node = out[1].to /\ outs[1].success = out[1].success
    BY <1>14, <1>1, <1>7
  <2>2. found # <<>> /\ found[1] = outs[1]
    BY <1>14, <1>4, <1>10, <1>12
  <2> HIDE DEF found
  <2> QED BY <2>1, <2>2 DEF found, MadeOf, ReadFrom
<1>15. CASE out = <<>> /\ in # <<>>
  <2>1. in[1] \in InAll \cap Right /\ ins[1].node = in[1].from /\ ins[1].success = TRUE
    BY <1>15, <1>3, <1>8
  <2>2. found # <<>> /\ found[1] = ins[1]
    BY <1>15, <1>4, <1>11, <1>12
  <2> HIDE DEF found
  <2> QED BY <2>1, <2>2 DEF found, MadeOf, ReadFrom
<1>16. CASE out = <<>> /\ in = <<>>
  <2>1. OutSet = {} /\ InAll \cap Right = {}
    BY <1>16, <1>1, <1>3
  <2>2. found = <<>>
    BY <1>16, <1>4, <1>13
  <2> HIDE DEF found
  <2> QED BY <2>1, <2>2 DEF found, MadeOf, ReadFrom
<1> QED BY <1>14, <1>15, <1>16

-----------------------------------------------------------------------------
\* The nodes of one store are those of another, and there may be more.
Extends(s, t) == \A id \in DOMAIN s.nodes : id \in DOMAIN t.nodes /\ t.nodes[id] = s.nodes[id]

\* An edge in a right store has its ends there.
LEMMA EndsThere ==
  ASSUME NEW s, NEW now, EdgesRight(s, now), NEW e \in Edges(s)
  PROVE  e.from \in DOMAIN s.nodes /\ e.to \in DOMAIN s.nodes
BY DEF EdgesRight, ResultEdge, ParseEdge, IsPacket, IsBytes, Has

\* What has been right stays right when there are more nodes.
LEMMA ResultEdgeStays ==
  ASSUME NEW s, NEW t, Extends(s, t), NEW e, ResultEdge(s, e)
  PROVE  ResultEdge(t, e)
BY DEF Extends, ResultEdge, IsPacket, IsBytes, Has, Data

\* An edge to a packet that has been parsed, if nothing leads to its source.
LEMMA ParseEdgeStays ==
  ASSUME NEW s, NEW t, Extends(s, t), NEW e, ParseEdge(s, e),
         \A other \in Edges(t) : other \in Edges(s) \/ other.to # e.from
  PROVE  ParseEdge(t, e)
BY DEF Extends, ParseEdge, IsPacket, IsBytes, Has, Data

\* One more edge is not there twice if there is none from the same node with the
\* same metadata.
LEMMA OneMoreEdge ==
  ASSUME NEW s, s.edges \in Seq(EdgeRecords), NothingTwice(s), NEW e0 \in EdgeRecords,
         NEW t, t.edges = Append(s.edges, e0),
         \A e \in Edges(s) : ~(e.from = e0.from /\ e.metadata = e0.metadata)
  PROVE  NothingTwice(t)
<1> DEFINE n == Len(s.edges)
<1>1. /\ n \in Nat /\ DOMAIN s.edges = 1 .. n /\ DOMAIN t.edges = 1 .. n + 1
      /\ t.edges[n + 1] = e0 /\ \A i \in 1 .. n : t.edges[i] = s.edges[i]
  BY AppendProperties
<1>2. \A i \in 1 .. n : ~(s.edges[i].from = e0.from /\ s.edges[i].metadata = e0.metadata)
  BY <1>1 DEF Edges
<1> HIDE DEF n
<1> SUFFICES ASSUME NEW i \in 1 .. n + 1, NEW j \in 1 .. n + 1,
                    t.edges[i].from = t.edges[j].from, t.edges[i].metadata = t.edges[j].metadata
             PROVE  i = j
  BY <1>1 DEF NothingTwice
<1>3. CASE i \in 1 .. n /\ j \in 1 .. n
  BY <1>1, <1>3 DEF NothingTwice
<1>4. CASE i = n + 1 /\ j \in 1 .. n
  BY <1>1, <1>2, <1>4
<1>5. CASE i \in 1 .. n /\ j = n + 1
  BY <1>1, <1>2, <1>5
<1> QED BY <1>1, <1>3, <1>4, <1>5

\* The store when something has been made of a packet.
LEMMA ResultFacts ==
  ASSUME NEW s, NEW now \in Nat, StoreRight(s, now), AtOnce(s, now),
         now # 0 => IsPacket(s, now),
         NEW id, IsPacket(s, id), NEW metadata \in Nat, NEW bytes \in BytesDatas,
         NEW success \in BOOLEAN,
         bytes.flagged = Data(s, id).flagged, bytes.prefix = metadata,
         Data(s, id).content.generates[Data(s, id).flagged] => success,
         \A e \in Edges(s) : ~(e.from = id /\ e.metadata = metadata),
         id = now /\ ~Data(s, now).flagged => success /\ bytes.asRead
  PROVE  LET t == Result(s, id, metadata, bytes, success).store IN
         StoreRight(t, now) /\ AtOnce(t, now) /\ Extends(s, t)
<1> DEFINE new == NewId(s)
           u   == AddNode(s, new, "bytes", bytes)
           e0  == [from |-> id, to |-> new, metadata |-> metadata, success |-> success]
           t   == AddEdge(u, e0.from, e0.to, e0.metadata, e0.success)
<1>0. Result(s, id, metadata, bytes, success).store = t
  BY DEF Result
<1>1. IsStore(s) /\ EdgesRight(s, now) /\ NothingTwice(s)
  BY DEF StoreRight
<1>2. new \in Ids /\ ~Has(s, new)
  BY <1>1, NewIdFresh DEF IsStore
<1>3. [kind |-> "bytes", data |-> bytes] \in PacketNodes \cup BytesNodes
  BY DEF BytesNodes
<1> HIDE DEF new
<1>4. /\ IsStore(u) /\ u.edges = s.edges /\ Edges(u) = Edges(s)
      /\ DOMAIN u.nodes = DOMAIN s.nodes \cup {new}
      /\ u.nodes[new] = [kind |-> "bytes", data |-> bytes]
      /\ \A other \in DOMAIN s.nodes \ {new} : u.nodes[other] = s.nodes[other]
  BY <1>1, <1>2, <1>3, AddNodeFacts
<1>5. id \in Ids
  BY <1>1 DEF IsStore, IsPacket, Has
<1>6. e0 \in EdgeRecords
  BY <1>2, <1>5 DEF EdgeRecords
<1>a. e0.from = id /\ e0.to = new /\ e0.metadata = metadata /\ e0.success = success
  OBVIOUS
<1> HIDE DEF u, e0
<1>7. IsStore(t) /\ t.nodes = u.nodes /\ t.edges = Append(s.edges, e0) /\ Edges(t) = Edges(s) \cup {e0}
  <2>1. IsStore(u)
    BY <1>4
  <2>2. /\ IsStore(t) /\ t.nodes = u.nodes /\ t.edges = Append(u.edges, e0)
        /\ Edges(t) = Edges(u) \cup {e0}
    BY ONLY <1>6, <2>1, AddEdgeFacts
  <2> QED BY ONLY <1>4, <2>2
<1> HIDE DEF t
<1>8. Extends(s, t)
  BY <1>2, <1>4, <1>7 DEF Extends, Has
<1>9. t.nodes[new] = [kind |-> "bytes", data |-> bytes] /\ new \in DOMAIN t.nodes
  BY <1>4, <1>7
<1>10. id \in DOMAIN s.nodes /\ t.nodes[id] = s.nodes[id] /\ id \in DOMAIN t.nodes
  BY <1>8 DEF Extends, IsPacket, Has
<1>11. EdgesRight(t, now)
  <2> SUFFICES ASSUME NEW e \in Edges(t)
               PROVE  ResultEdge(t, e) \/ (e.to = now /\ ParseEdge(t, e))
    BY DEF EdgesRight
  <2>1. CASE e = e0
    <3>1. IsPacket(t, id) /\ Data(t, id) = Data(s, id)
      BY <1>10 DEF IsPacket, Has, Data
    <3>2. IsBytes(t, new) /\ Data(t, new) = bytes
      BY <1>9 DEF IsBytes, Has, Data
    <3> QED BY <2>1, <3>1, <3>2, <1>a DEF ResultEdge
  <2>2. CASE e \in Edges(s)
    <3>1. ResultEdge(s, e) \/ (e.to = now /\ ParseEdge(s, e))
      BY <2>2, <1>1 DEF EdgesRight
    <3>2. e0.to # e.from
      BY <2>2, <1>1, <1>2, <1>a, EndsThere DEF Has
    <3> QED BY <3>1, <3>2, <1>7, <1>8, ResultEdgeStays, ParseEdgeStays
  <2> QED BY <2>1, <2>2, <1>7
<1>12. NothingTwice(t)
  BY <1>1, <1>6, <1>7, <1>a, OneMoreEdge DEF IsStore
<1>13. AtOnce(t, now)
  <2> SUFFICES ASSUME now # 0, ~Data(t, now).flagged
               PROVE  /\ \E e \in Edges(t) : e.to = now
                      /\ \A e \in Edges(t) : e.from = now => e.success /\ Data(t, e.to).asRead
    BY DEF AtOnce
  <2>1. now \in DOMAIN s.nodes /\ Data(t, now) = Data(s, now)
    BY <1>8 DEF Extends, IsPacket, Has, Data
  <2>2. /\ \E e \in Edges(s) : e.to = now
        /\ \A e \in Edges(s) : e.from = now => e.success /\ Data(s, e.to).asRead
    BY <2>1 DEF AtOnce
  <2>3. \A e \in Edges(s) : Data(t, e.to) = Data(s, e.to)
    BY <1>1, <1>8, EndsThere DEF Extends, Data
  <2>4. e0.from = now => e0.success /\ Data(t, e0.to).asRead
    BY <1>a, <1>9, <2>1 DEF Data
  <2> QED BY <2>2, <2>3, <2>4, <1>7
<1> QED BY <1>0, <1>7, <1>8, <1>11, <1>12, <1>13 DEF StoreRight

\* An edge at a packet leads to something made of it, or is the one it was parsed by.
LEMMA EdgesOfPacket ==
  ASSUME NEW s, NEW now, EdgesRight(s, now), NEW id, IsPacket(s, id), NEW e \in Edges(s)
  PROVE  /\ e.from = id => ResultEdge(s, e) /\ s.nodes[e.to].kind = "bytes"
         /\ e.to = id => id = now /\ ParseEdge(s, e) /\ s.nodes[e.from].kind = "bytes"
<1>1. ResultEdge(s, e) \/ (e.to = now /\ ParseEdge(s, e))
  BY DEF EdgesRight
<1>2. "packet" # "bytes"
  OBVIOUS
<1> QED BY <1>1, <1>2 DEF ResultEdge, ParseEdge, IsPacket, IsBytes

\* The data that an id in a store stands for, by type.
LEMMA PacketTypes ==
  ASSUME NEW s, IsStore(s), NEW id
  PROVE  /\ IsPacket(s, id) => /\ id \in Ids /\ Data(s, id) \in PacketDatas
                               /\ Data(s, id).flagged \in BOOLEAN /\ Data(s, id).name \in FirstPackets
                               /\ Data(s, id).content \in Content
                               /\ Data(s, id).content.prefix \in Nat
                               /\ Data(s, id).content.generates[Data(s, id).flagged] \in BOOLEAN
         /\ IsBytes(s, id) => id \in Ids /\ Data(s, id) \in BytesDatas
<1>1. Has(s, id) => id \in Ids /\ s.nodes[id] \in PacketNodes \cup BytesNodes
  BY DEF IsStore, Has
<1>2. IsPacket(s, id) => id \in Ids /\ Data(s, id) \in PacketDatas
  BY <1>1 DEF IsPacket, Data, PacketNodes, BytesNodes
<1>3. IsBytes(s, id) => id \in Ids /\ Data(s, id) \in BytesDatas
  BY <1>1 DEF IsBytes, Data, PacketNodes, BytesNodes
<1>4. \A d \in PacketDatas : /\ d.flagged \in BOOLEAN /\ d.name \in FirstPackets /\ d.content \in Content
                             /\ d.content.prefix \in Nat /\ d.content.generates \in [BOOLEAN -> BOOLEAN]
  BY DEF PacketDatas, Content
<1>5. \A d \in PacketDatas : d.content.generates[d.flagged] \in BOOLEAN
  BY <1>4
<1> QED BY <1>2, <1>3, <1>4, <1>5

\* What generating does to the store, and what comes of it.
LEMMA GenerateNodeFacts ==
  ASSUME NEW s, NEW now \in Nat, StoreRight(s, now), AtOnce(s, now),
         now # 0 => IsPacket(s, now),
         NEW id, IsPacket(s, id), NEW prefixLength \in Nat
  PROVE  LET g == GenerateNode(s, id, prefixLength) IN
         /\ StoreRight(g.store, now) /\ AtOnce(g.store, now) /\ Extends(s, g.store)
         /\ EntryRight(Made(s, id, now, prefixLength, g))
<1> DEFINE g == GenerateNode(s, id, prefixLength)
           packet == Data(s, id)
           found == FindOtherFormat(s, id, "bytes", prefixLength)
           sources == EdgesInBySource(s, id, "bytes")
           InAll == {e \in Edges(s) : e.to = id /\ s.nodes[e.from].kind = "bytes"}
<1>0. SUFFICES /\ StoreRight(g.store, now) /\ AtOnce(g.store, now) /\ Extends(s, g.store)
               /\ EntryRight(Made(s, id, now, prefixLength, g))
  OBVIOUS
<1>1. IsStore(s) /\ EdgesRight(s, now) /\ NothingTwice(s)
  BY DEF StoreRight
<1>2. /\ id \in Ids /\ packet \in PacketDatas /\ packet.flagged \in BOOLEAN
      /\ packet.content.prefix \in Nat /\ packet.name \in FirstPackets
      /\ packet.content.generates[packet.flagged] \in BOOLEAN
  BY <1>1, PacketTypes
<1>3. Extends(s, s)
  BY DEF Extends
<1>4. /\ sources # <<>> => sources[1] \in InAll
      /\ sources = <<>> => InAll = {}
  <2>1. InAll \subseteq Edges(s)
    OBVIOUS
  <2>2. sources = Those(s.edges, InAll)
    BY DEF EdgesInBySource
  <2> HIDE DEF InAll, sources
  <2> QED BY <1>1, <2>1, <2>2, EdgesFound
<1>5. \A e \in Edges(s) :
        /\ e.from = id => ResultEdge(s, e) /\ s.nodes[e.to].kind = "bytes"
        /\ e.to = id => id = now /\ ParseEdge(s, e) /\ s.nodes[e.from].kind = "bytes"
  BY <1>1, EdgesOfPacket
<1>6. ASSUME NEW outcome, NEW bytes, g.outcome = outcome, g.bytes = bytes,
             outcome \in {"sent", "discarded", "exception"},
             outcome = "exception" => prefixLength \notin {0, packet.content.prefix},
             outcome = "discarded" => ~packet.content.generates[packet.flagged],
             outcome = "sent" => bytes.flagged = packet.flagged,
             id = now /\ ~packet.flagged /\ prefixLength \in {0, packet.content.prefix} =>
               outcome = "sent" /\ bytes.asRead /\ bytes.prefix = prefixLength
      PROVE  EntryRight(Made(s, id, now, prefixLength, g))
  <2> DEFINE e == Made(s, id, now, prefixLength, g)
  <2>1. /\ e.packet = packet /\ e.late = (id # now) /\ e.prefix = prefixLength
        /\ e.outcome = outcome /\ e.bytes = bytes
    <3> HIDE DEF g
    <3> QED BY <1>6 DEF Made, Data
  <2> HIDE DEF e, packet
  <2>2. Available(e) <=> prefixLength \in {0, packet.content.prefix}
    BY <2>1 DEF Available
  <2>3. ~e.late <=> id = now
    BY <2>1
  <2>4. /\ e.packet \in PacketDatas
        /\ e.outcome \in {"sent", "discarded", "exception"}
        /\ e.outcome = "exception" => ~Available(e)
        /\ e.outcome = "discarded" => ~e.packet.content.generates[e.packet.flagged]
        /\ e.outcome = "sent" => e.bytes.flagged = e.packet.flagged
    BY <2>1, <2>2, <1>2, <1>6
  <2>5. ~e.late /\ ~e.packet.flagged /\ Available(e) =>
          e.outcome = "sent" /\ e.bytes.asRead /\ e.bytes.prefix = e.prefix
    <3> SUFFICES ASSUME ~e.late, ~e.packet.flagged, Available(e)
                 PROVE  e.outcome = "sent" /\ e.bytes.asRead /\ e.bytes.prefix = e.prefix
      OBVIOUS
    <3>1. id = now /\ prefixLength \in {0, packet.content.prefix}
      BY <2>2, <2>3
    <3>2. ~packet.flagged
      BY <2>1
    <3>3. outcome = "sent" /\ bytes.asRead /\ bytes.prefix = prefixLength
      BY <3>1, <3>2, <1>6
    <3> QED BY <3>3, <2>1
  <2>6. EntryRight(e)
    BY <2>4, <2>5 DEF EntryRight
  <2> QED BY <2>6 DEF e
<1> HIDE DEF packet, sources, InAll
<1>7. CASE found # <<>>
  <2>1. g = [store |-> s, bytes |-> s.nodes[found[1].node].data,
             outcome |-> IF found[1].success THEN "sent" ELSE "discarded"]
    BY <1>7 DEF GenerateNode
  <2>2. \/ \E e \in Edges(s) : /\ MadeOf(s, id, prefixLength, e)
                               /\ found[1].node = e.to /\ found[1].success = e.success
        \/ \E e \in Edges(s) : /\ ReadFrom(s, id, prefixLength, e)
                               /\ found[1].node = e.from /\ found[1].success = TRUE
    BY <1>7, <1>1, FindOtherFormatFacts
  <2> HIDE DEF g, found
  <2>3. CASE \E e \in Edges(s) : /\ MadeOf(s, id, prefixLength, e)
                                 /\ found[1].node = e.to /\ found[1].success = e.success
    <3>1. PICK e \in Edges(s) : /\ e.from = id /\ e.metadata = prefixLength
                                /\ found[1].node = e.to /\ found[1].success = e.success
      BY <2>3 DEF MadeOf
    <3>2. ResultEdge(s, e)
      BY <3>1, <1>5
    <3>3. /\ g.store = s /\ g.bytes = Data(s, e.to)
          /\ g.outcome = IF e.success THEN "sent" ELSE "discarded"
      BY <2>1, <3>1 DEF Data
    <3>4. /\ Data(s, e.to).flagged = packet.flagged /\ Data(s, e.to).prefix = prefixLength
          /\ packet.content.generates[packet.flagged] => e.success
      BY <3>1, <3>2 DEF ResultEdge, packet
    <3>5. id = now /\ ~packet.flagged => e.success /\ Data(s, e.to).asRead
      BY <3>1, <1>2 DEF AtOnce, packet, Ids
    <3>6. g.outcome \in {"sent", "discarded", "exception"} /\ g.outcome # "exception"
          /\ (g.outcome = "discarded" => ~e.success) /\ (e.success => g.outcome = "sent")
      BY <3>3
    <3>7. EntryRight(Made(s, id, now, prefixLength, g))
      BY <3>3, <3>4, <3>5, <3>6, <1>6
    <3> QED BY <3>3, <3>7, <1>3
  <2>4. CASE \E e \in Edges(s) : /\ ReadFrom(s, id, prefixLength, e)
                                 /\ found[1].node = e.from /\ found[1].success = TRUE
    <3>1. PICK e \in Edges(s) : /\ e.to = id /\ e.metadata = prefixLength
                                /\ found[1].node = e.from /\ found[1].success = TRUE
      BY <2>4 DEF ReadFrom
    <3>2. id = now /\ ParseEdge(s, e)
      BY <3>1, <1>5
    <3>3. g.store = s /\ g.bytes = Data(s, e.from) /\ g.outcome = "sent"
      BY <2>1, <3>1 DEF Data
    <3>4. /\ ~Data(s, e.from).flagged /\ ~packet.flagged /\ Data(s, e.from).asRead
          /\ Data(s, e.from).prefix = prefixLength
      BY <3>1, <3>2 DEF ParseEdge, packet
    <3>5. IsBytes(s, e.from)
      BY <3>2 DEF ParseEdge
    <3>6. Data(s, e.from).flagged \in BOOLEAN
      BY <3>5, <1>1, PacketTypes DEF BytesDatas
    <3>7. EntryRight(Made(s, id, now, prefixLength, g))
      BY <3>3, <3>4, <3>6, <1>2, <1>6
    <3> QED BY <3>3, <3>7, <1>3
  <2> QED BY <2>2, <2>3, <2>4
<1>8. CASE found = <<>>
  <2>1. \A e \in Edges(s) : ~MadeOf(s, id, prefixLength, e) /\ ~ReadFrom(s, id, prefixLength, e)
    BY <1>8, <1>1, FindOtherFormatFacts
  <2>2. \A e \in Edges(s) : ~(e.from = id /\ e.metadata = prefixLength)
    BY <2>1, <1>5 DEF MadeOf
  <2>3. CASE prefixLength = 0 /\ sources # <<>>
    <3> DEFINE e == sources[1]
               bytes == [Data(s, e.from) EXCEPT !.prefix = @ - packet.content.prefix]
    <3>1. g = Result(s, id, 0, bytes, TRUE)
      BY <1>8, <2>3 DEF GenerateNode, CutOff, sources, packet, Data
    <3>2. e \in Edges(s) /\ e.to = id
      BY <2>3, <1>4 DEF InAll
    <3> HIDE DEF e
    <3>3. id = now /\ ParseEdge(s, e)
      BY <3>2, <1>5
    <3>4. Data(s, e.from) \in BytesDatas
      BY <3>3, <1>1, PacketTypes DEF ParseEdge
    <3>5. /\ Data(s, e.from).prefix = packet.content.prefix /\ Data(s, e.from).asRead
          /\ ~Data(s, e.from).flagged /\ ~packet.flagged
      BY <3>2, <3>3 DEF ParseEdge, packet
    <3>6. bytes \in BytesDatas /\ bytes.prefix = 0 /\ bytes.flagged = packet.flagged /\ bytes.asRead
      <4> DEFINE d == Data(s, e.from)
      <4>1. d \in BytesDatas /\ d.prefix = packet.content.prefix /\ d.asRead /\ ~d.flagged
        BY <3>4, <3>5
      <4> HIDE DEF d
      <4>2. d.prefix - packet.content.prefix = 0
        BY <4>1, <1>2
      <4>3. [d EXCEPT !.prefix = 0] \in BytesDatas /\ [d EXCEPT !.prefix = 0].prefix = 0
            /\ [d EXCEPT !.prefix = 0].flagged = d.flagged /\ [d EXCEPT !.prefix = 0].asRead = d.asRead
        BY <4>1 DEF BytesDatas
      <4>4. d.flagged = packet.flagged
        BY <4>1, <3>5, <1>2 DEF BytesDatas
      <4>5. bytes = [d EXCEPT !.prefix = 0]
        BY <4>2 DEF d
      <4> HIDE DEF bytes
      <4> QED BY <4>1, <4>3, <4>4, <4>5
    <3> HIDE DEF bytes
    <3>7. g.bytes = bytes /\ g.outcome = "sent" /\ g.store = Result(s, id, 0, bytes, TRUE).store
      BY <3>1 DEF Result
    <3>8. StoreRight(g.store, now) /\ AtOnce(g.store, now) /\ Extends(s, g.store)
      <4> HIDE DEF g
      <4>1. \A x \in Edges(s) : ~(x.from = id /\ x.metadata = 0)
        BY <2>2, <2>3
      <4>2. bytes.flagged = Data(s, id).flagged
        BY <3>6 DEF packet
      <4>3. StoreRight(Result(s, id, 0, bytes, TRUE).store, now)
            /\ AtOnce(Result(s, id, 0, bytes, TRUE).store, now)
            /\ Extends(s, Result(s, id, 0, bytes, TRUE).store)
        <5> DEFINE yes == TRUE
        <5>1. yes \in BOOLEAN /\ yes = TRUE
          OBVIOUS
        <5>2. 0 \in Nat
          OBVIOUS
        <5> HIDE DEF yes
        <5>3. StoreRight(Result(s, id, 0, bytes, yes).store, now)
            /\ AtOnce(Result(s, id, 0, bytes, yes).store, now)
            /\ Extends(s, Result(s, id, 0, bytes, yes).store)
          BY <5>1, <5>2, <3>6, <4>1, <4>2, ResultFacts
        <5> QED BY <5>3 DEF yes
      <4> QED BY <3>7, <4>3
    <3>9. EntryRight(Made(s, id, now, prefixLength, g))
      <4> HIDE DEF g
      <4> QED BY <3>6, <3>7, <2>3, <1>6
    <3> QED BY <3>8, <3>9
  <2>4. CASE ~(prefixLength = 0 /\ sources # <<>>)
    <3>1. g = Regenerate(s, id, prefixLength)
      BY <1>8, <2>4 DEF GenerateNode, sources
    <3>2. CASE prefixLength \notin {0, packet.content.prefix}
      <4>1. g.store = s /\ g.outcome = "exception"
        BY <3>1, <3>2 DEF Regenerate, packet, Data
      <4> HIDE DEF g
      <4>2. EntryRight(Made(s, id, now, prefixLength, g))
        BY <4>1, <3>2, <1>6
      <4> QED BY <4>1, <4>2, <1>3
    <3>3. CASE prefixLength \in {0, packet.content.prefix}
      <4> DEFINE bytes == BytesData(packet, prefixLength, FALSE)
                 success == packet.content.generates[packet.flagged]
      <4>1. g = Result(s, id, prefixLength, bytes, success)
        BY <3>1, <3>3 DEF Regenerate, packet, Data
      <4>2. bytes \in BytesDatas /\ bytes.prefix = prefixLength /\ bytes.flagged = packet.flagged
        BY <1>2 DEF BytesData, BytesDatas
      <4>3. success \in BOOLEAN
        BY <1>2
      <4>4. ~(id = now /\ ~packet.flagged)
        <5> SUFFICES ASSUME id = now, ~packet.flagged PROVE FALSE
          OBVIOUS
        <5>1. PICK e \in Edges(s) : e.to = id
          BY <1>2 DEF AtOnce, packet, Ids
        <5>2. ParseEdge(s, e) /\ s.nodes[e.from].kind = "bytes"
          BY <5>1, <1>5
        <5>3. e \in InAll /\ e.metadata = packet.content.prefix
          BY <5>1, <5>2 DEF InAll, ParseEdge, packet
        <5>4. sources # <<>>
          BY <5>3, <1>4
        <5>5. prefixLength = packet.content.prefix
          BY <5>4, <2>4, <3>3
        <5> QED BY <5>1, <5>2, <5>3, <5>5, <2>1 DEF ReadFrom
      <4> HIDE DEF bytes, success
      <4>5. g.bytes = bytes /\ g.outcome = (IF success THEN "sent" ELSE "discarded")
            /\ g.store = Result(s, id, prefixLength, bytes, success).store
        BY <4>1 DEF Result
      <4>6. StoreRight(g.store, now) /\ AtOnce(g.store, now) /\ Extends(s, g.store)
        <5> HIDE DEF g
        <5>1. Data(s, id).content.generates[Data(s, id).flagged] => success
          BY DEF success, packet
        <5>2. ~(id = now /\ ~Data(s, now).flagged)
          BY <4>4 DEF packet
        <5> QED BY <4>2, <4>3, <4>5, <5>1, <5>2, <2>2, ResultFacts DEF packet
      <4>7. EntryRight(Made(s, id, now, prefixLength, g))
        <5> HIDE DEF g
        <5>1. g.outcome \in {"sent", "discarded", "exception"} /\ g.outcome # "exception"
              /\ (g.outcome = "discarded" => ~success)
          BY <4>5, <4>3
        <5>2. success = packet.content.generates[packet.flagged]
          BY DEF success
        <5> QED BY <4>2, <4>4, <4>5, <5>1, <5>2, <1>6
      <4> QED BY <4>6, <4>7
    <3> QED BY <3>2, <3>3
  <2> QED BY <2>3, <2>4
<1> QED BY <1>7, <1>8

-----------------------------------------------------------------------------
\* The state it begins in.
FillStart(s, q, room) == FillState(s, q, <<>>, room, FALSE, TRUE)

\* Filling the send buffer is done as it is written: step by step.
LEMMA FillStepsDef ==
  ASSUME NEW s, NEW q, NEW prefixLength, NEW room, NEW now, Len(q) \in Nat
  PROVE  LET after == FillSteps(s, q, prefixLength, room, now)
         IN  /\ after[0] = FillStart(s, q, room)
             /\ \A k \in 0 .. Len(q) :
                  after[k + 1] = IF after[k].going THEN FillStep(after[k], prefixLength, now) ELSE after[k]
<1> DEFINE size == Len(q) + 1
           start == FillStart(s, q, room)
           Step(f, k) == IF k = 0 THEN start
                         ELSE IF f[k - 1].going THEN FillStep(f[k - 1], prefixLength, now) ELSE f[k - 1]
           P(f) == f = [k \in 0 .. size |-> Step(f, k)]
           S == {n \in Nat : \E f : f = [k \in 0 .. n |-> Step(f, k)]}
<1>0. size \in Nat
  OBVIOUS
<1>1. FillSteps(s, q, prefixLength, room, now) = CHOOSE f : P(f)
  BY DEF FillSteps, FillStart
<1> HIDE DEF size, start
<1>2. 0 \in S
  <2> DEFINE f == [k \in 0 .. 0 |-> start]
  <2>1. f = [k \in 0 .. 0 |-> Step(f, k)]
    OBVIOUS
  <2> QED BY <2>1
<1>3. ASSUME NEW n \in Nat, n \in S PROVE n + 1 \in S
  <2>1. PICK f : f = [k \in 0 .. n |-> Step(f, k)]
    BY <1>3
  <2>2. \A k \in 0 .. n : f[k] = Step(f, k)
    <3> HIDE DEF Step
    <3> QED BY <2>1
  <2> DEFINE g == [k \in 0 .. n + 1 |-> IF k <= n THEN f[k] ELSE Step(f, n + 1)]
  <2>3. \A k \in 0 .. n + 1 : g[k] = Step(g, k)
    <3> SUFFICES ASSUME NEW k \in 0 .. n + 1 PROVE g[k] = Step(g, k)
      OBVIOUS
    <3>1. k # 0 => k - 1 \in 0 .. n /\ g[k - 1] = f[k - 1]
      OBVIOUS
    <3>2. Step(g, k) = Step(f, k)
      BY <3>1
    <3>3. k <= n => f[k] = Step(f, k)
      BY <2>2
    <3>4. g[k] = Step(f, k)
      BY <3>3
    <3> QED BY <3>2, <3>4
  <2>4. g = [k \in 0 .. n + 1 |-> Step(g, k)]
    <3> HIDE DEF Step
    <3> QED BY <2>3
  <2>5. \E h : h = [k \in 0 .. n + 1 |-> Step(h, k)]
    <3> HIDE DEF g, Step
    <3> QED BY <2>4
  <2>6. n + 1 \in Nat
    OBVIOUS
  <2> HIDE DEF Step
  <2> QED BY <2>5, <2>6
<1>4. \E f : P(f)
  BY <1>0, <1>2, <1>3, NatSetInduction
<1>5. P(CHOOSE f : P(f))
  <2> HIDE DEF P
  <2> QED BY <1>4
<1> DEFINE after == FillSteps(s, q, prefixLength, room, now)
<1>6. P(after)
  <2> HIDE DEF P
  <2> QED BY <1>1, <1>5
<1> HIDE DEF after
<1>7. \A k \in 0 .. size : after[k] = Step(after, k)
  <2> HIDE DEF Step
  <2> QED BY <1>6
<1>8. \A k \in 0 .. Len(q) : k + 1 \in 0 .. size /\ k + 1 # 0 /\ (k + 1) - 1 = k
  BY DEF size
<1>9. /\ after[0] = start
      /\ \A k \in 0 .. Len(q) :
           after[k + 1] = IF after[k].going THEN FillStep(after[k], prefixLength, now) ELSE after[k]
  BY <1>0, <1>7, <1>8
<1> QED BY <1>9 DEF after, start

\* What is so of the send buffer after every step.
FillRight(fill, s, q, now) ==
    /\ StoreRight(fill.store, now) /\ AtOnce(fill.store, now) /\ Extends(s, fill.store)
    /\ fill.queue \in Seq(Ids) /\ Len(fill.queue) <= Len(q)
    /\ \A i \in DOMAIN fill.queue : \E j \in DOMAIN q : fill.queue[i] = q[j]
    /\ \E T : fill.made \in Seq(T) /\ \A x \in T : EntryRight(x)
    /\ fill.room \in Nat

\* Extending is transitive.
LEMMA ExtendsTwice ==
  ASSUME NEW s, NEW t, NEW u, Extends(s, t), Extends(t, u)
  PROVE  Extends(s, u)
BY DEF Extends

\* A packet is still there, and the same, when there are more nodes.
LEMMA PacketStays ==
  ASSUME NEW s, NEW t, Extends(s, t), NEW id, IsPacket(s, id)
  PROVE  IsPacket(t, id) /\ Data(t, id) = Data(s, id)
BY DEF Extends, IsPacket, Has, Data

\* One pass of the loop keeps right what was right.
LEMMA FillStepRight ==
  ASSUME NEW s, NEW q \in Seq(Ids), NEW now \in Nat, NEW prefixLength \in Nat,
         \A i \in DOMAIN q : IsPacket(s, q[i]), now # 0 => IsPacket(s, now),
         NEW fill, FillRight(fill, s, q, now)
  PROVE  FillRight(FillStep(fill, prefixLength, now), s, q, now)
<1> DEFINE id   == Head(fill.queue)
           new  == GenerateNode(fill.store, id, prefixLength)
           entry == Made(fill.store, id, now, prefixLength, new)
           done(room, grew, going) ==
             FillState(new.store, Tail(fill.queue), Append(fill.made, entry), room, grew, going)
           Good(x) == FillRight(x, s, q, now)
<1>1. /\ StoreRight(fill.store, now) /\ AtOnce(fill.store, now) /\ Extends(s, fill.store)
      /\ fill.queue \in Seq(Ids) /\ Len(fill.queue) <= Len(q)
      /\ \A i \in DOMAIN fill.queue : \E j \in DOMAIN q : fill.queue[i] = q[j]
      /\ \E T : fill.made \in Seq(T) /\ \A x \in T : EntryRight(x)
      /\ fill.room \in Nat
  BY DEF FillRight
<1>2. ASSUME NEW st, NEW qu, NEW ma, NEW ro, NEW gr, NEW go,
             StoreRight(st, now), AtOnce(st, now), Extends(s, st),
             qu \in Seq(Ids), Len(qu) <= Len(q),
             \A i \in DOMAIN qu : \E j \in DOMAIN q : qu[i] = q[j],
             \E T : ma \in Seq(T) /\ \A x \in T : EntryRight(x), ro \in Nat
      PROVE  Good(FillState(st, qu, ma, ro, gr, go))
  <2> DEFINE r == FillState(st, qu, ma, ro, gr, go)
  <2>1. r.store = st /\ r.queue = qu /\ r.made = ma /\ r.room = ro
    BY DEF FillState
  <2> HIDE DEF r
  <2>2. FillRight(r, s, q, now)
    BY <2>1, <1>2 DEF FillRight
  <2> QED BY <2>2 DEF r
<1> SUFFICES Good(FillStep(fill, prefixLength, now))
  OBVIOUS
<1> HIDE DEF Good
<1>3. CASE fill.queue = <<>>
  <2>1. FillStep(fill, prefixLength, now) =
          FillState(fill.store, fill.queue, fill.made, fill.room, fill.grew, FALSE)
    BY <1>3 DEF FillStep
  <2>2. \A gr, go : Good(FillState(fill.store, fill.queue, fill.made, fill.room, gr, go))
    BY <1>1, <1>2
  <2> QED BY <2>1, <2>2, Zenon
<1>4. CASE fill.queue # <<>>
  <2>1. 1 \in DOMAIN fill.queue /\ id = fill.queue[1] /\ Len(fill.queue) \in Nat /\ Len(fill.queue) >= 1
    BY <1>1, <1>4
  <2>2. IsPacket(fill.store, id)
    <3>1. PICK j \in DOMAIN q : id = q[j]
      BY <1>1, <2>1
    <3> HIDE DEF id
    <3> QED BY <3>1, <1>1, PacketStays
  <2>3. now # 0 => IsPacket(fill.store, now)
    BY <1>1, PacketStays
  <2>4. /\ StoreRight(new.store, now) /\ AtOnce(new.store, now) /\ Extends(fill.store, new.store)
        /\ EntryRight(entry)
    <3> HIDE DEF id
    <3> QED BY <1>1, <2>2, <2>3, GenerateNodeFacts
  <2>5. Extends(s, new.store)
    <3> HIDE DEF new
    <3> QED BY <1>1, <2>4, ExtendsTwice
  <2>6. /\ Tail(fill.queue) \in Seq(Ids) /\ Len(Tail(fill.queue)) <= Len(q)
        /\ \A i \in DOMAIN Tail(fill.queue) : \E j \in DOMAIN q : Tail(fill.queue)[i] = q[j]
    <3> DEFINE t == Tail(fill.queue)
    <3>1. /\ t \in Seq(Ids) /\ Len(t) = Len(fill.queue) - 1
          /\ \A i \in 1 .. Len(t) : t[i] = fill.queue[i + 1]
      BY <1>1, <1>4, HeadTailProperties
    <3> HIDE DEF t
    <3>2. DOMAIN t = 1 .. Len(t) /\ DOMAIN fill.queue = 1 .. Len(fill.queue)
      BY <1>1, <3>1
    <3>3. \A i \in 1 .. Len(t) : i + 1 \in DOMAIN fill.queue
      BY <3>1, <3>2, <2>1
    <3>4. Len(t) <= Len(q)
      BY <3>1, <1>1, <2>1
    <3>5. \A i \in DOMAIN t : \E j \in DOMAIN q : t[i] = q[j]
      BY <3>1, <3>2, <3>3, <1>1
    <3> QED BY <3>1, <3>4, <3>5 DEF t
  <2>7. \E T : Append(fill.made, entry) \in Seq(T) /\ \A x \in T : EntryRight(x)
    <3>1. PICK T : fill.made \in Seq(T) /\ \A x \in T : EntryRight(x)
      BY <1>1
    <3> HIDE DEF entry
    <3> DEFINE U == T \cup {entry}
    <3>2. fill.made \in Seq(U) /\ entry \in U
      BY <3>1, SeqMonotonic
    <3>3. Append(fill.made, entry) \in Seq(U)
      BY <3>2, AppendProperties
    <3>4. \A x \in U : EntryRight(x)
      BY <3>1, <2>4
    <3> HIDE DEF U
    <3> QED BY <3>3, <3>4
  <2>8. \A ro \in Nat : \A gr, go : Good(done(ro, gr, go))
    <3> HIDE DEF new, entry
    <3> QED BY <2>4, <2>5, <2>6, <2>7, <1>2
  <2>9. \A gr, go : Good(FillState(new.store, fill.queue, fill.made, fill.room, gr, go))
    <3> HIDE DEF new
    <3> QED BY <1>1, <2>4, <2>5, <1>2
  <2>10. new.outcome \in {"sent", "discarded", "exception"}
    <3>1. entry.outcome = new.outcome
      <4> HIDE DEF new
      <4> QED BY DEF Made
    <3> HIDE DEF entry, new
    <3> QED BY <2>4, <3>1 DEF EntryRight
  <2>11. FillStep(fill, prefixLength, now) =
           CASE new.outcome = "discarded" -> done(fill.room, fill.grew, fill.going)
             [] new.outcome = "exception" -> done(fill.room, FALSE, fill.grew)
             [] new.outcome = "sent" /\ fill.room > 0 -> done(fill.room - 1, TRUE, fill.going)
             [] new.outcome = "sent" /\ fill.room = 0 ->
                  FillState(new.store, fill.queue, fill.made, fill.room, fill.grew, FALSE)
    BY <1>4 DEF FillStep
  <2>12. fill.room = 0 \/ (fill.room > 0 /\ fill.room - 1 \in Nat)
    BY <1>1
  <2> HIDE DEF new, done
  <2>13. \/ FillStep(fill, prefixLength, now) = done(fill.room, fill.grew, fill.going)
         \/ FillStep(fill, prefixLength, now) = done(fill.room, FALSE, fill.grew)
         \/ fill.room - 1 \in Nat /\ FillStep(fill, prefixLength, now) = done(fill.room - 1, TRUE, fill.going)
         \/ FillStep(fill, prefixLength, now) =
              FillState(new.store, fill.queue, fill.made, fill.room, fill.grew, FALSE)
    <3> DEFINE w == new.outcome
               r == fill.room
               x1 == done(r, fill.grew, fill.going)
               x2 == done(r, FALSE, fill.grew)
               x3 == done(r - 1, TRUE, fill.going)
               x4 == FillState(new.store, fill.queue, fill.made, r, fill.grew, FALSE)
               x == FillStep(fill, prefixLength, now)
    <3>1. x = CASE w = "discarded" -> x1 [] w = "exception" -> x2
                [] w = "sent" /\ r > 0 -> x3 [] w = "sent" /\ r = 0 -> x4
      BY <2>11
    <3> HIDE DEF x1, x2, x3, x4, x
    <3>2. x = x1 \/ x = x2 \/ (r - 1 \in Nat /\ x = x3) \/ x = x4
      <4>1. w = "discarded" \/ w = "exception" \/ w = "sent"
        BY <2>10
      <4>2. r = 0 \/ (r > 0 /\ r - 1 \in Nat)
        BY <2>12
      <4> HIDE DEF w, r
      <4>3. CASE w = "discarded"
        BY <4>3, <3>1
      <4>4. CASE w = "exception"
        BY <4>4, <3>1
      <4>5. CASE w = "sent"
        BY <4>2, <4>5, <3>1
      <4> QED BY <4>1, <4>3, <4>4, <4>5
    <3> QED BY <3>2 DEF x, x1, x2, x3, x4
  <2> QED BY <2>8, <2>9, <2>13, <1>1, Zenon
<1> QED BY <1>3, <1>4

\* So do all of them, however often the loop goes round.
LEMMA FillFacts ==
  ASSUME NEW s, NEW q \in Seq(Ids), NEW now \in Nat, NEW prefixLength \in Nat, NEW room \in Nat,
         \A i \in DOMAIN q : IsPacket(s, q[i]), now # 0 => IsPacket(s, now),
         StoreRight(s, now), AtOnce(s, now)
  PROVE  FillRight(Fill(s, q, prefixLength, room, now), s, q, now)
<1> DEFINE after == FillSteps(s, q, prefixLength, room, now)
           S == {k \in Nat : k <= Len(q) + 1 => FillRight(after[k], s, q, now)}
           start == FillStart(s, q, room)
<1>1. Len(q) \in Nat
  OBVIOUS
<1>2. /\ after[0] = start
      /\ \A k \in 0 .. Len(q) :
           after[k + 1] = IF after[k].going THEN FillStep(after[k], prefixLength, now) ELSE after[k]
  BY <1>1, FillStepsDef
<1>3. FillRight(start, s, q, now)
  <2>1. Extends(s, s)
    BY DEF Extends
  <2>2. \E T : <<>> \in Seq(T) /\ \A x \in T : EntryRight(x)
    <3> DEFINE None == {x \in {0} : FALSE}
    <3>1. \A x \in None : EntryRight(x)
      OBVIOUS
    <3>2. <<>> \in Seq(None)
      OBVIOUS
    <3> HIDE DEF None
    <3> QED BY <3>1, <3>2
  <2>3. Len(q) <= Len(q)
    BY <1>1
  <2>4. start.store = s /\ start.queue = q /\ start.made = <<>> /\ start.room = room
    BY DEF FillState, FillStart
  <2> HIDE DEF start
  <2> QED BY <2>1, <2>2, <2>3, <2>4 DEF FillRight
<1> HIDE DEF after, start
<1>4. 0 \in S
  BY <1>2, <1>3
<1>5. ASSUME NEW k \in Nat, k \in S PROVE k + 1 \in S
  <2> SUFFICES ASSUME k + 1 <= Len(q) + 1 PROVE FillRight(after[k + 1], s, q, now)
    OBVIOUS
  <2>1. k \in 0 .. Len(q) /\ k <= Len(q) + 1
    BY <1>1
  <2>2. FillRight(after[k], s, q, now)
    BY <2>1, <1>5
  <2>3. FillRight(FillStep(after[k], prefixLength, now), s, q, now)
    BY <2>2, FillStepRight
  <2>4. after[k + 1] = IF after[k].going THEN FillStep(after[k], prefixLength, now) ELSE after[k]
    BY <2>1, <1>2
  <2> QED BY <2>2, <2>3, <2>4
<1>6. Len(q) + 1 \in S
  <2> HIDE DEF S
  <2>1. Len(q) + 1 \in Nat
    BY <1>1
  <2> QED BY <2>1, <1>4, <1>5, NatSetInduction
<1>7. FillRight(after[Len(q) + 1], s, q, now)
  BY <1>1, <1>6
<1> QED BY <1>7 DEF Fill, after

-----------------------------------------------------------------------------
\* The clients are queued on as it is written: one after the other.
LEMMA QueueOnFirstDef ==
  ASSUME NEW s, NEW id, NEW rooms
  PROVE  LET after == QueueOnFirst(s, id, rooms)
         IN  /\ after[0] = QueueState(s, queue, NothingMade)
             /\ \A c \in 0 .. Len(PrefixOf) - 1 :
                  after[c + 1] = QueueOn(c + 1, after[c], id, rooms[c + 1])
<1> DEFINE size == Len(PrefixOf)
           start == QueueState(s, queue, NothingMade)
           Step(f, c) == IF c = 0 THEN start ELSE QueueOn(c, f[c - 1], id, rooms[c])
           P(f) == f = [c \in 0 .. size |-> Step(f, c)]
           S == {n \in Nat : \E f : f = [c \in 0 .. n |-> Step(f, c)]}
<1>0. size \in Nat
  BY ForwardingV2Assumption
<1>1. QueueOnFirst(s, id, rooms) = CHOOSE f : P(f)
  BY DEF QueueOnFirst
<1> HIDE DEF size, start
<1>2. 0 \in S
  <2> DEFINE f == [c \in 0 .. 0 |-> start]
  <2>1. f = [c \in 0 .. 0 |-> Step(f, c)]
    OBVIOUS
  <2> QED BY <2>1
<1>3. ASSUME NEW n \in Nat, n \in S PROVE n + 1 \in S
  <2>1. PICK f : f = [c \in 0 .. n |-> Step(f, c)]
    BY <1>3
  <2>2. \A c \in 0 .. n : f[c] = Step(f, c)
    <3> HIDE DEF Step
    <3> QED BY <2>1
  <2> DEFINE g == [c \in 0 .. n + 1 |-> IF c <= n THEN f[c] ELSE Step(f, n + 1)]
  <2>3. \A c \in 0 .. n + 1 : g[c] = Step(g, c)
    <3> SUFFICES ASSUME NEW c \in 0 .. n + 1 PROVE g[c] = Step(g, c)
      OBVIOUS
    <3>1. c # 0 => c - 1 \in 0 .. n /\ g[c - 1] = f[c - 1]
      OBVIOUS
    <3>2. Step(g, c) = Step(f, c)
      BY <3>1
    <3>3. c <= n => f[c] = Step(f, c)
      BY <2>2
    <3>4. g[c] = Step(f, c)
      BY <3>3
    <3> QED BY <3>2, <3>4
  <2>4. g = [c \in 0 .. n + 1 |-> Step(g, c)]
    <3> HIDE DEF Step
    <3> QED BY <2>3
  <2>5. \E h : h = [c \in 0 .. n + 1 |-> Step(h, c)]
    <3> HIDE DEF g, Step
    <3> QED BY <2>4
  <2>6. n + 1 \in Nat
    OBVIOUS
  <2> HIDE DEF Step
  <2> QED BY <2>5, <2>6
<1>4. \E f : P(f)
  BY <1>0, <1>2, <1>3, NatSetInduction
<1>5. P(CHOOSE f : P(f))
  <2> HIDE DEF P
  <2> QED BY <1>4
<1> DEFINE after == QueueOnFirst(s, id, rooms)
<1>6. P(after)
  <2> HIDE DEF P
  <2> QED BY <1>1, <1>5
<1> HIDE DEF after
<1>7. \A c \in 0 .. size : after[c] = Step(after, c)
  <2> HIDE DEF Step
  <2> QED BY <1>6
<1>8. \A c \in 0 .. size - 1 : c + 1 \in 0 .. size /\ c + 1 # 0 /\ (c + 1) - 1 = c
  BY <1>0
<1>9. /\ after[0] = start
      /\ \A c \in 0 .. size - 1 : after[c + 1] = QueueOn(c + 1, after[c], id, rooms[c + 1])
  BY <1>0, <1>7, <1>8
<1> QED BY <1>9 DEF after, start, size

\* What is so after a packet has been queued on the first clients.
QueuedRight(x, s, id, count) ==
    /\ DOMAIN x = {"store", "queues", "made"}
    /\ StoreRight(x.store, id) /\ AtOnce(x.store, id) /\ Extends(s, x.store)
    /\ x.queues \in [Clients -> Seq(Ids)]
    /\ \A c \in Clients : /\ Len(x.queues[c]) <= MaxQueue
                          /\ c > count => x.queues[c] = queue[c]
                          /\ \A i \in DOMAIN x.queues[c] : IsPacket(s, x.queues[c][i])
    /\ DOMAIN x.made = Clients
    /\ \A c \in Clients : \A i \in DOMAIN x.made[c] : EntryRight(x.made[c][i])

\* The clients are numbered, and each has its prefix.
LEMMA ClientsFacts ==
  /\ Clients = 1 .. Len(PrefixOf) /\ Len(PrefixOf) \in Nat
  /\ \A c \in Clients : c \in Nat /\ PrefixOf[c] \in Nat
BY ForwardingV2Assumption DEF Clients

\* Queueing on one more client, whether its send buffer has room or not.
LEMMA QueueOnRight ==
  ASSUME NEW s, NEW id \in Ids, IsPacket(s, id), NEW x, NEW c \in Clients,
         QueuedRight(x, s, id, c - 1), Len(queue[c]) < MaxQueue,
         NEW room \in Rooms \cup {Full}
  PROVE  QueuedRight(QueueOn(c, x, id, room), s, id, c)
<1> DEFINE all  == Append(x.queues[c], id)
           fill == Fill(x.store, all, PrefixOf[c], room, id)
           Good(y) == QueuedRight(y, s, id, c)
<1>1. /\ DOMAIN x = {"store", "queues", "made"}
      /\ StoreRight(x.store, id) /\ AtOnce(x.store, id) /\ Extends(s, x.store)
      /\ x.queues \in [Clients -> Seq(Ids)]
      /\ \A k \in Clients : /\ Len(x.queues[k]) <= MaxQueue
                            /\ k > c - 1 => x.queues[k] = queue[k]
                            /\ \A i \in DOMAIN x.queues[k] : IsPacket(s, x.queues[k][i])
      /\ DOMAIN x.made = Clients
      /\ \A k \in Clients : \A i \in DOMAIN x.made[k] : EntryRight(x.made[k][i])
  BY DEF QueuedRight
<1>2. c \in Nat /\ PrefixOf[c] \in Nat /\ id \in Nat /\ id # 0 /\ \A k \in Clients : k \in Nat
  BY ClientsFacts DEF Ids
<1>3. x.queues[c] = queue[c] /\ x.queues[c] \in Seq(Ids)
  BY <1>1, <1>2
<1>4. /\ all \in Seq(Ids) /\ Len(all) <= MaxQueue /\ DOMAIN all = 1 .. Len(all)
      /\ \A i \in DOMAIN all : IsPacket(s, all[i])
  <2> DEFINE q == x.queues[c]
  <2>1. q \in Seq(Ids) /\ Len(q) < MaxQueue /\ Len(q) \in Nat /\ DOMAIN q = 1 .. Len(q)
    BY <1>3
  <2>2. \A i \in DOMAIN q : IsPacket(s, q[i])
    BY <1>1
  <2> HIDE DEF q
  <2>3. /\ Append(q, id) \in Seq(Ids) /\ Len(Append(q, id)) = Len(q) + 1
        /\ \A i \in 1 .. Len(q) : Append(q, id)[i] = q[i]
        /\ Append(q, id)[Len(q) + 1] = id
    BY <2>1, AppendProperties
  <2>4. Len(Append(q, id)) <= MaxQueue /\ DOMAIN Append(q, id) = 1 .. Len(q) + 1
    BY <2>1, <2>3, ForwardingV2Assumption
  <2>5. \A i \in 1 .. Len(q) + 1 : IsPacket(s, Append(q, id)[i])
    BY <2>1, <2>2, <2>3
  <2> QED BY <2>3, <2>4, <2>5 DEF q
<1>5. ASSUME NEW st, NEW qs, NEW ma,
             StoreRight(st, id), AtOnce(st, id), Extends(s, st), qs \in Seq(Ids),
             Len(qs) <= MaxQueue, \A i \in DOMAIN qs : IsPacket(s, qs[i]),
             \A i \in DOMAIN ma : EntryRight(ma[i])
      PROVE  /\ Good(QueueState(st, [x.queues EXCEPT ![c] = qs], [x.made EXCEPT ![c] = ma]))
             /\ Good(QueueState(st, [x.queues EXCEPT ![c] = qs], x.made))
  <2> DEFINE us == [x.queues EXCEPT ![c] = qs]
             ms == [x.made EXCEPT ![c] = ma]
  <2>1. us \in [Clients -> Seq(Ids)] /\ us[c] = qs /\ \A k \in Clients : k # c => us[k] = x.queues[k]
    BY <1>1, <1>5
  <2>2. DOMAIN ms = Clients /\ ms[c] = ma /\ \A k \in Clients : k # c => ms[k] = x.made[k]
    BY <1>1, <1>5
  <2> HIDE DEF us, ms
  <2>3. \A k \in Clients : /\ Len(us[k]) <= MaxQueue
                           /\ k > c => us[k] = queue[k]
                           /\ \A i \in DOMAIN us[k] : IsPacket(s, us[k][i])
    BY <1>1, <1>2, <1>5, <2>1
  <2>4. \A k \in Clients : \A i \in DOMAIN ms[k] : EntryRight(ms[k][i])
    BY <1>1, <1>5, <2>2
  <2> DEFINE y == QueueState(st, us, ms)
             z == QueueState(st, us, x.made)
  <2>5. /\ DOMAIN y = {"store", "queues", "made"} /\ y.store = st /\ y.queues = us /\ y.made = ms
        /\ DOMAIN z = {"store", "queues", "made"} /\ z.store = st /\ z.queues = us /\ z.made = x.made
    BY DEF QueueState
  <2> HIDE DEF y, z
  <2>6. QueuedRight(y, s, id, c)
    BY <2>1, <2>2, <2>3, <2>4, <2>5, <1>5 DEF QueuedRight
  <2>7. QueuedRight(z, s, id, c)
    BY <2>1, <2>3, <2>5, <1>1, <1>5 DEF QueuedRight
  <2> QED BY <2>6, <2>7 DEF y, z, us, ms
<1> SUFFICES Good(QueueOn(c, x, id, room))
  OBVIOUS
<1> HIDE DEF Good
<1>6. CASE room = Full
  <2>1. QueueOn(c, x, id, room) = QueueState(x.store, [x.queues EXCEPT ![c] = all], x.made)
    BY <1>6 DEF QueueOn
  <2> HIDE DEF all
  <2>2. \A i \in DOMAIN <<>> : EntryRight(<<>>[i])
    OBVIOUS
  <2>3. Good(QueueState(x.store, [x.queues EXCEPT ![c] = all], x.made))
    BY <1>1, <1>4, <1>5, <2>2
  <2> QED BY <2>1, <2>3
<1>7. CASE room # Full
  <2>1. QueueOn(c, x, id, room) = QueueState(fill.store, [x.queues EXCEPT ![c] = fill.queue],
                                              [x.made EXCEPT ![c] = fill.made])
    BY <1>7 DEF QueueOn, Filled
  <2>2. room \in Nat
    BY <1>7, ForwardingV2Assumption DEF Rooms
  <2> HIDE DEF all
  <2>3. /\ \A i \in DOMAIN all : IsPacket(x.store, all[i])
        /\ IsPacket(x.store, id)
    BY <1>1, <1>4, PacketStays
  <2>4. FillRight(fill, x.store, all, id)
    BY <1>1, <1>2, <1>4, <2>2, <2>3, FillFacts
  <2> HIDE DEF fill
  <2>5. /\ StoreRight(fill.store, id) /\ AtOnce(fill.store, id) /\ Extends(x.store, fill.store)
        /\ fill.queue \in Seq(Ids) /\ Len(fill.queue) <= Len(all)
        /\ \A i \in DOMAIN fill.queue : \E j \in DOMAIN all : fill.queue[i] = all[j]
        /\ \E T : fill.made \in Seq(T) /\ \A e \in T : EntryRight(e)
    BY <2>4 DEF FillRight
  <2>6. Extends(s, fill.store)
    BY <1>1, <2>5, ExtendsTwice
  <2>7. Len(fill.queue) <= MaxQueue
    BY <1>4, <2>5, ForwardingV2Assumption
  <2>8. \A i \in DOMAIN fill.queue : IsPacket(s, fill.queue[i])
    BY <1>4, <2>5
  <2>9. \A i \in DOMAIN fill.made : EntryRight(fill.made[i])
    BY <2>5
  <2>10. Good(QueueState(fill.store, [x.queues EXCEPT ![c] = fill.queue],
                         [x.made EXCEPT ![c] = fill.made]))
    BY <2>5, <2>6, <2>7, <2>8, <2>9, <1>5
  <2> QED BY <2>1, <2>10
<1> QED BY <1>6, <1>7

\* And after it has been queued on all of them.
LEMMA QueueOnAllFacts ==
  ASSUME NEW s, NEW id \in Ids, IsPacket(s, id), StoreRight(s, id), AtOnce(s, id),
         queue \in [Clients -> Seq(Ids)],
         \A c \in Clients : /\ Len(queue[c]) < MaxQueue
                            /\ \A i \in DOMAIN queue[c] : IsPacket(s, queue[c][i]),
         NEW rooms \in [Clients -> Rooms \cup {Full}]
  PROVE  QueuedRight(QueueOnAll(s, id, rooms), s, id, Len(PrefixOf))
<1> DEFINE after == QueueOnFirst(s, id, rooms)
           start == QueueState(s, queue, NothingMade)
           size == Len(PrefixOf)
           S == {c \in Nat : c <= size => QueuedRight(after[c], s, id, c)}
<1>1. size \in Nat /\ Clients = 1 .. size
  BY ClientsFacts
<1>2. /\ after[0] = start
      /\ \A c \in 0 .. size - 1 : after[c + 1] = QueueOn(c + 1, after[c], id, rooms[c + 1])
  BY QueueOnFirstDef
<1>3. QueuedRight(start, s, id, 0)
  <2>1. /\ DOMAIN start = {"store", "queues", "made"} /\ start.store = s /\ start.queues = queue
        /\ start.made = NothingMade
    BY DEF QueueState
  <2>2. Extends(s, s)
    BY DEF Extends
  <2>3. \A c \in Clients : Len(queue[c]) \in Nat /\ Len(queue[c]) <= MaxQueue
    BY ForwardingV2Assumption
  <2>4. \A c \in Clients : \A i \in DOMAIN start.made[c] : EntryRight(start.made[c][i])
    BY <2>1 DEF NothingMade
  <2>5. DOMAIN start.made = Clients
    BY <2>1 DEF NothingMade
  <2> HIDE DEF start
  <2> QED BY <2>1, <2>2, <2>3, <2>4, <2>5 DEF QueuedRight
<1> HIDE DEF after, start, size
<1>4. 0 \in S
  BY <1>2, <1>3
<1>5. ASSUME NEW c \in Nat, c \in S PROVE c + 1 \in S
  <2> SUFFICES ASSUME c + 1 <= size PROVE QueuedRight(after[c + 1], s, id, c + 1)
    OBVIOUS
  <2>1. c \in 0 .. size - 1 /\ c <= size /\ c + 1 \in Clients /\ (c + 1) - 1 = c
    BY <1>1
  <2>2. QueuedRight(after[c], s, id, (c + 1) - 1)
    BY <2>1, <1>5
  <2>3. rooms[c + 1] \in Rooms \cup {Full}
    BY <2>1
  <2>4. QueuedRight(QueueOn(c + 1, after[c], id, rooms[c + 1]), s, id, c + 1)
    BY <2>1, <2>2, <2>3, QueueOnRight
  <2> QED BY <2>1, <2>4, <1>2
<1>6. size \in S
  <2> HIDE DEF S
  <2> QED BY <1>1, <1>4, <1>5, NatSetInduction
<1>7. QueuedRight(after[size], s, id, size)
  BY <1>1, <1>6
<1> QED BY <1>7 DEF QueueOnAll, after, size

-----------------------------------------------------------------------------
\* What is kept, in a right store of which somebody holds some packets: these packets
\* and what has been made of them.
LEMMA KeptExact ==
  ASSUME NEW s, NEW now, StoreRight(s, now), NEW held, \A id \in held : IsPacket(s, id)
  PROVE  LET K == Kept(s, held) IN
         /\ K \subseteq DOMAIN s.nodes /\ held \subseteq K
         /\ \A e \in Edges(s) : e.from \in K => e.from \in held /\ e.to \in K /\ ResultEdge(s, e)
         /\ \A id \in K : id \in held \/ \E e \in Edges(s) : e.to = id /\ e.from \in held
<1> DEFINE K == Kept(s, held)
           L == held \cup {e.to : e \in {d \in Edges(s) : d.from \in held}}
<1>1. IsFiniteSet(DOMAIN s.nodes) /\ EdgesRight(s, now)
  BY DEF StoreRight, IsStore
<1>2. /\ K \subseteq DOMAIN s.nodes /\ K = StillHeld(s, held, K)
      /\ \A M \in SUBSET DOMAIN s.nodes : M \subseteq StillHeld(s, held, M) => M \subseteq K
  BY <1>1, KeptFacts
<1> HIDE DEF K
<1>3. \A id \in K : id \in held \/ \E e \in Edges(s) : e.to = id /\ e.from \in K
  BY <1>2 DEF StillHeld
<1>4. L \subseteq K
  <2>1. L \subseteq DOMAIN s.nodes
    BY <1>1, EndsThere DEF IsPacket, Has
  <2>2. L \subseteq StillHeld(s, held, L)
    BY <2>1 DEF StillHeld
  <2> HIDE DEF L
  <2> QED BY <2>1, <2>2, <1>2
<1>5. ASSUME NEW e \in Edges(s), e.from \in K PROVE e.from \in held /\ ResultEdge(s, e)
  <2>1. ASSUME ParseEdge(s, e) PROVE FALSE
    <3>1. IsBytes(s, e.from) /\ \A other \in Edges(s) : other.to # e.from
      BY <2>1 DEF ParseEdge
    <3>2. e.from \in held
      BY <3>1, <1>3, <1>5
    <3> QED BY <3>1, <3>2 DEF IsPacket, IsBytes
  <2>2. ResultEdge(s, e)
    BY <2>1, <1>1 DEF EdgesRight
  <2>3. ASSUME e.from \notin held PROVE FALSE
    <3>1. PICK d \in Edges(s) : d.to = e.from /\ d.from \in K
      BY <2>3, <1>3, <1>5
    <3>2. IsPacket(s, d.to)
      BY <2>2, <3>1 DEF ResultEdge
    <3>3. ParseEdge(s, d)
      BY <3>2, <1>1 DEF EdgesRight, ResultEdge, IsPacket, IsBytes
    <3>4. IsBytes(s, d.from) /\ \A other \in Edges(s) : other.to # d.from
      BY <3>3 DEF ParseEdge
    <3>5. d.from \in held
      BY <3>1, <3>4, <1>3
    <3> QED BY <3>4, <3>5 DEF IsPacket, IsBytes
  <2> QED BY <2>2, <2>3
<1>6. held \subseteq K /\ \A e \in Edges(s) : e.from \in held => e.to \in K
  BY <1>4
<1>7. \A id \in K : id \in held \/ \E e \in Edges(s) : e.to = id /\ e.from \in held
  BY <1>3, <1>5
<1> QED BY <1>2, <1>5, <1>6, <1>7 DEF K

\* Of the edges those that are in a set: these, and nothing twice that was not before.
LEMMA FewerEdges ==
  ASSUME NEW s, s.edges \in Seq(EdgeRecords), NEW set, set \subseteq Edges(s),
         NEW t, t.edges = Those(s.edges, set)
  PROVE  /\ t.edges \in Seq(EdgeRecords) /\ Edges(t) = set
         /\ NothingTwice(s) => NothingTwice(t)
<1> DEFINE those == Those(s.edges, set)
<1>1. /\ those \in Seq(EdgeRecords)
      /\ \A k \in DOMAIN s.edges : s.edges[k] \in set => \E i \in DOMAIN those : those[i] = s.edges[k]
  BY ThoseMembers
<1>2. PICK h \in [DOMAIN those -> DOMAIN s.edges] :
           /\ \A i \in DOMAIN h : those[i] = s.edges[h[i]] /\ s.edges[h[i]] \in set
           /\ \A i, j \in DOMAIN h : i < j => h[i] < h[j]
  BY ThoseMembers
<1>3. those = t.edges
  OBVIOUS
<1> HIDE DEF those
<1>4. Edges(t) = set
  <2>1. \A i \in DOMAIN those : those[i] \in set
    BY <1>2
  <2>2. \A e \in set : \E i \in DOMAIN those : those[i] = e
    BY <1>1 DEF Edges
  <2> QED BY <2>1, <2>2, <1>3 DEF Edges
<1>5. ASSUME NothingTwice(s) PROVE NothingTwice(t)
  <2>1. DOMAIN those \subseteq Nat /\ DOMAIN s.edges \subseteq Nat
    BY <1>1
  <2>2. DOMAIN h = DOMAIN those /\ \A i \in DOMAIN those : h[i] \in DOMAIN s.edges
    OBVIOUS
  <2> SUFFICES ASSUME NEW i \in DOMAIN those, NEW j \in DOMAIN those,
                      those[i].from = those[j].from, those[i].metadata = those[j].metadata
               PROVE  i = j
    BY <1>3 DEF NothingTwice
  <2>3. s.edges[h[i]].from = s.edges[h[j]].from /\ s.edges[h[i]].metadata = s.edges[h[j]].metadata
    BY <1>2, <2>2
  <2>4. h[i] = h[j]
    BY <1>5, <2>2, <2>3 DEF NothingTwice
  <2>5. i \in Nat /\ j \in Nat /\ h[i] \in Nat /\ h[j] \in Nat
    BY <2>1, <2>2
  <2> QED BY <1>2, <2>2, <2>4, <2>5
<1> QED BY <1>1, <1>3, <1>4, <1>5

\* What is left of a right store is right, and there is nothing else in it; the packets
\* that are held are what they were.
LEMMA FreedFacts ==
  ASSUME NEW s, NEW now, StoreRight(s, now), NEW held, \A id \in held : IsPacket(s, id)
  PROVE  LET t == Freed(s, held) IN
         /\ StoreRight(t, 0) /\ NothingElse(t, held)
         /\ \A id \in held : IsPacket(t, id) /\ Data(t, id) = Data(s, id)
<1> DEFINE K == Kept(s, held)
           set == {e \in Edges(s) : e.from \in K}
           t == Freed(s, held)
<1>1. /\ K \subseteq DOMAIN s.nodes /\ held \subseteq K
      /\ \A e \in Edges(s) : e.from \in K => e.from \in held /\ e.to \in K /\ ResultEdge(s, e)
      /\ \A id \in K : id \in held \/ \E e \in Edges(s) : e.to = id /\ e.from \in held
  BY KeptExact
<1>2. IsStore(s) /\ NothingTwice(s)
  BY DEF StoreRight
<1>3. /\ t = [nodes |-> t.nodes, edges |-> t.edges]
      /\ t.nodes = [id \in K |-> s.nodes[id]] /\ t.edges = Those(s.edges, set)
  <2>1. DOMAIN s.nodes \cap K = K
    BY <1>1
  <2> QED BY <2>1 DEF Freed, Restrict
<1> HIDE DEF t, K
<1>4. /\ t.edges \in Seq(EdgeRecords) /\ Edges(t) = set
      /\ NothingTwice(t)
  <2>1. set \subseteq Edges(s)
    OBVIOUS
  <2> HIDE DEF set
  <2> QED BY <1>2, <1>3, <2>1, FewerEdges DEF IsStore
<1>5. IsStore(t)
  <2>1. IsFiniteSet(K)
    BY <1>1, <1>2, FS_Subset DEF IsStore
  <2>2. t.nodes \in [DOMAIN t.nodes -> PacketNodes \cup BytesNodes] /\ DOMAIN t.nodes = K
    BY <1>1, <1>2, <1>3 DEF IsStore
  <2>3. DOMAIN t.nodes \subseteq Ids
    BY <1>1, <1>2, <2>2 DEF IsStore
  <2> QED BY <2>1, <2>2, <2>3, <1>3, <1>4 DEF IsStore
<1>6. \A id \in K : t.nodes[id] = s.nodes[id] /\ id \in DOMAIN t.nodes
  BY <1>3
<1>7. EdgesRight(t, 0)
  <2> SUFFICES ASSUME NEW e \in Edges(t) PROVE ResultEdge(t, e)
    BY DEF EdgesRight
  <2>1. e.from \in K /\ e.to \in K /\ ResultEdge(s, e)
    BY <1>1, <1>4
  <2> QED BY <2>1, <1>6 DEF ResultEdge, IsPacket, IsBytes, Has, Data
<1>8. NothingElse(t, held)
  <2>1. DOMAIN t.nodes = K
    BY <1>3
  <2> QED BY <2>1, <1>1, <1>4 DEF NothingElse
<1>9. \A id \in held : IsPacket(t, id) /\ Data(t, id) = Data(s, id)
  BY <1>1, <1>6 DEF IsPacket, Has, Data
<1> QED BY <1>4, <1>5, <1>7, <1>8, <1>9 DEF StoreRight, t

-----------------------------------------------------------------------------
\* The store when a packet has been read and parsed: its two nodes are new, and the
\* edge between them is the one that leads back to what has been read.
LEMMA ParsedFacts ==
  ASSUME NEW s, StoreRight(s, 0), NEW packet \in PacketDatas, ~packet.flagged
  PROVE  LET bytesId  == NewId(s)
             read     == AddNode(s, bytesId, "bytes", BytesData(packet, packet.content.prefix, TRUE))
             packetId == NewId(read)
             parsed   == ParseNode(read, bytesId, packet)
         IN  /\ packetId \in Ids /\ IsPacket(parsed, packetId) /\ Data(parsed, packetId) = packet
             /\ Extends(s, parsed)
             /\ StoreRight(parsed, packetId) /\ AtOnce(parsed, packetId)
<1> DEFINE b     == NewId(s)
           bytes == BytesData(packet, packet.content.prefix, TRUE)
           read  == AddNode(s, b, "bytes", bytes)
           p     == NewId(read)
           u     == AddNode(read, p, "packet", packet)
           e0    == [from |-> b, to |-> p, metadata |-> packet.content.prefix,
                     success |-> packet.content.ok]
           t     == AddEdge(u, e0.from, e0.to, e0.metadata, e0.success)
<1>0. ParseNode(read, b, packet) = t
  BY DEF ParseNode
<1>1. IsStore(s) /\ EdgesRight(s, 0) /\ NothingTwice(s)
  BY DEF StoreRight
<1>2. /\ packet.name \in FirstPackets /\ packet.flagged = FALSE
      /\ packet.content.prefix \in Nat /\ packet.content.ok \in BOOLEAN
  BY DEF PacketDatas, Content
<1>3. /\ bytes \in BytesDatas /\ bytes.asRead /\ ~bytes.flagged
      /\ bytes.prefix = packet.content.prefix
  BY <1>2 DEF BytesData, BytesDatas
<1> HIDE DEF bytes
<1>4. /\ [kind |-> "bytes", data |-> bytes] \in PacketNodes \cup BytesNodes
      /\ [kind |-> "packet", data |-> packet] \in PacketNodes \cup BytesNodes
  BY <1>3 DEF BytesNodes, PacketNodes
<1>5. b \in Ids /\ ~Has(s, b)
  BY <1>1, NewIdFresh DEF IsStore
<1> HIDE DEF b
<1>6. /\ IsStore(read) /\ read.edges = s.edges /\ Edges(read) = Edges(s)
      /\ DOMAIN read.nodes = DOMAIN s.nodes \cup {b}
      /\ read.nodes[b] = [kind |-> "bytes", data |-> bytes]
      /\ \A other \in DOMAIN s.nodes \ {b} : read.nodes[other] = s.nodes[other]
  BY <1>1, <1>4, <1>5, AddNodeFacts
<1> HIDE DEF read
<1>7. p \in Ids /\ ~Has(read, p)
  BY <1>6, NewIdFresh DEF IsStore
<1> HIDE DEF p
<1>8. /\ IsStore(u) /\ u.edges = read.edges /\ Edges(u) = Edges(read)
      /\ DOMAIN u.nodes = DOMAIN read.nodes \cup {p}
      /\ u.nodes[p] = [kind |-> "packet", data |-> packet]
      /\ \A other \in DOMAIN read.nodes \ {p} : u.nodes[other] = read.nodes[other]
  BY <1>4, <1>6, <1>7, AddNodeFacts
<1>9. /\ e0 \in EdgeRecords /\ e0.from = b /\ e0.to = p /\ e0.metadata = packet.content.prefix
  BY <1>2, <1>5, <1>7 DEF EdgeRecords
<1> HIDE DEF u, e0
<1>a. /\ IsStore(t) /\ t.nodes = u.nodes /\ t.edges = Append(u.edges, e0)
      /\ Edges(t) = Edges(u) \cup {e0}
  BY <1>8, <1>9, AddEdgeFacts
<1>10. /\ IsStore(t) /\ t.nodes = u.nodes /\ t.edges = Append(s.edges, e0)
       /\ Edges(t) = Edges(s) \cup {e0}
  BY <1>6, <1>8, <1>a
<1> HIDE DEF t
<1>11. Extends(s, t)
  BY <1>5, <1>6, <1>7, <1>8, <1>10 DEF Extends, Has
<1>12. /\ IsPacket(t, p) /\ Data(t, p) = packet
       /\ IsBytes(t, b) /\ Data(t, b) = bytes
  BY <1>6, <1>7, <1>8, <1>10 DEF IsPacket, IsBytes, Has, Data
<1>13. \A e \in Edges(s) : e.from \in DOMAIN s.nodes /\ e.to \in DOMAIN s.nodes
  BY <1>1, EndsThere
<1>14. p # 0 /\ p # b /\ b \notin DOMAIN s.nodes /\ p \notin DOMAIN s.nodes /\ 0 \notin DOMAIN s.nodes
  BY <1>1, <1>5, <1>6, <1>7 DEF Ids, Has, IsStore
<1>15. EdgesRight(t, p)
  <2> SUFFICES ASSUME NEW e \in Edges(t)
               PROVE  ResultEdge(t, e) \/ (e.to = p /\ ParseEdge(t, e))
    BY DEF EdgesRight
  <2>1. CASE e = e0
    <3>1. \A other \in Edges(t) : other.to # e0.from
      BY <1>9, <1>10, <1>13, <1>14
    <3> QED BY <2>1, <3>1, <1>3, <1>9, <1>12 DEF ParseEdge
  <2>2. CASE e \in Edges(s)
    <3>1. ResultEdge(s, e)
      BY <2>2, <1>1, <1>13, <1>14 DEF EdgesRight
    <3> QED BY <3>1, <1>11, ResultEdgeStays
  <2> QED BY <2>1, <2>2, <1>10
<1>16. NothingTwice(t)
  BY <1>1, <1>9, <1>10, <1>13, <1>14, OneMoreEdge DEF IsStore
<1>17. AtOnce(t, p)
  <2>1. e0 \in Edges(t) /\ e0.to = p
    BY <1>9, <1>10
  <2>2. \A e \in Edges(t) : e.from # p
    BY <1>9, <1>10, <1>13, <1>14
  <2> QED BY <2>1, <2>2 DEF AtOnce
<1>18. /\ p \in Ids /\ IsPacket(t, p) /\ Data(t, p) = packet /\ Extends(s, t)
       /\ StoreRight(t, p) /\ AtOnce(t, p)
  BY <1>7, <1>10, <1>11, <1>12, <1>15, <1>16, <1>17 DEF StoreRight
<1> QED BY <1>0, <1>18 DEF p, read, b, bytes

\* The store when the packet that has just been parsed has been flagged: nothing leads
\* to it any more, and the other nodes and what leads to them are as before.
LEMMA FlaggedFacts ==
  ASSUME NEW s, NEW id \in Ids, StoreRight(s, id), IsPacket(s, id)
  PROVE  LET t == Flagged(s, id) IN
         /\ StoreRight(t, id) /\ AtOnce(t, id) /\ IsPacket(t, id)
         /\ \A other : IsPacket(s, other) => IsPacket(t, other)
<1> DEFINE new  == [s.nodes[id].data EXCEPT !.flagged = TRUE]
           u    == AddNode(s, id, "packet", new)
           set  == {e \in Edges(u) : e.from # id /\ e.to # id}
           t    == Flagged(s, id)
<1>1. IsStore(s) /\ EdgesRight(s, id) /\ NothingTwice(s)
  BY DEF StoreRight
<1>2. id \in DOMAIN s.nodes /\ s.nodes[id] \in PacketNodes
  BY <1>1 DEF IsPacket, Has, IsStore, PacketNodes, BytesNodes
<1>3. new \in PacketDatas /\ new.flagged = TRUE
  BY <1>2 DEF PacketNodes, PacketDatas
<1> HIDE DEF new
<1>4. [kind |-> "packet", data |-> new] \in PacketNodes \cup BytesNodes
  BY <1>3 DEF PacketNodes
<1>5. /\ IsStore(u) /\ u.edges = s.edges /\ Edges(u) = Edges(s)
      /\ DOMAIN u.nodes = DOMAIN s.nodes \cup {id}
      /\ u.nodes[id] = [kind |-> "packet", data |-> new]
      /\ \A other \in DOMAIN s.nodes \ {id} : u.nodes[other] = s.nodes[other]
  BY <1>1, <1>4, AddNodeFacts
<1>6. t = ClearEdges(u, id)
  BY DEF Flagged, new
<1> HIDE DEF u, t
<1>7. t = [nodes |-> u.nodes, edges |-> Those(u.edges, set)]
  BY <1>5, <1>6 DEF ClearEdges, IsStore
<1>8. set \subseteq Edges(u)
  OBVIOUS
<1> HIDE DEF set
<1>9. /\ t.edges \in Seq(EdgeRecords) /\ Edges(t) = set /\ (NothingTwice(u) => NothingTwice(t))
  BY <1>5, <1>7, <1>8, FewerEdges DEF IsStore
<1>10. NothingTwice(t)
  BY <1>1, <1>5, <1>9 DEF NothingTwice
<1>11. t.nodes = u.nodes /\ t = [nodes |-> t.nodes, edges |-> t.edges]
  BY <1>7
<1>12. IsStore(t)
  BY <1>5, <1>9, <1>11 DEF IsStore
<1>13. IsPacket(t, id) /\ Data(t, id) = new
  BY <1>5, <1>11 DEF IsPacket, Has, Data
<1>14. \A other \in DOMAIN s.nodes : other # id => /\ other \in DOMAIN t.nodes
                                                  /\ t.nodes[other] = s.nodes[other]
  BY <1>5, <1>11
<1>15. \A other : IsPacket(s, other) => IsPacket(t, other)
  BY <1>13, <1>14 DEF IsPacket, Has
<1>16. EdgesRight(t, id)
  <2> SUFFICES ASSUME NEW e \in Edges(t) PROVE ResultEdge(t, e)
    BY DEF EdgesRight
  <2>1. e \in Edges(s) /\ e.from # id /\ e.to # id
    BY <1>5, <1>9 DEF set
  <2>2. ResultEdge(s, e)
    BY <2>1, <1>1 DEF EdgesRight
  <2> QED BY <2>1, <2>2, <1>14 DEF ResultEdge, IsPacket, IsBytes, Has, Data
<1>17. AtOnce(t, id)
  BY <1>3, <1>13 DEF AtOnce
<1> QED BY <1>10, <1>12, <1>13, <1>15, <1>16, <1>17 DEF StoreRight, t

-----------------------------------------------------------------------------
\* Whatever waits in the queues of a right store, what is left of the store when
\* nothing else is held is as the invariant has it.
LEMMA HeldByQueues ==
  ASSUME NEW s, NEW now, StoreRight(s, now), NEW queues, QueuesRight(queues, s)
  PROVE  LET t == Freed(s, Queued(queues)) IN
         StoreRight(t, 0) /\ NothingElse(t, Queued(queues)) /\ QueuesRight(queues, t)
<1> DEFINE held == Queued(queues)
           t == Freed(s, held)
<1>1. /\ \A id \in held : IsPacket(s, id)
      /\ \A c \in Clients : \A i \in DOMAIN queues[c] : queues[c][i] \in held
  BY DEF QueuesRight, Queued
<1> HIDE DEF held
<1>2. /\ StoreRight(t, 0) /\ NothingElse(t, held)
      /\ \A id \in held : IsPacket(t, id)
  BY <1>1, FreedFacts
<1> HIDE DEF t
<1>3. QueuesRight(queues, t)
  BY <1>1, <1>2 DEF QueuesRight
<1> QED BY <1>2, <1>3 DEF t, held

\* Nothing is in the store at first, and nobody waits.
LEMMA InitInv == Init => Inv
<1> SUFFICES ASSUME Init PROVE Inv
  OBVIOUS
<1>1. /\ store = EmptyStore /\ queue = [c \in Clients |-> <<>>] /\ lastPcr = 0
      /\ made = NothingMade
  BY DEF Init
<1>2. /\ store.nodes = <<>> /\ store.edges = <<>> /\ DOMAIN store.nodes = {}
      /\ store = [nodes |-> store.nodes, edges |-> store.edges]
  BY <1>1 DEF EmptyStore
<1>3. IsStore(store)
  <2>1. IsFiniteSet({})
    BY FS_EmptySet
  <2>2. store.nodes \in [DOMAIN store.nodes -> PacketNodes \cup BytesNodes]
    BY <1>2
  <2>3. <<>> \in Seq(EdgeRecords)
    OBVIOUS
  <2> QED BY <1>2, <2>1, <2>2, <2>3 DEF IsStore
<1>4. DOMAIN store.edges = {} /\ Edges(store) = {}
  BY <1>2 DEF Edges
<1>5. StoreRight(store, 0) /\ NothingElse(store, Queued(queue))
  BY <1>2, <1>3, <1>4 DEF StoreRight, EdgesRight, NothingTwice, NothingElse
<1>6. queue \in [Clients -> Seq(Ids)] /\ QueuesRight(queue, store)
  BY <1>1, ForwardingV2Assumption DEF QueuesRight
<1>7. Entries = {}
  BY <1>1 DEF Entries, NothingMade
<1> QED BY <1>1, <1>5, <1>6, <1>7 DEF Inv

\* A packet is read.
LEMMA ProcessPacketInv ==
  ASSUME Inv, NEW packet \in PacketDatas, ~packet.flagged, ProcessPacket(packet)
  PROVE  Inv'
<1> DEFINE bytesId  == NewId(store)
           read     == AddNode(store, bytesId, "bytes",
                               BytesData(packet, packet.content.prefix, TRUE))
           id       == NewId(read)
           parsed   == ParseNode(read, bytesId, packet)
           ready    == IF Discontinuous(packet) THEN Flagged(parsed, id) ELSE parsed
<1>1. /\ StoreRight(store, 0) /\ queue \in [Clients -> Seq(Ids)] /\ QueuesRight(queue, store)
      /\ lastPcr \in Nat
  BY DEF Inv
<1>2. PICK rooms \in [Clients -> Rooms \cup {Full}] :
        Becomes(QueueOnAll(ready, id, rooms))
  BY DEF ProcessPacket
<1>3. \A c \in Clients : Len(queue[c]) < MaxQueue
  BY DEF ProcessPacket
<1>4. lastPcr' \in Nat
  <2>1. lastPcr' = IF HasPcr(packet) THEN packet.content.pcr ELSE lastPcr
    BY DEF ProcessPacket
  <2>2. packet.content.pcr \in Nat \cup {NoPcr}
    BY DEF PacketDatas, Content
  <2> QED BY <1>1, <2>1, <2>2 DEF HasPcr
<1>5. /\ id \in Ids /\ IsPacket(parsed, id) /\ Extends(store, parsed)
      /\ StoreRight(parsed, id) /\ AtOnce(parsed, id)
  BY <1>1, ParsedFacts
<1> HIDE DEF parsed, id
<1>6. /\ StoreRight(ready, id) /\ AtOnce(ready, id) /\ IsPacket(ready, id)
      /\ \A other : IsPacket(parsed, other) => IsPacket(ready, other)
  BY <1>5, FlaggedFacts
<1>7. \A c \in Clients : \A i \in DOMAIN queue[c] : IsPacket(ready, queue[c][i])
  BY <1>1, <1>5, <1>6, PacketStays DEF QueuesRight
<1> HIDE DEF ready
<1> DEFINE all == QueueOnAll(ready, id, rooms)
<1>8. QueuedRight(all, ready, id, Len(PrefixOf))
  BY <1>1, <1>3, <1>5, <1>6, <1>7, QueueOnAllFacts
<1>9. queue' = all.queues /\ made' = all.made /\ store' = Freed(all.store, Queued(all.queues))
  BY <1>2 DEF Becomes
<1> HIDE DEF all
<1>10. /\ StoreRight(all.store, id) /\ Extends(ready, all.store)
       /\ all.queues \in [Clients -> Seq(Ids)]
       /\ \A c \in Clients : /\ Len(all.queues[c]) <= MaxQueue
                             /\ \A i \in DOMAIN all.queues[c] : IsPacket(ready, all.queues[c][i])
       /\ \A c \in Clients : \A i \in DOMAIN all.made[c] : EntryRight(all.made[c][i])
  BY <1>8 DEF QueuedRight
<1>11. QueuesRight(all.queues, all.store)
  <2>1. \A c \in Clients : \A i \in DOMAIN all.queues[c] : IsPacket(all.store, all.queues[c][i])
    BY <1>10, PacketStays
  <2> QED BY <1>10, <2>1 DEF QueuesRight
<1>12. /\ StoreRight(store', 0) /\ NothingElse(store', Queued(all.queues))
       /\ QueuesRight(all.queues, store')
  BY <1>9, <1>10, <1>11, HeldByQueues
<1>13. \A e \in Entries' : EntryRight(e)
  BY <1>9, <1>10 DEF Entries
<1> QED BY <1>4, <1>9, <1>10, <1>12, <1>13 DEF Inv

\* There is room in the send buffer of a client again.
LEMMA BytesWrittenInv ==
  ASSUME Inv, NEW c \in Clients, BytesWritten(c)
  PROVE  Inv'
<1>1. /\ StoreRight(store, 0) /\ queue \in [Clients -> Seq(Ids)] /\ QueuesRight(queue, store)
      /\ lastPcr \in Nat
  BY DEF Inv
<1>2. PICK room \in Rooms :
        Becomes(Filled(c, QueueState(store, queue, NothingMade),
                       Fill(store, queue[c], PrefixOf[c], room, 0)))
  BY DEF BytesWritten
<1> DEFINE fill == Fill(store, queue[c], PrefixOf[c], room, 0)
<1>3. /\ queue' = [queue EXCEPT ![c] = fill.queue]
      /\ made' = [NothingMade EXCEPT ![c] = fill.made]
      /\ store' = Freed(fill.store, Queued(queue'))
  <2> HIDE DEF fill
  <2>1. Becomes(Filled(c, QueueState(store, queue, NothingMade), fill))
    BY <1>2 DEF fill
  <2> QED BY <2>1 DEF Becomes, Filled, QueueState
<1>4. /\ queue[c] \in Seq(Ids) /\ Len(queue[c]) <= MaxQueue
      /\ \A i \in DOMAIN queue[c] : IsPacket(store, queue[c][i])
      /\ room \in Nat /\ PrefixOf[c] \in Nat
  BY <1>1, ClientsFacts, ForwardingV2Assumption DEF QueuesRight, Rooms
<1>5. AtOnce(store, 0)
  BY DEF AtOnce
<1>6. FillRight(fill, store, queue[c], 0)
  BY <1>1, <1>4, <1>5, FillFacts
<1> HIDE DEF fill
<1>7. /\ StoreRight(fill.store, 0) /\ Extends(store, fill.store)
      /\ fill.queue \in Seq(Ids) /\ Len(fill.queue) <= Len(queue[c])
      /\ \A i \in DOMAIN fill.queue : \E j \in DOMAIN queue[c] : fill.queue[i] = queue[c][j]
      /\ \E T : fill.made \in Seq(T) /\ \A x \in T : EntryRight(x)
  BY <1>6 DEF FillRight
<1>8. /\ queue' \in [Clients -> Seq(Ids)] /\ queue'[c] = fill.queue
      /\ \A k \in Clients : k # c => queue'[k] = queue[k]
  BY <1>1, <1>3, <1>7
<1>9. QueuesRight(queue', fill.store)
  <2>1. Len(fill.queue) <= MaxQueue
    BY <1>4, <1>7, ForwardingV2Assumption
  <2>2. \A i \in DOMAIN fill.queue : IsPacket(fill.store, fill.queue[i])
    BY <1>4, <1>7, PacketStays
  <2>3. \A k \in Clients : \A i \in DOMAIN queue[k] : IsPacket(fill.store, queue[k][i])
    BY <1>1, <1>7, PacketStays DEF QueuesRight
  <2> QED BY <1>1, <1>7, <1>8, <2>1, <2>2, <2>3 DEF QueuesRight
<1>10. /\ StoreRight(store', 0) /\ NothingElse(store', Queued(queue')) /\ QueuesRight(queue', store')
  BY <1>3, <1>7, <1>9, HeldByQueues
<1>11. \A e \in Entries' : EntryRight(e)
  <2>1. \A i \in DOMAIN fill.made : EntryRight(fill.made[i])
    BY <1>7
  <2>2. made'[c] = fill.made /\ \A k \in Clients : k # c => made'[k] = <<>>
    BY <1>3 DEF NothingMade
  <2> QED BY <2>1, <2>2 DEF Entries
<1>12. lastPcr' = lastPcr
  BY DEF BytesWritten
<1> QED BY <1>1, <1>8, <1>10, <1>11, <1>12 DEF Inv

\* A client goes.
LEMMA ContextDestroyedInv ==
  ASSUME Inv, NEW c \in Clients, ContextDestroyed(c)
  PROVE  Inv'
<1>1. /\ StoreRight(store, 0) /\ queue \in [Clients -> Seq(Ids)] /\ QueuesRight(queue, store)
      /\ lastPcr \in Nat
  BY DEF Inv
<1>2. /\ queue' = [queue EXCEPT ![c] = <<>>] /\ made' = NothingMade
      /\ store' = Freed(store, Queued(queue')) /\ lastPcr' = lastPcr
  BY DEF ContextDestroyed, Becomes, QueueState
<1>3. /\ queue' \in [Clients -> Seq(Ids)] /\ queue'[c] = <<>>
      /\ \A k \in Clients : k # c => queue'[k] = queue[k]
  BY <1>1, <1>2
<1>4. QueuesRight(queue', store)
  <2>1. <<>> \in Seq(Ids) /\ Len(<<>>) <= MaxQueue /\ DOMAIN <<>> = {}
    BY ForwardingV2Assumption
  <2> QED BY <1>1, <1>3, <2>1 DEF QueuesRight
<1>5. /\ StoreRight(store', 0) /\ NothingElse(store', Queued(queue')) /\ QueuesRight(queue', store')
  BY <1>1, <1>2, <1>4, HeldByQueues
<1>6. Entries' = {}
  BY <1>2 DEF Entries, NothingMade
<1> QED BY <1>1, <1>2, <1>3, <1>5, <1>6 DEF Inv

\* Every step preserves the invariant.
LEMMA NextInv == Inv /\ [Next]_vars => Inv'
<1> SUFFICES ASSUME Inv, [Next]_vars PROVE Inv'
  OBVIOUS
<1>1. ASSUME NEW p \in FirstPackets, ProcessInput(p) PROVE Inv'
  <2> DEFINE packet == PacketData(p, ContentOf[p])
  <2>1. packet \in PacketDatas /\ ~packet.flagged
    BY ForwardingV2Assumption DEF PacketData, PacketDatas
  <2>2. ProcessPacket(packet)
    BY <1>1 DEF ProcessInput
  <2> HIDE DEF packet
  <2> QED BY <2>1, <2>2, ProcessPacketInv
<1>2. ASSUME NEW c \in Clients, BytesWritten(c) PROVE Inv'
  BY <1>2, BytesWrittenInv
<1>3. ASSUME NEW c \in Clients, ContextDestroyed(c) PROVE Inv'
  BY <1>3, ContextDestroyedInv
<1>4. CASE UNCHANGED vars
  BY <1>4 DEF vars, Inv, Entries
<1> QED BY <1>1, <1>2, <1>3, <1>4, ForwardingV2Assumption DEF Next

-----------------------------------------------------------------------------
\* The invariant holds throughout.
LEMMA AlwaysInv == Spec => []Inv
  BY InitInv, NextInv, PTL DEF Spec

\* The invariant has the types in it.
LEMMA InvTypeOK == Inv => TypeOK
<1> SUFFICES ASSUME Inv PROVE TypeOK
  OBVIOUS
<1>1. /\ IsStore(store) /\ queue \in [Clients -> Seq(Ids)] /\ QueuesRight(queue, store)
      /\ lastPcr \in Nat
  BY DEF Inv, StoreRight
<1>2. ASSUME NEW id \in DOMAIN store.nodes
      PROVE  \/ /\ store.nodes[id].kind = "packet"
                /\ store.nodes[id].data \in [name : FirstPackets, content : Content, flagged : BOOLEAN]
             \/ /\ store.nodes[id].kind = "bytes"
                /\ store.nodes[id].data \in
                     [name : FirstPackets, flagged : BOOLEAN, prefix : Nat, asRead : BOOLEAN]
  <2>1. store.nodes[id] \in PacketNodes \cup BytesNodes
    BY <1>1 DEF IsStore
  <2> QED BY <2>1 DEF PacketNodes, BytesNodes, PacketDatas, BytesDatas
<1>3. ASSUME NEW c \in Clients
      PROVE  queue[c] \in Seq({id \in DOMAIN store.nodes : store.nodes[id].kind = "packet"})
  <2> DEFINE q == queue[c]
             set == {id \in DOMAIN store.nodes : store.nodes[id].kind = "packet"}
  <2>1. q \in Seq(Ids) /\ \A i \in DOMAIN q : q[i] \in set
    BY <1>1 DEF QueuesRight, IsPacket, Has
  <2> HIDE DEF q, set
  <2>2. q \in Seq(set)
    BY <2>1
  <2> QED BY <2>2 DEF q, set
<1>4. queue \in [Clients -> Seq({id \in DOMAIN store.nodes : store.nodes[id].kind = "packet"})]
  BY <1>1, <1>3
<1>5. \A c \in Clients : Len(queue[c]) <= MaxQueue
  BY <1>1 DEF QueuesRight
<1> QED BY <1>1, <1>2, <1>4, <1>5 DEF TypeOK

\* Every variable keeps its type, for any packets, prefixes and bounds: what is in the
\* store is a packet or bytes, and what waits in a queue is a packet in the store.
THEOREM ForwardingV2TypeCorrect == Spec => []TypeOK
  BY AlwaysInv, InvTypeOK, PTL

\* It says what is in the store; no edge leads to a packet between two steps.
LEMMA InvStoreExact == Inv => StoreExact
<1> SUFFICES ASSUME Inv PROVE StoreExact
  OBVIOUS
<1>1. StoreRight(store, 0) /\ NothingElse(store, Queued(queue))
  BY DEF Inv
<1>2. \A e \in Edges(store) : /\ Has(store, e.from) /\ Has(store, e.to)
                              /\ store.nodes[e.from].kind = "packet"
                              /\ store.nodes[e.to].kind = "bytes"
  <2> SUFFICES ASSUME NEW e \in Edges(store) PROVE ResultEdge(store, e)
    BY DEF ResultEdge, IsPacket, IsBytes
  <2>1. ResultEdge(store, e) \/ (e.to = 0 /\ IsPacket(store, e.to))
    BY <1>1 DEF StoreRight, EdgesRight, ParseEdge
  <2>2. 0 \notin DOMAIN store.nodes
    BY <1>1 DEF StoreRight, IsStore, Ids
  <2> QED BY <2>1, <2>2 DEF IsPacket, Has
<1> QED BY <1>1, <1>2 DEF StoreExact, StoreRight, NothingTwice, NothingElse

\* The store holds what the queues need and nothing else, for any number of clients
\* and however long they wait: no conversion leaks, and none is lost that a client
\* that is slow still needs (conversionstore.h:134).
THEOREM StoreIsExact == Spec => []StoreExact
  BY AlwaysInv, InvStoreExact, PTL

\* It says what has been made in the last step.
LEMMA InvEntries == Inv => SentAtOnceAsRead /\ FlagArrives
  BY DEF Inv, EntryRight, SentAtOnceAsRead, FlagArrives, Sent

\* A packet that is sent in the call it was read in, and was not flagged, is sent
\* byte for byte as it was read, whatever is wrong with it: the edge back to what was
\* read is found before anything is generated (tspacketv2.cpp:750, 770).
THEOREM AtOnceIsAsRead == Spec => []SentAtOnceAsRead
  BY AlwaysInv, InvEntries, PTL

\* A packet that was flagged is sent with the flag and any other without, to every
\* client and however late: no bytes from before the flag are found (streamserver.cpp:629).
THEOREM TheFlagArrives == Spec => []FlagArrives
  BY AlwaysInv, InvEntries, PTL

\* It says that nothing is discarded but what the generator refuses.
LEMMA InvSound == SoundGenerates /\ Inv => SoundNeverDropped
<1> SUFFICES ASSUME SoundGenerates, Inv, NEW e \in Entries, e.packet.content.ok, Available(e)
             PROVE  e.outcome = "sent"
  BY DEF SoundNeverDropped
<1>1. EntryRight(e)
  BY DEF Inv
<1>2. /\ e.packet.name \in FirstPackets /\ e.packet.flagged \in BOOLEAN
      /\ e.packet.content = ContentOf[e.packet.name]
  BY <1>1 DEF EntryRight, PacketDatas
<1>3. e.packet.content.generates[e.packet.flagged]
  BY <1>2 DEF SoundGenerates
<1> QED BY <1>1, <1>3 DEF EntryRight

\* If the generator keeps its promise no client misses a sound packet that it may have:
\* whatever the order in which clients are served, an old failure is never found in
\* place of a conversion that would succeed (streamclient.cpp:172).
THEOREM SoundIsNeverDropped == SoundGenerates => (Spec => []SoundNeverDropped)
<1> SUFFICES ASSUME SoundGenerates PROVE Spec => []SoundNeverDropped
  OBVIOUS
<1>1. Inv => SoundNeverDropped
  BY InvSound
<1> QED BY <1>1, AlwaysInv, PTL

-----------------------------------------------------------------------------
(***************************************************************************)
(* BitStream.                                                              *)
(***************************************************************************)

\* A stream between any two calls: the byte it has taken in, or has still to put
\* back, is one of its own.
Sound(s) ==
    /\ s \in Stream
    /\ s.offset >= -1
    /\ s.dirty \/ s.left > 0 => s.offset \in 0 .. Len(s.bytes) - 1

\* What there is beside a stream: the bytes b it was opened with, the content c, the
\* sources src of its places and the places hv flushed half done.
Beside(s, b, c, src, hv) ==
    /\ b \in Seq(Byte) /\ Len(b) = Len(s.bytes)
    /\ c \in Seq(Byte) /\ Len(c) = Len(s.bytes)
    /\ src \in [DOMAIN c -> {Original} \cup DOMAIN c]
    /\ hv \subseteq DOMAIN c

\* In each place is what its source says, and no byte has gone back or been lost.
Shown(bytes, b, c, src, hv) ==
    \A k \in DOMAIN c :
      /\ src[k] <= k
      /\ src[k] = Original => /\ k \notin hv => bytes[k] = b[k]
                              /\ \E to \in DOMAIN c : to > k /\ src[to] = k
      /\ src[k] # Original /\ src[k] \notin hv => bytes[k] = c[src[k]]

\* Where the stream has not been yet nothing has changed.
Ahead(s, b, c, src) ==
    \A k \in DOMAIN c : k > s.offset + 1 => src[k] = k /\ s.bytes[k] = c[k] /\ b[k] = c[k]

\* The byte in hand, with bits left or to be put back, is that of the content it
\* belongs to, and its own place is as it was opened; if it has been carried on, what is
\* to be overwritten is still there.
InHand(s, b, c, src, hv) ==
    LET place == s.offset + 1
        home  == src[place]
    IN  s.dirty \/ s.left > 0 =>
          /\ home # Original
          /\ s.left > 0 => home = place
          /\ home \notin hv => s.cur = c[home] /\ s.bytes[home] = b[home]
          /\ home # place => /\ src[home] = Original
                             /\ place \notin hv => s.bytes[place] = c[place]

Holds(s, b, c, src, hv) ==
    /\ Beside(s, b, c, src, hv)
    /\ Shown(Flushed(s).bytes, b, c, src, hv)
    /\ Ahead(s, b, c, src)
    /\ InHand(s, b, c, src, hv)

\* The fields of a stream, one by one.
LEMMA Fields ==
    ASSUME NEW s \in Stream
    PROVE  /\ s.bytes \in Seq(Byte) /\ Len(s.bytes) \in Nat
           /\ s.dirty \in BOOLEAN /\ s.cur \in Byte
           /\ s.offset \in Int /\ s.left \in 0 .. ByteBits
           /\ DOMAIN s.bytes = 1 .. Len(s.bytes)
  <1>1. /\ s.bytes \in Seq(Byte) /\ s.dirty \in BOOLEAN /\ s.cur \in Byte
        /\ s.offset \in Int /\ s.left \in 0 .. ByteBits
    BY DEF Stream
  <1> QED BY <1>1, LenProperties

\* The place of an offset, and the places up to another one.
LEMMA PlaceOf ==
    ASSUME NEW n \in Nat, NEW offset \in 0 .. n - 1
    PROVE  offset + 1 \in 1 .. n
  OBVIOUS

LEMMA PlacesUpTo ==
    ASSUME NEW offset \in Int, NEW end \in Int, NEW i \in Int, 1 <= i, i <= end - offset
    PROVE  offset + 1 + i \in offset + 2 .. end + 1 /\ offset + 1 + i > offset + 1
  OBVIOUS

\* Places, bytes and sources are what they are said to be.
LEMMA BesideTypes ==
    ASSUME NEW s \in Stream, NEW b, NEW c, NEW src, NEW hv, Beside(s, b, c, src, hv)
    PROVE  /\ DOMAIN c = 1 .. Len(s.bytes) /\ DOMAIN b = DOMAIN c /\ DOMAIN src = DOMAIN c
           /\ Len(s.bytes) \in Nat
           /\ \A k \in DOMAIN c : src[k] = Original \/ src[k] \in DOMAIN c
           /\ \A k \in DOMAIN c : k \in Int /\ k > 0 /\ src[k] \in Int /\ src[k] >= 0
           /\ \A k \in DOMAIN c : c[k] \in Byte
  <1>1. /\ DOMAIN b = 1 .. Len(b) /\ DOMAIN c = 1 .. Len(c) /\ Len(s.bytes) \in Nat
        /\ Len(b) = Len(s.bytes) /\ Len(c) = Len(s.bytes) /\ DOMAIN src = DOMAIN c
    BY Fields, LenProperties DEF Beside
  <1>2. \A k \in DOMAIN c : src[k] = Original \/ src[k] \in DOMAIN c
    BY DEF Beside
  <1>3. \A k \in DOMAIN c : c[k] \in Byte
    BY ElementOfSeq DEF Beside
  <1> QED BY <1>1, <1>2, <1>3 DEF Original

\* flush() puts the dirty byte back and changes nothing else that lasts
\* (tsprimitive.h:44).
LEMMA FlushedSound ==
    ASSUME NEW s, Sound(s)
    PROVE  LET f == Flushed(s)
           IN  /\ Sound(f) /\ ~f.dirty
               /\ Len(f.bytes) = Len(s.bytes)
               /\ f.offset = s.offset /\ f.left = s.left
               /\ Flushed(f) = f
               /\ ~s.dirty => f = s
               /\ \A k \in 1 .. Len(s.bytes) :
                    f.bytes[k] = IF s.dirty /\ k = s.offset + 1 THEN s.cur ELSE s.bytes[k]
  <1> DEFINE f == Flushed(s)
  <1>1. s \in Stream
    BY DEF Sound
  <1>2. CASE ~s.dirty
    BY <1>2 DEF Flushed
  <1>3. CASE s.dirty
    <2> DEFINE b == [s.bytes EXCEPT ![s.offset + 1] = s.cur]
    <2>1. s.offset + 1 \in 1 .. Len(s.bytes)
      BY <1>1, <1>3, Fields DEF Sound
    <2>2. /\ b \in Seq(Byte) /\ Len(b) = Len(s.bytes)
          /\ \A k \in 1 .. Len(s.bytes) :
               b[k] = IF k = s.offset + 1 THEN s.cur ELSE s.bytes[k]
      BY <1>1, <2>1, Fields, ExceptSeq
    <2> HIDE DEF b
    <2>3. f = [s EXCEPT !.bytes = b, !.cur = ZeroByte, !.dirty = FALSE]
      BY <1>3 DEF Flushed, b
    <2>4. ZeroByte \in Byte
      BY DEF ZeroByte, Byte, Bits
    <2>5. f \in Stream
      BY <1>1, <2>2, <2>3, <2>4, Zenon DEF Stream
    <2>6. f.bytes = b /\ f.dirty = FALSE /\ f.offset = s.offset /\ f.left = s.left
      BY <1>1, <2>3 DEF Stream
    <2>7. Sound(f)
      BY <2>2, <2>5, <2>6 DEF Sound
    <2> QED BY <1>3, <2>2, <2>6, <2>7 DEF Flushed
  <1> QED BY <1>2, <1>3

\* Flushing changes nothing of what the places hold; a byte with bits left that it
\* makes the stream forget is one half done.
LEMMA FlushedHolds ==
    ASSUME NEW s, Sound(s), NEW b, NEW c, NEW src, NEW hv, Holds(s, b, c, src, hv)
    PROVE  Holds(Flushed(s), b, c, src,
                 IF s.dirty /\ s.left > 0 THEN hv \cup {s.offset + 1} ELSE hv)
  <1> DEFINE f == Flushed(s)
             new == IF s.dirty /\ s.left > 0 THEN hv \cup {s.offset + 1} ELSE hv
  <1>1. s \in Stream
    BY DEF Sound
  <1>2. CASE ~s.dirty
    BY <1>2, FlushedSound
  <1>3. CASE s.dirty
    <2>1. /\ f.dirty = FALSE /\ Len(f.bytes) = Len(s.bytes) /\ Flushed(f) = f
          /\ f.offset = s.offset /\ f.left = s.left
          /\ \A k \in 1 .. Len(s.bytes) : k # s.offset + 1 => f.bytes[k] = s.bytes[k]
      BY FlushedSound
    <2>2. s.offset + 1 \in DOMAIN c /\ s.offset \in Int
      BY <1>1, <1>3, Fields, BesideTypes DEF Sound, Holds
    <2>3. Beside(f, b, c, src, new)
      BY <2>1, <2>2 DEF Holds, Beside
    <2>4. Shown(Flushed(f).bytes, b, c, src, new)
      BY <2>1 DEF Holds, Shown
    <2>5. Ahead(f, b, c, src)
      BY <1>1, <2>1, <2>2, BesideTypes DEF Holds, Ahead
    <2>6. InHand(f, b, c, src, new)
      BY <1>3, <2>1 DEF Holds, InHand
    <2> QED BY <2>3, <2>4, <2>5, <2>6 DEF Holds
  <1> QED BY <1>2, <1>3

\* Where a call about bits begins: there is a byte with bits left, or the next one has
\* been taken in, or the call throws and has only moved on (tsprimitive.h:59).
LEMMA LoadedSound ==
    ASSUME NEW s, Sound(s)
    PROVE  LET n == Loaded(s)
           IN  /\ Sound(n)
               /\ Len(n.bytes) = Len(s.bytes)
               /\ CanLoad(s) => n.left \in 1 .. ByteBits
               /\ ~CanLoad(s) => n.left = 0
               /\ s.left > 0 => n = s
               /\ s.left = 0 => /\ n.bytes = Flushed(s).bytes /\ n.dirty = FALSE
                                /\ n.offset = s.offset + 1
                                /\ CanLoad(s) => n.cur = n.bytes[n.offset + 1]
  <1> DEFINE f == Flushed(s)
             n == Loaded(s)
  <1>1. s \in Stream /\ f \in Stream /\ Sound(f)
    BY FlushedSound DEF Sound
  <1>2. /\ ~f.dirty /\ Len(f.bytes) = Len(s.bytes)
        /\ f.offset = s.offset /\ f.left = s.left
    BY FlushedSound
  <1>3. f.dirty = FALSE
    BY <1>1, <1>2, Fields
  <1> HIDE DEF f
  <1>4. CASE s.left > 0
    <2>1. n = s
      BY <1>4 DEF Loaded
    <2>2. s.left \in 1 .. ByteBits /\ CanLoad(s)
      BY <1>1, <1>4, Fields, ByteBitsAssumption DEF CanLoad
    <2> QED BY <1>1, <1>4, <2>1, <2>2, Fields
  <1>5. CASE ~(s.left > 0) /\ CanAdvance(s)
    <2> DEFINE place == s.offset + 1
    <2>1. place \in 0 .. Len(s.bytes) - 1 /\ place >= -1 /\ place \in Int
      BY <1>1, <1>5, Fields DEF Sound, CanAdvance
    <2>2. f.bytes[s.offset + 2] \in Byte
      <3>1. s.offset + 2 \in 1 .. Len(f.bytes)
        BY <1>1, <1>2, <2>1, Fields
      <3> QED BY <1>1, <3>1, Fields, ElementOfSeq
    <2>3. n = [f EXCEPT !.offset = place, !.cur = f.bytes[s.offset + 2], !.left = ByteBits]
      BY <1>2, <1>5 DEF Loaded, NextByte, f
    <2>4. place + 1 = s.offset + 2
      BY <1>1, Fields
    <2> HIDE DEF place
    <2>5. ByteBits \in 0 .. ByteBits /\ ByteBits \in 1 .. ByteBits
      BY ByteBitsAssumption
    <2>6. n \in Stream
      BY <1>1, <2>1, <2>2, <2>3, <2>5, Zenon DEF Stream
    <2>7. /\ n.bytes = f.bytes /\ n.dirty = f.dirty /\ n.offset = place
          /\ n.cur = f.bytes[s.offset + 2] /\ n.left = ByteBits
      BY <1>1, <2>3 DEF Stream
    <2>8. Sound(n)
      BY <1>2, <2>1, <2>6, <2>7 DEF Sound
    <2>9. place = s.offset + 1
      BY DEF place
    <2> QED BY <1>2, <1>3, <1>5, <2>4, <2>5, <2>7, <2>8, <2>9 DEF CanLoad, f
  <1>6. CASE ~(s.left > 0) /\ ~CanAdvance(s)
    <2>1. s.offset + 1 \in Int /\ s.offset + 1 >= -1 /\ s.left = 0
      BY <1>1, <1>6, Fields DEF Sound
    <2>2. n = [f EXCEPT !.offset = s.offset + 1]
      BY <1>2, <1>6 DEF Loaded, NextByte, f
    <2>3. n \in Stream
      BY <1>1, <2>1, <2>2, Zenon DEF Stream
    <2>4. /\ n.bytes = f.bytes /\ n.dirty = f.dirty /\ n.offset = s.offset + 1
          /\ n.left = f.left
      BY <1>1, <2>2 DEF Stream
    <2>5. Sound(n)
      BY <1>2, <2>1, <2>3, <2>4 DEF Sound
    <2> QED BY <1>2, <1>3, <1>6, <2>1, <2>4, <2>5 DEF CanLoad, f
  <1> QED BY <1>4, <1>5, <1>6

\* That changes nothing of what the places hold, and a byte that has been taken in is
\* that of the content.
LEMMA LoadedHolds ==
    ASSUME NEW s, Sound(s), NEW b, NEW c, NEW src, NEW hv, Holds(s, b, c, src, hv)
    PROVE  /\ Holds(Loaded(s), b, c, src, hv)
           /\ s.left = 0 /\ CanLoad(s) => Loaded(s).cur = c[Loaded(s).offset + 1]
  <1> DEFINE f == Flushed(s)
             n == Loaded(s)
  <1>1. s \in Stream /\ f \in Stream /\ n \in Stream
    BY FlushedSound, LoadedSound DEF Sound
  <1>2. CASE s.left > 0
    <2>1. n = s
      BY <1>2 DEF Loaded
    <2> QED BY <1>2, <2>1
  <1>3. CASE ~(s.left > 0)
    <2>1. s.left = 0
      BY <1>1, <1>3, Fields
    <2>2. /\ Holds(f, b, c, src, hv) /\ f.bytes = Flushed(f).bytes
          /\ f.offset = s.offset /\ Len(f.bytes) = Len(s.bytes) /\ f.left = 0
      <3>1. Holds(f, b, c, src, hv)
        BY <1>3, FlushedHolds
      <3> QED BY <2>1, <3>1, FlushedSound
    <2>3. /\ n.bytes = f.bytes /\ n.dirty = FALSE /\ n.offset = s.offset + 1 /\ Sound(n)
          /\ CanLoad(s) => n.cur = n.bytes[n.offset + 1]
          /\ ~CanLoad(s) => n.left = 0
      BY <2>1, LoadedSound
    <2> HIDE DEF f, n
    <2>4. Flushed(n).bytes = n.bytes
      BY <2>3 DEF Flushed
    <2>5. Beside(n, b, c, src, hv) /\ Shown(Flushed(n).bytes, b, c, src, hv)
      BY <2>2, <2>3, <2>4 DEF Holds, Beside
    <2>6. s.offset \in Int /\ DOMAIN c = 1 .. Len(n.bytes) /\ \A k \in DOMAIN c : k \in Int
      BY <1>1, <2>5, Fields, BesideTypes
    <2>7. Ahead(n, b, c, src)
      BY <2>2, <2>3, <2>6 DEF Holds, Ahead
    <2>8. CASE CanLoad(s)
      <3> DEFINE place == n.offset + 1
      <3>1. n.left > 0
        <4>1. n.left \in 1 .. ByteBits
          BY <2>8, LoadedSound DEF n
        <4> QED BY <4>1, ByteBitsAssumption
      <3>2. place \in DOMAIN c /\ place > s.offset + 1
        BY <1>1, <2>3, <2>6, <3>1, Fields DEF Sound
      <3>3. src[place] = place /\ n.bytes[place] = c[place] /\ b[place] = c[place]
        BY <2>2, <2>3, <3>2 DEF Holds, Ahead
      <3>4. place # Original
        BY <2>6, <3>2 DEF Original
      <3>5. InHand(n, b, c, src, hv)
        BY <2>3, <2>8, <3>3, <3>4 DEF InHand
      <3> QED BY <2>3, <2>5, <2>7, <2>8, <3>3, <3>5 DEF Holds, n
    <2>9. CASE ~CanLoad(s)
      <3>1. InHand(n, b, c, src, hv)
        BY <2>3, <2>9 DEF InHand
      <3> QED BY <2>5, <2>7, <2>9, <3>1 DEF Holds, n
    <2> QED BY <2>8, <2>9
  <1> QED BY <1>2, <1>3

\* Bits taken from a byte leave the stream sound and its bytes as they are
\* (tsprimitive.h:76, :100).
LEMMA ShortenedSound ==
    ASSUME NEW s, Sound(s), NEW n \in 0 .. s.left
    PROVE  LET t == [s EXCEPT !.left = @ - n]
           IN  /\ Sound(t) /\ t.left = s.left - n /\ t.offset = s.offset
               /\ t.bytes = s.bytes
               /\ \A b, c, src, hv : Holds(s, b, c, src, hv) => Holds(t, b, c, src, hv)
  <1> DEFINE t == [s EXCEPT !.left = @ - n]
  <1>1. s \in Stream /\ s.left - n \in 0 .. ByteBits
    BY Fields, ByteBitsAssumption DEF Sound
  <1>2. t \in Stream
    BY <1>1, Zenon DEF Stream
  <1>3. /\ t.bytes = s.bytes /\ t.dirty = s.dirty /\ t.offset = s.offset
        /\ t.cur = s.cur /\ t.left = s.left - n
    BY <1>1 DEF Stream
  <1>4. Sound(t)
    BY <1>1, <1>2, <1>3, Fields DEF Sound
  <1>5. Flushed(t).bytes = Flushed(s).bytes
    BY <1>1, <1>2, <1>3 DEF Flushed, Stream
  <1>6. t.left > 0 => s.left > 0
    BY <1>1, <1>3, Fields
  <1> HIDE DEF t
  <1>7. ASSUME NEW b, NEW c, NEW src, NEW hv, Holds(s, b, c, src, hv)
        PROVE  Holds(t, b, c, src, hv)
    <2>1. Beside(t, b, c, src, hv) /\ Ahead(t, b, c, src)
      BY <1>3, <1>7 DEF Holds, Beside, Ahead
    <2>2. InHand(t, b, c, src, hv)
      BY <1>3, <1>6, <1>7 DEF Holds, InHand
    <2> QED BY <1>5, <1>7, <2>1, <2>2 DEF Holds
  <1> QED BY <1>3, <1>4, <1>7 DEF t

\* A bit that is put is in the byte in hand, and no other bit has changed
\* (tsprimitive.h:84).
LEMMA PutBitSound ==
    ASSUME NEW s, Sound(s), CanLoad(s), NEW bit \in Bits
    PROVE  LET n == Loaded(s)
               t == PutBit(s, bit)
           IN  /\ Sound(t) /\ t.bytes = n.bytes /\ t.dirty = TRUE /\ t.offset = n.offset
               /\ t.left = n.left - 1
               /\ t.cur = [n.cur EXCEPT ![ByteBits - t.left] = bit]
               /\ Len(t.bytes) = Len(s.bytes)
               /\ t.offset + 1 \in 1 .. Len(s.bytes)
               /\ ByteBits - t.left \in 1 .. ByteBits
  <1> DEFINE n == Loaded(s)
             t == PutBit(s, bit)
             x == [n.cur EXCEPT ![Place(n)] = bit]
  <1>1. /\ Sound(n) /\ n \in Stream /\ Len(n.bytes) = Len(s.bytes)
        /\ n.left \in 1 .. ByteBits
    BY LoadedSound DEF Sound
  <1> HIDE DEF n
  <1>2. /\ n.left - 1 \in 0 .. ByteBits /\ n.left \in Int
        /\ ByteBits - (n.left - 1) = Place(n) /\ Place(n) \in 1 .. ByteBits
    BY <1>1, ByteBitsAssumption DEF Place
  <1>3. x \in Byte
    BY <1>1, <1>2, Fields DEF Byte
  <1>4. n.offset + 1 \in 1 .. Len(n.bytes) /\ n.offset \in 0 .. Len(n.bytes) - 1
    BY <1>1, Fields DEF Sound
  <1>5. t = [n EXCEPT !.cur = x, !.left = n.left - 1, !.dirty = TRUE]
    BY DEF PutBit, n
  <1> HIDE DEF x, t
  <1>6. t \in Stream
    BY <1>1, <1>2, <1>3, <1>5, Zenon DEF Stream
  <1>7. /\ t.bytes = n.bytes /\ t.dirty = TRUE /\ t.offset = n.offset
        /\ t.cur = x /\ t.left = n.left - 1
    BY <1>1, <1>5 DEF Stream
  <1>8. Sound(t)
    BY <1>4, <1>6, <1>7 DEF Sound
  <1> QED BY <1>1, <1>2, <1>4, <1>7, <1>8 DEF t, n, x

\* The place of the byte holds that byte then, and all others what they held.
LEMMA PutBitHolds ==
    ASSUME NEW s, Sound(s), CanLoad(s), NEW bit \in Bits,
           NEW b, NEW c, NEW src, NEW hv, Holds(s, b, c, src, hv)
    PROVE  LET t == PutBit(s, bit)
           IN  Holds(t, b, [c EXCEPT ![t.offset + 1][ByteBits - t.left] = bit], src, hv)
  <1> DEFINE n == Loaded(s)
             t == PutBit(s, bit)
             o == t.offset + 1
             x == [c[o] EXCEPT ![ByteBits - t.left] = bit]
             d == [c EXCEPT ![o] = x]
  <1>1. /\ Sound(n) /\ n \in Stream /\ Len(n.bytes) = Len(s.bytes) /\ n.left > 0
        /\ Holds(n, b, c, src, hv)
    <2>1. Sound(n) /\ Len(n.bytes) = Len(s.bytes) /\ n.left \in 1 .. ByteBits
      BY LoadedSound
    <2>2. Holds(n, b, c, src, hv)
      BY LoadedHolds
    <2> QED BY <2>1, <2>2, ByteBitsAssumption DEF Sound
  <1>2. /\ Sound(t) /\ t.bytes = n.bytes /\ t.dirty = TRUE /\ t.offset = n.offset
        /\ t.cur = [n.cur EXCEPT ![ByteBits - t.left] = bit]
        /\ o \in 1 .. Len(n.bytes) /\ ByteBits - t.left \in 1 .. ByteBits
    BY <1>1, PutBitSound
  <1> HIDE DEF n, t
  <1>3. /\ DOMAIN c = 1 .. Len(n.bytes) /\ o \in DOMAIN c /\ c[o] \in Byte
        /\ \A k \in DOMAIN c : k \in Int /\ k > 0 /\ src[k] \in Int /\ src[k] >= 0
        /\ Beside(n, b, c, src, hv) /\ n.offset \in Int
    BY <1>1, <1>2, BesideTypes, Fields DEF Holds
  <1>4. x \in Byte
    BY <1>2, <1>3 DEF Byte
  <1>5. /\ d \in Seq(Byte) /\ Len(d) = Len(c) /\ DOMAIN d = DOMAIN c
        /\ \A k \in DOMAIN c : d[k] = IF k = o THEN x ELSE c[k]
    BY <1>1, <1>3, <1>4, ExceptSeq, LenProperties DEF Beside
  <1>6. [c EXCEPT ![t.offset + 1][ByteBits - t.left] = bit] = d
    OBVIOUS
  <1>7. /\ src[o] = o
        /\ o \notin hv => n.cur = c[o] /\ n.bytes[o] = b[o]
    BY <1>1, <1>2 DEF Holds, InHand
  <1>8. o \notin hv => t.cur = x
    BY <1>2, <1>7
  <1>9. /\ \A k \in DOMAIN c : Flushed(t).bytes[k] = IF k = o THEN t.cur ELSE n.bytes[k]
        /\ \A k \in DOMAIN c : k # o => Flushed(n).bytes[k] = n.bytes[k]
    <2>1. \A k \in 1 .. Len(t.bytes) :
            Flushed(t).bytes[k] = IF t.dirty /\ k = t.offset + 1 THEN t.cur ELSE t.bytes[k]
      BY <1>2, FlushedSound
    <2>2. \A k \in 1 .. Len(n.bytes) :
            Flushed(n).bytes[k] = IF n.dirty /\ k = n.offset + 1 THEN n.cur ELSE n.bytes[k]
      BY <1>1, FlushedSound
    <2> QED BY <1>2, <1>3, <2>1, <2>2
  <1>10. \A k \in DOMAIN c : k # o => src[k] # o
    <2> SUFFICES ASSUME NEW k \in DOMAIN c, k # o, src[k] = o PROVE FALSE
      OBVIOUS
    <2>1. k > n.offset + 1
      BY <1>1, <1>2, <1>3 DEF Holds, Shown
    <2> QED BY <1>1, <2>1 DEF Holds, Ahead
  <1>11. o # Original
    BY <1>3 DEF Original
  <1> HIDE DEF x, d, o
  <1>12. Beside(t, b, d, src, hv)
    BY <1>2, <1>3, <1>5 DEF Beside
  <1>13. Shown(Flushed(t).bytes, b, d, src, hv)
    <2> SUFFICES ASSUME NEW k \in DOMAIN c
                 PROVE  /\ src[k] <= k
                        /\ src[k] = Original =>
                             /\ k \notin hv => Flushed(t).bytes[k] = b[k]
                             /\ \E to \in DOMAIN c : to > k /\ src[to] = k
                        /\ src[k] # Original /\ src[k] \notin hv =>
                             Flushed(t).bytes[k] = d[src[k]]
      BY <1>5 DEF Shown
    <2>1. /\ src[k] <= k
          /\ src[k] = Original => /\ k \notin hv => Flushed(n).bytes[k] = b[k]
                                  /\ \E to \in DOMAIN c : to > k /\ src[to] = k
          /\ src[k] # Original /\ src[k] \notin hv => Flushed(n).bytes[k] = c[src[k]]
      BY <1>1 DEF Holds, Shown
    <2>2. CASE k = o
      BY <1>3, <1>5, <1>7, <1>8, <1>9, <1>11, <2>1, <2>2
    <2>3. CASE k # o
      <3>1. Flushed(t).bytes[k] = Flushed(n).bytes[k]
        BY <1>9, <2>3
      <3>2. src[k] # Original => d[src[k]] = c[src[k]]
        BY <1>1, <1>3, <1>5, <1>10, <2>3, BesideTypes
      <3> QED BY <2>1, <3>1, <3>2
    <2> QED BY <2>2, <2>3
  <1>14. Ahead(t, b, d, src)
    <2> SUFFICES ASSUME NEW k \in DOMAIN c, k > o
                 PROVE  src[k] = k /\ t.bytes[k] = d[k] /\ b[k] = d[k]
      BY <1>5 DEF Ahead, o
    <2>1. k # o /\ k > n.offset + 1
      BY <1>2, <1>3 DEF o
    <2> QED BY <1>1, <1>2, <1>5, <2>1 DEF Holds, Ahead
  <1>15. InHand(t, b, d, src, hv)
    <2>1. o \notin hv => t.cur = d[o] /\ t.bytes[o] = b[o]
      BY <1>2, <1>3, <1>5, <1>7, <1>8
    <2> QED BY <1>7, <1>11, <2>1 DEF InHand, o
  <1> QED BY <1>6, <1>12, <1>13, <1>14, <1>15 DEF Holds, t

\* Replacing bytes of an array by another one leaves its length and the other bytes.
LEMMA ReplacedProperties ==
    ASSUME NEW c \in Seq(Byte), NEW i \in Int, NEW array \in Seq(Byte)
    PROVE  /\ Replaced(c, i, array) \in Seq(Byte)
           /\ Len(Replaced(c, i, array)) = Len(c)
           /\ \A k \in DOMAIN c :
                k < i \/ k > i + Len(array) - 1 => Replaced(c, i, array)[k] = c[k]
  <1>1. \A k \in DOMAIN c : Replaced(c, i, array)[k] \in Byte
    <2> SUFFICES ASSUME NEW k \in DOMAIN c PROVE Replaced(c, i, array)[k] \in Byte
      OBVIOUS
    <2>1. c[k] \in Byte /\ k \in Int /\ Len(array) \in Nat
      BY ElementOfSeq, LenProperties
    <2>2. ASSUME k \in i .. i + Len(array) - 1 PROVE array[k - i + 1] \in Byte
      <3>1. k - i + 1 \in 1 .. Len(array)
        BY <2>1, <2>2
      <3> QED BY <3>1, ElementOfSeq
    <2> QED BY <2>1, <2>2 DEF Replaced
  <1>2. Replaced(c, i, array) \in [1 .. Len(c) -> Byte] /\ Len(c) \in Nat
    BY <1>1, LenProperties DEF Replaced
  <1>3. ASSUME NEW k \in DOMAIN c, k < i \/ k > i + Len(array) - 1
        PROVE  Replaced(c, i, array)[k] = c[k]
    <2>1. k \in Int /\ Len(array) \in Nat
      BY LenProperties
    <2>2. k \notin i .. i + Len(array) - 1
      BY <1>3, <2>1
    <2> QED BY <2>2 DEF Replaced
  <1>4. Replaced(c, i, array) \in Seq(Byte) /\ Len(Replaced(c, i, array)) = Len(c)
    BY <1>2, IsASeq
  <1> QED BY <1>3, <1>4

\* A call on an array that moves, and what it does to what the places hold: the bytes it
\* passes are those of the content, and a dirty byte is carried on to the last of them.
LEMMA MovedHolds ==
    ASSUME NEW s, Sound(s), NEW t, Sound(t),
           NEW b, NEW c, NEW src, NEW hv, Holds(s, b, c, src, hv),
           NEW d \in Seq(Byte), Len(d) = Len(c),
           s.left = 0, t.left = 0, t.dirty = s.dirty, t.cur = s.cur,
           Len(t.bytes) = Len(s.bytes), t.offset # s.offset,
           t.offset > s.offset \/ t.offset >= Len(s.bytes) - 1,
           \A k \in DOMAIN c :
             /\ k <= s.offset + 1 => t.bytes[k] = s.bytes[k] /\ d[k] = c[k]
             /\ k > s.offset + 1 => t.bytes[k] = d[k]
             /\ k > s.offset + 1 /\ k > t.offset + 1 => d[k] = c[k]
    PROVE  Holds(t, b, d,
                 IF s.dirty THEN Carried(src, s.offset + 1, t.offset + 1) ELSE src, hv)
  <1> DEFINE o == s.offset + 1
             m == t.offset + 1
             h == src[o]
             new == Carried(src, o, m)
  <1>1. /\ s \in Stream /\ t \in Stream /\ Beside(s, b, c, src, hv)
        /\ Shown(Flushed(s).bytes, b, c, src, hv) /\ Ahead(s, b, c, src)
        /\ InHand(s, b, c, src, hv)
    BY DEF Sound, Holds
  <1>2. /\ DOMAIN c = 1 .. Len(s.bytes) /\ DOMAIN src = DOMAIN c /\ DOMAIN d = DOMAIN c
        /\ Len(s.bytes) \in Nat
        /\ \A k \in DOMAIN c : src[k] = Original \/ src[k] \in DOMAIN c
        /\ \A k \in DOMAIN c : k \in Int /\ k > 0 /\ src[k] \in Int /\ src[k] >= 0
    <2>1. DOMAIN d = 1 .. Len(d) /\ DOMAIN c = 1 .. Len(c)
      BY <1>1, LenProperties DEF Beside
    <2> QED BY <1>1, <2>1, BesideTypes
  <1>3. o \in Int /\ m \in Int /\ s.offset \in Int /\ t.offset \in Int
    BY <1>1, Fields
  <1>4. \A k \in DOMAIN c :
          /\ k <= o => t.bytes[k] = s.bytes[k] /\ d[k] = c[k]
          /\ k > o => t.bytes[k] = d[k] /\ src[k] = k /\ s.bytes[k] = c[k] /\ b[k] = c[k]
          /\ k > o /\ k > m => d[k] = c[k]
    BY <1>1 DEF Ahead
  <1>5. \A k \in DOMAIN c :
          /\ src[k] <= k
          /\ src[k] = Original => /\ k \notin hv => Flushed(s).bytes[k] = b[k]
                                  /\ \E to \in DOMAIN c : to > k /\ src[to] = k
          /\ src[k] # Original /\ src[k] \notin hv => Flushed(s).bytes[k] = c[src[k]]
    BY <1>1 DEF Shown
  <1>6. /\ \A k \in DOMAIN c :
             Flushed(s).bytes[k] = IF s.dirty /\ k = o THEN s.cur ELSE s.bytes[k]
        /\ \A k \in DOMAIN c :
             Flushed(t).bytes[k] = IF s.dirty /\ k = m THEN s.cur ELSE t.bytes[k]
    <2>1. \A k \in 1 .. Len(s.bytes) :
            Flushed(s).bytes[k] = IF s.dirty /\ k = s.offset + 1 THEN s.cur ELSE s.bytes[k]
      BY FlushedSound
    <2>2. \A k \in 1 .. Len(t.bytes) :
            Flushed(t).bytes[k] = IF t.dirty /\ k = t.offset + 1 THEN t.cur ELSE t.bytes[k]
      BY FlushedSound
    <2> QED BY <1>2, <2>1, <2>2
  <1>7. \A k \in DOMAIN c : k > m => k > o
    BY <1>2, <1>3
  <1>8. CASE ~s.dirty
    <2>1. Beside(t, b, d, src, hv)
      BY <1>1, <1>2 DEF Beside
    <2>2. Shown(Flushed(t).bytes, b, d, src, hv)
      <3> SUFFICES ASSUME NEW k \in DOMAIN c
                   PROVE  /\ src[k] <= k
                          /\ src[k] = Original =>
                               /\ k \notin hv => Flushed(t).bytes[k] = b[k]
                               /\ \E to \in DOMAIN c : to > k /\ src[to] = k
                          /\ src[k] # Original /\ src[k] \notin hv =>
                               Flushed(t).bytes[k] = d[src[k]]
        BY <1>2 DEF Shown
      <3>1. Flushed(t).bytes[k] = t.bytes[k] /\ Flushed(s).bytes[k] = s.bytes[k]
        BY <1>6, <1>8
      <3>2. CASE k <= o
        <4>1. src[k] # Original => src[k] \in DOMAIN c /\ src[k] <= o
          BY <1>2, <1>3, <1>5, <3>2
        <4>2. src[k] # Original => d[src[k]] = c[src[k]]
          BY <1>4, <4>1
        <4>3. t.bytes[k] = s.bytes[k]
          BY <1>4, <3>2
        <4> QED BY <1>5, <3>1, <4>2, <4>3
      <3>3. CASE k > o
        BY <1>2, <1>4, <3>1, <3>3 DEF Original
      <3> QED BY <1>2, <1>3, <3>2, <3>3
    <2>3. Ahead(t, b, d, src)
      BY <1>2, <1>4, <1>7 DEF Ahead
    <2>4. InHand(t, b, d, src, hv)
      BY <1>8 DEF InHand
    <2> QED BY <1>8, <2>1, <2>2, <2>3, <2>4 DEF Holds
  <1>9. CASE s.dirty
    <2>1. o \in DOMAIN c /\ m \in DOMAIN c /\ o < m
      <3>1. /\ s.offset \in 0 .. Len(s.bytes) - 1
            /\ t.offset \in 0 .. Len(s.bytes) - 1
        BY <1>9 DEF Sound
      <3>2. s.offset < t.offset
        BY <1>3, <3>1
      <3>3. o \in 1 .. Len(s.bytes) /\ m \in 1 .. Len(s.bytes)
        BY <1>2, <3>1, PlaceOf
      <3> QED BY <1>2, <1>3, <3>2, <3>3
    <2>2. /\ h # Original /\ h \in DOMAIN c /\ h <= o
          /\ h \notin hv => s.cur = c[h] /\ s.bytes[h] = b[h]
          /\ h # o => /\ src[h] = Original
                      /\ o \notin hv => s.bytes[o] = c[o]
      BY <1>1, <1>2, <1>5, <1>9, <2>1 DEF InHand
    <2> HIDE DEF h
    <2>3. /\ DOMAIN new = DOMAIN c
          /\ \A k \in DOMAIN c : new[k] = IF k = m THEN h ELSE IF k = h THEN Original
                                         ELSE IF k = o THEN o ELSE src[k]
      BY <1>2 DEF Carried, h
    <2>4. /\ new[m] = h /\ new[h] = Original /\ h # m
          /\ h # o => new[o] = o
          /\ \A k \in DOMAIN c : k # m /\ k # h /\ k # o => new[k] = src[k]
      <3>1. h # m /\ h \in DOMAIN c /\ m \in DOMAIN c /\ o \in DOMAIN c /\ o # m
        BY <1>2, <1>3, <2>1, <2>2
      <3> HIDE DEF o, m, new
      <3> QED BY <2>3, <3>1
    <2> HIDE DEF new
    <2>5. Beside(t, b, d, new, hv)
      <3>1. \A k \in DOMAIN c : new[k] \in {Original} \cup DOMAIN c
        BY <1>2, <2>1, <2>2, <2>4
      <3>2. new = [k \in DOMAIN c |-> new[k]]
        BY <2>3 DEF new, Carried
      <3>3. new \in [DOMAIN d -> {Original} \cup DOMAIN d]
        BY <1>2, <3>1, <3>2
      <3> QED BY <1>1, <1>2, <3>3 DEF Beside
    <2>6. Shown(Flushed(t).bytes, b, d, new, hv)
      <3> SUFFICES ASSUME NEW k \in DOMAIN c
                   PROVE  /\ new[k] <= k
                          /\ new[k] = Original =>
                               /\ k \notin hv => Flushed(t).bytes[k] = b[k]
                               /\ \E to \in DOMAIN c : to > k /\ new[to] = k
                          /\ new[k] # Original /\ new[k] \notin hv =>
                               Flushed(t).bytes[k] = d[new[k]]
        BY <1>2 DEF Shown
      <3>1. CASE k = m
        <4>1. Flushed(t).bytes[k] = s.cur /\ h <= k /\ d[h] = c[h]
          BY <1>2, <1>3, <1>4, <1>6, <1>9, <2>1, <2>2, <3>1
        <4> QED BY <2>2, <2>4, <3>1, <4>1
      <3>2. CASE k = h
        <4>1. Flushed(t).bytes[k] = s.bytes[k] /\ m > k
          BY <1>2, <1>3, <1>4, <1>6, <2>1, <2>2, <3>2
        <4>2. new[k] <= k
          BY <1>2, <2>4, <3>2 DEF Original
        <4> QED BY <2>1, <2>2, <2>4, <3>2, <4>1, <4>2
      <3>3. CASE k = o /\ h # o
        <4>1. Flushed(t).bytes[k] = s.bytes[k] /\ d[k] = c[k]
          BY <1>3, <1>4, <1>6, <2>1, <3>3
        <4>2. o # Original
          BY <1>2, <2>1 DEF Original
        <4> QED BY <1>3, <2>2, <2>4, <3>3, <4>1, <4>2
      <3>4. CASE k # m /\ k # h /\ k # o /\ k > o
        BY <1>2, <1>4, <1>6, <2>4, <3>4 DEF Original
      <3>5. CASE k # m /\ k # h /\ k # o /\ ~(k > o)
        <4>1. k <= o /\ new[k] = src[k] /\ k # Original
          BY <1>2, <1>3, <2>4, <3>5 DEF Original
        <4>2. Flushed(t).bytes[k] = s.bytes[k] /\ Flushed(s).bytes[k] = s.bytes[k]
          BY <1>4, <1>6, <3>5, <4>1
        <4>3. src[k] # Original => d[src[k]] = c[src[k]]
          <5>1. src[k] # Original => src[k] \in DOMAIN c /\ src[k] <= o
            BY <1>2, <1>3, <1>5, <4>1
          <5> QED BY <1>4, <5>1
        <4>4. ASSUME src[k] = Original PROVE \E to \in DOMAIN c : to > k /\ new[to] = k
          <5>1. PICK to \in DOMAIN c : to > k /\ src[to] = k
            BY <1>5, <4>4
          <5>2. to # m
            BY <1>4, <2>1, <3>5, <5>1
          <5>3. to # o
            BY <3>5, <5>1 DEF h
          <5>4. to # h
            BY <2>2, <3>5, <4>1, <5>1, <5>3 DEF h
          <5> QED BY <2>4, <5>1, <5>2, <5>3, <5>4
        <4> QED BY <1>5, <4>1, <4>2, <4>3, <4>4
      <3> QED BY <3>1, <3>2, <3>3, <3>4, <3>5
    <2>7. Ahead(t, b, d, new)
      <3> SUFFICES ASSUME NEW k \in DOMAIN c, k > m
                   PROVE  new[k] = k /\ t.bytes[k] = d[k] /\ b[k] = d[k]
        BY <1>2 DEF Ahead
      <3>1. k # m /\ k # h /\ k # o /\ k > o
        BY <1>2, <1>3, <2>1, <2>2
      <3> QED BY <1>4, <2>4, <3>1
    <2>8. InHand(t, b, d, new, hv)
      <3>1. /\ h \notin hv => t.cur = d[h] /\ t.bytes[h] = b[h]
            /\ t.bytes[m] = d[m]
        BY <1>4, <2>1, <2>2
      <3>2. ~(t.left > 0)
        OBVIOUS
      <3> QED BY <2>2, <2>4, <3>1, <3>2 DEF InHand
    <2> QED BY <1>9, <2>5, <2>6, <2>7, <2>8 DEF Holds, new
  <1> QED BY <1>8, <1>9

\* What a call on an array makes of the sources of the places, as in CarriesOn.
SourcesBehind(s, t, src) ==
    IF s.dirty /\ t.offset # s.offset THEN Carried(src, s.offset + 1, t.offset + 1) ELSE src

\* An array that is put takes the place of what was there; the stream is sound in any
\* case (tsprimitive.h:137).
LEMMA PutArraySound ==
    ASSUME NEW s, Sound(s), NEW array \in Seq(Byte)
    PROVE  LET t == PutArray(s, array)
           IN  /\ Sound(t) /\ Len(t.bytes) = Len(s.bytes)
               /\ s.left < ByteBits => t.left < ByteBits
               /\ \A b, c, src, hv : Holds(s, b, c, src, hv) =>
                    Holds(t, b, IF CanPutArray(s, array)
                                  THEN Replaced(c, s.offset + 2, array) ELSE c,
                          SourcesBehind(s, t, src), hv)
  <1> DEFINE t == PutArray(s, array)
             x == Replaced(s.bytes, s.offset + 2, array)
  <1>1. s \in Stream /\ s.offset >= -1 /\ Len(array) \in Nat /\ s.offset + 2 \in Int
    BY Fields, LenProperties DEF Sound
  <1>2. \A c \in Seq(Byte), i \in Int :
           /\ Replaced(c, i, array) \in Seq(Byte) /\ Len(Replaced(c, i, array)) = Len(c)
           /\ \A k \in DOMAIN c :
                k < i \/ k > i + Len(array) - 1 => Replaced(c, i, array)[k] = c[k]
    BY ReplacedProperties
  <1>3. CASE array = <<>> \/ ~CanPutArray(s, array)
    <2>1. t = s
      BY <1>3 DEF PutArray
    <2>2. ASSUME NEW c \in Seq(Byte), array = <<>>
          PROVE  Replaced(c, s.offset + 2, array) = c
      <3>1. \A k \in DOMAIN c : k \in Int
        BY LenProperties
      <3>2. \A k \in DOMAIN c : k \notin s.offset + 2 .. s.offset + 2 + Len(array) - 1
        BY <1>1, <2>2, <3>1, EmptySeq
      <3> QED BY <1>1, <1>2, <3>2, LenProperties, SeqEqual DEF Replaced
    <2> QED BY <1>3, <2>1, <2>2 DEF SourcesBehind, Holds, Beside
  <1>4. CASE array # <<>> /\ CanPutArray(s, array)
    <2> DEFINE end == s.offset + Len(array)
    <2>1. /\ s.left = 0 /\ Len(array) > 0
          /\ end \in 0 .. Len(s.bytes) - 1 /\ end >= -1 /\ end \in Int /\ end > s.offset
          /\ s.offset + 2 + Len(array) - 1 = end + 1
      <3>1. Len(array) > 0 /\ Len(array) <= BytesLeft(s) /\ s.left = 0
        BY <1>1, <1>4, EmptySeq DEF CanPutArray
      <3>2. s.offset \in Int /\ Len(s.bytes) \in Nat
        BY <1>1, Fields
      <3>3. /\ end > s.offset /\ end <= Len(s.bytes) - 1 /\ end \in Int
            /\ s.offset + 2 + Len(array) - 1 = end + 1
        <4> DEFINE at == s.offset
                   count == Len(array)
                   total == Len(s.bytes)
        <4>1. /\ at \in Int /\ count \in Nat /\ total \in Nat
              /\ count > 0 /\ count <= total - (at + 1)
          BY <1>1, <3>1, <3>2 DEF BytesLeft
        <4>2. end = at + count
          OBVIOUS
        <4> HIDE DEF at, count, total, end
        <4>3. /\ end > at /\ end <= total - 1 /\ end \in Int
              /\ at + 2 + count - 1 = end + 1
          BY <4>1, <4>2
        <4> QED BY <4>3 DEF at, count, total
      <3> HIDE DEF end
      <3> QED BY <1>1, <3>1, <3>2, <3>3
    <2>2. x \in Seq(Byte) /\ Len(x) = Len(s.bytes)
      BY <1>1, <1>2, Fields
    <2> HIDE DEF x
    <2>3. t = [s EXCEPT !.bytes = x, !.offset = end]
      BY <1>4 DEF PutArray, x
    <2> HIDE DEF t, end
    <2>4. t \in Stream
      BY <1>1, <2>1, <2>2, <2>3, Zenon DEF Stream
    <2>5. /\ t.bytes = x /\ t.dirty = s.dirty /\ t.offset = end
          /\ t.left = s.left /\ t.cur = s.cur
      BY <1>1, <2>3 DEF Stream
    <2>6. Sound(t)
      BY <2>1, <2>2, <2>4, <2>5 DEF Sound
    <2>7. ASSUME NEW b, NEW c, NEW src, NEW hv, Holds(s, b, c, src, hv)
          PROVE  Holds(t, b, Replaced(c, s.offset + 2, array), SourcesBehind(s, t, src), hv)
      <3> DEFINE d == Replaced(c, s.offset + 2, array)
      <3>1. /\ c \in Seq(Byte) /\ Len(c) = Len(s.bytes) /\ DOMAIN c = 1 .. Len(s.bytes)
            /\ d \in Seq(Byte) /\ Len(d) = Len(c) /\ DOMAIN s.bytes = DOMAIN c
            /\ \A k \in DOMAIN c : k \in Int
        BY <1>1, <1>2, <2>7, BesideTypes, Fields DEF Holds, Beside
      <3>2. \A k \in DOMAIN c : k < s.offset + 2 \/ k > end + 1 => d[k] = c[k] /\ x[k] = s.bytes[k]
        <4>1. s.bytes \in Seq(Byte)
          BY <1>1, Fields
        <4>2. \A k \in DOMAIN c : k > end + 1 => k > s.offset + 2 + Len(array) - 1
          BY <2>1
        <4> QED BY <1>1, <1>2, <3>1, <4>1, <4>2 DEF x
      <3>3. \A k \in DOMAIN c : k > s.offset + 1 => x[k] = d[k]
        <4> SUFFICES ASSUME NEW k \in DOMAIN c, k > s.offset + 1 PROVE x[k] = d[k]
          OBVIOUS
        <4>1. s.bytes[k] = c[k]
          BY <2>7 DEF Holds, Ahead
        <4> QED BY <3>1, <4>1 DEF Replaced, x
      <3> HIDE DEF d
      <3>4. \A k \in DOMAIN c :
              /\ k <= s.offset + 1 => t.bytes[k] = s.bytes[k] /\ d[k] = c[k]
              /\ k > s.offset + 1 => t.bytes[k] = d[k]
              /\ k > s.offset + 1 /\ k > t.offset + 1 => d[k] = c[k]
        BY <1>1, <2>5, <3>1, <3>2, <3>3, Fields
      <3>5. t.offset # s.offset /\ t.offset > s.offset
        BY <1>1, <2>1, <2>5, Fields
      <3>6. Holds(t, b, d, IF s.dirty THEN Carried(src, s.offset + 1, t.offset + 1) ELSE src, hv)
        BY <2>1, <2>2, <2>5, <2>6, <2>7, <3>1, <3>4, <3>5, MovedHolds
      <3> QED BY <3>5, <3>6 DEF SourcesBehind, d
    <2> QED BY <1>4, <2>2, <2>5, <2>6, <2>7 DEF t
  <1> QED BY <1>3, <1>4

\* An array that is taken is what the content is from there on (tsprimitive.h:114).
LEMMA TakeArraySound ==
    ASSUME NEW s, Sound(s), NEW count \in Int
    PROVE  LET t == TakeArray(s, count)
               a == ArrayTaken(s, count)
           IN  /\ Sound(t) /\ t.bytes = s.bytes
               /\ s.left < ByteBits => t.left < ByteBits
               /\ CanTakeArray(s, count) => a \in Seq(Byte)
               /\ \A b, c, src, hv : Holds(s, b, c, src, hv) =>
                    /\ Holds(t, b, c, SourcesBehind(s, t, src), hv)
                    /\ CanTakeArray(s, count) =>
                         \A i \in 1 .. Len(a) : a[i] = c[t.offset + 1 - Len(a) + i]
  <1> DEFINE t == TakeArray(s, count)
             a == ArrayTaken(s, count)
             end == IF count < 0 THEN Len(s.bytes) - 1 ELSE s.offset + count
  <1>1. s \in Stream /\ s.offset >= -1 /\ s.offset \in Int /\ Len(s.bytes) \in Nat
    BY Fields DEF Sound
  <1>2. CASE ~CanTakeArray(s, count)
    <2>1. t = s
      BY <1>2 DEF TakeArray
    <2> QED BY <1>2, <2>1 DEF SourcesBehind
  <1>3. CASE CanTakeArray(s, count)
    <2>1. /\ s.left = 0 /\ end \in Int /\ end >= -1
          /\ end <= Len(s.bytes) - 1 \/ end = s.offset
          /\ end >= s.offset \/ end >= Len(s.bytes) - 1
          /\ s.dirty => end \in 0 .. Len(s.bytes) - 1
      BY <1>1, <1>3, Fields, SMTT(30) DEF CanTakeArray, BytesLeft, Sound
    <2>2. t = [s EXCEPT !.offset = end]
      BY <1>3 DEF TakeArray
    <2>3. a = SubSeq(s.bytes, s.offset + 2, end + 1)
      <3>1. end + 1 = IF count < 0 THEN Len(s.bytes) ELSE s.offset + 1 + count
        BY <1>1, Fields
      <3> HIDE DEF end
      <3> QED BY <3>1 DEF ArrayTaken
    <2>4. \A i \in s.offset + 2 .. end + 1 : i \in 1 .. Len(s.bytes)
      BY <1>1, <1>3, Fields DEF CanTakeArray, BytesLeft
    <2> HIDE DEF end, t, a
    <2>5. t \in Stream
      BY <1>1, <2>1, <2>2, Zenon DEF Stream
    <2>6. /\ t.bytes = s.bytes /\ t.dirty = s.dirty /\ t.offset = end
          /\ t.left = s.left /\ t.cur = s.cur
      BY <1>1, <2>2 DEF Stream
    <2>7. Sound(t)
      BY <2>1, <2>5, <2>6 DEF Sound
    <2>8. \A i \in s.offset + 2 .. end + 1 : s.bytes[i] \in Byte
      BY <1>1, <2>4, Fields, ElementOfSeq
    <2>9. /\ a \in Seq(Byte)
          /\ Len(a) = IF s.offset + 2 <= end + 1 THEN end - s.offset ELSE 0
          /\ \A i \in 1 .. end - s.offset : a[i] = s.bytes[s.offset + 1 + i]
      <3>1. s.offset + 2 \in Int /\ end + 1 \in Int
        BY <1>1, <2>1, Fields
      <3>2. /\ a \in Seq(Byte)
            /\ Len(a) = IF s.offset + 2 <= end + 1
                          THEN (end + 1) - (s.offset + 2) + 1 ELSE 0
            /\ \A i \in 1 .. (end + 1) - (s.offset + 2) + 1 :
                 a[i] = s.bytes[(s.offset + 2) + i - 1]
        <4> DEFINE from == s.offset + 2
                   to == end + 1
                   bytes == s.bytes
        <4>1. from \in Int /\ to \in Int /\ \A i \in from .. to : bytes[i] \in Byte
          BY <2>8, <3>1
        <4>2. a = SubSeq(bytes, from, to)
          BY <2>3
        <4> HIDE DEF from, to, bytes
        <4>3. /\ a \in Seq(Byte)
              /\ Len(a) = IF from <= to THEN to - from + 1 ELSE 0
              /\ \A i \in 1 .. to - from + 1 : a[i] = bytes[from + i - 1]
          BY <4>1, <4>2, SubSeqProperties
        <4> QED BY <4>3 DEF from, to, bytes
      <3>3. (end + 1) - (s.offset + 2) + 1 = end - s.offset
        BY <1>1, <2>1, Fields
      <3>4. \A i \in 1 .. end - s.offset : (s.offset + 2) + i - 1 = s.offset + 1 + i
        BY <1>1, <2>1, Fields
      <3> QED BY <3>2, <3>3, <3>4
    <2>10. ASSUME NEW b, NEW c, NEW src, NEW hv, Holds(s, b, c, src, hv)
           PROVE  /\ Holds(t, b, c, SourcesBehind(s, t, src), hv)
                  /\ \A i \in 1 .. Len(a) : a[i] = c[t.offset + 1 - Len(a) + i]
      <3>1. /\ c \in Seq(Byte) /\ Len(c) = Len(s.bytes) /\ DOMAIN c = 1 .. Len(s.bytes)
            /\ \A k \in DOMAIN c : k > s.offset + 1 => s.bytes[k] = c[k]
            /\ \A k \in DOMAIN c : k \in Int
        BY <1>1, <2>10, BesideTypes DEF Holds, Beside, Ahead
      <3>2. Holds(t, b, c, SourcesBehind(s, t, src), hv)
        <4>1. CASE t.offset = s.offset
          <5>1. t = s
            BY <1>1, <2>2, <2>6, <4>1 DEF Stream
          <5> QED BY <2>10, <5>1 DEF SourcesBehind
        <4>2. CASE t.offset # s.offset
          <5>1. t.offset > s.offset \/ t.offset >= Len(s.bytes) - 1
            BY <1>1, <2>1, <2>6, <4>2
          <5>2. Holds(t, b, c,
                      IF s.dirty THEN Carried(src, s.offset + 1, t.offset + 1) ELSE src, hv)
            BY <2>1, <2>6, <2>7, <2>10, <3>1, <4>2, <5>1, MovedHolds
          <5> QED BY <4>2, <5>2 DEF SourcesBehind
        <4> QED BY <4>1, <4>2
      <3>3. ASSUME NEW i \in 1 .. Len(a)
            PROVE  a[i] = c[t.offset + 1 - Len(a) + i]
        <4>1. Len(a) = end - s.offset /\ i \in 1 .. end - s.offset
          BY <1>1, <2>1, <2>9, Fields
        <4>2. /\ s.offset + 1 + i = t.offset + 1 - Len(a) + i
              /\ s.offset + 1 + i \in s.offset + 2 .. end + 1
              /\ s.offset + 1 + i > s.offset + 1
          <5>1. t.offset + 1 - Len(a) = s.offset + 1
            BY <1>1, <2>1, <2>6, <4>1
          <5>2. i \in Int /\ 1 <= i /\ i <= end - s.offset
            BY <1>1, <2>1, <4>1
          <5> HIDE DEF a, t
          <5>3. s.offset \in Int /\ end \in Int
            BY <1>1, <2>1, Fields
          <5>4. s.offset + 1 + i = t.offset + 1 - Len(a) + i
            BY <5>1
          <5> QED BY <5>2, <5>3, <5>4, PlacesUpTo
        <4> QED BY <2>4, <2>9, <3>1, <4>1, <4>2
      <3> QED BY <3>2, <3>3
    <2> QED BY <1>3, <2>6, <2>7, <2>9, <2>10 DEF t, a
  <1> QED BY <1>2, <1>3

\* Between any two calls.
StreamInv ==
    /\ Sound(stream)
    /\ stream.left < ByteBits
    /\ Holds(stream, opened, content, source, halved)
    /\ taken \in [bit : Bits \cup {Nothing}, bytes : Seq(Byte)]
    /\ TakenRight

\* A stream that has just been made holds the bytes it was made from.
LEMMA InitStreamInv ==
    ASSUME Typed
    PROVE  CInit => StreamInv
  <1> SUFFICES ASSUME CInit PROVE StreamInv
    OBVIOUS
  <1>1. /\ opened \in Seq(Byte) /\ stream = Opened(opened) /\ content = opened
        /\ source = [k \in DOMAIN opened |-> k] /\ halved = {}
    BY DEF CInit, Typed
  <1>2. ZeroByte \in Byte /\ 0 \in 0 .. ByteBits /\ 0 < ByteBits
    BY ByteBitsAssumption DEF ZeroByte, Byte, Bits
  <1>3. /\ stream \in Stream /\ stream.bytes = opened /\ stream.dirty = FALSE
        /\ stream.offset = -1 /\ stream.left = 0
    BY <1>1, <1>2 DEF Opened, Stream
  <1>4. Sound(stream) /\ stream.left < ByteBits
    BY <1>2, <1>3 DEF Sound
  <1>5. Beside(stream, opened, content, source, halved)
    BY <1>1, <1>3 DEF Beside
  <1>6. \A k \in DOMAIN content : k \in Int /\ k > 0 /\ source[k] = k
    BY <1>1, LenProperties
  <1>7. Flushed(stream).bytes = opened
    BY <1>3 DEF Flushed
  <1>8. Shown(Flushed(stream).bytes, opened, content, source, halved)
    BY <1>1, <1>6, <1>7 DEF Shown, Original
  <1>9. Ahead(stream, opened, content, source)
    BY <1>1, <1>3, <1>6 DEF Ahead
  <1>10. InHand(stream, opened, content, source, halved)
    BY <1>3 DEF InHand
  <1>11. TakenRight /\ taken \in [bit : Bits \cup {Nothing}, bytes : Seq(Byte)]
    BY DEF CInit, TakenRight, Given
  <1> QED BY <1>4, <1>5, <1>8, <1>9, <1>10, <1>11 DEF Holds, StreamInv

\* Every call keeps the invariant, also one that throws.
LEMMA NextStreamInv ==
    ASSUME Typed, StreamInv, [CNext]_cvars
    PROVE  StreamInv'
  <1>1. /\ Sound(stream) /\ stream \in Stream /\ stream.left < ByteBits
        /\ Holds(stream, opened, content, source, halved)
    BY DEF StreamInv, Sound
  <1> DEFINE n == Loaded(stream)
  <1>2. /\ Sound(n) /\ n \in Stream /\ Len(n.bytes) = Len(stream.bytes)
        /\ CanLoad(stream) => n.left \in 1 .. ByteBits
        /\ ~CanLoad(stream) => n.left < ByteBits
        /\ stream.left > 0 => n = stream
        /\ Holds(n, opened, content, source, halved)
        /\ stream.left = 0 /\ CanLoad(stream) => n.cur = content[n.offset + 1]
    <2>1. /\ Sound(n) /\ Len(n.bytes) = Len(stream.bytes)
          /\ CanLoad(stream) => n.left \in 1 .. ByteBits
          /\ ~CanLoad(stream) => n.left = 0
          /\ stream.left > 0 => n = stream
      BY <1>1, LoadedSound
    <2>2. /\ Holds(n, opened, content, source, halved)
          /\ stream.left = 0 /\ CanLoad(stream) => n.cur = content[n.offset + 1]
      BY <1>1, LoadedHolds
    <2> QED BY <2>1, <2>2, ByteBitsAssumption DEF Sound
  <1> HIDE DEF n
  <1>3. Given(Nothing, <<>>) \in [bit : Bits \cup {Nothing}, bytes : Seq(Byte)]
    BY DEF Given
  <1>4. ASSUME taken' = Given(Nothing, <<>>) PROVE TakenRight'
    BY <1>4 DEF TakenRight, Given
  <1>5. CASE CallTakeBit
    <2>1. UNCHANGED <<opened, content, source, halved>>
      BY <1>5 DEF CallTakeBit
    <2>2. CASE ~CanLoad(stream)
      <3>1. stream' = n /\ taken' = Given(Nothing, <<>>)
        BY <1>5, <2>2 DEF CallTakeBit, TakeBit, n
      <3> QED BY <1>2, <1>3, <1>4, <2>1, <2>2, <3>1 DEF StreamInv
    <2>3. CASE CanLoad(stream)
      <3>1. /\ stream' = [n EXCEPT !.left = @ - 1]
            /\ taken' = Given(n.cur[Place(n)], <<>>)
        BY <1>5, <2>3 DEF CallTakeBit, TakeBit, BitTaken, n
      <3>2. 1 \in 0 .. n.left /\ n.left > 0 /\ n.left - 1 < ByteBits
        BY <1>2, <2>3, ByteBitsAssumption
      <3>3. /\ Sound(stream') /\ stream'.left = n.left - 1 /\ stream'.offset = n.offset
            /\ Holds(stream', opened, content, source, halved)
        BY <1>2, <3>1, <3>2, ShortenedSound
      <3>4. Place(n) \in 1 .. ByteBits /\ Place(n) = ByteBits - stream'.left
        BY <1>2, <2>3, <3>3, ByteBitsAssumption DEF Place
      <3>5. n.cur[Place(n)] \in Bits
        BY <1>2, <3>4, Fields DEF Byte
      <3>6. taken' \in [bit : Bits \cup {Nothing}, bytes : Seq(Byte)]
        <4>1. <<>> \in Seq(Byte)
          OBVIOUS
        <4> QED BY <3>1, <3>5, <4>1, Zenon DEF Given
      <3>7. TakenRight'
        <4>1. taken'.bit = n.cur[Place(n)] /\ taken'.bytes = <<>>
          BY <3>1 DEF Given
        <4>2. n.offset + 1 \notin halved => n.cur = content[n.offset + 1]
          BY <1>2, <3>2 DEF Holds, InHand
        <4> QED BY <2>1, <3>3, <3>4, <4>1, <4>2 DEF TakenRight
      <3> QED BY <2>1, <3>2, <3>3, <3>6, <3>7 DEF StreamInv
    <2> QED BY <2>2, <2>3
  <1>6. CASE CallPutBit
    <2>1. PICK bit \in Bits :
            /\ stream' = PutBit(stream, bit)
            /\ content' = IF CanLoad(stream)
                 THEN [content EXCEPT ![stream'.offset + 1][ByteBits - stream'.left] = bit]
                 ELSE content
      BY <1>6 DEF CallPutBit
    <2>2. UNCHANGED <<opened, source, halved>> /\ taken' = Given(Nothing, <<>>)
      BY <1>6 DEF CallPutBit
    <2>3. CASE ~CanLoad(stream)
      <3>1. stream' = n /\ content' = content
        BY <2>1, <2>3 DEF PutBit, n
      <3> QED BY <1>2, <1>3, <1>4, <2>2, <2>3, <3>1 DEF StreamInv
    <2>4. CASE CanLoad(stream)
      <3>1. /\ Sound(stream') /\ stream'.left = n.left - 1
            /\ Holds(stream', opened, content', source, halved)
        BY <1>1, <2>1, <2>4, PutBitSound, PutBitHolds DEF n
      <3>2. n.left - 1 < ByteBits
        BY <1>2, <2>4, ByteBitsAssumption
      <3> QED BY <1>3, <1>4, <2>2, <3>1, <3>2 DEF StreamInv
    <2> QED BY <2>3, <2>4
  <1>7. CASE CallTakeByte
    <2>1. UNCHANGED <<opened, content, source, halved>>
      BY <1>7 DEF CallTakeByte
    <2>2. CASE ~CanTakeByte(stream)
      <3>1. stream' = n /\ taken' = Given(Nothing, <<>>)
        BY <1>7, <2>2 DEF CallTakeByte, TakeByte, n
      <3>2. n.left < ByteBits
        BY <1>2, <2>2, ByteBitsAssumption DEF CanTakeByte, n
      <3> QED BY <1>2, <1>3, <1>4, <2>1, <3>1, <3>2 DEF StreamInv
    <2>3. CASE CanTakeByte(stream)
      <3>1. /\ stream' = [n EXCEPT !.left = @ - ByteBits]
            /\ taken' = Given(Nothing, <<n.cur>>)
            /\ n.left = ByteBits /\ CanLoad(stream)
        BY <1>7, <2>3 DEF CallTakeByte, CanTakeByte, TakeByte, ByteTaken, n
      <3>2. ByteBits \in 0 .. n.left /\ n.left - ByteBits < ByteBits
        BY <3>1, ByteBitsAssumption
      <3>3. /\ Sound(stream') /\ stream'.left = n.left - ByteBits
            /\ stream'.offset = n.offset
            /\ Holds(stream', opened, content, source, halved)
        BY <1>2, <3>1, <3>2, ShortenedSound
      <3>4. taken' \in [bit : Bits \cup {Nothing}, bytes : Seq(Byte)]
        <4>1. <<n.cur>> \in Seq(Byte)
          BY <1>2, Fields
        <4> QED BY <3>1, <4>1, Zenon DEF Given
      <3>5. TakenRight'
        <4>1. taken'.bit = Nothing /\ taken'.bytes = <<n.cur>> /\ Len(<<n.cur>>) = 1
          BY <3>1 DEF Given
        <4>2. stream.left = 0
          BY <1>1, <1>2, <3>1, Fields, ByteBitsAssumption
        <4>3. n.cur = content[n.offset + 1]
          BY <1>2, <3>1, <4>2
        <4>4. n.offset + 1 - 1 + 1 = n.offset + 1
          BY <1>2, Fields
        <4>5. <<n.cur>>[1] = content'[stream'.offset + 1 - 1 + 1]
          BY <2>1, <3>3, <4>3, <4>4
        <4> QED BY <4>1, <4>5 DEF TakenRight
      <3> QED BY <2>1, <3>2, <3>3, <3>4, <3>5 DEF StreamInv
    <2> QED BY <2>2, <2>3
  <1>8. CASE CallTakeArray
    <2>1. PICK count \in Int :
            /\ stream' = TakeArray(stream, count)
            /\ taken' = Given(Nothing, IF CanTakeArray(stream, count)
                                       THEN ArrayTaken(stream, count) ELSE <<>>)
      BY <1>8 DEF CallTakeArray, Typed
    <2>2. /\ UNCHANGED <<opened, content, halved>>
          /\ source' = SourcesBehind(stream, stream', source)
      BY <1>8 DEF CallTakeArray, CarriesOn, SourcesBehind
    <2> DEFINE a == ArrayTaken(stream, count)
    <2>3. /\ Sound(stream') /\ stream'.left < ByteBits
          /\ Holds(stream', opened, content, source', halved)
          /\ CanTakeArray(stream, count) =>
               /\ a \in Seq(Byte)
               /\ \A i \in 1 .. Len(a) : a[i] = content[stream'.offset + 1 - Len(a) + i]
      BY <1>1, <2>1, <2>2, TakeArraySound
    <2> HIDE DEF a
    <2>4. CASE ~CanTakeArray(stream, count)
      <3>1. taken' = Given(Nothing, <<>>)
        BY <2>1, <2>4
      <3> QED BY <1>3, <1>4, <2>2, <2>3, <3>1 DEF StreamInv
    <2>5. CASE CanTakeArray(stream, count)
      <3>1. taken' = Given(Nothing, a)
        BY <2>1, <2>5 DEF a
      <3>2. taken'.bit = Nothing /\ taken'.bytes = a
        BY <3>1 DEF Given
      <3>3. taken' \in [bit : Bits \cup {Nothing}, bytes : Seq(Byte)]
        BY <2>3, <2>5, <3>1, Zenon DEF Given
      <3>4. TakenRight'
        <4>1. \A i \in 1 .. Len(taken'.bytes) :
                taken'.bytes[i] = content'[stream'.offset + 1 - Len(taken'.bytes) + i]
          BY <2>2, <2>3, <2>5, <3>2
        <4> QED BY <3>2, <4>1 DEF TakenRight
      <3> QED BY <2>2, <2>3, <3>3, <3>4 DEF StreamInv
    <2> QED BY <2>4, <2>5
  <1>9. CASE CallPutArray
    <2>1. PICK array \in Seq(Byte) :
            /\ stream' = PutArray(stream, array)
            /\ content' = IF CanPutArray(stream, array)
                            THEN Replaced(content, stream.offset + 2, array) ELSE content
      BY <1>9 DEF CallPutArray, Typed
    <2>2. /\ UNCHANGED <<opened, halved>> /\ taken' = Given(Nothing, <<>>)
          /\ source' = SourcesBehind(stream, stream', source)
      BY <1>9 DEF CallPutArray, CarriesOn, SourcesBehind
    <2>3. /\ Sound(stream') /\ stream'.left < ByteBits
          /\ Holds(stream', opened, content', source', halved)
      BY <1>1, <2>1, <2>2, PutArraySound
    <2> QED BY <1>3, <1>4, <2>2, <2>3 DEF StreamInv
  <1>10. CASE CallBytes
    <2>1. /\ stream' = Flushed(stream) /\ taken' = Given(Nothing, <<>>)
          /\ UNCHANGED <<opened, content, source>>
          /\ halved' = IF stream.dirty /\ stream.left > 0
                         THEN halved \cup {stream.offset + 1} ELSE halved
      BY <1>10 DEF CallBytes
    <2>2. /\ Sound(stream') /\ stream'.left < ByteBits
          /\ Holds(stream', opened, content, source, halved')
      BY <1>1, <2>1, FlushedSound, FlushedHolds
    <2> QED BY <1>3, <1>4, <2>1, <2>2 DEF StreamInv
  <1>11. CASE UNCHANGED cvars
    BY <1>11 DEF cvars, StreamInv, TakenRight
  <1> QED BY <1>5, <1>6, <1>7, <1>8, <1>9, <1>10, <1>11 DEF CNext

\* The invariant holds throughout, whatever is called.
THEOREM StreamInvariant ==
    ASSUME Typed
    PROVE  CSpec => []StreamInv
  BY InitStreamInv, NextStreamInv, PTL DEF CSpec

\* A stream, what it gives and the ghosts are of their types, whatever is called.
THEOREM StreamTypeCorrect ==
    ASSUME Typed
    PROVE  CSpec => []CTypeOK
  <1>1. StreamInv => CTypeOK
    BY DEF StreamInv, Sound, Holds, Beside, CTypeOK
  <1> QED BY <1>1, StreamInvariant, PTL

\* flush() never writes outside of the bytes: the one place that is dirty is one
\* of them, also after calls that have run beyond the end (tsprimitive.h:49).
THEOREM FlushesInRange ==
    ASSUME Typed
    PROVE  CSpec => []FlushInRange
  <1>1. StreamInv => FlushInRange
    BY DEF StreamInv, Sound, FlushInRange
  <1> QED BY <1>1, StreamInvariant, PTL

\* Whatever is called in whatever order, each place holds what has been put there or
\* what was there to begin with, but for a byte that arrays were put or taken behind: it
\* is where the last of them ends, in place of what was there, and its own place is as
\* it was opened (tsprimitive.h:44, :137).
THEOREM PutsAreKept ==
    ASSUME Typed
    PROVE  CSpec => []PutsKept
  <1>1. StreamInv => PutsKept
    BY DEF StreamInv, Holds, Shown, PutsKept, View
  <1> QED BY <1>1, StreamInvariant, PTL

\* Bytes and arrays that are taken are those of the content, and so is a bit, flushed or
\* not, unless bytes() was called in the middle of its byte (tsprimitive.h:76).
THEOREM TakesAreRight ==
    ASSUME Typed
    PROVE  CSpec => []TakenRight
  <1>1. StreamInv => TakenRight
    BY DEF StreamInv
  <1> QED BY <1>1, StreamInvariant, PTL
=============================================================================

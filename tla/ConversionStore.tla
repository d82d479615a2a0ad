--------------------------- MODULE ConversionStore ---------------------------
(***************************************************************************)
(* The conversion store: nodes that hold data in one of several formats,   *)
(* and edges that say which has been converted into which.                 *)
(*                                                                         *)
(* A source holds its edges and an edge holds its result; back from a      *)
(* result to its edge and from an edge to its source there are weak        *)
(* pointers only.  What nothing holds is gone.                             *)
(***************************************************************************)
EXTENDS Naturals, Sequences, FiniteSets, Functions

\* The members of a sequence that are in a set, in their order: SelectSeq with a set
\* for the test, because the provers know nothing of SelectSeq.
ThoseUpTo(seq, set) ==
    LET those[i \in 0 .. Len(seq)] ==
          IF i = 0 THEN <<>>
          ELSE IF seq[i] \in set THEN Append(those[i - 1], seq[i]) ELSE those[i - 1]
    IN  those

Those(seq, set) == ThoseUpTo(seq, set)[Len(seq)]

\* nodes: from an id to [kind, data]; edges, in the order they were added, each
\* [from, to, metadata, success].
EmptyStore == [nodes |-> <<>>, edges |-> <<>>]

Has(store, id) == id \in DOMAIN store.nodes

Edges(store) == {store.edges[i] : i \in DOMAIN store.edges}

AddNode(store, id, kind, data) ==
    [store EXCEPT !.nodes = [n \in DOMAIN @ \cup {id} |->
       IF n = id THEN [kind |-> kind, data |-> data] ELSE @[n]]]

\* Mutant of AddEdge: the result holds its source as well.
AddEdgeStrong(store, from, to, metadata, success) ==
    [store EXCEPT !.edges = @ \o
       <<[from |-> from, to |-> to, metadata |-> metadata, success |-> success],
         [from |-> to, to |-> from, metadata |-> metadata, success |-> TRUE]>>]

\* conversionNodeAddEdge, mergeKeyValueMetadata and setSuccess.
AddEdge(store, from, to, metadata, success) ==
    [store EXCEPT !.edges = Append(@,
       [from |-> from, to |-> to, metadata |-> metadata, success |-> success])]

\* Mutant of ClearEdges: the edges that are held from the other side stay.
ClearEdgesOut(store, id) ==
    [store EXCEPT !.edges = Those(@, {e \in Edges(store) : e.from # id})]

\* clearEdges.  The edges into the node are removed from their sources as well.
ClearEdges(store, id) ==
    [store EXCEPT !.edges = Those(@, {e \in Edges(store) : e.from # id /\ e.to # id})]

EdgesOutByResults(store, id, kind, metadata) ==
    Those(store.edges, {e \in Edges(store) : /\ e.from = id /\ store.nodes[e.to].kind = kind
                                             /\ e.metadata = metadata})

\* Whatever the metadata.
EdgesInBySource(store, id, kind) ==
    Those(store.edges, {e \in Edges(store) : e.to = id /\ store.nodes[e.from].kind = kind})

\* Results first, with the success of their conversion; then sources, and going
\* back to one of them always is a success.
FindOtherFormat(store, id, kind, metadata) ==
    LET out == EdgesOutByResults(store, id, kind, metadata)
        in  == Those(EdgesInBySource(store, id, kind), {e \in Edges(store) : e.metadata = metadata})
    IN  [i \in DOMAIN out |-> [node |-> out[i].to, success |-> out[i].success]]
          \o [i \in DOMAIN in |-> [node |-> in[i].from, success |-> TRUE]]

-----------------------------------------------------------------------------
(***************************************************************************)
(* Counting references: a node is there as long as somebody holds it, or   *)
(* an edge of a node that is there leads to it.                            *)
(***************************************************************************)
\* Those of some nodes that are held, by somebody or from one of these nodes.
StillHeld(store, held, nodes) ==
    {id \in nodes : id \in held \/ \E e \in Edges(store) : e.to = id /\ e.from \in nodes}

KeptAfter(store, held) ==
    LET kept[k \in 0 .. Cardinality(DOMAIN store.nodes)] ==
          IF k = 0 THEN DOMAIN store.nodes ELSE StillHeld(store, held, kept[k - 1])
    IN  kept

Kept(store, held) == KeptAfter(store, held)[Cardinality(DOMAIN store.nodes)]

\* Mutant of Freed: the edges of a node stay when it is freed.
FreedNodes(store, held) == [store EXCEPT !.nodes = Restrict(@, Kept(store, held))]

\* The store once everything that nobody holds has been freed.
Freed(store, held) ==
    LET kept == Kept(store, held)
    IN  [nodes |-> Restrict(store.nodes, kept),
         edges |-> Those(store.edges, {e \in Edges(store) : e.from \in kept})]
=============================================================================

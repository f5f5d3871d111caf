----------------------------- MODULE GraphDelta ------------------------------
(***************************************************************************)
(* delta.rs: a mutable overlay (shadows, tombstones, append-only edges) on *)
(* an immutable base graph, the merged view DeltaAccessor gives of the two *)
(* and the fold of both into a new base that a compaction publishes.       *)
(*                                                                         *)
(* A batch is applied in two passes.  Pass 1 is the guard of Apply; pass 2 *)
(* is one action per operation, taken from the head of todo, and nothing   *)
(* else runs until todo is empty (apply holds the delta exclusively).      *)
(*                                                                         *)
(* Abstracted: a node's kind, metadata and weights are one datum; an edge  *)
(* is its (from, to, kind) and, in an operation, whether its validity      *)
(* window is satisfiable.  A rejected batch changes nothing and is no step.*)
(***************************************************************************)
EXTENDS Lists, SequencesExt

CONSTANTS
  Names, Kinds, Data,
  Bases,     \* the graphs a store may be created with
  BatchBound \* bound: the number of batches and the longest each may be

VARIABLES
  base,           \* [nodes |-> name to data, edges |-> in insertion order]
  added_nodes,    \* shadows of base nodes and new nodes, name to data
  added_edges,    \* append-only, with a dead flag
  removed_nodes,  \* node tombstones
  removed_edges,  \* edge tombstones, (from, to, kind)
  out_index,      \* from -> positions in added_edges
  in_index,       \* to -> positions in added_edges
  tombstone_base_hits, added_non_base, masked_base_edge_count,
  live_delta_edge_count,
  todo,           \* what pass 2 has left of the accepted batch
  seq             \* batches applied

counters == <<tombstone_base_hits, added_non_base, masked_base_edge_count,
              live_delta_edge_count>>
delta == <<added_nodes, added_edges, removed_nodes, removed_edges, out_index,
           in_index, counters>>
vars == <<base, delta, todo, seq>>

Triples == [from: Names, to: Names, kind: Kinds]

Ops == [op: {"UpsertNode"}, name: Names, data: Data]
       \cup [op: {"RemoveNode"}, name: Names]
       \cup [op: {"AddEdge"}, edge: Triples, satisfiable: BOOLEAN]
       \cup [op: {"RemoveEdge"}, edge: Triples]

Graphs == [nodes: UNION {[N -> Data] : N \in SUBSET Names}, edges: Seq(Triples)]

WellFormed(g) == \A e \in Range(g.edges) : {e.from, e.to} \subseteq DOMAIN g.nodes

ASSUME BasesAssumption ==
  /\ IsFiniteSet(Names)
  /\ Bases \subseteq Graphs /\ \A g \in Bases : WellFormed(g)
  /\ BatchBound \in Seq(Nat)

(***************************************************************************)
(* Reading the merged view.                                                *)
(***************************************************************************)
IsPresent(x) ==
  x \in DOMAIN added_nodes \/ (x \notin removed_nodes /\ x \in DOMAIN base.nodes)

LiveNames == {x \in Names : IsPresent(x)}
get_node(x) == IF x \in DOMAIN added_nodes THEN added_nodes[x] ELSE base.nodes[x]

(* Iteration over a petgraph node's edges is newest first.                 *)
BaseEdges(S) == Reverse(Pick(base.edges, S))

Masked(e) == {e.from, e.to} \cap removed_nodes # {} \/ e \in removed_edges

DeltaEdges(positions) == [i \in 1..Len(positions) |-> added_edges[positions[i]].edge]
Live == {p \in 1..Len(added_edges) : ~added_edges[p].dead}

(* Mutant: dead delta edges are listed.                                    *)
outgoing_with_dead(x) ==
  IF x \in removed_nodes THEN <<>>
  ELSE BaseEdges({e \in Triples : e.from = x /\ ~Masked(e)}) \o DeltaEdges(out_index[x])

outgoing_neighbors(x) ==
  IF x \in removed_nodes THEN <<>>
  ELSE BaseEdges({e \in Triples : e.from = x /\ ~Masked(e)})
       \o DeltaEdges(Pick(out_index[x],
            {p \in Live : added_edges[p].edge.to \notin removed_nodes}))

incoming_neighbors(x) ==
  IF x \in removed_nodes THEN <<>>
  ELSE BaseEdges({e \in Triples : e.to = x /\ ~Masked(e)})
       \o DeltaEdges(Pick(in_index[x],
            {p \in Live : added_edges[p].edge.from \notin removed_nodes}))

node_count == Cardinality(DOMAIN base.nodes) + added_non_base - tombstone_base_hits
edge_count == Len(base.edges) + live_delta_edge_count - masked_base_edge_count

is_empty == /\ DOMAIN added_nodes = {} /\ added_edges = <<>>
            /\ removed_nodes = {} /\ removed_edges = {}

(***************************************************************************)
(* Pass 1: the presence of x as the i-th operation of ops will find it,    *)
(* which the last earlier operation on the node x decides, if there is one.*)
(***************************************************************************)
(* Mutant: a removal leaves no trace in the scratch copy.                  *)
TouchesUpsertOnly(op, x) == op.op = "UpsertNode" /\ op.name = x

Touches(op, x) == op.op \in {"UpsertNode", "RemoveNode"} /\ op.name = x

(* Mutant: every operation is validated against the state before the batch.*)
PresentAtStart(ops, i, x) == IsPresent(x)

PresentAt(ops, i, x) ==
  \/ \E j \in 1..(i - 1) :
       /\ Touches(ops[j], x) /\ ops[j].op = "UpsertNode"
       /\ \A m \in (j + 1)..(i - 1) : ~Touches(ops[m], x)
  \/ IsPresent(x) /\ \A j \in 1..(i - 1) : ~Touches(ops[j], x)

Accepts(ops) ==
  \A i \in DOMAIN ops :
    ops[i].op = "AddEdge" =>
      /\ ops[i].satisfiable
      /\ PresentAt(ops, i, ops[i].edge.from) /\ PresentAt(ops, i, ops[i].edge.to)

Batches ==
  UNION {[1..n -> Ops] :
           n \in IF seq < Len(BatchBound) THEN 1..BatchBound[seq + 1] ELSE {}}

Apply(ops) ==
  /\ todo = <<>>
  /\ Accepts(ops)
  /\ todo' = ops /\ seq' = seq + 1
  /\ UNCHANGED <<base, delta>>

(***************************************************************************)
(* Pass 2: one action per operation.                                       *)
(***************************************************************************)
Head_is(kind) == todo # <<>> /\ Head(todo).op = kind

(* Mutant: an edge tombstone is forgotten while its endpoint changes.      *)
IncidentLiveEdgeTombstones(x, tombstones) ==
  Cardinality({i \in DOMAIN base.edges :
    LET e == base.edges[i]
    IN x \in {e.from, e.to} /\ {e.from, e.to} \cap (tombstones \ {x}) = {}})

(* How many base edges at x go from live to masked, or back, when x does:  *)
(* the outgoing ones, then the incoming ones without the self-loops.       *)
IncidentLive(x, tombstones) ==
  LET at(near(_), far(_)) ==
        {i \in DOMAIN base.edges :
           LET e == base.edges[i]
           IN near(e) = x /\ far(e) \notin tombstones /\ e \notin removed_edges}
      from(e) == e.from
      to(e)   == e.to
  IN Cardinality(at(from, to))
     + Cardinality({i \in at(to, from) : base.edges[i].from # x})

UpsertNode ==
  /\ Head_is("UpsertNode")
  /\ LET x       == Head(todo).name
         in_base == x \in DOMAIN base.nodes
         revived == x \in removed_nodes /\ in_base
     IN /\ removed_nodes' = removed_nodes \ {x}
        /\ tombstone_base_hits' = tombstone_base_hits - (IF revived THEN 1 ELSE 0)
        /\ masked_base_edge_count' = masked_base_edge_count
             - (IF revived THEN IncidentLive(x, removed_nodes \ {x}) ELSE 0)
        /\ added_nodes' = [y \in DOMAIN added_nodes \cup {x} |->
                             IF y = x THEN Head(todo).data ELSE added_nodes[y]]
        /\ added_non_base' = added_non_base
             + (IF x \notin DOMAIN added_nodes /\ ~in_base THEN 1 ELSE 0)
  /\ todo' = Tail(todo)
  /\ UNCHANGED <<base, added_edges, removed_edges, out_index, in_index,
                 live_delta_edge_count, seq>>

(* Mutant: an edge that was dead already is counted again.                 *)
KillAgain(positions) ==
  /\ added_edges' = [p \in DOMAIN added_edges |->
       IF p \in positions THEN [added_edges[p] EXCEPT !.dead = TRUE]
       ELSE added_edges[p]]
  /\ live_delta_edge_count' = live_delta_edge_count - Cardinality(positions)

(* Marks the edges at the given positions dead, each of them once.         *)
Kill(positions) ==
  /\ added_edges' = [p \in DOMAIN added_edges |->
       IF p \in positions THEN [added_edges[p] EXCEPT !.dead = TRUE]
       ELSE added_edges[p]]
  /\ live_delta_edge_count' = live_delta_edge_count
       - Cardinality({p \in positions : ~added_edges[p].dead})

(* Mutant: the shadow of a removed base node stays.                        *)
RemoveNodeKeepsShadow ==
  /\ Head_is("RemoveNode")
  /\ LET x     == Head(todo).name
         masks == x \notin removed_nodes /\ x \in DOMAIN base.nodes
     IN /\ masked_base_edge_count' = masked_base_edge_count
             + (IF masks THEN IncidentLive(x, removed_nodes) ELSE 0)
        /\ tombstone_base_hits' = tombstone_base_hits + (IF masks THEN 1 ELSE 0)
        /\ removed_nodes' = removed_nodes \cup {x}
        /\ Kill(Range(out_index[x]) \cup Range(in_index[x]))
  /\ todo' = Tail(todo)
  /\ UNCHANGED <<base, added_nodes, added_non_base, removed_edges, out_index, in_index, seq>>

RemoveNode ==
  /\ Head_is("RemoveNode")
  /\ LET x       == Head(todo).name
         in_base == x \in DOMAIN base.nodes
         masks   == x \notin removed_nodes /\ in_base
     IN /\ added_nodes' = [y \in DOMAIN added_nodes \ {x} |-> added_nodes[y]]
        /\ added_non_base' = added_non_base
             - (IF x \in DOMAIN added_nodes /\ ~in_base THEN 1 ELSE 0)
        /\ masked_base_edge_count' = masked_base_edge_count
             + (IF masks THEN IncidentLive(x, removed_nodes) ELSE 0)
        /\ tombstone_base_hits' = tombstone_base_hits + (IF masks THEN 1 ELSE 0)
        /\ removed_nodes' = removed_nodes \cup {x}
        /\ Kill(Range(out_index[x]) \cup Range(in_index[x]))
  /\ todo' = Tail(todo)
  /\ UNCHANGED <<base, removed_edges, out_index, in_index, seq>>

AddEdge ==
  /\ Head_is("AddEdge")
  /\ LET e == Head(todo).edge
         p == Len(added_edges) + 1
     IN /\ added_edges' = Append(added_edges, [edge |-> e, dead |-> FALSE])
        /\ out_index' = [out_index EXCEPT ![e.from] = Append(@, p)]
        /\ in_index' = [in_index EXCEPT ![e.to] = Append(@, p)]
        /\ live_delta_edge_count' = live_delta_edge_count + 1
  /\ todo' = Tail(todo)
  /\ UNCHANGED <<base, added_nodes, removed_nodes, removed_edges,
                 tombstone_base_hits, added_non_base, masked_base_edge_count, seq>>

count_live_base_edges_matching(e) ==
  IF {e.from, e.to} \cap removed_nodes # {} THEN 0
  ELSE Cardinality({i \in DOMAIN base.edges : base.edges[i] = e})

RemoveEdge ==
  /\ Head_is("RemoveEdge")
  /\ LET e == Head(todo).edge
     IN /\ Kill({p \in Range(out_index[e.from]) : added_edges[p].edge = e})
        /\ removed_edges' = removed_edges \cup {e}
        /\ masked_base_edge_count' = masked_base_edge_count
             + (IF e \in removed_edges THEN 0 ELSE count_live_base_edges_matching(e))
  /\ todo' = Tail(todo)
  /\ UNCHANGED <<base, added_nodes, removed_nodes, out_index, in_index,
                 tombstone_base_hits, added_non_base, seq>>

(***************************************************************************)
(* compact_locked, steps 1 and 7: materialize, build_graph_prenormalized,  *)
(* a fresh delta.  The nodes' order fixes only the order in which the      *)
(* sources are visited.                                                    *)
(***************************************************************************)
(* Every edge is emitted once, from its source.                            *)
EdgesOut == LET sources == SetToSeq(LiveNames)
            IN FlattenSeq([i \in 1..Len(sources) |-> outgoing_neighbors(sources[i])])

(* Mutants: nodes unknown to the base are lost; the tombstones are.        *)
materialize_base_names ==
  [nodes |-> [x \in LiveNames \cap DOMAIN base.nodes |-> get_node(x)],
   edges |-> EdgesOut]

materialize_tombstones ==
  [nodes |-> [x \in LiveNames \cup DOMAIN base.nodes |-> get_node(x)],
   edges |-> EdgesOut]

materialize ==
  [nodes |-> [x \in LiveNames |-> get_node(x)], edges |-> EdgesOut]

(* Mutant: parallel edges of one kind are merged.                          *)
build_graph_merging(g) == [g EXCEPT !.edges = SetToSeq(Range(@))]

(* Edges with an unknown endpoint are skipped without a word.              *)
build_graph(g) ==
  [nodes |-> g.nodes,
   edges |-> Pick(g.edges, {e \in Triples : {e.from, e.to} \subseteq DOMAIN g.nodes})]

NoNodes == [x \in {} |-> x]
NoIndex == [x \in Names |-> <<>>]

Fold ==
  /\ todo = <<>> /\ ~is_empty
  /\ base' = build_graph(materialize)
  /\ added_nodes' = NoNodes /\ added_edges' = <<>>
  /\ removed_nodes' = {} /\ removed_edges' = {}
  /\ out_index' = NoIndex /\ in_index' = NoIndex
  /\ tombstone_base_hits' = 0 /\ added_non_base' = 0
  /\ masked_base_edge_count' = 0 /\ live_delta_edge_count' = 0
  /\ UNCHANGED <<todo, seq>>

Init ==
  /\ base \in Bases
  /\ added_nodes = NoNodes /\ added_edges = <<>>
  /\ removed_nodes = {} /\ removed_edges = {}
  /\ out_index = NoIndex /\ in_index = NoIndex
  /\ tombstone_base_hits = 0 /\ added_non_base = 0
  /\ masked_base_edge_count = 0 /\ live_delta_edge_count = 0
  /\ todo = <<>> /\ seq = 0

Mutate == UpsertNode \/ RemoveNode \/ AddEdge \/ RemoveEdge

Next ==
  \/ \E ops \in Batches : Apply(ops)
  \/ Mutate
  \/ Fold

Spec == Init /\ [][Next]_vars

(***************************************************************************)
(* Properties.                                                             *)
(***************************************************************************)

Shape ==
  /\ base \in Graphs
  /\ DOMAIN added_nodes \subseteq Names /\ Range(added_nodes) \subseteq Data
  /\ added_edges \in Seq([edge: Triples, dead: BOOLEAN])
  /\ removed_nodes \subseteq Names /\ removed_edges \subseteq Triples
  /\ out_index \in [Names -> Seq(1..Len(added_edges))]
  /\ in_index \in [Names -> Seq(1..Len(added_edges))]
  /\ todo \in Seq(Ops)

(* The state has the shape of the fields of GraphDelta.  The counters are  *)
(* usize in the code: none may go below zero.                              *)
TypeOK ==
  /\ Shape
  /\ \A i \in 1..4 : counters[i] \in Nat
  /\ seq \in 0..Len(BatchBound)

(* No name is both shadowed and tombstoned (debug_check_invariants, and    *)
(* the disjointness that upsert_node and remove_node keep between them).   *)
ShadowXorTombstone == DOMAIN added_nodes \cap removed_nodes = {}

(* The four counters that node_count and edge_count answer from are what a *)
(* recount of the sets gives, in the middle of a batch too: self-loops,    *)
(* edges with two tombstoned endpoints and edges masked twice over are     *)
(* each counted once.                                                      *)
CountersExact ==
  /\ tombstone_base_hits = Cardinality(removed_nodes \cap DOMAIN base.nodes)
  /\ added_non_base = Cardinality(DOMAIN added_nodes \ DOMAIN base.nodes)
  /\ masked_base_edge_count =
       Cardinality({i \in DOMAIN base.edges : Masked(base.edges[i])})
  /\ live_delta_edge_count =
       Cardinality({p \in DOMAIN added_edges : ~added_edges[p].dead})

(* What pass 1 found of every endpoint in a scratch copy is what pass 2    *)
(* finds when it gets there: an edge is only ever added between present    *)
(* nodes, with a window some instant satisfies (delta.rs, apply).          *)
PromisedEndpoints == Accepts(todo)

(* No edge of the merged view, base or delta, has an absent endpoint: the  *)
(* builder's silent skip never drops an edge when a compaction rebuilds.   *)
NoDanglingEdge ==
  /\ \A e \in Range(base.edges) : ~Masked(e) => IsPresent(e.from) /\ IsPresent(e.to)
  /\ \A d \in Range(added_edges) :
       ~d.dead => IsPresent(d.edge.from) /\ IsPresent(d.edge.to)

(* The overlay, its tombstones, dead flags and side indices implement the  *)
(* plain graph of GraphView, operation by operation, and a fold is Compact.*)
InBase(e) == Cardinality({i \in DOMAIN base.edges : base.edges[i] = e})
InDelta(e) ==
  Cardinality({p \in DOMAIN added_edges : added_edges[p] = [edge |-> e, dead |-> FALSE]})

ViewNodes   == [x \in LiveNames |-> get_node(x)]
ViewSettled == [e \in Triples |-> IF Masked(e) THEN 0 ELSE InBase(e)]
ViewFresh   == [e \in Triples |-> InDelta(e)]
ViewHidden  ==
  [e \in Triples |-> IF Masked(e) /\ e \notin removed_edges THEN InBase(e) ELSE 0]

View == INSTANCE GraphView WITH
  nodes <- ViewNodes, settled <- ViewSettled, fresh <- ViewFresh, hidden <- ViewHidden

(* Both directions of DeltaAccessor list exactly that graph's edges, as    *)
(* often as it has them, and the two O(1) counts are the sizes of it.      *)
CountIn(list, e) == Cardinality({i \in DOMAIN list : list[i] = e})

ReadersSeeView ==
  /\ \A e \in Triples :
       LET edges == (IF Masked(e) THEN 0 ELSE InBase(e)) + InDelta(e)
       IN /\ CountIn(outgoing_neighbors(e.from), e) = edges
          /\ CountIn(incoming_neighbors(e.to), e) = edges
  /\ node_count = Cardinality(LiveNames)
  /\ edge_count = Len(materialize.edges)
=============================================================================

---------------------------- MODULE GraphBuilder ----------------------------
(***************************************************************************)
(* The immutable graph: how builder.rs makes one of what a caller lists,   *)
(* what accessor.rs answers from it, and the V0 archive of                 *)
(* serialization.rs, written from an owned graph and read in place or      *)
(* rebuilt.                                                                *)
(*                                                                         *)
(* Names and kinds are numbers, for their order.  A node is its name and   *)
(* data, an edge its endpoints and kind; the other fields ride along.      *)
(* Weights are as given: their normalization and PageRank are not here.    *)
(* Arrays are functions on 0 .. n-1, as in the code.                       *)
(***************************************************************************)
EXTENDS Lists, SequencesExt, Functions

CONSTANTS Names, Kinds, Data

ASSUME BuilderAssumption ==
  IsFiniteSet(Names) /\ Names \subseteq Nat /\ Kinds \subseteq Nat

NodeData   == [name: Names, data: Data]
NamedEdges == [from: Names, to: Names, kind: Kinds]

(* inverted: valid_from is after valid_to.                                 *)
EdgeInputs == [from: Names, to: Names, kind: Kinds, inverted: BOOLEAN]

Array(s) == [i \in 0 .. Len(s) - 1 |-> s[i + 1]]
Size(a)  == Cardinality(DOMAIN a)
Values(a) == [k \in 1 .. Size(a) |-> a[k - 1]]

NodeNames(g) == {n.name : n \in Range(g.nodes)}
ByName(nodes) == Sorted(nodes, LAMBDA m, n : m.name < n.name)

(***************************************************************************)
(* Building.                                                               *)
(***************************************************************************)
(* A name given twice is one node, with what was given last.               *)
Deduped(nodes) ==
  LET latest == {i \in DOMAIN nodes :
                  \A j \in DOMAIN nodes : nodes[j].name = nodes[i].name => j <= i}
  IN ByName(Sublist(nodes, latest))

(* An edge to an unknown name is skipped, and one with an empty window.    *)
build_graph(nodes, edges) ==
  LET names   == {n.name : n \in Range(nodes)}
      Sane(e) == {e.from, e.to} \subseteq names /\ ~ e.inverted
      kept    == Pick(edges, {e \in Range(edges) : Sane(e)})
  IN [nodes |-> Deduped(nodes),
      edges |-> [k \in DOMAIN kept |->
                   [from |-> kept[k].from, to |-> kept[k].to, kind |-> kept[k].kind]]]

(* petgraph lists the edge added last first.                               *)
graph_neighbors(g, x, end) == Reverse(Pick(g.edges, {e \in Range(g.edges) : e[end] = x}))

(***************************************************************************)
(* The V0 archive: nodes and edges in the order of the graph, edges by the *)
(* positions of their ends.                                                *)
(***************************************************************************)
to_rkyv(g) ==
  LET idx(x) == (CHOOSE i \in DOMAIN g.nodes : g.nodes[i].name = x) - 1
  IN [nodes |-> Array(g.nodes),
      edges |-> Array([k \in DOMAIN g.edges |->
                  [from_idx |-> idx(g.edges[k].from), to_idx |-> idx(g.edges[k].to),
                   kind |-> g.edges[k].kind]])]

Named(a, e) == [from |-> a.nodes[e.from_idx].name, to |-> a.nodes[e.to_idx].name,
                kind |-> e.kind]

Inside(a, e) == {e.from_idx, e.to_idx} \subseteq DOMAIN a.nodes

(* Of either format: the edges to no node are skipped.                     *)
rebuild_from_serialized(a) ==
  LET kept == Pick(Values(a.edges), {e \in Range(a.edges) : Inside(a, e)})
  IN [nodes |-> Values(a.nodes), edges |-> [k \in DOMAIN kept |-> Named(a, kept[k])]]

(* The view refuses what the rebuild skips.                                *)
from_bytes(a) == \A k \in DOMAIN a.edges : Inside(a, a.edges[k])

(* Every edge is looked at; the first that matches is listed first.        *)
view_neighbors(a, x, end) ==
  LET name_index == CHOOSE i \in DOMAIN a.nodes : a.nodes[i].name = x
      listed     == Pick(Values(a.edges), {e \in Range(a.edges) : e[end] = name_index})
  IN IF \E i \in DOMAIN a.nodes : a.nodes[i].name = x
     THEN [k \in DOMAIN listed |-> Named(a, listed[k])] ELSE << >>
=============================================================================

------------------------------- MODULE Overlay -------------------------------
(***************************************************************************)
(* What one traversal request sees of a graph: the nodes and edge listings *)
(* a GraphAccessor answers with (accessor.rs), the overlay, the weights    *)
(* and the filters of its DynamicContext (types.rs), the score of a node   *)
(* (scoring.rs) and the neighbors it may go to (overlay.rs).               *)
(*                                                                         *)
(* Names, kinds and fields are numbers, for their order; 0 is no field.    *)
(* Weights are integers and penalties are in tenths, so a score is in      *)
(* tenths of a weight and no two different scores round to one.            *)
(***************************************************************************)
EXTENDS Lists, SequencesExt

CONSTANTS
  Names,    \* names of nodes, those of no node among them
  Kinds, Fields, Times, Tags, Domains,
  Graphs,   \* the graphs a request may find
  Contexts  \* the requests' contexts

None == -1

EdgeData == [from: Names, to: Names, kind: Kinds, field: Fields,
             valid_from: Times \cup {None}, valid_to: Times \cup {None},
             acl: SUBSET Tags]

NodeData == [base_weight: Int, noise_penalty: 0 .. 10, pagerank_weight: Int,
             domain: Domains]

(* A boost, a bonus: for some of the names.                                *)
IsEntries(map) == DOMAIN map \subseteq Names /\ \A x \in DOMAIN map : map[x] \in Int

IsGraph(g) ==
  /\ DOMAIN g.get_node \subseteq Names
  /\ \A x \in DOMAIN g.get_node : g.get_node[x] \in NodeData
  /\ g.outgoing \in [Names -> Seq(EdgeData)]
  /\ \A x \in Names : \A i \in DOMAIN g.outgoing[x] :
       /\ g.outgoing[x][i].from = x
       /\ {x, g.outgoing[x][i].to} \subseteq DOMAIN g.get_node

IsContext(ctx) ==
  /\ IsEntries(ctx.semantic_boosts) /\ IsEntries(ctx.weight_bonuses)
  /\ ctx.overlay_nodes \in Seq([name: Names, node: NodeData])
  /\ ctx.overlay_edges \in Seq(EdgeData)
  /\ {ctx.w_base, ctx.w_semantic, ctx.w_noise, ctx.w_bonus} \subseteq Int
  /\ ctx.noise_tags \subseteq Domains /\ ctx.principals \subseteq Tags
  /\ ctx.max_fan_out \in Nat \cup {None} /\ ctx.fan_out_pagerank_bypass \in Nat \cup {None}
  /\ ctx.as_of \in Times \cup {None}

ASSUME OverlayAssumption ==
  /\ IsFiniteSet(Names) /\ Names \subseteq Nat
  /\ Kinds \subseteq Nat /\ Fields \subseteq Nat /\ Times \subseteq Nat
  /\ \A g \in Graphs : IsGraph(g)
  /\ \A c \in Contexts : IsContext(c)

LargerOf(a, b)  == IF a >= b THEN a ELSE b
SmallerOf(a, b) == IF a <= b THEN a ELSE b

(***************************************************************************)
(* types.rs: may this request see this edge?                               *)
(***************************************************************************)
is_edge_visible(ctx, e) ==
  /\ ctx.as_of # None =>
       /\ e.valid_from = None \/ ctx.as_of >= e.valid_from
       /\ e.valid_to = None \/ ctx.as_of < e.valid_to
  /\ e.acl = {} \/ e.acl \cap ctx.principals # {}

(***************************************************************************)
(* overlay.rs: the request's own nodes and edges.                          *)
(***************************************************************************)
OverlayNames(ctx) == {ctx.overlay_nodes[i].name : i \in DOMAIN ctx.overlay_nodes}

(* OverlayIndex keeps the last definition of a name.                       *)
IndexedNode(ctx, x) ==
  LET defined == {i \in DOMAIN ctx.overlay_nodes : ctx.overlay_nodes[i].name = x}
      last    == CHOOSE i \in defined : \A j \in defined : j <= i
  IN ctx.overlay_nodes[last].node

edges_from(ctx, x) == Pick(ctx.overlay_edges, {e \in EdgeData : e.from = x})

(* A node of the graph hides the overlay's of the same name.               *)
Known(g, ctx, x) == x \in DOMAIN g.get_node \/ x \in OverlayNames(ctx)

Lookup(g, ctx, x) ==
  IF x \in DOMAIN g.get_node THEN g.get_node[x] ELSE IndexedNode(ctx, x)

Entry(map, x) == IF x \in DOMAIN map THEN map[x] ELSE 0

(***************************************************************************)
(* scoring.rs: compute_score, the penalty in tenths.                       *)
(***************************************************************************)
EffectiveNoise(ctx, node) ==
  LET own == SmallerOf(LargerOf(ctx.w_noise * node.noise_penalty, 0), 10)
  IN IF node.domain \in ctx.noise_tags THEN LargerOf(own, 9) ELSE own

compute_score(ctx, x, node) ==
  (ctx.w_base * node.base_weight + ctx.w_semantic * Entry(ctx.semantic_boosts, x)
     + ctx.w_bonus * Entry(ctx.weight_bonuses, x)) * (10 - EffectiveNoise(ctx, node))

Weight(g, ctx, x) == compute_score(ctx, x, Lookup(g, ctx, x))

(***************************************************************************)
(* overlay.rs: neighbors_with_overlay.                                     *)
(***************************************************************************)
(* Mutant: a boost of zero, or less, saves the hub as well.                *)
CutOffUnlessNamed(g, ctx, x) ==
  /\ ctx.max_fan_out # None /\ Len(g.outgoing[x]) > ctx.max_fan_out
  /\ x \notin DOMAIN ctx.semantic_boosts
  /\ ~ (/\ ctx.fan_out_pagerank_bypass # None
        /\ g.get_node[x].pagerank_weight > ctx.fan_out_pagerank_bypass)

(* The base edges of a hub are left out, unless it matters to the request. *)
CutOff(g, ctx, x) ==
  /\ ctx.max_fan_out # None /\ Len(g.outgoing[x]) > ctx.max_fan_out
  /\ ~ Entry(ctx.semantic_boosts, x) > 0
  /\ ~ (/\ ctx.fan_out_pagerank_bypass # None
        /\ g.get_node[x].pagerank_weight > ctx.fan_out_pagerank_bypass)

BaseNeighbors(g, ctx, x) ==
  IF x \in DOMAIN g.get_node /\ ~ CutOff(g, ctx, x) THEN g.outgoing[x] ELSE << >>

neighbors_with_overlay(g, ctx, x) ==
  Pick(BaseNeighbors(g, ctx, x) \o edges_from(ctx, x),
       {e \in EdgeData : is_edge_visible(ctx, e)})
=============================================================================

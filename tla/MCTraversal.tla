----------------------------- MODULE MCTraversal -----------------------------
(* TLC instances of Traversal: four nodes with ties and a hub, parallel    *)
(* edges, circles, edges with a window or a tag; a fifth name that is a    *)
(* node of the overlay, twice, or of nothing.                              *)
EXTENDS Traversal

Node(w, noise, rank) ==
  [base_weight |-> w, noise_penalty |-> noise, pagerank_weight |-> rank, domain |-> 0]

Edge(x, y, k) == [from |-> x, to |-> y, kind |-> k, field |-> 0,
                  valid_from |-> None, valid_to |-> None, acl |-> {}]
Window(e, f, t) == [e EXCEPT !.valid_from = f, !.valid_to = t]
Tagged(e)       == [e EXCEPT !.acl = {1}]

MCNodes == (1 :> Node(2, 0, 6)) @@ (2 :> Node(2, 0, 1)) @@ (3 :> Node(2, 0, 1))
             @@ (4 :> [Node(6, 5, 1) EXCEPT !.domain = 1])

MCGraphs ==
  {[get_node |-> MCNodes, outgoing |-> <<one, two, three, four, << >>>>] :
     one \in {<<Edge(1, 3, 1), Edge(1, 2, 1), Edge(1, 4, 1)>>,
              <<Edge(1, 2, 2), Edge(1, 2, 1), [Edge(1, 2, 1) EXCEPT !.field = 1]>>,
              <<Window(Edge(1, 2, 1), 1, 2), Edge(1, 3, 1)>>},
     two \in {<<Edge(2, 4, 1)>>, <<Tagged(Edge(2, 4, 1)), Edge(2, 1, 1)>>},
     three \in {<<Edge(3, 4, 1), Edge(3, 3, 1)>>, << >>},
     four \in {<< >>, <<Edge(4, 1, 1)>>}}

Plain ==
  [semantic_boosts |-> Empty, weight_bonuses |-> Empty,
   overlay_nodes |-> << >>, overlay_edges |-> << >>,
   w_base |-> 2, w_semantic |-> 3, w_noise |-> 1, w_bonus |-> 1, noise_tags |-> {},
   max_fan_out |-> None, fan_out_pagerank_bypass |-> None,
   as_of |-> None, principals |-> {}]

Five == [name |-> 5, node |-> Node(1, 0, 0)]
Other == [name |-> 5, node |-> Node(8, 0, 0)]

MCContexts ==
  {Plain,
   [Plain EXCEPT !.as_of = 2, !.principals = {1}, !.noise_tags = {1}],
   [Plain EXCEPT !.as_of = 1, !.semantic_boosts = (2 :> 2) @@ (1 :> 2) @@ (5 :> 1) @@ (4 :> 1)],
   [Plain EXCEPT !.max_fan_out = 1, !.semantic_boosts = (1 :> 0) @@ (3 :> 1)],
   [Plain EXCEPT !.max_fan_out = 1, !.fan_out_pagerank_bypass = 5],
   [Plain EXCEPT !.max_fan_out = 1, !.weight_bonuses = (3 :> 4),
                 !.overlay_edges = <<Edge(1, 5, 1), Edge(5, 4, 1), Edge(1, 2, 1)>>],
   [Plain EXCEPT !.semantic_boosts = (1 :> 1) @@ (2 :> 1) @@ (5 :> 2),
                 !.overlay_edges = <<Edge(1, 5, 1), Edge(5, 4, 1)>>],
   [Plain EXCEPT !.overlay_nodes = <<Five, Other>>, !.semantic_boosts = (5 :> 1) @@ (3 :> 1),
                 !.overlay_edges = <<Edge(1, 5, 1), Tagged(Edge(5, 4, 1)), Edge(5, 3, 1)>>]}

Path(x, y)      == [op |-> "find_path", start |-> x, end |-> y]
Beam(x, k, d)   == [op |-> "beam_traverse", start_nodes |-> <<x>>, k |-> k, depth |-> d]
Subgraph(k)     == [op |-> "contextual_subgraph", k |-> k]
Heatmap(s, k, t) == [op |-> "multi_beam_intersection", start_nodes |-> s, k |-> k,
                     depth |-> 2, threshold |-> t]

MCCalls ==
  {Path(1, 4), Path(2, 3), Path(1, 5), Path(5, 4), Path(3, 3),
   Beam(1, 1, 2), Beam(1, 2, 2), Beam(5, 1, 3), Beam(2, 0, 1),
   Subgraph(1), Subgraph(2), Subgraph(4),
   Heatmap(<<1, 2>>, 2, default_threshold(2)), Heatmap(<<1, 1>>, 1, 2), Heatmap(<<1, 5>>, 2, 1),
   Heatmap(<<1, 2, 3>>, 1, default_threshold(3)), Heatmap(<< >>, 1, 0)}

(* Parallel edges alone, so that no two entries of the heap are equal.     *)
MCParallel ==
  {[get_node |-> MCNodes,
    outgoing |-> <<<<Edge(1, 2, 2), Edge(1, 2, 1)>>, <<Edge(2, 4, 1)>>, << >>, << >>, << >>>>]}
=============================================================================

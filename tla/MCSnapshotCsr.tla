---------------------------- MODULE MCSnapshotCsr ----------------------------
(* Three names whose hashes may all land at the end of the table of eight, *)
(* parallel edges that differ in kind alone, a self-loop and an isolated   *)
(* node; one graph given in two orders, once with a name twice, an edge to *)
(* nowhere and one that is never valid.                                    *)
EXTENDS SnapshotCsr

Node(x, d) == [name |-> x, data |-> d]
Edge(f, t, k) == [from |-> f, to |-> t, kind |-> k, inverted |-> FALSE]
Never(f, t, k) == [Edge(f, t, k) EXCEPT !.inverted = TRUE]

MCInputs ==
  {[nodes |-> <<Node(3, 1), Node(1, 1), Node(2, 1)>>,
    edges |-> <<Edge(2, 1, 2), Edge(1, 3, 1), Edge(2, 1, 1)>>],
   [nodes |-> <<Node(1, 2), Node(2, 1), Node(1, 1), Node(3, 1)>>,
    edges |-> <<Edge(2, 1, 1), Never(3, 1, 1), Edge(2, 1, 2), Edge(1, 3, 1)>>],
   [nodes |-> <<Node(2, 1), Node(3, 1)>>,
    edges |-> <<Edge(3, 2, 1), Edge(1, 2, 2), Edge(3, 3, 1)>>],
   [nodes |-> << >>, edges |-> << >>]}
=============================================================================

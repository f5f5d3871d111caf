------------------------------ MODULE Traversal ------------------------------
(***************************************************************************)
(* traversal.rs: the four traversals, each from the call to its answer,    *)
(* and the same call once more after a compaction has rewritten the base   *)
(* and with it the order in which edges are listed.                        *)
(*                                                                         *)
(* One call runs on one pinned graph, so nothing interleaves with it but   *)
(* its own beams.  What the code leaves to chance -- which of two entries  *)
(* of equal cost a heap gives up first -- is a choice here; what it takes  *)
(* from a hash map and sorts is a set.  An answer is the nodes and edges   *)
(* returned, in their order; a path is its nodes and the edges between.    *)
(***************************************************************************)
EXTENDS Overlay

CONSTANTS
  Calls, \* the calls a request may make
  Scale  \* bound: the cost of a node of the least score, 1.0 / 0.001

VARIABLES
  graph, ctx, call,
  pc,                            \* "ready", "search", "beams", "seeds" or "done"
  dist, parent, heap, at, todo,  \* find_path, and the neighbors still to relax
  beams,                         \* one beam_traverse for each start node
  seeds, node_set, nodes, edges, \* contextual_subgraph
  answer,
  round, earlier                 \* the first round's answer, in the second

search == <<dist, parent, heap, at, todo>>
sub    == <<seeds, node_set, nodes, edges>>
vars   == <<graph, ctx, call, pc, search, beams, sub, answer, round, earlier>>

AllCalls ==
  [op: {"find_path"}, start: Names, end: Names]
  \cup [op: {"beam_traverse"}, start_nodes: {<<x>> : x \in Names}, k: Nat, depth: Nat]
  \cup [op: {"contextual_subgraph"}, k: Nat]
  \cup [op: {"multi_beam_intersection"}, start_nodes: Seq(Names), k: Nat,
        depth: Nat, threshold: Nat]

(* The threshold of a call that names none.                                *)
default_threshold(n) == SmallerOf(n, LargerOf(n - 1, 2))

ASSUME CallsAssumption == Calls \subseteq AllCalls /\ Scale \in Nat \ {0}

NoAnswer  == [nodes |-> << >>, edges |-> << >>]
Empty     == [x \in {} |-> 0]
Take(s, k) == SubSeq(s, 1, SmallerOf(k, Len(s)))

Neighbors(x) == neighbors_with_overlay(graph, ctx, x)
IsNode(x)    == Known(graph, ctx, x)
W_total(x)   == Weight(graph, ctx, x)

Return(a) == answer' = a /\ pc' = "done"

(***************************************************************************)
(* find_path.                                                              *)
(***************************************************************************)
(* 1.0 / score, the score at least 0.001; a name of no node costs the most *)
(* and is walked through nevertheless.  A cost is never zero.              *)
edge_cost(x) ==
  IF IsNode(x) THEN LargerOf(Scale \div LargerOf(W_total(x), 1), 1) ELSE Scale

reconstruct_path(start, end) ==
  LET n == Cardinality(DOMAIN parent)
      trail[i \in 0 .. n] ==
        IF i = 0 THEN end
        ELSE IF trail[i - 1] \in DOMAIN parent THEN parent[trail[i - 1]].from
        ELSE trail[i - 1]
      ends == {i \in 0 .. n : trail[i] = start \/ trail[i] \notin DOMAIN parent}
      len  == CHOOSE i \in ends : \A j \in ends : i <= j
  IN [nodes |-> <<start>> \o [j \in 1 .. len |-> trail[len - j]],
      edges |-> [j \in 1 .. len |-> parent[trail[len - j]].edge]]

BeginPath ==
  /\ pc = "ready" /\ call.op = "find_path"
  /\ IF call.start = call.end
     THEN Return([nodes |-> <<call.start>>, edges |-> << >>]) /\ UNCHANGED search
     ELSE /\ pc' = "search"
          /\ dist' = [x \in {call.start} |-> 0] /\ parent' = Empty
          /\ heap' = {[cost |-> 0, node |-> call.start]}
          /\ at' = [cost |-> 0, node |-> call.start] /\ todo' = << >>
          /\ UNCHANGED answer
  /\ UNCHANGED <<graph, ctx, call, beams, sub, round, earlier>>

(* Mutant: the order not reversed for a heap that gives up the greatest.   *)
PopsLast(a, b) == a.cost >= b.cost

PopsFirst(a, b) == a.cost <= b.cost

(* An entry of least cost; it is stale if its node was reached for less.   *)
Pop ==
  /\ pc = "search" /\ todo = << >>
  /\ \E least \in heap :
       /\ \A other \in heap : PopsFirst(least, other)
       /\ heap' = heap \ {least}
       /\ IF least.node = call.end
          THEN Return(reconstruct_path(call.start, call.end)) /\ UNCHANGED <<at, todo>>
          ELSE /\ IF least.cost > dist[least.node] THEN UNCHANGED <<at, todo>>
                  ELSE at' = least /\ todo' = Neighbors(least.node)
               /\ UNCHANGED <<pc, answer>>
  /\ UNCHANGED <<graph, ctx, call, dist, parent, beams, sub, round, earlier>>

(* Mutant: the cost is not compared.                                       *)
IsOther(new_cost, x) == x # at.node

IsBetter(new_cost, x) == x \notin DOMAIN dist \/ new_cost < dist[x]

With(f, x, v) == [y \in DOMAIN f \cup {x} |-> IF y = x THEN v ELSE f[y]]

Relax ==
  /\ pc = "search" /\ todo # << >>
  /\ LET e        == Head(todo)
         new_cost == at.cost + edge_cost(e.to)
     IN IF IsBetter(new_cost, e.to)
        THEN /\ dist' = With(dist, e.to, new_cost)
             /\ parent' = With(parent, e.to, [from |-> at.node, edge |-> e])
             /\ heap' = heap \cup {[cost |-> new_cost, node |-> e.to]}
        ELSE UNCHANGED <<dist, parent, heap>>
  /\ todo' = Tail(todo)
  /\ UNCHANGED <<graph, ctx, call, pc, at, beams, sub, answer, round, earlier>>

NoPath ==
  /\ pc = "search" /\ todo = << >> /\ heap = {}
  /\ Return(NoAnswer)
  /\ UNCHANGED <<graph, ctx, call, search, beams, sub, round, earlier>>

(***************************************************************************)
(* beam_traverse, alone or as one of the beams of an intersection.         *)
(***************************************************************************)
(* Mutant: the worst first.                                                *)
Worse(x, y) == W_total(x) < W_total(y) \/ (W_total(x) = W_total(y) /\ x < y)

Better(x, y) == W_total(x) > W_total(y) \/ (W_total(x) = W_total(y) /\ x < y)

NewBeam(start) ==
  [visited |-> {start}, frontier |-> {start}, results |-> {}, level |-> 0]

Finished(b) == b.level = call.depth \/ b.frontier = {}

BeginBeams ==
  /\ pc = "ready" /\ call.op \in {"beam_traverse", "multi_beam_intersection"}
  /\ beams' = [i \in DOMAIN call.start_nodes |-> NewBeam(call.start_nodes[i])]
  /\ pc' = "beams"
  /\ UNCHANGED <<graph, ctx, call, search, sub, answer, round, earlier>>

(* Mutant: cut to k before the candidates are sorted.                      *)
NextLevelUnsorted(b) ==
  LET listed == FlattenSeq([i \in 1 .. Cardinality(b.frontier) |->
                              Neighbors(InOrder(b.frontier, <)[i])])
      new  == SelectSeq(listed, LAMBDA e : e.to \notin b.visited /\ IsNode(e.to))
      best == {e.to : e \in Range(Take(new, call.k))}
  IN [visited |-> b.visited \cup best, frontier |-> best,
      results |-> b.results \cup best, level |-> b.level + 1]

(* One level: the k best of the nodes next to the frontier that are new.   *)
NextLevel(b) ==
  LET targets == {e.to : e \in UNION {Range(Neighbors(x)) : x \in b.frontier}}
      level_candidates == {x \in targets \ b.visited : IsNode(x)}
      best == Range(Take(InOrder(level_candidates, Better), call.k))
  IN [visited |-> b.visited \cup best, frontier |-> best,
      results |-> b.results \cup best, level |-> b.level + 1]

(* Up to two beams run one after the other, more than two in parallel.     *)
BeamLevel(i) ==
  /\ pc = "beams" /\ ~ Finished(beams[i])
  /\ Len(beams) <= 2 => \A j \in 1 .. i - 1 : Finished(beams[j])
  /\ beams' = [beams EXCEPT ![i] = NextLevel(@)]
  /\ UNCHANGED <<graph, ctx, call, pc, search, sub, answer, round, earlier>>

BeamReturns ==
  /\ pc = "beams" /\ call.op = "beam_traverse" /\ Finished(beams[1])
  /\ Return([nodes |-> InOrder(beams[1].results, Better), edges |-> << >>])
  /\ UNCHANGED <<graph, ctx, call, search, beams, sub, round, earlier>>

(***************************************************************************)
(* multi_beam_intersection, once its beams are done.                       *)
(***************************************************************************)
hit_count(x) == Cardinality({i \in DOMAIN beams : x \in beams[i].results})
weight_sum(x) == IF hit_count(x) = 0 THEN 0 ELSE hit_count(x) * W_total(x)

(* Mutant: start nodes have to be hit as well.                             *)
FilteredByHits ==
  {x \in UNION {beams[i].results : i \in DOMAIN beams} : hit_count(x) >= call.threshold}

filtered_set ==
  Range(call.start_nodes)
    \cup {x \in UNION {beams[i].results : i \in DOMAIN beams} : hit_count(x) >= call.threshold}

SameKey(e, f) == e.from = f.from /\ e.to = f.to /\ e.kind = f.kind

(* Mutant: the second place that reads edges does not filter them.         *)
RebuiltUnfiltered(x) ==
  LET listed == Pick(graph.outgoing[x] \o edges_from(ctx, x),
                     {e \in EdgeData : e.to \in filtered_set})
  IN {listed[i] : i \in {i \in DOMAIN listed : \A j \in 1 .. i - 1 : ~ SameKey(listed[j], listed[i])}}

(* The edges between the nodes kept, read again from the base, hub or not, *)
(* and the overlay; of several with the same ends and kind the first.      *)
Rebuilt(x) ==
  LET listed == Pick(graph.outgoing[x] \o edges_from(ctx, x),
                     {e \in EdgeData : is_edge_visible(ctx, e) /\ e.to \in filtered_set})
  IN {listed[i] : i \in {i \in DOMAIN listed :
                           \A j \in 1 .. i - 1 : ~ SameKey(listed[j], listed[i])}}

KeyBefore(e, f) ==
  \/ e.from < f.from
  \/ e.from = f.from /\ e.to < f.to
  \/ e.from = f.from /\ e.to = f.to /\ e.kind < f.kind

Hotter(x, y) ==
  weight_sum(x) > weight_sum(y) \/ (weight_sum(x) = weight_sum(y) /\ x < y)

IntersectionReturns ==
  /\ pc = "beams" /\ call.op = "multi_beam_intersection"
  /\ \A i \in DOMAIN beams : Finished(beams[i])
  /\ Return([nodes |-> InOrder({x \in filtered_set : IsNode(x)}, Hotter),
             edges |-> InOrder(UNION {Rebuilt(x) : x \in filtered_set}, KeyBefore)])
  /\ UNCHANGED <<graph, ctx, call, search, beams, sub, round, earlier>>

(***************************************************************************)
(* contextual_subgraph.                                                    *)
(***************************************************************************)
MoreBoosted(x, y) ==
  LET boost == ctx.semantic_boosts
  IN boost[x] > boost[y] \/ (boost[x] = boost[y] /\ x < y)

BeginSubgraph ==
  /\ pc = "ready" /\ call.op = "contextual_subgraph"
  /\ seeds' = Take(InOrder(DOMAIN ctx.semantic_boosts, MoreBoosted), call.k)
  /\ node_set' = {} /\ nodes' = {} /\ edges' = << >>
  /\ pc' = "seeds"
  /\ UNCHANGED <<graph, ctx, call, search, beams, answer, round, earlier>>

(* A seed that an earlier seed has for a neighbor is not expanded.         *)
Seed ==
  /\ pc = "seeds" /\ seeds # << >>
  /\ LET x       == Head(seeds)
         targets == {e.to : e \in Range(Neighbors(x))}
     IN IF x \in node_set \/ ~ IsNode(x) THEN UNCHANGED <<node_set, nodes, edges>>
        ELSE /\ node_set' = node_set \cup {x} \cup targets
             /\ nodes' = nodes \cup {x} \cup {y \in targets \ node_set : IsNode(y)}
             /\ edges' = edges \o Neighbors(x)
  /\ seeds' = Tail(seeds)
  /\ UNCHANGED <<graph, ctx, call, pc, search, beams, answer, round, earlier>>

(* Mutant: the edges to a name of no node are kept.                        *)
RetainAll(s) == s

Retain(s) == Pick(s, {e \in EdgeData : e.from \in nodes /\ e.to \in nodes})

SubgraphReturns ==
  /\ pc = "seeds" /\ seeds = << >>
  /\ Return([nodes |-> InOrder(nodes, Better), edges |-> Sorted(Retain(edges), KeyBefore)])
  /\ UNCHANGED <<graph, ctx, call, search, beams, sub, round, earlier>>

(***************************************************************************)
(* A compaction writes the merged view anew.  The mapped snapshot lists a  *)
(* node's edges in the order of the file; an owned graph is built from the *)
(* listings of the old one and lists the newest edge first.  PageRank,     *)
(* which a compaction computes anew, is held still: that drift is          *)
(* documented.                                                             *)
(***************************************************************************)
(* Weights are equal here, and the order that tags alone decide is kept.   *)
CsrBefore(e, f) ==
  \/ KeyBefore(e, f)
  \/ SameKey(e, f) /\ e.field < f.field
  \/ SameKey(e, f) /\ e.field = f.field /\ e.valid_from < f.valid_from
  \/ /\ SameKey(e, f) /\ e.field = f.field
     /\ e.valid_from = f.valid_from /\ e.valid_to < f.valid_to

Relisted(mode, listing) ==
  IF mode = "Mmap" THEN Sorted(listing, CsrBefore) ELSE Reverse(listing)

Compact(mode) ==
  /\ pc = "done" /\ round = 1
  /\ graph' = [get_node |-> graph.get_node,
               outgoing |-> [x \in Names |-> Relisted(mode, graph.outgoing[x])]]
  /\ round' = 2 /\ earlier' = answer
  /\ pc' = "ready" /\ answer' = NoAnswer
  /\ UNCHANGED <<ctx, call, search, beams, sub>>

Init ==
  /\ graph \in Graphs /\ ctx \in Contexts /\ call \in Calls
  /\ pc = "ready" /\ round = 1
  /\ dist = Empty /\ parent = Empty /\ heap = {} /\ todo = << >>
  /\ at = [cost |-> 0, node |-> 0]
  /\ beams = << >>
  /\ seeds = << >> /\ node_set = {} /\ nodes = {} /\ edges = << >>
  /\ answer = NoAnswer /\ earlier = NoAnswer

Next ==
  \/ BeginPath \/ Pop \/ Relax \/ NoPath
  \/ BeginBeams \/ (\E i \in DOMAIN beams : BeamLevel(i)) \/ BeamReturns
  \/ IntersectionReturns
  \/ BeginSubgraph \/ Seed \/ SubgraphReturns
  \/ \E mode \in {"Owned", "Mmap"} : Compact(mode)

Spec == Init /\ [][Next]_vars

(***************************************************************************)
(* Properties.                                                             *)
(***************************************************************************)
Base(x)   == Range(graph.outgoing[x])
Injected  == Range(ctx.overlay_edges)
IsHub(x)  == ctx.max_fan_out # None /\ Len(graph.outgoing[x]) > ctx.max_fan_out
Matters(x) ==
  \/ Entry(ctx.semantic_boosts, x) > 0
  \/ /\ ctx.fan_out_pagerank_bypass # None
     /\ graph.get_node[x].pagerank_weight > ctx.fan_out_pagerank_bypass

(* The edges a request may go along: its own, and those of a node that is  *)
(* no hub or matters to it, unless it may not see them.                    *)
MayFollow(e) ==
  /\ is_edge_visible(ctx, e)
  /\ e \in Injected \/ (e \in Base(e.from) /\ (IsHub(e.from) => Matters(e.from)))

Followed == UNION {{e \in Base(x) \cup Injected : MayFollow(e) /\ e.from = x} : x \in Names}

(* No traversal returns, or takes a step along, an edge outside its        *)
(* temporal window or without a matching tag, in either of the places that *)
(* read edges; and the base edges of a cut hub are not walked.  (A heatmap *)
(* does return a hub's edges between nodes it found otherwise.)            *)
OnlyAllowedEdges ==
  /\ \A e \in Range(edges) \cup {parent[x].edge : x \in DOMAIN parent} : MayFollow(e)
  /\ \A e \in Range(answer.edges) :
       IF call.op = "multi_beam_intersection"
       THEN is_edge_visible(ctx, e) /\ e \in Base(e.from) \cup Injected
       ELSE MayFollow(e)

(* Each node was reached for less than its successor on the path, and all  *)
(* but the start have a predecessor: parent links never close a circle, so *)
(* reconstruct_path comes to an end, and that end is the start.            *)
ParentsDescend ==
  pc = "search" =>
    /\ DOMAIN parent = DOMAIN dist \ {call.start}
    /\ \A x \in DOMAIN parent :
         /\ parent[x].edge.to = x
         /\ parent[x].from \in DOMAIN dist /\ dist[parent[x].from] < dist[x]

(* The least cost from call.start over any walk: distances after 0, 1, ... *)
(* edges, by all edges that may be followed.                               *)
Unreached == -1
LeastCost(y) ==
  LET Least(S) == IF S = {} THEN Unreached ELSE CHOOSE c \in S : \A d \in S : c <= d
      after[i \in 0 .. Cardinality(Names)] ==
        IF i = 0 THEN [x \in Names |-> IF x = call.start THEN 0 ELSE Unreached]
        ELSE [x \in Names |->
               Least(({after[i - 1][x]}
                        \cup {after[i - 1][e.from] + edge_cost(x) :
                                e \in {f \in Followed : f.to = x /\ after[i - 1][f.from] # Unreached}})
                     \ {Unreached})]
  IN after[Cardinality(Names)][y]

PathCost(a) ==
  LET cost[i \in 0 .. Len(a.edges)] ==
        IF i = 0 THEN 0 ELSE cost[i - 1] + edge_cost(a.edges[i].to)
  IN cost[Len(a.edges)]

(* find_path returns a chain of edges it may follow from start to end, no  *)
(* chain of such edges costs less, and no path only if there is no chain:  *)
(* whatever order the heap gives up equal entries in.                      *)
CheapestPath ==
  pc = "done" /\ call.op = "find_path" =>
    LET n == Len(answer.nodes)
    IN IF LeastCost(call.end) = Unreached THEN answer = NoAnswer
       ELSE /\ n > 0 /\ answer.nodes[1] = call.start /\ answer.nodes[n] = call.end
            /\ Len(answer.edges) = n - 1
            /\ \A i \in 1 .. n - 1 : /\ answer.edges[i].from = answer.nodes[i]
                                     /\ answer.edges[i].to = answer.nodes[i + 1]
            /\ PathCost(answer) = LeastCost(call.end)

(* A beam never returns a node twice, its start, or more than k a level;   *)
(* each result was next to a node it expanded; and whatever it left out    *)
(* there was no better than k of its results.                              *)
BeamKeepsTheBest ==
  \A i \in DOMAIN beams :
    LET b        == beams[i]
        start    == call.start_nodes[i]
        expanded == b.visited \ b.frontier
        Next_(x) == \E e \in Followed : e.from \in expanded /\ e.to = x
    IN /\ start \notin b.results /\ Cardinality(b.results) <= call.k * b.level
       /\ \A x \in b.results : IsNode(x) /\ Next_(x)
       /\ \A x \in Names \ b.visited :
            IsNode(x) /\ Next_(x) =>
              call.k <= Cardinality({y \in b.results : W_total(y) >= W_total(x)})

(* A subgraph holds the k most boosted names that are nodes, and what they *)
(* reach; no edge leads out of it; and a seed's edges into it are missing  *)
(* only if another seed leads there.                                       *)
SubgraphFromSeeds ==
  pc = "done" /\ call.op = "contextual_subgraph" =>
    LET boost == ctx.semantic_boosts
        ahead(x) == {y \in DOMAIN boost : boost[y] > boost[x] \/ (boost[y] = boost[x] /\ y < x)}
        top   == {x \in DOMAIN boost : IsNode(x) /\ Cardinality(ahead(x)) < call.k}
        found == Range(answer.nodes)
        kept  == Range(answer.edges)
    IN /\ IsInjective(answer.nodes) /\ top \subseteq found
       /\ \A x \in found \ top : \E e \in kept : e.to = x
       /\ \A e \in kept : e.from \in top /\ e.to \in found
       /\ \A x \in top : \/ {e \in Followed : e.from = x /\ e.to \in found} \subseteq kept
                         \/ \E e \in kept : e.to = x /\ e.from # x

(* A heatmap holds its start nodes and the nodes that enough beams found,  *)
(* each pair's visible edges once for each kind, and no edge to anything   *)
(* else but a start that is no node.                                       *)
HeatmapExact ==
  pc = "done" /\ call.op = "multi_beam_intersection" =>
    LET found  == Range(answer.nodes)
        starts == Range(call.start_nodes)
        kept   == Range(answer.edges)
        Hits(x) == Cardinality({i \in DOMAIN beams : x \in beams[i].results})
    IN /\ IsInjective(answer.nodes)
       /\ \A x \in Names :
            x \in found <=> IsNode(x) /\ (x \in starts \/ (Hits(x) > 0 /\ Hits(x) >= call.threshold))
       /\ \A e \in kept : {e.from, e.to} \subseteq found \cup {x \in starts : ~ IsNode(x)}
       /\ \A e \in (UNION {Base(x) : x \in found}) \cup Injected :
            is_edge_visible(ctx, e) /\ {e.from, e.to} \subseteq found =>
              Cardinality({i \in DOMAIN answer.edges : SameKey(answer.edges[i], e)}) = 1

Keys(s) == [i \in DOMAIN s |-> <<s[i].from, s[i].to, s[i].kind>>]

(* The same call on the same graph gives the same answer after a           *)
(* compaction, though every listing may have been reordered: all of it, up *)
(* to the choice between parallel edges, and of a path its cost.           *)
SameAnswerAfterCompaction ==
  pc = "done" /\ round = 2 =>
    IF call.op = "find_path"
    THEN PathCost(answer) = PathCost(earlier)
           /\ (answer.nodes = << >>) = (earlier.nodes = << >>)
    ELSE answer.nodes = earlier.nodes /\ Keys(answer.edges) = Keys(earlier.edges)

(* incremental_persistence_spec.md, "Deterministic ordering": "(seq, ctx)  *)
(* fully determines traversal output", here of find_path.                  *)
StateAndContextDetermineThePath ==
  pc = "done" /\ round = 2 /\ call.op = "find_path" => answer = earlier
=============================================================================

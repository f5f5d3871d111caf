-------------------------- MODULE GraphDeltaProofs ---------------------------
(***************************************************************************)
(* For every set of names, every base and every batch: the overlay keeps   *)
(* shadows and tombstones apart, keeps what pass 1 promised pass 2, never  *)
(* has an edge in sight whose endpoint is not there, counts exactly, lists *)
(* every edge in both directions as often as it is there, and implements   *)
(* the plain graph of GraphView.                                           *)
(*                                                                         *)
(* None of these is inductive alone.  RemoveNode finds the edges it must   *)
(* kill through the side indices, so every live edge has to be in them, in *)
(* each once for the readers' sake; AddEdge is safe because of pass 1; and *)
(* a fold hands its survivors to the builder, which keeps an edge only if  *)
(* both endpoints are nodes.                                               *)
(***************************************************************************)
EXTENDS GraphDelta, ListProofs

(* Every live edge is found from both of its endpoints (delta.rs, out_index*)
(* and in_index: positions stay valid because edges are never removed).    *)
IndexesComplete ==
  \A p \in Live : LET e == added_edges[p].edge
                  IN p \in Range(out_index[e.from]) /\ p \in Range(in_index[e.to])

IInv ==
  /\ Shape
  /\ WellFormed(base)
  /\ IndexesComplete
  /\ ShadowXorTombstone
  /\ PromisedEndpoints
  /\ NoDanglingEdge

(* A finite set has an enumeration, and SetToSeq is one.                   *)
LEMMA SetToSeqType ==
  ASSUME NEW S, IsFiniteSet(S)
  PROVE  SetToSeq(S) \in Seq(S)
<1>1. PICK n \in Nat : ExistsBijection(1..n, S)
  BY FS_NatBijection
<1>2. Cardinality(S) = n
  BY <1>1, FS_CountingElements
<1>3. \E f \in [1..n -> S] : IsInjective(f)
  BY <1>1 DEF ExistsBijection, Bijection, Injection, IsInjective
<1>4. SetToSeq(S) \in [1..n -> S]
  BY <1>2, <1>3 DEF SetToSeq
<1> QED BY <1>4

(* It lists every element once.                                            *)
LEMMA SetToSeqIsEnumeration ==
  ASSUME NEW S, IsFiniteSet(S)
  PROVE  LET s == SetToSeq(S)
         IN /\ Len(s) \in Nat /\ \A i \in 1..Len(s) : s[i] \in S
            /\ \A i, j \in 1..Len(s) : s[i] = s[j] => i = j
            /\ \A x \in S : \E i \in 1..Len(s) : s[i] = x
<1> DEFINE n == Cardinality(S)
           s == SetToSeq(S)
<1>1. n \in Nat /\ ExistsBijection(1..n, S)
  BY FS_CardinalityType
<1>2. \E f \in [1..n -> S] : IsInjective(f)
  BY <1>1 DEF ExistsBijection, Bijection, Injection, IsInjective
<1>3. s \in [1..n -> S] /\ IsInjective(s)
  BY <1>2 DEF SetToSeq
<1> HIDE DEF s
<1>4. Len(s) = n /\ DOMAIN s = 1..n
  BY <1>1, <1>3
<1>5. s \in Injection(1..n, S)
  BY <1>3 DEF Injection, IsInjective
<1>6. IsFiniteSet(1..n) /\ Cardinality(1..n) = n
  BY <1>1, FS_Interval
<1>7. s \in Surjection(1..n, S)
  BY <1>5, <1>6, FS_Injection
<1>8. \A x \in S : \E i \in 1..n : s[i] = x
  BY <1>7 DEF Surjection
<1>9. \A i, j \in 1..n : s[i] = s[j] => i = j
  BY <1>3, <1>4 DEF IsInjective
<1>10. \A i \in 1..n : s[i] \in S
  BY <1>3
<1> HIDE DEF n
<1> QED BY <1>1, <1>4, <1>8, <1>9, <1>10 DEF s

(***************************************************************************)
(* What the readers and the builder return.                                *)
(***************************************************************************)

(* The append-only list holds edges with a flag.                           *)
LEMMA DeltaEdgeType ==
  ASSUME Shape
  PROVE  /\ Len(added_edges) \in Nat
         /\ DOMAIN added_edges = 1..Len(added_edges)
         /\ \A p \in 1..Len(added_edges) :
              /\ added_edges[p] \in [edge: Triples, dead: BOOLEAN]
              /\ added_edges[p].edge \in Triples
              /\ added_edges[p].edge.from \in Names
              /\ added_edges[p].edge.to \in Names
              /\ added_edges[p].dead \in BOOLEAN
<1> DEFINE E == [edge: Triples, dead: BOOLEAN]
<1>1. added_edges \in Seq(E)
  BY DEF Shape
<1>2. /\ Len(added_edges) \in Nat /\ DOMAIN added_edges = 1..Len(added_edges)
      /\ \A p \in 1..Len(added_edges) : added_edges[p] \in E
  <2> HIDE DEF E
  <2> QED BY <1>1
<1>3. \A d \in E : d.edge \in Triples /\ d.dead \in BOOLEAN
  OBVIOUS
<1>4. \A e \in Triples : e.from \in Names /\ e.to \in Names
  BY DEF Triples
<1> QED BY <1>2, <1>3, <1>4

(* A reader of the merged view gets a list of edges.                       *)
LEMMA OutgoingType ==
  ASSUME Shape, NEW x \in Names
  PROVE  outgoing_neighbors(x) \in Seq(Triples)
<1> DEFINE S == {e \in Triples : e.from = x /\ ~Masked(e)}
           R == {p \in Live : added_edges[p].edge.to \notin removed_nodes}
           kept == Pick(out_index[x], R)
<1>1. BaseEdges(S) \in Seq(Triples)
  <2>1. Pick(base.edges, S) \in Seq(Triples \cap S)
    BY PickType DEF Shape, Graphs
  <2>2. Pick(base.edges, S) \in Seq(Triples)
    <3> HIDE DEF S
    <3> QED BY <2>1
  <2> HIDE DEF S
  <2> QED BY <2>2 DEF BaseEdges, Reverse
<1>2. DeltaEdges(kept) \in Seq(Triples)
  <2>1. kept \in Seq((1..Len(added_edges)) \cap R)
    BY PickType DEF Shape
  <2>2. \A i \in 1..Len(kept) : kept[i] \in 1..Len(added_edges)
    <3> HIDE DEF R, kept
    <3> QED BY <2>1
  <2>3. \A p \in 1..Len(added_edges) : added_edges[p].edge \in Triples
    BY DeltaEdgeType
  <2>4. Len(kept) \in Nat
    <3> HIDE DEF R, kept
    <3> QED BY <2>1
  <2> HIDE DEF kept
  <2> QED BY <2>2, <2>3, <2>4 DEF DeltaEdges
<1> HIDE DEF S, kept
<1>3. <<>> \in Seq(Triples)
  OBVIOUS
<1>4. outgoing_neighbors(x) = IF x \in removed_nodes THEN <<>> ELSE BaseEdges(S) \o DeltaEdges(kept)
  BY DEF outgoing_neighbors, S, kept
<1> QED BY <1>1, <1>2, <1>3, <1>4

(* What compaction hands to the builder is a graph.                        *)
LEMMA MaterializeType ==
  ASSUME Shape
  PROVE  /\ materialize.nodes \in [LiveNames -> Data]
         /\ materialize.edges \in Seq(Triples)
<1>1. \A x \in LiveNames : get_node(x) \in Data
  <2> SUFFICES ASSUME NEW x \in LiveNames PROVE get_node(x) \in Data
    OBVIOUS
  <2>1. CASE x \in DOMAIN added_nodes
    BY <2>1 DEF Shape, Range, get_node
  <2>2. CASE x \notin DOMAIN added_nodes
    <3>1. x \in DOMAIN base.nodes
      BY <2>2 DEF LiveNames, IsPresent
    <3>2. \E N \in SUBSET Names : base.nodes \in [N -> Data]
      BY DEF Shape, Graphs
    <3> QED BY <2>2, <3>1, <3>2 DEF get_node
  <2> QED BY <2>1, <2>2
<1>2. EdgesOut \in Seq(Triples)
  <2> DEFINE sources == SetToSeq(LiveNames)
             lists == [i \in 1..Len(sources) |-> outgoing_neighbors(sources[i])]
  <2>1. IsFiniteSet(LiveNames)
    BY BasesAssumption, FS_Subset DEF LiveNames
  <2>2. sources \in Seq(LiveNames)
    BY <2>1, SetToSeqType
  <2>3. \A i \in 1..Len(sources) : outgoing_neighbors(sources[i]) \in Seq(Triples)
    <3> SUFFICES ASSUME NEW i \in 1..Len(sources)
                 PROVE outgoing_neighbors(sources[i]) \in Seq(Triples)
      OBVIOUS
    <3>1. sources[i] \in Names
      <4> HIDE DEF sources
      <4> QED BY <2>2 DEF LiveNames
    <3> QED BY <3>1, OutgoingType
  <2>4. lists \in Seq(Seq(Triples))
    <3>1. Len(sources) \in Nat
      <4> HIDE DEF sources
      <4> QED BY <2>2
    <3> HIDE DEF sources
    <3> QED BY <2>3, <3>1
  <2> HIDE DEF lists
  <2>5. FlattenSeq(lists) \in Seq(Triples)
    BY <2>4, FlattenSeqType
  <2> QED BY <2>5 DEF EdgesOut, lists
<1> QED BY <1>1, <1>2 DEF materialize

(* The builder keeps an edge only between nodes it has: the new base is a  *)
(* well-formed graph whatever the old base and the delta were.             *)
LEMMA BuildGraphType ==
  ASSUME Shape
  PROVE  build_graph(materialize) \in Graphs /\ WellFormed(build_graph(materialize))
<1> DEFINE S == {e \in Triples : {e.from, e.to} \subseteq DOMAIN materialize.nodes}
           es == Pick(materialize.edges, S)
           g == build_graph(materialize)
<1>1. es \in Seq(Triples \cap S)
  BY MaterializeType, PickType
<1>2. g = [nodes |-> materialize.nodes, edges |-> es]
  BY DEF build_graph
<1> HIDE DEF es, g
<1>3. es \in Seq(Triples) /\ \A e \in Range(es) : e \in S
  <2> HIDE DEF S
  <2> QED BY <1>1 DEF Range
<1>4. LiveNames \in SUBSET Names
  BY DEF LiveNames
<1>5. g \in Graphs
  BY <1>2, <1>3, <1>4, MaterializeType DEF Graphs
<1>6. WellFormed(g)
  BY <1>2, <1>3 DEF WellFormed
<1> QED BY <1>5, <1>6 DEF g

(***************************************************************************)
(* What the steps of pass 2 have in common.                                *)
(***************************************************************************)

(* The fields of an operation are what its kind says.                      *)
LEMMA OpFields ==
  ASSUME NEW op \in Ops
  PROVE  /\ op.op = "UpsertNode" => op.name \in Names /\ op.data \in Data
         /\ op.op = "RemoveNode" => op.name \in Names
         /\ op.op \in {"AddEdge", "RemoveEdge"} => op.edge \in Triples
<1>1. CASE op \in [op: {"UpsertNode"}, name: Names, data: Data]
  BY <1>1
<1>2. CASE op \in [op: {"RemoveNode"}, name: Names]
  BY <1>2
<1>3. CASE op \in [op: {"AddEdge"}, edge: Triples, satisfiable: BOOLEAN]
  <2> HIDE DEF Triples
  <2> QED BY <1>3
<1>4. CASE op \in [op: {"RemoveEdge"}, edge: Triples]
  <2> HIDE DEF Triples
  <2> QED BY <1>4
<1> QED BY <1>1, <1>2, <1>3, <1>4 DEF Ops

(* Pass 2 takes the operations off the head of a sequence of operations.   *)
LEMMA TodoType ==
  ASSUME todo \in Seq(Ops), todo # <<>>
  PROVE  /\ Head(todo) \in Ops /\ Head(todo) = todo[1]
         /\ Tail(todo) \in Seq(Ops)
         /\ Len(todo) \in Nat \ {0}
         /\ Len(Tail(todo)) = Len(todo) - 1
         /\ \A i \in 1..(Len(todo) - 1) : Tail(todo)[i] = todo[i + 1]
         /\ \A i \in 1..Len(todo) : todo[i] \in Ops
OBVIOUS

(* The scratch copy of pass 1 stays right while pass 2 consumes the batch: *)
(* if a step does to the presence of every name what its operation says,   *)
(* what was promised of the rest of the batch still holds (apply).         *)
LEMMA ScratchStaysRight ==
  ASSUME todo \in Seq(Ops), todo # <<>>, todo' = Tail(todo), PromisedEndpoints,
         \A x \in Names :
           IsPresent(x)' <=> IF Touches(Head(todo), x) THEN Head(todo).op = "UpsertNode"
                             ELSE IsPresent(x)
  PROVE  PromisedEndpoints'
<1>1. ASSUME NEW x \in Names, NEW i \in 1..(Len(todo) - 1), PresentAt(todo, i + 1, x)
      PROVE  PresentAt(todo, i, x)'
  <2>1. \A j \in 1..(i - 1) : todo'[j] = todo[j + 1] /\ j + 1 \in 2..i
    BY TodoType
  <2>2. ASSUME NEW j \in 1..i, Touches(todo[j], x), todo[j].op = "UpsertNode",
               \A m \in (j + 1)..i : ~Touches(todo[m], x)
        PROVE  PresentAt(todo, i, x)'
    <3>1. CASE j = 1
      <4>1. IsPresent(x)'
        BY <2>2, <3>1, TodoType
      <4>2. \A k \in 1..(i - 1) : ~Touches(todo'[k], x)
        BY <2>1, <2>2, <3>1
      <4> QED BY <4>1, <4>2 DEF PresentAt, Touches
    <3>2. CASE j # 1
      <4>1. j - 1 \in 1..(i - 1) /\ todo'[j - 1] = todo[j]
        BY <2>1, <3>2
      <4>2. \A m \in ((j - 1) + 1)..(i - 1) : ~Touches(todo'[m], x)
        BY <2>1, <2>2
      <4> QED BY <2>2, <4>1, <4>2 DEF PresentAt, Touches
    <3> QED BY <3>1, <3>2
  <2>3. ASSUME IsPresent(x), \A j \in 1..i : ~Touches(todo[j], x)
        PROVE  PresentAt(todo, i, x)'
    <3>1. IsPresent(x)'
      BY <2>3, TodoType
    <3>2. \A k \in 1..(i - 1) : ~Touches(todo'[k], x)
      BY <2>1, <2>3
    <3> QED BY <3>1, <3>2 DEF PresentAt, Touches
  <2>4. (i + 1) - 1 = i
    OBVIOUS
  <2> QED BY <1>1, <2>2, <2>3, <2>4 DEF PresentAt
<1>2. ASSUME NEW i \in DOMAIN todo', todo'[i].op = "AddEdge"
      PROVE  /\ todo'[i].satisfiable
             /\ PresentAt(todo, i, todo[i].edge.from)' /\ PresentAt(todo, i, todo[i].edge.to)'
  <2>1. i \in 1..(Len(todo) - 1) /\ i + 1 \in DOMAIN todo /\ todo'[i] = todo[i + 1]
    BY TodoType
  <2>2. todo[i + 1] \in Ops /\ todo[i + 1].op = "AddEdge"
    BY <1>2, <2>1, TodoType
  <2>3. todo[i + 1].edge.from \in Names /\ todo[i + 1].edge.to \in Names
    BY <2>2, OpFields DEF Triples
  <2>4. /\ todo[i + 1].satisfiable
        /\ PresentAt(todo, i + 1, todo[i + 1].edge.from)
        /\ PresentAt(todo, i + 1, todo[i + 1].edge.to)
    BY <2>1, <2>2 DEF PromisedEndpoints, Accepts
  <2> QED BY <1>1, <2>1, <2>3, <2>4 DEF PresentAt
<1> QED BY <1>2 DEF PromisedEndpoints, Accepts

(* Killing edges changes their flags and nothing else about them.          *)
LEMMA KillMarks ==
  ASSUME Shape, NEW positions, Kill(positions)
  PROVE  /\ added_edges' \in Seq([edge: Triples, dead: BOOLEAN])
         /\ Len(added_edges') = Len(added_edges)
         /\ Live' = Live \ positions
         /\ \A p \in 1..Len(added_edges) : added_edges'[p].edge = added_edges[p].edge
<1> DEFINE E == [edge: Triples, dead: BOOLEAN]
           n == Len(added_edges)
<1>1. n \in Nat /\ DOMAIN added_edges = 1..n /\ \A p \in 1..n : added_edges[p] \in E
  BY DeltaEdgeType
<1>2. added_edges' = [p \in 1..n |-> IF p \in positions
                                     THEN [added_edges[p] EXCEPT !.dead = TRUE]
                                     ELSE added_edges[p]]
  BY <1>1 DEF Kill
<1>3. \A p \in 1..n : /\ [added_edges[p] EXCEPT !.dead = TRUE] \in E
                      /\ [added_edges[p] EXCEPT !.dead = TRUE].dead = TRUE
                      /\ [added_edges[p] EXCEPT !.dead = TRUE].edge = added_edges[p].edge
  <2> SUFFICES ASSUME NEW d \in E
               PROVE  /\ [d EXCEPT !.dead = TRUE] \in E
                      /\ [d EXCEPT !.dead = TRUE].dead = TRUE
                      /\ [d EXCEPT !.dead = TRUE].edge = d.edge
    <3> HIDE DEF E
    <3> QED BY <1>1
  <2> HIDE DEF Triples
  <2> QED OBVIOUS
<1> HIDE DEF E, n
<1>4. added_edges' \in Seq(E) /\ Len(added_edges') = n
  BY <1>1, <1>2, <1>3
<1>5. \A p \in 1..n : /\ added_edges'[p].edge = added_edges[p].edge
                      /\ ~added_edges'[p].dead <=> ~added_edges[p].dead /\ p \notin positions
  BY <1>2, <1>3
<1>6. Live' = {p \in 1..n : ~added_edges'[p].dead} /\ Live = {p \in 1..n : ~added_edges[p].dead}
  BY <1>4 DEF Live, n
<1> QED BY <1>4, <1>5, <1>6 DEF E, n

(* NoDanglingEdge in terms of positions.                                   *)
LEMMA LiveEdgesForm ==
  Shape => (NoDanglingEdge <=>
    /\ \A e \in Range(base.edges) : ~Masked(e) => IsPresent(e.from) /\ IsPresent(e.to)
    /\ \A p \in Live : IsPresent(added_edges[p].edge.from) /\ IsPresent(added_edges[p].edge.to))
<1> SUFFICES ASSUME Shape
             PROVE (\A d \in Range(added_edges) :
                      ~d.dead => IsPresent(d.edge.from) /\ IsPresent(d.edge.to))
                   <=> (\A p \in Live : IsPresent(added_edges[p].edge.from)
                                       /\ IsPresent(added_edges[p].edge.to))
  BY DEF NoDanglingEdge
<1> QED BY DeltaEdgeType DEF Range, Live

(* An unmasked base edge has both endpoints in a well-formed base.         *)
LEMMA BaseEdgesCovered ==
  WellFormed(base) =>
    \A e \in Range(base.edges) : ~Masked(e) => IsPresent(e.from) /\ IsPresent(e.to)
BY DEF WellFormed, Masked, IsPresent

(* A step keeps the invariant if it keeps its parts and, of the live delta *)
(* edges it leaves, the endpoints.                                         *)
LEMMA PartsSuffice ==
  ASSUME Shape', WellFormed(base)', IndexesComplete', ShadowXorTombstone', PromisedEndpoints',
         \A p \in Live' : /\ IsPresent(added_edges[p].edge.from)'
                          /\ IsPresent(added_edges[p].edge.to)'
  PROVE  IInv'
<1>1. (Shape => (NoDanglingEdge <=>
        /\ \A e \in Range(base.edges) : ~Masked(e) => IsPresent(e.from) /\ IsPresent(e.to)
        /\ \A p \in Live :
             IsPresent(added_edges[p].edge.from) /\ IsPresent(added_edges[p].edge.to)))'
  BY LiveEdgesForm, PTL
<1>2. (WellFormed(base) =>
        \A e \in Range(base.edges) : ~Masked(e) => IsPresent(e.from) /\ IsPresent(e.to))'
  BY BaseEdgesCovered, PTL
<1>3. NoDanglingEdge'
  BY <1>1, <1>2
<1> QED BY <1>3 DEF IInv

(***************************************************************************)
(* The invariant holds at first and every step keeps it.                   *)
(***************************************************************************)

(* Both endpoints of a live delta edge are present.                        *)
LEMMA LiveEndpoints ==
  ASSUME IInv
  PROVE  \A p \in Live : IsPresent(added_edges[p].edge.from) /\ IsPresent(added_edges[p].edge.to)
BY LiveEdgesForm DEF IInv

(* A fresh delta over a well-formed base, as new and fold leave one.       *)
Fresh ==
  /\ base \in Graphs /\ WellFormed(base) /\ todo = <<>>
  /\ added_nodes = NoNodes /\ added_edges = <<>>
  /\ removed_nodes = {} /\ removed_edges = {}
  /\ out_index = NoIndex /\ in_index = NoIndex

(* It satisfies the invariant.                                             *)
LEMMA FreshDelta == Fresh => IInv
<1> SUFFICES ASSUME Fresh PROVE IInv
  OBVIOUS
<1> USE DEF Fresh
<1>1. Shape
  <2>1. NoIndex \in [Names -> Seq(1..Len(added_edges))]
    BY DEF NoIndex
  <2>2. added_edges \in Seq([edge: Triples, dead: BOOLEAN]) /\ todo \in Seq(Ops)
    OBVIOUS
  <2>3. DOMAIN added_nodes = {} /\ Range(added_nodes) = {}
    BY DEF NoNodes, Range
  <2> QED BY <2>1, <2>2, <2>3 DEF Shape
<1>2. Live = {}
  BY DEF Live
<1>3. IndexesComplete
  BY <1>2 DEF IndexesComplete
<1>4. ShadowXorTombstone
  BY DEF ShadowXorTombstone
<1>5. PromisedEndpoints
  BY DEF PromisedEndpoints, Accepts
<1>6. NoDanglingEdge
  BY <1>1, <1>2, LiveEdgesForm, BaseEdgesCovered
<1> QED BY <1>1, <1>3, <1>4, <1>5, <1>6 DEF IInv

(* A new store has one of the bases and an empty delta.                    *)
LEMMA InitIInv == Init => IInv
<1> SUFFICES ASSUME Init PROVE IInv
  OBVIOUS
<1>1. base \in Graphs /\ WellFormed(base)
  BY BasesAssumption DEF Init
<1> QED BY <1>1, FreshDelta DEF Init, Fresh

(* Pass 1 accepts exactly the batches that keep its promise.               *)
LEMMA ApplyKeeps ==
  ASSUME IInv, NEW ops \in Batches, Apply(ops)
  PROVE  IInv'
<1>1. todo' \in Seq(Ops)
  <2>1. PICK n \in Int : ops \in [1..n -> Ops]
    BY DEF Batches
  <2>2. ops \in Seq(Ops)
    <3>1. CASE n < 0
      BY <2>1, <3>1
    <3>2. CASE n >= 0
      BY <2>1, <3>2
    <3> QED BY <2>1, <3>1, <3>2
  <2> QED BY <2>2 DEF Apply
<1>2. Shape'
  BY <1>1 DEF IInv, Shape, Apply, delta
<1>3. PromisedEndpoints'
  BY DEF Apply, delta, PromisedEndpoints, Accepts, PresentAt, IsPresent
<1>4. WellFormed(base)' /\ IndexesComplete' /\ ShadowXorTombstone'
  BY DEF IInv, Apply, delta, WellFormed, IndexesComplete, ShadowXorTombstone, Live
<1>5. \A p \in Live' : IsPresent(added_edges[p].edge.from)' /\ IsPresent(added_edges[p].edge.to)'
  BY LiveEndpoints DEF Apply, delta, Live, IsPresent
<1> QED BY <1>2, <1>3, <1>4, <1>5, PartsSuffice

(* A compaction hands a well-formed graph to a fresh delta.                *)
LEMMA FoldKeeps ==
  ASSUME IInv, Fold
  PROVE  IInv'
<1>1. base' \in Graphs /\ WellFormed(base')
  BY BuildGraphType DEF IInv, Fold
<1>2. Fresh' => IInv'
  BY FreshDelta, PTL
<1> QED BY <1>1, <1>2 DEF Fold, Fresh, WellFormed

(* An upsert brings its node into sight and hides nothing.                 *)
LEMMA UpsertKeeps ==
  ASSUME IInv, UpsertNode
  PROVE  IInv'
<1> DEFINE x == Head(todo).name
<1>1. todo \in Seq(Ops) /\ todo # <<>> /\ Head(todo) \in Ops /\ Head(todo).op = "UpsertNode"
  BY TodoType DEF IInv, Shape, UpsertNode, Head_is
<1>2. x \in Names /\ Head(todo).data \in Data
  BY <1>1, OpFields
<1>3. /\ removed_nodes' = removed_nodes \ {x}
      /\ added_nodes' = [y \in DOMAIN added_nodes \cup {x} |->
                           IF y = x THEN Head(todo).data ELSE added_nodes[y]]
      /\ todo' = Tail(todo)
      /\ UNCHANGED <<base, added_edges, removed_edges, out_index, in_index>>
  BY DEF UpsertNode
<1> HIDE DEF x
<1>4. \A y : IsPresent(y)' <=> y = x \/ IsPresent(y)
  BY <1>3 DEF IsPresent
<1>5. Shape'
  <2>1. DOMAIN added_nodes' \subseteq Names /\ Range(added_nodes)' \subseteq Data
    BY <1>2, <1>3 DEF IInv, Shape, Range
  <2>2. todo' \in Seq(Ops)
    BY <1>1, <1>3, TodoType
  <2> QED BY <1>3, <2>1, <2>2 DEF IInv, Shape
<1>6. WellFormed(base)' /\ IndexesComplete'
  BY <1>3 DEF IInv, WellFormed, IndexesComplete, Live
<1>7. ShadowXorTombstone'
  BY <1>3 DEF IInv, ShadowXorTombstone
<1>8. PromisedEndpoints'
  BY <1>1, <1>3, <1>4, ScratchStaysRight DEF IInv, Touches, x
<1>9. \A p \in Live' : IsPresent(added_edges[p].edge.from)' /\ IsPresent(added_edges[p].edge.to)'
  BY <1>3, <1>4, LiveEndpoints DEF Live
<1> QED BY <1>5, <1>6, <1>7, <1>8, <1>9, PartsSuffice

(* A removal takes with it every live edge at its node: the side indices   *)
(* know them all.                                                          *)
LEMMA RemoveNodeKeeps ==
  ASSUME IInv, RemoveNode
  PROVE  IInv'
<1> DEFINE x    == Head(todo).name
           gone == Range(out_index[x]) \cup Range(in_index[x])
<1>0. Shape
  BY DEF IInv
<1>1. todo \in Seq(Ops) /\ todo # <<>> /\ Head(todo) \in Ops /\ Head(todo).op = "RemoveNode"
  BY TodoType DEF IInv, Shape, RemoveNode, Head_is
<1>2. x \in Names
  BY <1>1, OpFields
<1>3. /\ removed_nodes' = removed_nodes \cup {x}
      /\ added_nodes' = [y \in DOMAIN added_nodes \ {x} |-> added_nodes[y]]
      /\ Kill(gone)
      /\ todo' = Tail(todo)
      /\ UNCHANGED <<base, removed_edges, out_index, in_index>>
  BY DEF RemoveNode
<1>4. /\ added_edges' \in Seq([edge: Triples, dead: BOOLEAN])
      /\ Len(added_edges') = Len(added_edges)
      /\ Live' = Live \ gone
      /\ \A p \in 1..Len(added_edges) : added_edges'[p].edge = added_edges[p].edge
  <2> HIDE DEF gone
  <2> QED BY <1>0, <1>3, KillMarks
<1>5. Live \subseteq 1..Len(added_edges)
  BY DEF Live
<1> HIDE DEF x
<1>6. \A y : IsPresent(y)' <=> y # x /\ IsPresent(y)
  BY <1>3 DEF IsPresent
<1>7. Shape'
  <2>1. DOMAIN added_nodes' \subseteq Names /\ Range(added_nodes)' \subseteq Data
    BY <1>0, <1>3 DEF Shape, Range
  <2>2. todo' \in Seq(Ops)
    BY <1>1, <1>3, TodoType
  <2> QED BY <1>0, <1>2, <1>3, <1>4, <2>1, <2>2 DEF Shape
<1>8. WellFormed(base)' /\ IndexesComplete'
  BY <1>3, <1>4, <1>5 DEF IInv, WellFormed, IndexesComplete
<1>9. ShadowXorTombstone'
  BY <1>3 DEF IInv, ShadowXorTombstone
<1>10. PromisedEndpoints'
  BY <1>1, <1>3, <1>6, ScratchStaysRight DEF IInv, Touches, x
<1>11. \A p \in Live' : IsPresent(added_edges[p].edge.from)' /\ IsPresent(added_edges[p].edge.to)'
  <2> SUFFICES ASSUME NEW p \in Live'
               PROVE IsPresent(added_edges[p].edge.from)' /\ IsPresent(added_edges[p].edge.to)'
    OBVIOUS
  <2>1. p \in Live /\ p \notin gone /\ added_edges'[p].edge = added_edges[p].edge
    BY <1>4, <1>5
  <2>2. added_edges[p].edge.from # x /\ added_edges[p].edge.to # x
    BY <2>1 DEF IInv, IndexesComplete
  <2> QED BY <1>6, <2>1, <2>2, LiveEndpoints
<1> QED BY <1>7, <1>8, <1>9, <1>10, <1>11, PartsSuffice

(* A removed edge dies where it is found, and nothing else changes.        *)
LEMMA RemoveEdgeKeeps ==
  ASSUME IInv, RemoveEdge
  PROVE  IInv'
<1> DEFINE e    == Head(todo).edge
           gone == {p \in Range(out_index[e.from]) : added_edges[p].edge = e}
<1>0. Shape
  BY DEF IInv
<1>1. todo \in Seq(Ops) /\ todo # <<>> /\ Head(todo) \in Ops /\ Head(todo).op = "RemoveEdge"
  BY TodoType DEF IInv, Shape, RemoveEdge, Head_is
<1>2. e \in Triples
  BY <1>1, OpFields
<1>3. /\ removed_edges' = removed_edges \cup {e}
      /\ Kill(gone)
      /\ todo' = Tail(todo)
      /\ UNCHANGED <<base, added_nodes, removed_nodes, out_index, in_index>>
  BY DEF RemoveEdge
<1>4. /\ added_edges' \in Seq([edge: Triples, dead: BOOLEAN])
      /\ Len(added_edges') = Len(added_edges)
      /\ Live' = Live \ gone
      /\ \A p \in 1..Len(added_edges) : added_edges'[p].edge = added_edges[p].edge
  <2> HIDE DEF gone
  <2> QED BY <1>0, <1>3, KillMarks
<1>5. Live \subseteq 1..Len(added_edges)
  BY DEF Live
<1> HIDE DEF e, gone
<1>6. \A y : IsPresent(y)' <=> IsPresent(y)
  BY <1>3 DEF IsPresent
<1>7. Shape'
  <2>1. todo' \in Seq(Ops)
    BY <1>1, <1>3, TodoType
  <2>2. removed_edges' \subseteq Triples
    BY <1>0, <1>2, <1>3 DEF Shape
  <2> QED BY <1>0, <1>3, <1>4, <2>1, <2>2 DEF Shape
<1>8. WellFormed(base)' /\ IndexesComplete'
  BY <1>3, <1>4, <1>5 DEF IInv, WellFormed, IndexesComplete
<1>9. ShadowXorTombstone'
  BY <1>3 DEF IInv, ShadowXorTombstone
<1>10. PromisedEndpoints'
  BY <1>1, <1>3, <1>6, ScratchStaysRight DEF IInv, Touches
<1>11. \A p \in Live' : IsPresent(added_edges[p].edge.from)' /\ IsPresent(added_edges[p].edge.to)'
  BY <1>4, <1>5, <1>6, LiveEndpoints
<1> QED BY <1>7, <1>8, <1>9, <1>10, <1>11, PartsSuffice

(* A new edge enters both side indices, and its endpoints are present by   *)
(* what pass 1 promised.                                                   *)
LEMMA AddEdgeKeeps ==
  ASSUME IInv, AddEdge
  PROVE  IInv'
<1> DEFINE e == Head(todo).edge
           n == Len(added_edges)
           E == [edge: Triples, dead: BOOLEAN]
           new == [edge |-> e, dead |-> FALSE]
<1>0. Shape
  BY DEF IInv
<1>1. todo \in Seq(Ops) /\ todo # <<>> /\ Head(todo) \in Ops /\ Head(todo).op = "AddEdge"
  BY TodoType DEF IInv, Shape, AddEdge, Head_is
<1>2. e \in Triples /\ e.from \in Names /\ e.to \in Names
  <2>1. e \in Triples
    BY <1>1, OpFields
  <2> HIDE DEF e
  <2> QED BY <2>1 DEF Triples
<1>3. /\ added_edges' = Append(added_edges, new)
      /\ out_index' = [out_index EXCEPT ![e.from] = Append(@, n + 1)]
      /\ in_index' = [in_index EXCEPT ![e.to] = Append(@, n + 1)]
      /\ todo' = Tail(todo)
      /\ UNCHANGED <<base, added_nodes, removed_nodes, removed_edges>>
  BY DEF AddEdge
<1>4. added_edges \in Seq(E) /\ n \in Nat
  BY <1>0 DEF Shape
<1>5. new \in E /\ new.edge = e /\ new.dead = FALSE
  <2> HIDE DEF e
  <2> QED BY <1>2
<1>6. /\ added_edges' \in Seq(E) /\ Len(added_edges') = n + 1
      /\ \A p \in 1..n : added_edges'[p] = added_edges[p]
      /\ added_edges'[n + 1] = new
  <2> HIDE DEF E, new, e
  <2> QED BY <1>3, <1>4, <1>5
<1>7. /\ IsPresent(e.from) /\ IsPresent(e.to)
  <2>1. 1 \in DOMAIN todo /\ todo[1] = Head(todo)
    BY <1>1
  <2>2. PresentAt(todo, 1, e.from) /\ PresentAt(todo, 1, e.to)
    BY <1>1, <2>1 DEF IInv, PromisedEndpoints, Accepts
  <2>3. \A j \in 1..(1 - 1) : FALSE
    OBVIOUS
  <2> HIDE DEF e
  <2> QED BY <2>2, <2>3 DEF PresentAt
<1>8. Live \subseteq 1..n /\ Live' = Live \cup {n + 1}
  <2> HIDE DEF new, E
  <2> QED BY <1>4, <1>5, <1>6 DEF Live, n
<1>9. \A y : IsPresent(y)' <=> IsPresent(y)
  BY <1>3 DEF IsPresent
<1> HIDE DEF e, new, n
<1>10. \A y \in Names :
         /\ out_index'[y] \in Seq(1..(n + 1)) /\ in_index'[y] \in Seq(1..(n + 1))
         /\ Range(out_index[y]) \subseteq Range(out_index'[y])
         /\ Range(in_index[y]) \subseteq Range(in_index'[y])
  <2> SUFFICES ASSUME NEW s \in Seq(1..n)
               PROVE  /\ s \in Seq(1..(n + 1)) /\ Append(s, n + 1) \in Seq(1..(n + 1))
                      /\ Range(s) \subseteq Range(Append(s, n + 1))
    <3>1. \A y \in Names : out_index[y] \in Seq(1..n) /\ in_index[y] \in Seq(1..n)
      BY <1>0 DEF Shape, n
    <3>2. out_index \in [Names -> Seq(1..n)] /\ in_index \in [Names -> Seq(1..n)]
      BY <1>0 DEF Shape, n
    <3> QED BY <1>3, <3>1, <3>2
  <2>1. \A i \in 1..Len(s) : s[i] \in 1..(n + 1)
    BY <1>4
  <2>2. s \in Seq(1..(n + 1))
    <3>1. Len(s) \in Nat /\ s = [i \in 1..Len(s) |-> s[i]]
      OBVIOUS
    <3>2. [i \in 1..Len(s) |-> s[i]] \in Seq(1..(n + 1))
      BY <2>1, <3>1
    <3> QED BY <3>1, <3>2
  <2>3. n + 1 \in 1..(n + 1)
    BY <1>4
  <2>4. Append(s, n + 1) \in Seq(1..(n + 1))
    BY <2>2, <2>3
  <2>5. \A i \in 1..Len(s) : Append(s, n + 1)[i] = s[i] /\ i \in 1..Len(Append(s, n + 1))
    BY <2>2, <2>3
  <2>6. Range(s) \subseteq Range(Append(s, n + 1))
    BY <2>2, <2>4, <2>5 DEF Range
  <2> QED BY <2>2, <2>4, <2>6
<1>11. n + 1 \in Range(out_index'[e.from]) /\ n + 1 \in Range(in_index'[e.to])
  <2>1. out_index[e.from] \in Seq(1..n) /\ in_index[e.to] \in Seq(1..n)
    BY <1>0, <1>2 DEF Shape, n
  <2>2. /\ out_index'[e.from] = Append(out_index[e.from], n + 1)
        /\ in_index'[e.to] = Append(in_index[e.to], n + 1)
    BY <1>0, <1>2, <1>3 DEF Shape
  <2>3. ASSUME NEW s \in Seq(1..n) PROVE n + 1 \in Range(Append(s, n + 1))
    <3>1. Len(s) + 1 \in 1..Len(Append(s, n + 1)) /\ Append(s, n + 1)[Len(s) + 1] = n + 1
      OBVIOUS
    <3>2. DOMAIN Append(s, n + 1) = 1..Len(Append(s, n + 1))
      OBVIOUS
    <3> QED BY <3>1, <3>2 DEF Range
  <2> QED BY <2>1, <2>2, <2>3
<1>12. Shape'
  <2>1. todo' \in Seq(Ops)
    BY <1>1, <1>3, TodoType
  <2>2. /\ out_index' \in [Names -> Seq(1..(n + 1))]
        /\ in_index' \in [Names -> Seq(1..(n + 1))]
    <3>1. /\ DOMAIN out_index' = Names /\ out_index' = [y \in DOMAIN out_index' |-> out_index'[y]]
          /\ DOMAIN in_index' = Names /\ in_index' = [y \in DOMAIN in_index' |-> in_index'[y]]
      BY <1>0, <1>3 DEF Shape
    <3> QED BY <1>10, <3>1
  <2> QED BY <1>0, <1>3, <1>6, <2>1, <2>2 DEF Shape
<1>13. WellFormed(base)' /\ ShadowXorTombstone'
  BY <1>3 DEF IInv, WellFormed, ShadowXorTombstone
<1>14. IndexesComplete'
  <2> SUFFICES ASSUME NEW p \in Live'
               PROVE  /\ p \in Range(out_index'[added_edges'[p].edge.from])
                      /\ p \in Range(in_index'[added_edges'[p].edge.to])
    BY DEF IndexesComplete
  <2>1. CASE p = n + 1
    BY <1>5, <1>6, <1>11, <2>1
  <2>2. CASE p # n + 1
    <3>1. p \in Live /\ p \in 1..n /\ added_edges'[p] = added_edges[p]
      BY <1>6, <1>8, <2>2
    <3>2. added_edges[p].edge.from \in Names /\ added_edges[p].edge.to \in Names
      BY <1>0, <3>1, DeltaEdgeType DEF n
    <3> QED BY <1>10, <3>1, <3>2 DEF IInv, IndexesComplete
  <2> QED BY <2>1, <2>2
<1>15. PromisedEndpoints'
  BY <1>1, <1>3, <1>9, ScratchStaysRight DEF IInv, Touches
<1>16. \A p \in Live' : IsPresent(added_edges[p].edge.from)' /\ IsPresent(added_edges[p].edge.to)'
  BY <1>5, <1>6, <1>7, <1>8, <1>9, LiveEndpoints
<1> QED BY <1>12, <1>13, <1>14, <1>15, <1>16, PartsSuffice

(* Every step keeps the invariant.                                         *)
LEMMA NextIInv == IInv /\ [Next]_vars => IInv'
<1> SUFFICES ASSUME IInv, [Next]_vars PROVE IInv'
  OBVIOUS
<1>1. ASSUME NEW ops \in Batches, Apply(ops) PROVE IInv'
  BY <1>1, ApplyKeeps
<1>2. CASE UpsertNode
  BY <1>2, UpsertKeeps
<1>3. CASE RemoveNode
  BY <1>3, RemoveNodeKeeps
<1>4. CASE AddEdge
  BY <1>4, AddEdgeKeeps
<1>5. CASE RemoveEdge
  BY <1>5, RemoveEdgeKeeps
<1>6. CASE Fold
  BY <1>6, FoldKeeps
<1>7. CASE UNCHANGED vars
  <2> USE <1>7 DEF vars, delta, IInv
  <2>1. Shape' /\ WellFormed(base)' /\ IndexesComplete' /\ ShadowXorTombstone'
    BY DEF Shape, WellFormed, IndexesComplete, ShadowXorTombstone, Live
  <2>2. PromisedEndpoints' /\ NoDanglingEdge'
    BY DEF PromisedEndpoints, Accepts, PresentAt, NoDanglingEdge, Masked, IsPresent
  <2> QED BY <2>1, <2>2
<1> QED BY <1>1, <1>2, <1>3, <1>4, <1>5, <1>6, <1>7 DEF Next, Mutate

(* The invariant holds of every reachable state.                           *)
THEOREM Invariant == Spec => []IInv
BY InitIInv, NextIInv, PTL DEF Spec

(* No name is ever both shadowed and tombstoned: upsert_node and           *)
(* remove_node keep added_nodes and removed_nodes apart.                   *)
THEOREM ShadowsAndTombstonesApart == Spec => []ShadowXorTombstone
<1>1. IInv => ShadowXorTombstone
  BY DEF IInv
<1> QED BY <1>1, Invariant, PTL

(* Pass 2 of apply never meets an AddEdge whose endpoint is absent by      *)
(* then: the scratch copy of pass 1 predicts it, whatever the batch.       *)
THEOREM EndpointsArePromised == Spec => []PromisedEndpoints
<1>1. IInv => PromisedEndpoints
  BY DEF IInv
<1> QED BY <1>1, Invariant, PTL

(* No live edge of the merged view ever has an absent endpoint, so         *)
(* build_graph's silent skip never drops an edge of a compaction.          *)
THEOREM EdgesNeverDangle == Spec => []NoDanglingEdge
<1>1. IInv => NoDanglingEdge
  BY DEF IInv
<1> QED BY <1>1, Invariant, PTL

(***************************************************************************)
(* The four counters.                                                      *)
(***************************************************************************)

(* The base edges that a set of node tombstones and a set of edge          *)
(* tombstones hide.                                                        *)
MaskedBy(R, E) ==
  {i \in DOMAIN base.edges :
     \/ {base.edges[i].from, base.edges[i].to} \cap R # {}
     \/ base.edges[i] \in E}

(* CountersExact, with what the two counts of edges count given a name.    *)
Recount ==
  /\ tombstone_base_hits = Cardinality(removed_nodes \cap DOMAIN base.nodes)
  /\ added_non_base = Cardinality(DOMAIN added_nodes \ DOMAIN base.nodes)
  /\ masked_base_edge_count = Cardinality(MaskedBy(removed_nodes, removed_edges))
  /\ live_delta_edge_count = Cardinality(Live)

(* The two say the same.                                                   *)
LEMMA RecountForm == Shape => (CountersExact <=> Recount)
<1> SUFFICES ASSUME Shape PROVE CountersExact <=> Recount
  OBVIOUS
<1>1. {i \in DOMAIN base.edges : Masked(base.edges[i])} = MaskedBy(removed_nodes, removed_edges)
  BY DEF MaskedBy, Masked
<1>2. {p \in DOMAIN added_edges : ~added_edges[p].dead} = Live
  BY DeltaEdgeType DEF Live
<1> QED BY <1>1, <1>2 DEF CountersExact, Recount

(* What is counted is finite.                                              *)
LEMMA FiniteParts ==
  ASSUME Shape
  PROVE  /\ IsFiniteSet(DOMAIN base.nodes) /\ DOMAIN base.nodes \subseteq Names
         /\ IsFiniteSet(removed_nodes) /\ IsFiniteSet(DOMAIN added_nodes)
         /\ IsFiniteSet(DOMAIN base.edges)
         /\ \A i \in DOMAIN base.edges :
              /\ base.edges[i] \in Triples
              /\ base.edges[i].from \in Names /\ base.edges[i].to \in Names
         /\ IsFiniteSet(Live)
<1>1. PICK N \in SUBSET Names : base.nodes \in [N -> Data]
  BY DEF Shape, Graphs
<1>2. /\ IsFiniteSet(DOMAIN base.nodes) /\ DOMAIN base.nodes \subseteq Names
      /\ IsFiniteSet(removed_nodes) /\ IsFiniteSet(DOMAIN added_nodes)
  BY <1>1, BasesAssumption, FS_Subset DEF Shape
<1>3. base.edges \in Seq(Triples)
  BY DEF Shape, Graphs
<1>4. /\ DOMAIN base.edges = 1..Len(base.edges) /\ Len(base.edges) \in Nat
      /\ \A i \in DOMAIN base.edges : base.edges[i] \in Triples
  <2> HIDE DEF Triples
  <2> QED BY <1>3
<1>5. IsFiniteSet(DOMAIN base.edges)
  BY <1>4, FS_Interval
<1>6. IsFiniteSet(Live)
  <2>1. IsFiniteSet(1..Len(added_edges)) /\ Live \subseteq 1..Len(added_edges)
    BY DeltaEdgeType, FS_Interval DEF Live
  <2> QED BY <2>1, FS_Subset
<1> QED BY <1>2, <1>4, <1>5, <1>6 DEF Triples

(* IncidentLive counts each edge once: the self-loops are in its first     *)
(* part only.                                                              *)
LEMMA IncidentCount ==
  ASSUME Shape, NEW x, NEW R, x \notin R
  PROVE  LET new == MaskedBy(R \cup {x}, removed_edges) \ MaskedBy(R, removed_edges)
         IN IncidentLive(x, R) = Cardinality(new)
<1> DEFINE new == MaskedBy(R \cup {x}, removed_edges) \ MaskedBy(R, removed_edges)
           D == DOMAIN base.edges
           Out == {i \in D : /\ base.edges[i].from = x /\ base.edges[i].to \notin R
                             /\ base.edges[i] \notin removed_edges}
           In  == {i \in D : /\ base.edges[i].to = x /\ base.edges[i].from \notin R
                             /\ base.edges[i] \notin removed_edges}
           Rest == {i \in In : base.edges[i].from # x}
<1>1. IncidentLive(x, R) = Cardinality(Out) + Cardinality(Rest)
  BY DEF IncidentLive
<1>2. new = Out \cup Rest /\ Out \cap Rest = {}
  BY DEF MaskedBy
<1>3. IsFiniteSet(Out) /\ IsFiniteSet(Rest)
  <2>1. IsFiniteSet(D) /\ Out \subseteq D /\ Rest \subseteq D
    BY FiniteParts
  <2> HIDE DEF D, Out, Rest
  <2> QED BY <2>1, FS_Subset
<1>4. /\ Cardinality(Out \cup Rest) = Cardinality(Out) + Cardinality(Rest) - Cardinality({})
      /\ Cardinality(Out) \in Nat /\ Cardinality(Rest) \in Nat /\ Cardinality({}) = 0
  <2> HIDE DEF Out, Rest
  <2> QED BY <1>2, <1>3, FS_Union, FS_EmptySet, FS_CardinalityType
<1> HIDE DEF Out, Rest, new
<1>5. IncidentLive(x, R) = Cardinality(new)
  BY <1>1, <1>2, <1>4
<1> QED BY <1>5 DEF new

(* Hence one node tombstone more hides IncidentLive edges more, and none   *)
(* if the node is not in the base.                                         *)
LEMMA OneMoreTombstone ==
  ASSUME Shape, WellFormed(base), NEW x, NEW R, x \notin R
  PROVE  /\ Cardinality(MaskedBy(R \cup {x}, removed_edges))
              = Cardinality(MaskedBy(R, removed_edges)) + IncidentLive(x, R)
         /\ IncidentLive(x, R) \in Nat
         /\ Cardinality(MaskedBy(R, removed_edges)) \in Nat
         /\ x \notin DOMAIN base.nodes =>
              MaskedBy(R \cup {x}, removed_edges) = MaskedBy(R, removed_edges)
<1> DEFINE more == MaskedBy(R \cup {x}, removed_edges)
           few  == MaskedBy(R, removed_edges)
<1>1. few \subseteq more /\ more \subseteq DOMAIN base.edges
  BY DEF MaskedBy
<1>2. x \notin DOMAIN base.nodes => more \subseteq few
  BY DEF MaskedBy, WellFormed, Range
<1>3. IncidentLive(x, R) = Cardinality(more \ few)
  BY IncidentCount
<1> HIDE DEF more, few
<1>4. IsFiniteSet(more) /\ IsFiniteSet(few) /\ IsFiniteSet(more \ few)
  <2>1. IsFiniteSet(DOMAIN base.edges)
    BY FiniteParts
  <2>2. more \ few \subseteq DOMAIN base.edges /\ few \subseteq DOMAIN base.edges
    BY <1>1
  <2> QED BY <1>1, <2>1, <2>2, FS_Subset
<1>5. more \cap few = few
  BY <1>1
<1>6. Cardinality(more \ few) = Cardinality(more) - Cardinality(few)
  BY <1>4, <1>5, FS_Difference
<1>7. /\ Cardinality(more) = Cardinality(few) + IncidentLive(x, R)
      /\ IncidentLive(x, R) \in Nat /\ Cardinality(few) \in Nat
  <2> DEFINE rest == Cardinality(more \ few)
  <2>1. Cardinality(more) \in Nat /\ Cardinality(few) \in Nat /\ rest \in Nat
    BY <1>4, FS_CardinalityType
  <2>2. rest = Cardinality(more) - Cardinality(few) /\ IncidentLive(x, R) = rest
    BY <1>3, <1>6
  <2> HIDE DEF rest
  <2> QED BY <2>1, <2>2
<1>8. x \notin DOMAIN base.nodes => more = few
  BY <1>1, <1>2
<1> QED BY <1>7, <1>8 DEF more, few

(* Kill takes off the count the edges that it finds alive.                 *)
LEMMA KillCounts ==
  ASSUME Shape, NEW positions \in SUBSET (1..Len(added_edges)), Kill(positions),
         live_delta_edge_count = Cardinality(Live)
  PROVE  live_delta_edge_count' = Cardinality(Live')
<1>1. {p \in positions : ~added_edges[p].dead} = Live \cap positions
  BY DEF Live
<1>2. live_delta_edge_count' = Cardinality(Live) - Cardinality(Live \cap positions)
  BY <1>1 DEF Kill
<1>3. Live' = Live \ positions
  BY KillMarks
<1>4. Cardinality(Live \ positions) = Cardinality(Live) - Cardinality(Live \cap positions)
  BY FiniteParts, FS_Difference
<1> QED BY <1>2, <1>3, <1>4

(* The counters of the edges depend on the overlay only through the sets.  *)
LEMMA RecountLocal ==
  ASSUME UNCHANGED base
  PROVE  MaskedBy(removed_nodes, removed_edges)' = MaskedBy(removed_nodes', removed_edges')
BY DEF MaskedBy

(* An upsert: a revived base node takes its tombstone, and what that hid   *)
(* alone, off the counts.                                                  *)
LEMMA UpsertCounts ==
  ASSUME IInv, Recount, UpsertNode
  PROVE  Recount'
<1> DEFINE x == Head(todo).name
           R == removed_nodes \ {x}
           was == Cardinality(MaskedBy(removed_nodes, removed_edges))
           is  == Cardinality(MaskedBy(R, removed_edges))
<1>0. Shape /\ WellFormed(base)
  BY DEF IInv
<1>1. /\ removed_nodes' = R
      /\ added_nodes' = [y \in DOMAIN added_nodes \cup {x} |->
                           IF y = x THEN Head(todo).data ELSE added_nodes[y]]
      /\ tombstone_base_hits' = tombstone_base_hits
           - (IF x \in removed_nodes /\ x \in DOMAIN base.nodes THEN 1 ELSE 0)
      /\ masked_base_edge_count' = masked_base_edge_count
           - (IF x \in removed_nodes /\ x \in DOMAIN base.nodes THEN IncidentLive(x, R) ELSE 0)
      /\ added_non_base' = added_non_base
           + (IF x \notin DOMAIN added_nodes /\ x \notin DOMAIN base.nodes THEN 1 ELSE 0)
      /\ UNCHANGED <<base, added_edges, removed_edges, live_delta_edge_count>>
  BY DEF UpsertNode
<1> HIDE DEF x
<1>2. tombstone_base_hits' = Cardinality(removed_nodes' \cap DOMAIN base'.nodes)
  <2> DEFINE S == removed_nodes \cap DOMAIN base.nodes
             T == removed_nodes' \cap DOMAIN base'.nodes
  <2>1. IsFiniteSet(S)
    BY <1>0, FiniteParts, FS_Intersection
  <2>2. T = S \ {x}
    BY <1>1
  <2>3. Cardinality(T) = IF x \in S THEN Cardinality(S) - 1 ELSE Cardinality(S)
    <3> HIDE DEF S, T
    <3> QED BY <2>1, <2>2, FS_RemoveElement
  <2>4. Cardinality(S) \in Nat /\ tombstone_base_hits = Cardinality(S)
    BY <2>1, FS_CardinalityType DEF Recount
  <2>5. x \in S <=> x \in removed_nodes /\ x \in DOMAIN base.nodes
    OBVIOUS
  <2> HIDE DEF S, T
  <2>6. tombstone_base_hits' = Cardinality(T)
    BY <1>1, <2>3, <2>4, <2>5
  <2> QED BY <2>6 DEF T
<1>3. added_non_base' = Cardinality(DOMAIN added_nodes' \ DOMAIN base'.nodes)
  <2> DEFINE S == DOMAIN added_nodes \ DOMAIN base.nodes
             T == DOMAIN added_nodes' \ DOMAIN base'.nodes
  <2>1. IsFiniteSet(S)
    <3>1. IsFiniteSet(DOMAIN added_nodes)
      BY <1>0, FiniteParts
    <3> QED BY <3>1, FS_Difference
  <2>2. /\ DOMAIN added_nodes' = DOMAIN added_nodes \cup {x}
        /\ DOMAIN base'.nodes = DOMAIN base.nodes
    BY <1>1
  <2>3. Cardinality(S \cup {x}) = IF x \in S THEN Cardinality(S) ELSE Cardinality(S) + 1
    BY <2>1, FS_AddElement
  <2>4. Cardinality(S) \in Nat /\ added_non_base = Cardinality(S)
    BY <2>1, FS_CardinalityType DEF Recount
  <2>5. CASE x \in DOMAIN base.nodes
    <3>1. T = S
      BY <2>2, <2>5
    <3> HIDE DEF S, T
    <3>2. added_non_base' = Cardinality(T)
      BY <1>1, <2>4, <2>5, <3>1
    <3> QED BY <3>2 DEF T
  <2>6. CASE x \notin DOMAIN base.nodes
    <3>1. T = S \cup {x}
      BY <2>2, <2>6
    <3>2. x \in S <=> x \in DOMAIN added_nodes
      BY <2>6
    <3>3. Cardinality(T) = IF x \in S THEN Cardinality(S) ELSE Cardinality(S) + 1
      BY <2>3, <3>1
    <3> HIDE DEF S, T
    <3>4. added_non_base' = Cardinality(T)
      BY <1>1, <2>4, <2>6, <3>2, <3>3
    <3> QED BY <3>4 DEF T
  <2> QED BY <2>5, <2>6
<1>4. masked_base_edge_count' = Cardinality(MaskedBy(removed_nodes, removed_edges)')
  <2>1. MaskedBy(removed_nodes, removed_edges)' = MaskedBy(R, removed_edges)
    BY <1>1, RecountLocal
  <2>2. masked_base_edge_count = was
    BY DEF Recount
  <2>3. CASE x \notin removed_nodes
    <3>1. R = removed_nodes
      BY <2>3
    <3>2. is = was /\ was \in Nat
      BY <1>0, <2>3, <3>1, OneMoreTombstone
    <3> QED BY <1>1, <2>1, <2>2, <2>3, <3>2
  <2>4. CASE x \in removed_nodes
    <3>1. R \cup {x} = removed_nodes /\ x \notin R
      BY <2>4
    <3>2. was = is + IncidentLive(x, R) /\ IncidentLive(x, R) \in Nat /\ is \in Nat
      BY <1>0, <3>1, OneMoreTombstone
    <3>3. x \notin DOMAIN base.nodes => was = is
      BY <1>0, <3>1, OneMoreTombstone
    <3> HIDE DEF R
    <3> QED BY <1>1, <2>1, <2>2, <2>4, <3>2, <3>3
  <2> QED BY <2>3, <2>4
<1>5. live_delta_edge_count' = Cardinality(Live')
  BY <1>1 DEF Recount, Live
<1> QED BY <1>2, <1>3, <1>4, <1>5 DEF Recount

(* A removal is the way back, for a node of the base; and it kills what it *)
(* finds in the side indices, each edge once.                              *)
LEMMA RemoveNodeCounts ==
  ASSUME IInv, Recount, RemoveNode
  PROVE  Recount'
<1> DEFINE x == Head(todo).name
           gone == Range(out_index[x]) \cup Range(in_index[x])
           R == removed_nodes \cup {x}
           was == Cardinality(MaskedBy(removed_nodes, removed_edges))
           is  == Cardinality(MaskedBy(R, removed_edges))
<1>0. Shape /\ WellFormed(base)
  BY DEF IInv
<1>1. /\ removed_nodes' = R
      /\ added_nodes' = [y \in DOMAIN added_nodes \ {x} |-> added_nodes[y]]
      /\ added_non_base' = added_non_base
           - (IF x \in DOMAIN added_nodes /\ x \notin DOMAIN base.nodes THEN 1 ELSE 0)
      /\ masked_base_edge_count' = masked_base_edge_count
           + (IF x \notin removed_nodes /\ x \in DOMAIN base.nodes
              THEN IncidentLive(x, removed_nodes) ELSE 0)
      /\ tombstone_base_hits' = tombstone_base_hits
           + (IF x \notin removed_nodes /\ x \in DOMAIN base.nodes THEN 1 ELSE 0)
      /\ Kill(gone)
      /\ UNCHANGED <<base, removed_edges>>
  BY DEF RemoveNode
<1>2. gone \subseteq 1..Len(added_edges)
  <2>1. x \in Names
    BY <1>0, OpFields, TodoType DEF Shape, RemoveNode, Head_is
  <2>2. out_index[x] \in Seq(1..Len(added_edges)) /\ in_index[x] \in Seq(1..Len(added_edges))
    BY <1>0, <2>1 DEF Shape
  <2> HIDE DEF x
  <2> QED BY <2>2 DEF Range
<1> HIDE DEF x
<1>3. tombstone_base_hits' = Cardinality(removed_nodes' \cap DOMAIN base'.nodes)
  <2> DEFINE S == removed_nodes \cap DOMAIN base.nodes
             T == removed_nodes' \cap DOMAIN base'.nodes
  <2>1. IsFiniteSet(S)
    BY <1>0, FiniteParts, FS_Intersection
  <2>2. T = IF x \in DOMAIN base.nodes THEN S \cup {x} ELSE S
    BY <1>1
  <2>3. Cardinality(T) = IF x \in S \/ x \notin DOMAIN base.nodes THEN Cardinality(S)
                         ELSE Cardinality(S) + 1
    <3>1. Cardinality(S \cup {x}) = IF x \in S THEN Cardinality(S) ELSE Cardinality(S) + 1
      BY <2>1, FS_AddElement
    <3> HIDE DEF S, T
    <3> QED BY <2>2, <3>1
  <2>4. Cardinality(S) \in Nat /\ tombstone_base_hits = Cardinality(S)
    BY <2>1, FS_CardinalityType DEF Recount
  <2>5. x \in S <=> x \in removed_nodes /\ x \in DOMAIN base.nodes
    OBVIOUS
  <2> HIDE DEF S, T
  <2>6. tombstone_base_hits' = Cardinality(T)
    BY <1>1, <2>3, <2>4, <2>5
  <2> QED BY <2>6 DEF T
<1>4. added_non_base' = Cardinality(DOMAIN added_nodes' \ DOMAIN base'.nodes)
  <2> DEFINE S == DOMAIN added_nodes \ DOMAIN base.nodes
             T == DOMAIN added_nodes' \ DOMAIN base'.nodes
  <2>1. IsFiniteSet(S)
    <3>1. IsFiniteSet(DOMAIN added_nodes)
      BY <1>0, FiniteParts
    <3> QED BY <3>1, FS_Difference
  <2>2. T = S \ {x}
    BY <1>1
  <2>3. Cardinality(T) = IF x \in S THEN Cardinality(S) - 1 ELSE Cardinality(S)
    <3> HIDE DEF S, T
    <3> QED BY <2>1, <2>2, FS_RemoveElement
  <2>4. Cardinality(S) \in Nat /\ added_non_base = Cardinality(S)
    BY <2>1, FS_CardinalityType DEF Recount
  <2>5. x \in S <=> x \in DOMAIN added_nodes /\ x \notin DOMAIN base.nodes
    OBVIOUS
  <2> HIDE DEF S, T
  <2>6. added_non_base' = Cardinality(T)
    BY <1>1, <2>3, <2>4, <2>5
  <2> QED BY <2>6 DEF T
<1>5. masked_base_edge_count' = Cardinality(MaskedBy(removed_nodes, removed_edges)')
  <2>1. MaskedBy(removed_nodes, removed_edges)' = MaskedBy(R, removed_edges)
    BY <1>1, RecountLocal
  <2>2. masked_base_edge_count = was
    BY DEF Recount
  <2>3. CASE x \in removed_nodes
    <3>1. R = removed_nodes
      BY <2>3
    <3>2. is = was /\ was \in Nat
      <4>1. IsFiniteSet(DOMAIN base.edges)
        BY <1>0, FiniteParts
      <4>2. MaskedBy(removed_nodes, removed_edges) \subseteq DOMAIN base.edges
        BY DEF MaskedBy
      <4> QED BY <3>1, <4>1, <4>2, FS_Subset, FS_CardinalityType
    <3> QED BY <1>1, <2>1, <2>2, <2>3, <3>2
  <2>4. CASE x \notin removed_nodes
    <3>1. /\ is = was + IncidentLive(x, removed_nodes)
          /\ IncidentLive(x, removed_nodes) \in Nat /\ was \in Nat
      BY <1>0, <2>4, OneMoreTombstone
    <3>2. x \notin DOMAIN base.nodes => is = was
      BY <1>0, <2>4, OneMoreTombstone
    <3> HIDE DEF R
    <3> QED BY <1>1, <2>1, <2>2, <2>4, <3>1, <3>2
  <2> QED BY <2>3, <2>4
<1>6. live_delta_edge_count' = Cardinality(Live')
  <2> HIDE DEF gone
  <2> QED BY <1>0, <1>1, <1>2, KillCounts DEF Recount
<1> QED BY <1>3, <1>4, <1>5, <1>6 DEF Recount

(* A removed edge masks the base edges like it that nothing masked before. *)
LEMMA RemoveEdgeCounts ==
  ASSUME IInv, Recount, RemoveEdge
  PROVE  Recount'
<1> DEFINE e == Head(todo).edge
           gone == {p \in Range(out_index[e.from]) : added_edges[p].edge = e}
           few  == MaskedBy(removed_nodes, removed_edges)
           more == MaskedBy(removed_nodes, removed_edges \cup {e})
           same == {i \in DOMAIN base.edges : base.edges[i] = e}
<1>0. Shape
  BY DEF IInv
<1>1. /\ removed_edges' = removed_edges \cup {e}
      /\ Kill(gone)
      /\ masked_base_edge_count' = masked_base_edge_count
           + (IF e \in removed_edges THEN 0 ELSE count_live_base_edges_matching(e))
      /\ UNCHANGED <<base, added_nodes, removed_nodes, tombstone_base_hits, added_non_base>>
  BY DEF RemoveEdge
<1>2. count_live_base_edges_matching(e)
        = IF {e.from, e.to} \cap removed_nodes # {} THEN 0 ELSE Cardinality(same)
  BY DEF count_live_base_edges_matching
<1>3. e \in Triples
  BY <1>0, OpFields, TodoType DEF Shape, RemoveEdge, Head_is
<1>4. e.from \in Names
  <2> HIDE DEF e
  <2> QED BY <1>3 DEF Triples
<1> HIDE DEF e
<1>5. gone \subseteq 1..Len(added_edges)
  BY <1>0, <1>4 DEF Shape, Range
<1>6. live_delta_edge_count' = Cardinality(Live')
  <2> HIDE DEF gone
  <2> QED BY <1>0, <1>1, <1>5, KillCounts DEF Recount
<1>7. masked_base_edge_count' = Cardinality(MaskedBy(removed_nodes, removed_edges)')
  <2>1. MaskedBy(removed_nodes, removed_edges)' = more
    BY <1>1, RecountLocal
  <2>2. masked_base_edge_count = Cardinality(few)
    BY DEF Recount
  <2>3. IsFiniteSet(few) /\ IsFiniteSet(same)
    <3>1. few \subseteq DOMAIN base.edges /\ same \subseteq DOMAIN base.edges
      BY DEF MaskedBy
    <3>2. IsFiniteSet(DOMAIN base.edges)
      BY <1>0, FiniteParts
    <3> HIDE DEF few, same
    <3> QED BY <3>1, <3>2, FS_Subset
  <2>4. Cardinality(few) \in Nat /\ Cardinality(same) \in Nat
    BY <2>3, FS_CardinalityType
  <2>5. CASE e \in removed_edges \/ {e.from, e.to} \cap removed_nodes # {}
    <3>1. more = few
      BY <2>5 DEF MaskedBy
    <3>2. masked_base_edge_count' = masked_base_edge_count + 0
      BY <1>1, <1>2, <2>5
    <3> HIDE DEF more, few, same
    <3> QED BY <2>1, <2>2, <2>4, <3>1, <3>2
  <2>6. CASE e \notin removed_edges /\ {e.from, e.to} \cap removed_nodes = {}
    <3>1. more = few \cup same /\ few \cap same = {}
      BY <2>6 DEF MaskedBy
    <3>2. masked_base_edge_count' = masked_base_edge_count + Cardinality(same)
      BY <1>1, <1>2, <2>6
    <3> HIDE DEF more, few, same
    <3>3. Cardinality(more) = Cardinality(few) + Cardinality(same) - Cardinality({})
      BY <2>3, <3>1, FS_Union
    <3>4. Cardinality({}) = 0
      BY FS_EmptySet
    <3> QED BY <2>1, <2>2, <2>4, <3>2, <3>3, <3>4
  <2> QED BY <2>5, <2>6
<1>8. /\ tombstone_base_hits' = Cardinality(removed_nodes' \cap DOMAIN base'.nodes)
      /\ added_non_base' = Cardinality(DOMAIN added_nodes' \ DOMAIN base'.nodes)
  BY <1>1 DEF Recount
<1> QED BY <1>6, <1>7, <1>8 DEF Recount

(* A new edge is one live edge more.                                       *)
LEMMA AddEdgeCounts ==
  ASSUME IInv, Recount, AddEdge
  PROVE  Recount'
<1> DEFINE n   == Len(added_edges)
           E   == [edge: Triples, dead: BOOLEAN]
           new == [edge |-> Head(todo).edge, dead |-> FALSE]
<1>0. Shape
  BY DEF IInv
<1>1. /\ added_edges' = Append(added_edges, new)
      /\ live_delta_edge_count' = live_delta_edge_count + 1
      /\ UNCHANGED <<base, added_nodes, removed_nodes, removed_edges,
                     tombstone_base_hits, added_non_base, masked_base_edge_count>>
  BY DEF AddEdge
<1>2. added_edges \in Seq(E) /\ n \in Nat /\ ~new.dead
  BY <1>0 DEF Shape
<1>3. Live' = Live \cup {n + 1} /\ n + 1 \notin Live
  <2>1. /\ Len(added_edges') = n + 1 /\ added_edges'[n + 1] = new
        /\ \A p \in 1..n : added_edges'[p] = added_edges[p]
    <3> HIDE DEF E, new
    <3> QED BY <1>1, <1>2
  <2> HIDE DEF E, new
  <2> QED BY <1>2, <2>1 DEF Live
<1>4. live_delta_edge_count' = Cardinality(Live')
  <2>1. IsFiniteSet(Live)
    BY <1>0, FiniteParts
  <2>2. Cardinality(Live \cup {n + 1}) = Cardinality(Live) + 1
    BY <1>3, <2>1, FS_AddElement
  <2> QED BY <1>1, <1>3, <2>2 DEF Recount
<1>5. masked_base_edge_count' = Cardinality(MaskedBy(removed_nodes, removed_edges)')
  BY <1>1 DEF Recount, MaskedBy
<1>6. /\ tombstone_base_hits' = Cardinality(removed_nodes' \cap DOMAIN base'.nodes)
      /\ added_non_base' = Cardinality(DOMAIN added_nodes' \ DOMAIN base'.nodes)
  BY <1>1 DEF Recount
<1> QED BY <1>4, <1>5, <1>6 DEF Recount

(* Nothing is counted of a fresh delta.                                    *)
LEMMA FreshCounts ==
  Fresh /\ (\A i \in 1..4 : counters[i] = 0) => Recount
<1> SUFFICES ASSUME Fresh, \A i \in 1..4 : counters[i] = 0 PROVE Recount
  OBVIOUS
<1>1. /\ tombstone_base_hits = 0 /\ added_non_base = 0
      /\ masked_base_edge_count = 0 /\ live_delta_edge_count = 0
  <2>1. 1 \in 1..4 /\ 2 \in 1..4 /\ 3 \in 1..4 /\ 4 \in 1..4
    OBVIOUS
  <2> QED BY <2>1 DEF counters
<1>2. removed_nodes \cap DOMAIN base.nodes = {} /\ DOMAIN added_nodes \ DOMAIN base.nodes = {}
  BY DEF Fresh, NoNodes
<1>3. MaskedBy(removed_nodes, removed_edges) = {} /\ Live = {}
  BY DEF Fresh, MaskedBy, Live
<1>4. Cardinality({}) = 0
  BY FS_EmptySet
<1> QED BY <1>1, <1>2, <1>3, <1>4 DEF Recount

(* Every step keeps the counters exact.                                    *)
LEMMA NextRecount == IInv /\ IInv' /\ Recount /\ [Next]_vars => Recount'
<1> SUFFICES ASSUME IInv, Recount, [Next]_vars PROVE Recount'
  OBVIOUS
<1>1. CASE UpsertNode
  BY <1>1, UpsertCounts
<1>2. CASE RemoveNode
  BY <1>2, RemoveNodeCounts
<1>3. CASE AddEdge
  BY <1>3, AddEdgeCounts
<1>4. CASE RemoveEdge
  BY <1>4, RemoveEdgeCounts
<1>5. CASE Fold
  <2>1. (Fresh /\ (\A i \in 1..4 : counters[i] = 0) => Recount)'
    BY FreshCounts, PTL
  <2>2. Fresh'
    <3>1. base' \in Graphs /\ WellFormed(base')
      BY <1>5, BuildGraphType DEF IInv, Fold
    <3> QED BY <1>5, <3>1 DEF Fold, Fresh, WellFormed
  <2>3. \A i \in 1..4 : counters'[i] = 0
    BY <1>5 DEF Fold, counters
  <2> QED BY <2>1, <2>2, <2>3
<1>6. CASE UNCHANGED <<base, delta>>
  BY <1>6 DEF delta, counters, Recount, MaskedBy, Live
<1>7. ASSUME NEW ops \in Batches, Apply(ops) PROVE UNCHANGED <<base, delta>>
  BY <1>7 DEF Apply
<1>8. CASE UNCHANGED vars
  BY <1>6, <1>8 DEF vars
<1> QED BY <1>1, <1>2, <1>3, <1>4, <1>5, <1>6, <1>7, <1>8 DEF Next, Mutate

(* The counters that node_count and edge_count answer from are always what *)
(* a recount would give, in the middle of a batch too, for graphs with     *)
(* self-loops, parallel edges and any history of removals and revivals.    *)
THEOREM CountersNeverDrift == Spec => []CountersExact
<1>1. Init => Recount
  BY InitIInv, BasesAssumption, FreshCounts DEF Init, Fresh, counters
<1>2. IInv /\ Recount => CountersExact
  BY RecountForm DEF IInv
<1> QED BY <1>1, <1>2, NextRecount, Invariant, PTL DEF Spec

(* Exact counters are no smaller than zero.                                *)
LEMMA TypeOKParts ==
  ASSUME IInv, Recount, seq \in 0..Len(BatchBound)
  PROVE  TypeOK
<1>1. Shape
  BY DEF IInv
<1>2. /\ tombstone_base_hits \in Nat /\ added_non_base \in Nat
      /\ masked_base_edge_count \in Nat /\ live_delta_edge_count \in Nat
  <2>1. /\ IsFiniteSet(removed_nodes \cap DOMAIN base.nodes)
        /\ IsFiniteSet(DOMAIN added_nodes \ DOMAIN base.nodes)
        /\ IsFiniteSet(Live)
    BY <1>1, FiniteParts, FS_Intersection, FS_Difference
  <2>2. IsFiniteSet(MaskedBy(removed_nodes, removed_edges))
    BY <1>1, FiniteParts, FS_Subset DEF MaskedBy
  <2> QED BY <2>1, <2>2, FS_CardinalityType DEF Recount
<1>3. \A i \in 1..4 : counters[i] \in Nat
  BY <1>2 DEF counters
<1> QED BY <1>1, <1>3 DEF TypeOK

(* Batches are applied while there is room for them.                       *)
LEMMA SeqStaysBounded ==
  seq \in 0..Len(BatchBound) /\ [Next]_vars => (seq \in 0..Len(BatchBound))'
<1> SUFFICES ASSUME seq \in 0..Len(BatchBound), [Next]_vars
             PROVE  seq' \in 0..Len(BatchBound)
  OBVIOUS
<1>1. Len(BatchBound) \in Nat
  BY BasesAssumption
<1>2. ASSUME NEW ops \in Batches, Apply(ops) PROVE seq' \in 0..Len(BatchBound)
  <2>1. seq < Len(BatchBound)
    BY <1>2 DEF Batches
  <2> QED BY <1>1, <1>2, <2>1 DEF Apply
<1>3. CASE Mutate
  BY <1>3 DEF Mutate, UpsertNode, RemoveNode, AddEdge, RemoveEdge
<1>4. CASE Fold
  BY <1>4 DEF Fold
<1>5. CASE UNCHANGED vars
  BY <1>5 DEF vars
<1> QED BY <1>2, <1>3, <1>4, <1>5 DEF Next

(* No counter goes below zero, so no usize wraps; and the fields keep their*)
(* shape.                                                                  *)
THEOREM TypeCorrect == Spec => []TypeOK
<1>1. IInv /\ CountersExact /\ seq \in 0..Len(BatchBound) => TypeOK
  BY RecountForm, TypeOKParts DEF IInv
<1>2. Init => seq \in 0..Len(BatchBound)
  BY BasesAssumption DEF Init
<1> QED BY <1>1, <1>2, SeqStaysBounded, Invariant, CountersNeverDrift, PTL DEF Spec

(* The side indices list every delta edge once at each end, and nothing    *)
(* else there.                                                             *)
IndexesExact ==
  \A x \in Names, p \in 1..Len(added_edges) :
    /\ Occurs(out_index[x], {p}) = IF added_edges[p].edge.from = x THEN 1 ELSE 0
    /\ Occurs(in_index[x], {p}) = IF added_edges[p].edge.to = x THEN 1 ELSE 0

(* A new edge is listed at its two ends.                                   *)
LEMMA AddEdgeIndexes ==
  ASSUME IInv, IndexesExact, AddEdge
  PROVE  IndexesExact'
<1> DEFINE e   == Head(todo).edge
           n   == Len(added_edges)
           E   == [edge: Triples, dead: BOOLEAN]
           new == [edge |-> e, dead |-> FALSE]
<1>0. Shape
  BY DEF IInv
<1>1. /\ added_edges' = Append(added_edges, new)
      /\ out_index' = [out_index EXCEPT ![e.from] = Append(@, n + 1)]
      /\ in_index' = [in_index EXCEPT ![e.to] = Append(@, n + 1)]
  BY DEF AddEdge
<1>2. added_edges \in Seq(E) /\ n \in Nat /\ new.edge = e
  BY <1>0 DEF Shape
<1>3. /\ Len(added_edges') = n + 1 /\ added_edges'[n + 1] = new
      /\ \A p \in 1..n : added_edges'[p] = added_edges[p]
  <2> HIDE DEF E, new
  <2> QED BY <1>1, <1>2
<1> HIDE DEF e, n, new, E
<1>4. \A x \in Names : /\ out_index[x] \in Seq(1..n) /\ in_index[x] \in Seq(1..n)
                       /\ out_index'[x] = IF x = e.from THEN Append(out_index[x], n + 1)
                                          ELSE out_index[x]
                       /\ in_index'[x] = IF x = e.to THEN Append(in_index[x], n + 1)
                                         ELSE in_index[x]
  BY <1>0, <1>1 DEF Shape, n
<1>5. ASSUME NEW s \in Seq(1..n), NEW p \in 1..(n + 1)
      PROVE  /\ Occurs(Append(s, n + 1), {p})
                  = Occurs(s, {p}) + (IF p = n + 1 THEN 1 ELSE 0)
             /\ p = n + 1 => Occurs(s, {p}) = 0
             /\ Occurs(s, {p}) \in Nat
  <2>1. \A i \in 1..Len(s) : s[i] \in 1..n
    <3> DEFINE P == 1..n
    <3>1. s \in Seq(P)
      OBVIOUS
    <3> HIDE DEF P
    <3>2. \A i \in 1..Len(s) : s[i] \in P
      BY <3>1
    <3> QED BY <3>2 DEF P
  <2>2. s \in Seq(1..(n + 1)) /\ n + 1 \in 1..(n + 1)
    <3>1. s = [i \in 1..Len(s) |-> s[i]] /\ Len(s) \in Nat
      OBVIOUS
    <3>2. \A i \in 1..Len(s) : s[i] \in 1..(n + 1)
      BY <1>2, <2>1
    <3>3. [i \in 1..Len(s) |-> s[i]] \in Seq(1..(n + 1))
      BY <3>1, <3>2
    <3> QED BY <1>2, <3>1, <3>3
  <2>3. Occurs(Append(s, n + 1), {p}) = Occurs(s, {p}) + (IF n + 1 \in {p} THEN 1 ELSE 0)
    BY <2>2, OccursAppend
  <2>4. p = n + 1 => Places(s, {p}) = {}
    <3>1. n + 1 \notin 1..n
      BY <1>2
    <3>2. DOMAIN s = 1..Len(s)
      OBVIOUS
    <3> QED BY <2>1, <3>1, <3>2 DEF Places
  <2>5. p = n + 1 => Occurs(s, {p}) = 0
    BY <2>4, FS_EmptySet DEF Occurs
  <2>6. Occurs(s, {p}) \in Nat
    BY OccursType
  <2> QED BY <2>3, <2>5, <2>6
<1>6. ASSUME NEW x \in Names, NEW p \in 1..(n + 1)
      PROVE /\ Occurs(out_index'[x], {p}) = IF added_edges'[p].edge.from = x THEN 1 ELSE 0
            /\ Occurs(in_index'[x], {p}) = IF added_edges'[p].edge.to = x THEN 1 ELSE 0
  <2>1. CASE p = n + 1
    <3>1. added_edges'[p].edge = e
      BY <1>2, <1>3, <2>1
    <3>2. /\ Occurs(out_index[x], {p}) = 0 /\ Occurs(Append(out_index[x], n + 1), {p}) = 1
          /\ Occurs(in_index[x], {p}) = 0 /\ Occurs(Append(in_index[x], n + 1), {p}) = 1
      BY <1>4, <1>5, <2>1
    <3> QED BY <1>4, <3>1, <3>2
  <2>2. CASE p # n + 1
    <3>1. p \in 1..n /\ added_edges'[p] = added_edges[p]
      BY <1>2, <1>3, <2>2
    <3>2. /\ Occurs(out_index[x], {p}) = IF added_edges[p].edge.from = x THEN 1 ELSE 0
          /\ Occurs(in_index[x], {p}) = IF added_edges[p].edge.to = x THEN 1 ELSE 0
      BY <3>1 DEF IndexesExact, n
    <3>3. /\ Occurs(Append(out_index[x], n + 1), {p}) = Occurs(out_index[x], {p})
          /\ Occurs(Append(in_index[x], n + 1), {p}) = Occurs(in_index[x], {p})
      BY <1>4, <1>5, <2>2
    <3> QED BY <1>4, <3>1, <3>2, <3>3
  <2> QED BY <2>1, <2>2
<1> QED BY <1>3, <1>6 DEF IndexesExact

(* Every step keeps the side indices exact: only AddEdge writes to them,   *)
(* and no edge ever moves or changes its ends.                             *)
LEMMA NextIndexes == IInv /\ IndexesExact /\ [Next]_vars => IndexesExact'
<1> SUFFICES ASSUME IInv, IndexesExact, [Next]_vars PROVE IndexesExact'
  OBVIOUS
<1>0. Shape
  BY DEF IInv
<1>1. CASE /\ UNCHANGED <<out_index, in_index>> /\ Len(added_edges') = Len(added_edges)
           /\ \A p \in 1..Len(added_edges) : added_edges'[p].edge = added_edges[p].edge
  <2>1. ASSUME NEW y \in Names, NEW p \in 1..Len(added_edges')
        PROVE  /\ Occurs(out_index'[y], {p}) = IF added_edges'[p].edge.from = y THEN 1 ELSE 0
               /\ Occurs(in_index'[y], {p}) = IF added_edges'[p].edge.to = y THEN 1 ELSE 0
    <3>1. p \in 1..Len(added_edges) /\ added_edges'[p].edge = added_edges[p].edge
      BY <1>1
    <3>2. /\ Occurs(out_index[y], {p}) = IF added_edges[p].edge.from = y THEN 1 ELSE 0
          /\ Occurs(in_index[y], {p}) = IF added_edges[p].edge.to = y THEN 1 ELSE 0
      BY <3>1 DEF IndexesExact
    <3> QED BY <1>1, <3>1, <3>2
  <2> QED BY <2>1 DEF IndexesExact
<1>2. ASSUME NEW positions, Kill(positions), UNCHANGED <<out_index, in_index>>
      PROVE  IndexesExact'
  <2>1. /\ Len(added_edges') = Len(added_edges)
        /\ \A p \in 1..Len(added_edges) : added_edges'[p].edge = added_edges[p].edge
    BY <1>0, <1>2, KillMarks
  <2> QED BY <1>1, <1>2, <2>1
<1>3. CASE UpsertNode
  BY <1>1, <1>3 DEF UpsertNode
<1>4. CASE RemoveNode
  BY <1>2, <1>4 DEF RemoveNode
<1>5. CASE AddEdge
  BY <1>5, AddEdgeIndexes
<1>6. CASE RemoveEdge
  BY <1>2, <1>6 DEF RemoveEdge
<1>7. CASE Fold
  <2>1. 1..Len(added_edges') = {}
    BY <1>7 DEF Fold
  <2> QED BY <2>1 DEF IndexesExact
<1>8. ASSUME NEW ops \in Batches, Apply(ops) PROVE IndexesExact'
  BY <1>1, <1>8 DEF Apply, delta
<1>9. CASE UNCHANGED vars
  BY <1>1, <1>9 DEF vars, delta
<1> QED BY <1>3, <1>4, <1>5, <1>6, <1>7, <1>8, <1>9 DEF Next, Mutate

(* There is nothing to list at first.                                      *)
LEMMA InitIndexes == Init => IndexesExact
<1>1. Init => 1..Len(added_edges) = {}
  BY DEF Init
<1> QED BY <1>1 DEF IndexesExact

(***************************************************************************)
(* What the readers of the merged view see.                                *)
(***************************************************************************)
(* The edges in sight that are in T: those of the base and those added     *)
(* since, by position.                                                     *)
BaseIn(T) == {i \in DOMAIN base.edges : base.edges[i] \in T /\ ~Masked(base.edges[i])}
LiveIn(T) == {p \in Live : added_edges[p].edge \in T}
InSight(T) == Cardinality(BaseIn(T)) + Cardinality(LiveIn(T))

(* They are finitely many, and those of two disjoint sets add up.          *)
LEMMA InSightAdds ==
  ASSUME Shape, NEW U, NEW V, U \cap V = {}
  PROVE  /\ InSight(U) \in Nat /\ InSight(U \cup V) = InSight(U) + InSight(V)
         /\ IsFiniteSet(BaseIn(U)) /\ IsFiniteSet(LiveIn(U))
         /\ Cardinality(BaseIn(U)) \in Nat /\ Cardinality(LiveIn(U)) \in Nat
<1>1. ASSUME NEW T
      PROVE  /\ IsFiniteSet(BaseIn(T)) /\ Cardinality(BaseIn(T)) \in Nat
             /\ IsFiniteSet(LiveIn(T)) /\ Cardinality(LiveIn(T)) \in Nat
  <2>1. BaseIn(T) \subseteq DOMAIN base.edges /\ LiveIn(T) \subseteq Live
    BY DEF BaseIn, LiveIn
  <2>2. IsFiniteSet(BaseIn(T)) /\ IsFiniteSet(LiveIn(T))
    BY <2>1, FiniteParts, FS_Subset
  <2> QED BY <2>2, FS_CardinalityType
<1>2. /\ BaseIn(U \cup V) = BaseIn(U) \cup BaseIn(V) /\ BaseIn(U) \cap BaseIn(V) = {}
      /\ LiveIn(U \cup V) = LiveIn(U) \cup LiveIn(V) /\ LiveIn(U) \cap LiveIn(V) = {}
  BY DEF BaseIn, LiveIn
<1>3. ASSUME NEW A, NEW B, IsFiniteSet(A), IsFiniteSet(B), A \cap B = {}
      PROVE  Cardinality(A \cup B) = Cardinality(A) + Cardinality(B)
  <2>1. Cardinality(A \cup B) = Cardinality(A) + Cardinality(B) - Cardinality({})
    BY <1>3, FS_Union
  <2>2. Cardinality({}) = 0 /\ Cardinality(A) \in Nat /\ Cardinality(B) \in Nat
    BY <1>3, FS_EmptySet, FS_CardinalityType
  <2> QED BY <2>1, <2>2
<1>4. /\ Cardinality(BaseIn(U \cup V)) = Cardinality(BaseIn(U)) + Cardinality(BaseIn(V))
      /\ Cardinality(LiveIn(U \cup V)) = Cardinality(LiveIn(U)) + Cardinality(LiveIn(V))
  BY <1>1, <1>2, <1>3
<1>5. InSight(U \cup V) = InSight(U) + InSight(V)
  BY <1>1, <1>4 DEF InSight
<1> QED BY <1>1, <1>5 DEF InSight

(* A list read off the base's edges.                                       *)
LEMMA BaseEdgesCount ==
  ASSUME Shape, NEW S, NEW T
  PROVE  /\ BaseEdges(S) \in Seq(Triples)
         /\ Occurs(BaseEdges(S), T)
              = Cardinality({i \in DOMAIN base.edges : base.edges[i] \in S \cap T})
<1>1. base.edges \in Seq(Triples)
  BY DEF Shape, Graphs
<1>2. Pick(base.edges, S) \in Seq(Triples)
  <2>1. Pick(base.edges, S) \in Seq(Triples \cap S)
    BY <1>1, PickType
  <2>2. Triples \cap S \subseteq Triples
    OBVIOUS
  <2> QED BY <2>1, <2>2
<1>3. /\ Reverse(Pick(base.edges, S)) \in Seq(Triples)
      /\ Occurs(Reverse(Pick(base.edges, S)), T) = Occurs(Pick(base.edges, S), T)
  BY <1>2, OccursReverse
<1>4. Occurs(Pick(base.edges, S), T) = Occurs(base.edges, S \cap T)
  BY <1>1, OccursPick
<1> QED BY <1>3, <1>4 DEF BaseEdges, Occurs, Places

(* The index s names each position in Q once; W has those positions in Q   *)
(* and R whose edge is in T.                                               *)
Selects(s, Q, R, T, W) ==
  /\ s \in Seq(1..Len(added_edges)) /\ W \subseteq 1..Len(added_edges)
  /\ \A p \in 1..Len(added_edges) :
       /\ Occurs(s, {p}) = IF p \in Q THEN 1 ELSE 0
       /\ p \in W <=> p \in Q /\ p \in R /\ added_edges[p].edge \in T

(* A list read off a side index has exactly those edges.                   *)
LEMMA DeltaEdgesCount ==
  ASSUME Shape, NEW s, NEW Q, NEW R, NEW T, NEW W, Selects(s, Q, R, T, W)
  PROVE  /\ DeltaEdges(Pick(s, R)) \in Seq(Triples)
         /\ Occurs(DeltaEdges(Pick(s, R)), T) = Cardinality(W)
<1> DEFINE P    == 1..Len(added_edges)
           kept == Pick(s, R)
           g    == [p \in P |-> added_edges[p].edge]
<1>0. /\ s \in Seq(P) /\ W \subseteq P
      /\ \A p \in P : /\ Occurs(s, {p}) = IF p \in Q THEN 1 ELSE 0
                      /\ p \in W <=> p \in Q /\ p \in R /\ added_edges[p].edge \in T
  BY DEF Selects
<1>1. \A p \in P : g[p] = added_edges[p].edge /\ added_edges[p].edge \in Triples
  BY DeltaEdgeType
<1>2. kept \in Seq(P)
  <2>1. kept \in Seq(P \cap R) /\ P \cap R \subseteq P
    BY <1>0, PickType
  <2> HIDE DEF P, kept
  <2> QED BY <2>1
<1>3. \A p \in P : Occurs(kept, {p}) = IF p \in Q /\ p \in R THEN 1 ELSE 0
  <2> SUFFICES ASSUME NEW p \in P
               PROVE Occurs(kept, {p}) = IF p \in Q /\ p \in R THEN 1 ELSE 0
    OBVIOUS
  <2>1. Occurs(kept, {p}) = Occurs(s, R \cap {p})
    BY <1>0, OccursPick
  <2>2. CASE p \in R
    <3>1. R \cap {p} = {p}
      BY <2>2
    <3> QED BY <1>0, <2>1, <2>2, <3>1
  <2>3. CASE p \notin R
    <3>1. Places(s, R \cap {p}) = {}
      BY <2>3 DEF Places
    <3> QED BY <2>1, <2>3, <3>1, FS_EmptySet DEF Occurs
  <2> QED BY <2>2, <2>3
<1>4. Len(kept) \in Nat /\ \A i \in 1..Len(kept) : kept[i] \in P
  <2> HIDE DEF P, kept
  <2> QED BY <1>2
<1>5. DeltaEdges(kept) = [i \in 1..Len(kept) |-> g[kept[i]]]
  <2> HIDE DEF P, kept, g
  <2> QED BY <1>1, <1>4 DEF DeltaEdges
<1>6. \A p \in P : AtMostOnce(kept, p)
  BY <1>3 DEF AtMostOnce
<1>7. \A p \in P : p \in W <=> Occurs(kept, {p}) = 1 /\ g[p] \in T
  <2> SUFFICES ASSUME NEW p \in P
               PROVE p \in W <=> Occurs(kept, {p}) = 1 /\ g[p] \in T
    OBVIOUS
  <2>1. Occurs(kept, {p}) = 1 <=> p \in Q /\ p \in R
    BY <1>3
  <2>2. g[p] = added_edges[p].edge
    BY <1>1
  <2>3. p \in W <=> p \in Q /\ p \in R /\ added_edges[p].edge \in T
    BY <1>0
  <2> HIDE DEF P, kept, g
  <2> QED BY <2>1, <2>2, <2>3
<1>8. DeltaEdges(kept) \in Seq(Triples)
  <2> HIDE DEF P, kept, g
  <2> QED BY <1>1, <1>4, <1>5
<1> HIDE DEF P, kept, g
<1>9. /\ DOMAIN DeltaEdges(kept) = 1..Len(kept)
      /\ \A i \in 1..Len(kept) : DeltaEdges(kept)[i] = g[kept[i]]
  BY <1>5
<1>10. IsImage(DeltaEdges(kept), g, kept, P, T, W)
  BY <1>0, <1>2, <1>6, <1>7, <1>9 DEF IsImage
<1>11. Occurs(DeltaEdges(kept), T) = Cardinality(W)
  BY <1>10, OccursMapped
<1> QED BY <1>8, <1>11 DEF kept

(* An endpoint of a live delta edge has no tombstone.                      *)
LEMMA LiveEndsUnmasked ==
  ASSUME IInv
  PROVE  \A p \in Live : /\ added_edges[p].edge.from \notin removed_nodes
                         /\ added_edges[p].edge.to \notin removed_nodes
BY LiveEndpoints DEF IInv, ShadowXorTombstone, IsPresent

(* A node's outgoing edges are those in sight from it, and each as often.  *)
LEMMA OutgoingCount ==
  ASSUME IInv, IndexesExact, NEW x \in Names, NEW T
  PROVE  Occurs(outgoing_neighbors(x), T) = InSight({e \in T : e.from = x})
<1> DEFINE U == {e \in T : e.from = x}
           S == {e \in Triples : e.from = x /\ ~Masked(e)}
           R == {p \in Live : added_edges[p].edge.to \notin removed_nodes}
           Q == {p \in 1..Len(added_edges) : added_edges[p].edge.from = x}
           bs == BaseEdges(S)
           ds == DeltaEdges(Pick(out_index[x], R))
<1>0. Shape
  BY DEF IInv
<1>1. CASE x \in removed_nodes
  <2>1. BaseIn(U) = {} /\ LiveIn(U) = {}
    BY <1>1, LiveEndsUnmasked DEF BaseIn, LiveIn, Masked
  <2>2. outgoing_neighbors(x) = <<>>
    BY <1>1 DEF outgoing_neighbors
  <2>3. Occurs(<<>>, T) = 0 /\ Cardinality({}) = 0
    BY OccursUnit, FS_EmptySet
  <2> HIDE DEF U
  <2>4. Occurs(outgoing_neighbors(x), T) = InSight(U)
    BY <2>1, <2>2, <2>3 DEF InSight
  <2> QED BY <2>4 DEF U
<1>2. CASE x \notin removed_nodes
  <2>1. outgoing_neighbors(x) = bs \o ds
    BY <1>2 DEF outgoing_neighbors
  <2>2. /\ bs \in Seq(Triples)
        /\ Occurs(bs, T) = Cardinality({i \in DOMAIN base.edges : base.edges[i] \in S \cap T})
    <3> HIDE DEF S
    <3> QED BY <1>0, BaseEdgesCount
  <2>3. {i \in DOMAIN base.edges : base.edges[i] \in S \cap T} = BaseIn(U)
    BY <1>0, FiniteParts DEF BaseIn
  <2>4. /\ LiveIn(U) \in SUBSET (1..Len(added_edges))
        /\ \A p \in 1..Len(added_edges) :
             p \in LiveIn(U) <=> p \in Q /\ p \in R /\ added_edges[p].edge \in T
    BY LiveEndsUnmasked DEF LiveIn, Live
  <2>5. ds \in Seq(Triples) /\ Occurs(ds, T) = Cardinality(LiveIn(U))
    <3>1. out_index[x] \in Seq(1..Len(added_edges))
      BY <1>0 DEF Shape
    <3>2. \A p \in 1..Len(added_edges) :
            Occurs(out_index[x], {p}) = IF p \in Q THEN 1 ELSE 0
      BY DEF IndexesExact
    <3> HIDE DEF Q, R, U
    <3>3. Selects(out_index[x], Q, R, T, LiveIn(U))
      BY <2>4, <3>1, <3>2 DEF Selects
    <3> QED BY <1>0, <3>3, DeltaEdgesCount
  <2> HIDE DEF bs, ds, U, S, Q, R
  <2>6. Occurs(bs \o ds, T) = Occurs(bs, T) + Occurs(ds, T)
    BY <2>2, <2>5, OccursConcat
  <2>7. Occurs(outgoing_neighbors(x), T) = InSight(U)
    BY <2>1, <2>2, <2>3, <2>5, <2>6 DEF InSight
  <2> QED BY <2>7 DEF U
<1> QED BY <1>1, <1>2

(* So are its incoming edges those to it.                                  *)
LEMMA IncomingCount ==
  ASSUME IInv, IndexesExact, NEW x \in Names, NEW T
  PROVE  Occurs(incoming_neighbors(x), T) = InSight({e \in T : e.to = x})
<1> DEFINE U == {e \in T : e.to = x}
           S == {e \in Triples : e.to = x /\ ~Masked(e)}
           R == {p \in Live : added_edges[p].edge.from \notin removed_nodes}
           Q == {p \in 1..Len(added_edges) : added_edges[p].edge.to = x}
           bs == BaseEdges(S)
           ds == DeltaEdges(Pick(in_index[x], R))
<1>0. Shape
  BY DEF IInv
<1>1. CASE x \in removed_nodes
  <2>1. BaseIn(U) = {} /\ LiveIn(U) = {}
    BY <1>1, LiveEndsUnmasked DEF BaseIn, LiveIn, Masked
  <2>2. incoming_neighbors(x) = <<>>
    BY <1>1 DEF incoming_neighbors
  <2>3. Occurs(<<>>, T) = 0 /\ Cardinality({}) = 0
    BY OccursUnit, FS_EmptySet
  <2> HIDE DEF U
  <2>4. Occurs(incoming_neighbors(x), T) = InSight(U)
    BY <2>1, <2>2, <2>3 DEF InSight
  <2> QED BY <2>4 DEF U
<1>2. CASE x \notin removed_nodes
  <2>1. incoming_neighbors(x) = bs \o ds
    BY <1>2 DEF incoming_neighbors
  <2>2. /\ bs \in Seq(Triples)
        /\ Occurs(bs, T) = Cardinality({i \in DOMAIN base.edges : base.edges[i] \in S \cap T})
    <3> HIDE DEF S
    <3> QED BY <1>0, BaseEdgesCount
  <2>3. {i \in DOMAIN base.edges : base.edges[i] \in S \cap T} = BaseIn(U)
    BY <1>0, FiniteParts DEF BaseIn
  <2>4. /\ LiveIn(U) \in SUBSET (1..Len(added_edges))
        /\ \A p \in 1..Len(added_edges) :
             p \in LiveIn(U) <=> p \in Q /\ p \in R /\ added_edges[p].edge \in T
    BY LiveEndsUnmasked DEF LiveIn, Live
  <2>5. ds \in Seq(Triples) /\ Occurs(ds, T) = Cardinality(LiveIn(U))
    <3>1. in_index[x] \in Seq(1..Len(added_edges))
      BY <1>0 DEF Shape
    <3>2. \A p \in 1..Len(added_edges) :
            Occurs(in_index[x], {p}) = IF p \in Q THEN 1 ELSE 0
      BY DEF IndexesExact
    <3> HIDE DEF Q, R, U
    <3>3. Selects(in_index[x], Q, R, T, LiveIn(U))
      BY <2>4, <3>1, <3>2 DEF Selects
    <3> QED BY <1>0, <3>3, DeltaEdgesCount
  <2> HIDE DEF bs, ds, U, S, Q, R
  <2>6. Occurs(bs \o ds, T) = Occurs(bs, T) + Occurs(ds, T)
    BY <2>2, <2>5, OccursConcat
  <2>7. Occurs(incoming_neighbors(x), T) = InSight(U)
    BY <2>1, <2>2, <2>3, <2>5, <2>6 DEF InSight
  <2> QED BY <2>7 DEF U
<1> QED BY <1>1, <1>2

(* What a compaction writes is what is in sight, each edge as often: the   *)
(* sources are visited once each, and every edge in sight has one.         *)
LEMMA EdgesOutCount ==
  ASSUME IInv, IndexesExact, NEW T
  PROVE  Occurs(EdgesOut, T) = InSight(T)
<1> DEFINE sources == SetToSeq(LiveNames)
           n       == Len(sources)
           ss      == [i \in 1..n |-> outgoing_neighbors(sources[i])]
           From(m) == {e \in T : \E i \in 1..m : e.from = sources[i]}
<1>0. Shape
  BY DEF IInv
<1>1. /\ n \in Nat /\ \A i \in 1..n : sources[i] \in LiveNames
      /\ \A i, j \in 1..n : sources[i] = sources[j] => i = j
      /\ \A x \in LiveNames : \E i \in 1..n : sources[i] = x
  <2>1. IsFiniteSet(LiveNames)
    BY BasesAssumption, FS_Subset DEF LiveNames
  <2> QED BY <2>1, SetToSeqIsEnumeration
<1> HIDE DEF sources, n
<1>2. \A i \in 1..n : ss[i] \in Seq(Triples) /\ sources[i] \in Names
  BY <1>0, <1>1, OutgoingType DEF LiveNames
<1>3. ss \in Seq(Seq(Triples)) /\ Len(ss) = n
  <2>1. ss = [i \in 1..n |-> ss[i]]
    OBVIOUS
  <2> HIDE DEF ss
  <2> QED BY <1>1, <1>2, <2>1
<1>4. \A i \in 1..n : ss[i] = outgoing_neighbors(sources[i])
  OBVIOUS
<1> HIDE DEF ss
<1>5. PICK F \in [0..Len(ss) -> Seq(Triples)] :
        /\ F[0] = <<>> /\ FlattenSeq(ss) = F[Len(ss)]
        /\ \A m \in 1..Len(ss) : F[m] = F[m - 1] \o ss[m]
  BY <1>3, FlattenSteps
<1> DEFINE Done(m) == m <= n => Occurs(F[m], T) = InSight(From(m))
           D == {m \in Nat : Done(m)}
<1>6. 0 \in D
  <2>1. From(0) = {}
    OBVIOUS
  <2>2. BaseIn({}) = {} /\ LiveIn({}) = {}
    BY DEF BaseIn, LiveIn
  <2>3. InSight(From(0)) = 0
    BY <2>1, <2>2, FS_EmptySet DEF InSight
  <2>4. Occurs(F[0], T) = 0
    BY <1>5, OccursUnit
  <2> HIDE DEF From
  <2> QED BY <2>3, <2>4
<1>7. \A m \in Nat : m \in D => m + 1 \in D
  <2> SUFFICES ASSUME NEW m \in Nat, Done(m), m + 1 <= n
               PROVE Occurs(F[m + 1], T) = InSight(From(m + 1))
    <3>1. ASSUME NEW m \in Nat, Done(m) PROVE Done(m + 1)
      BY <3>1
    <3> HIDE DEF Done
    <3> QED BY <3>1
  <2> DEFINE new == {e \in T : e.from = sources[m + 1]}
  <2>1. m + 1 \in 1..n /\ m + 1 \in 1..Len(ss) /\ m \in 0..Len(ss) /\ (m + 1) - 1 = m
    BY <1>1, <1>3
  <2>2. F[m + 1] = F[m] \o ss[m + 1] /\ F[m] \in Seq(Triples) /\ ss[m + 1] \in Seq(Triples)
    BY <1>2, <1>5, <2>1
  <2>3. Occurs(F[m + 1], T) = Occurs(F[m], T) + Occurs(ss[m + 1], T)
    BY <2>2, OccursConcat
  <2>4. Occurs(F[m], T) = InSight(From(m))
    BY <1>1
  <2>5. Occurs(ss[m + 1], T) = InSight(new)
    BY <1>2, <1>4, <2>1, OutgoingCount
  <2>6. From(m + 1) = From(m) \cup new /\ From(m) \cap new = {}
    <3>1. 1..(m + 1) = (1..m) \cup {m + 1} /\ m + 1 \notin 1..m /\ 1..m \subseteq 1..n
      BY <1>1
    <3>2. \A i \in 1..m : sources[i] # sources[m + 1]
      BY <1>1, <2>1, <3>1
    <3> QED BY <3>1, <3>2
  <2> HIDE DEF From, new
  <2>7. InSight(From(m) \cup new) = InSight(From(m)) + InSight(new)
    BY <1>0, <2>6, InSightAdds
  <2> QED BY <2>3, <2>4, <2>5, <2>6, <2>7
<1>8. \A m \in Nat : Done(m)
  <2>1. \A m \in Nat : m \in D
    <3> HIDE DEF D
    <3> QED BY <1>6, <1>7, NatSetInduction
  <2> HIDE DEF Done
  <2> QED BY <2>1
<1>9. Occurs(F[n], T) = InSight(From(n))
  <2> HIDE DEF From
  <2> QED BY <1>1, <1>8
<1>10. BaseIn(From(n)) = BaseIn(T) /\ LiveIn(From(n)) = LiveIn(T)
  <2>1. \A i \in DOMAIN base.edges :
          ~Masked(base.edges[i]) => base.edges[i].from \in LiveNames
    BY <1>0, FiniteParts DEF IInv, NoDanglingEdge, LiveNames, Range
  <2>2. \A p \in Live : added_edges[p].edge.from \in LiveNames
    BY <1>0, LiveEndpoints, DeltaEdgeType DEF LiveNames, Live
  <2>3. \A e : e.from \in LiveNames => \E i \in 1..n : e.from = sources[i]
    BY <1>1
  <2> QED BY <2>1, <2>2, <2>3 DEF BaseIn, LiveIn
<1>11. EdgesOut = FlattenSeq(ss)
  BY DEF EdgesOut, ss, n, sources
<1> QED BY <1>3, <1>5, <1>9, <1>10, <1>11 DEF InSight

(* What is in sight of one edge, as GraphView has it.                      *)
LEMMA InSightOfOne ==
  ASSUME Shape, NEW e \in Triples
  PROVE  /\ Cardinality(BaseIn({e})) = IF Masked(e) THEN 0 ELSE InBase(e)
         /\ Cardinality(LiveIn({e})) = InDelta(e)
         /\ InSight({e}) = (IF Masked(e) THEN 0 ELSE InBase(e)) + InDelta(e)
         /\ InBase(e) \in Nat /\ InDelta(e) \in Nat
         /\ \A list : CountIn(list, e) = Occurs(list, {e})
<1>1. Cardinality(BaseIn({e})) = IF Masked(e) THEN 0 ELSE InBase(e)
  <2>1. CASE Masked(e)
    <3>1. BaseIn({e}) = {}
      BY <2>1 DEF BaseIn
    <3> QED BY <2>1, <3>1, FS_EmptySet
  <2>2. CASE ~Masked(e)
    <3>1. BaseIn({e}) = {i \in DOMAIN base.edges : base.edges[i] = e}
      BY <2>2 DEF BaseIn
    <3> QED BY <2>2, <3>1 DEF InBase
  <2> QED BY <2>1, <2>2
<1>2. Cardinality(LiveIn({e})) = InDelta(e)
  <2>1. \A p \in 1..Len(added_edges) :
          added_edges[p] = [edge |-> e, dead |-> FALSE]
            <=> added_edges[p].edge = e /\ ~added_edges[p].dead
    <3> SUFFICES ASSUME NEW d \in [edge: Triples, dead: BOOLEAN]
                 PROVE d = [edge |-> e, dead |-> FALSE] <=> d.edge = e /\ ~d.dead
      BY DeltaEdgeType
    <3>1. d = [edge |-> d.edge, dead |-> d.dead] /\ d.dead \in BOOLEAN
      <4> HIDE DEF Triples
      <4> QED OBVIOUS
    <3> QED BY <3>1
  <2>2. LiveIn({e}) = {p \in DOMAIN added_edges : added_edges[p] = [edge |-> e, dead |-> FALSE]}
    BY <2>1, DeltaEdgeType DEF LiveIn, Live
  <2> QED BY <2>2 DEF InDelta
<1>3. InBase(e) \in Nat /\ InDelta(e) \in Nat
  <2> DEFINE I == {i \in DOMAIN base.edges : base.edges[i] = e}
             D == DOMAIN base.edges
  <2>1. InBase(e) = Cardinality(I) /\ I \subseteq D /\ IsFiniteSet(D)
    BY FiniteParts DEF InBase
  <2> HIDE DEF I, D
  <2>2. IsFiniteSet(I)
    BY <2>1, FS_Subset
  <2>3. InBase(e) \in Nat
    BY <2>1, <2>2, FS_CardinalityType
  <2>4. Cardinality(LiveIn({e})) \in Nat
    <3> DEFINE E == {e}
    <3>1. E \cap {} = {}
      OBVIOUS
    <3> HIDE DEF E
    <3>2. Cardinality(LiveIn(E)) \in Nat
      BY <3>1, InSightAdds
    <3> QED BY <3>2 DEF E
  <2> QED BY <1>2, <2>3, <2>4
<1>4. \A list : CountIn(list, e) = Occurs(list, {e})
  <2> SUFFICES ASSUME NEW list PROVE CountIn(list, e) = Occurs(list, {e})
    OBVIOUS
  <2>1. Places(list, {e}) = {i \in DOMAIN list : list[i] = e}
    BY DEF Places
  <2> QED BY <2>1 DEF CountIn, Occurs
<1>5. InSight({e}) = (IF Masked(e) THEN 0 ELSE InBase(e)) + InDelta(e)
  BY <1>1, <1>2 DEF InSight
<1> QED BY <1>1, <1>2, <1>3, <1>4, <1>5

(* The two counts in terms of the sets.                                    *)
LEMMA CountsOfSets ==
  ASSUME IInv, IndexesExact, Recount
  PROVE  node_count = Cardinality(LiveNames) /\ edge_count = Len(materialize.edges)
<1>0. Shape
  BY DEF IInv
<1>1. node_count = Cardinality(LiveNames)
  <2> DEFINE B == DOMAIN base.nodes
             R == removed_nodes
             A == DOMAIN added_nodes
  <2>1. LiveNames = (B \ R) \cup (A \ B) /\ (B \ R) \cap (A \ B) = {}
    <3>1. A \subseteq Names /\ B \subseteq Names /\ A \cap R = {}
      BY <1>0, FiniteParts DEF IInv, ShadowXorTombstone, Shape
    <3> QED BY <3>1 DEF LiveNames, IsPresent
  <2>2. IsFiniteSet(B) /\ IsFiniteSet(A)
    BY <1>0, FiniteParts
  <2>3. B \cap R = R \cap B
    OBVIOUS
  <2> HIDE DEF A, B, R
  <2>4. /\ IsFiniteSet(B \ R) /\ Cardinality(B \ R) = Cardinality(B) - Cardinality(R \cap B)
        /\ IsFiniteSet(A \ B)
    <3>1. IsFiniteSet(B \ R) /\ Cardinality(B \ R) = Cardinality(B) - Cardinality(B \cap R)
      BY <2>2, FS_Difference
    <3>2. IsFiniteSet(A \ B)
      BY <2>2, FS_Difference
    <3> QED BY <2>3, <3>1, <3>2
  <2>5. Cardinality((B \ R) \cup (A \ B))
          = Cardinality(B \ R) + Cardinality(A \ B) - Cardinality({})
    BY <2>1, <2>4, FS_Union
  <2>6. /\ Cardinality({}) = 0 /\ Cardinality(B) \in Nat /\ Cardinality(A \ B) \in Nat
        /\ Cardinality(R \cap B) \in Nat
    BY <2>2, <2>4, FS_EmptySet, FS_CardinalityType, FS_Intersection
  <2> DEFINE b == Cardinality(B)
             r == Cardinality(R \cap B)
             a == Cardinality(A \ B)
             k == Cardinality(B \ R)
  <2>7. Cardinality(LiveNames) = k + a - 0 /\ k = b - r /\ b \in Nat /\ a \in Nat /\ r \in Nat
    BY <2>1, <2>4, <2>5, <2>6
  <2>8. node_count = b + a - r
    BY DEF node_count, Recount, A, B, R
  <2> HIDE DEF a, b, r, k
  <2> QED BY <2>7, <2>8
<1>2. edge_count = Len(materialize.edges)
  <2> DEFINE M == MaskedBy(removed_nodes, removed_edges)
             D == DOMAIN base.edges
  <2>1. EdgesOut \in Seq(Triples) /\ materialize.edges = EdgesOut
    BY <1>0, MaterializeType DEF materialize
  <2>2. Occurs(EdgesOut, Triples) = Len(EdgesOut)
    <3>1. DOMAIN EdgesOut = 1..Len(EdgesOut) /\ Len(EdgesOut) \in Nat
      BY <2>1
    <3>2. Places(EdgesOut, Triples) = 1..Len(EdgesOut)
      <4> HIDE DEF Triples
      <4> QED BY <2>1, <3>1 DEF Places
    <3>3. \A n \in Nat : Cardinality(1..n) = n
      BY FS_Interval
    <3>4. Cardinality(1..Len(EdgesOut)) = Len(EdgesOut)
      BY <3>1, <3>3
    <3> QED BY <3>2, <3>4 DEF Occurs
  <2>3. Occurs(EdgesOut, Triples) = InSight(Triples)
    BY EdgesOutCount
  <2>4. LiveIn(Triples) = Live /\ BaseIn(Triples) = D \ M
    BY <1>0, FiniteParts, DeltaEdgeType DEF LiveIn, BaseIn, Live, MaskedBy, Masked
  <2>5. /\ IsFiniteSet(D) /\ Cardinality(D) = Len(base.edges) /\ Len(base.edges) \in Nat
    <3>1. base.edges \in Seq(Triples)
      BY <1>0 DEF Shape, Graphs
    <3>2. D = 1..Len(base.edges) /\ Len(base.edges) \in Nat
      BY <3>1
    <3> HIDE DEF D
    <3> QED BY <3>2, FS_Interval
  <2>6. D \cap M = M /\ IsFiniteSet(M)
    <3>1. M \subseteq D
      BY DEF MaskedBy
    <3> HIDE DEF M, D
    <3> QED BY <2>5, <3>1, FS_Subset
  <2> DEFINE m == Cardinality(M)
             d == Cardinality(D \ M)
             l == Cardinality(Live)
  <2> HIDE DEF M, D
  <2>7. d = Len(base.edges) - m
    <3>1. Cardinality(D \ M) = Cardinality(D) - Cardinality(D \cap M)
      BY <2>5, FS_Difference
    <3> QED BY <2>5, <2>6, <3>1
  <2>8. m \in Nat /\ l \in Nat
    BY <1>0, <2>6, FiniteParts, FS_CardinalityType
  <2>9. Len(EdgesOut) = d + l
    BY <2>2, <2>3, <2>4 DEF InSight
  <2>10. edge_count = Len(base.edges) + l - m
    BY DEF edge_count, Recount, M
  <2> HIDE DEF m, d, l
  <2>11. edge_count = Len(EdgesOut)
    BY <2>5, <2>7, <2>8, <2>9, <2>10
  <2> QED BY <2>1, <2>11
<1> QED BY <1>1, <1>2

(* What the invariants say of the readers.                                 *)
LEMMA ReadersParts ==
  ASSUME IInv, IndexesExact, Recount
  PROVE  ReadersSeeView
<1>1. Shape
  BY DEF IInv
<1>2. ASSUME NEW e \in Triples
      PROVE /\ CountIn(outgoing_neighbors(e.from), e)
                 = (IF Masked(e) THEN 0 ELSE InBase(e)) + InDelta(e)
            /\ CountIn(incoming_neighbors(e.to), e)
                 = (IF Masked(e) THEN 0 ELSE InBase(e)) + InDelta(e)
  <2>1. e.from \in Names /\ e.to \in Names
    BY DEF Triples
  <2>2. {d \in {e} : d.from = e.from} = {e} /\ {d \in {e} : d.to = e.to} = {e}
    OBVIOUS
  <2>3. /\ Occurs(outgoing_neighbors(e.from), {e}) = InSight({e})
        /\ Occurs(incoming_neighbors(e.to), {e}) = InSight({e})
    BY <2>1, <2>2, OutgoingCount, IncomingCount
  <2> QED BY <1>1, <2>3, InSightOfOne
<1> QED BY <1>2, CountsOfSets DEF ReadersSeeView

(* Both directions of the merged view list every edge of the graph exactly *)
(* as often as it has it, parallel edges and self-loops included, and the  *)
(* two O(1) counts are the number of nodes and of edges a compaction would *)
(* write (DeltaAccessor, delta.rs).                                        *)
THEOREM ReadersSeeTheGraph == Spec => []ReadersSeeView
<1>1. IInv /\ IndexesExact /\ Recount => ReadersSeeView
  BY ReadersParts
<1>2. IInv /\ CountersExact => Recount
  BY RecountForm DEF IInv
<1> QED BY <1>1, <1>2, InitIndexes, NextIndexes, Invariant, CountersNeverDrift, PTL DEF Spec

(***************************************************************************)
(* The overlay implements the plain graph of GraphView.  A base edge is    *)
(* settled or hidden by where its endpoints are, and by nothing else: that *)
(* is what lets a node that comes back bring exactly its base edges back.  *)
(***************************************************************************)
(* The base edges nobody removed, and the edges between the names in L.    *)
Kept       == [e \in Triples |-> IF e \in removed_edges THEN 0 ELSE InBase(e)]
Between(L) == {e \in Triples : e.from \in L /\ e.to \in L}

ViewForm ==
  /\ Kept \in [Triples -> Nat] /\ ViewFresh \in [Triples -> Nat]
  /\ ViewSettled = [e \in Triples |-> IF e \in Between(LiveNames) THEN Kept[e] ELSE 0]
  /\ ViewHidden = [e \in Triples |-> IF e \in Between(LiveNames) THEN 0 ELSE Kept[e]]
  /\ \A e \in Triples : /\ ViewFresh[e] = Cardinality(LiveIn({e}))
                        /\ e \notin Between(LiveNames) => ViewFresh[e] = 0
  /\ DOMAIN ViewNodes = LiveNames

(* A name of the base is tombstoned exactly when it is not present.        *)
LEMMA OverlayForm == IInv => ViewForm
<1> SUFFICES ASSUME IInv PROVE ViewForm
  OBVIOUS
<1>0. Shape
  BY DEF IInv
<1>1. ASSUME NEW e \in Triples
      PROVE InBase(e) \in Nat /\ InDelta(e) \in Nat
  BY <1>0, InSightOfOne
<1>2. ASSUME NEW e \in Triples, InBase(e) # 0
      PROVE Masked(e) <=> e \in removed_edges \/ e \notin Between(LiveNames)
  <2> DEFINE I == {i \in DOMAIN base.edges : base.edges[i] = e}
  <2>1. I # {}
    <3>1. InBase(e) = Cardinality(I)
      BY DEF InBase
    <3> HIDE DEF I
    <3> QED BY <1>2, <3>1, FS_EmptySet
  <2>2. e.from \in DOMAIN base.nodes /\ e.to \in DOMAIN base.nodes
    BY <2>1 DEF IInv, WellFormed, Range
  <2>3. e.from \in Names /\ e.to \in Names
    BY DEF Triples
  <2>4. \A x \in Names : x \in DOMAIN base.nodes =>
          (x \in LiveNames <=> x \notin removed_nodes)
    BY DEF IInv, ShadowXorTombstone, LiveNames, IsPresent
  <2> QED BY <2>2, <2>3, <2>4 DEF Masked, Between
<1>3. ASSUME NEW e \in Triples, e \notin Between(LiveNames)
      PROVE InDelta(e) = 0
  <2>1. LiveIn({e}) = {}
    <3> SUFFICES ASSUME NEW p \in Live, added_edges[p].edge = e PROVE FALSE
      BY DEF LiveIn
    <3>1. IsPresent(e.from) /\ IsPresent(e.to)
      BY LiveEndpoints
    <3> QED BY <1>3, <3>1 DEF Between, LiveNames, Triples
  <2> QED BY <1>0, <2>1, InSightOfOne, FS_EmptySet
<1>4. Kept \in [Triples -> Nat] /\ ViewFresh \in [Triples -> Nat]
  <2> HIDE DEF Triples
  <2> QED BY <1>1 DEF Kept, ViewFresh
<1>5. ViewSettled = [e \in Triples |-> IF e \in Between(LiveNames) THEN Kept[e] ELSE 0]
  <2>1. \A e \in Triples : (IF Masked(e) THEN 0 ELSE InBase(e))
                             = IF e \in Between(LiveNames) THEN Kept[e] ELSE 0
    BY <1>2 DEF Kept
  <2> QED BY <2>1 DEF ViewSettled
<1>6. ViewHidden = [e \in Triples |-> IF e \in Between(LiveNames) THEN 0 ELSE Kept[e]]
  <2>1. \A e \in Triples : (IF Masked(e) /\ e \notin removed_edges THEN InBase(e) ELSE 0)
                             = IF e \in Between(LiveNames) THEN 0 ELSE Kept[e]
    BY <1>2 DEF Kept
  <2> QED BY <2>1 DEF ViewHidden
<1>7. \A e \in Triples : /\ ViewFresh[e] = Cardinality(LiveIn({e}))
                         /\ e \notin Between(LiveNames) => ViewFresh[e] = 0
  BY <1>0, <1>3, InSightOfOne DEF ViewFresh
<1>8. DOMAIN ViewNodes = LiveNames
  BY DEF ViewNodes
<1> QED BY <1>4, <1>5, <1>6, <1>7, <1>8 DEF ViewForm

(* What a step does to the settled and the hidden edges follows from what  *)
(* it does to the names in sight and to the edges kept.                    *)
LEMMA UpsertImplements ==
  ASSUME IInv, ViewForm, ViewForm', UpsertNode
  PROVE  /\ Head(todo).name \in Names /\ Head(todo).data \in Data
         /\ View!Upsert(Head(todo).name, Head(todo).data)
<1> DEFINE n == Head(todo).name
           d == Head(todo).data
<1>1. n \in Names /\ d \in Data
  BY TodoType, OpFields DEF IInv, Shape, UpsertNode, Head_is
<1>2. LiveNames' = LiveNames \cup {n}
  BY <1>1 DEF UpsertNode, LiveNames, IsPresent
<1>3. ViewNodes' = [m \in LiveNames' |-> IF m = n THEN d ELSE ViewNodes[m]]
  <2>1. \A m \in LiveNames' : get_node(m)' = IF m = n THEN d ELSE get_node(m)
    BY <1>1 DEF UpsertNode, get_node
  <2>2. \A m \in LiveNames : ViewNodes[m] = get_node(m)
    BY DEF ViewNodes
  <2>3. \A m \in LiveNames' : m # n => m \in LiveNames
    BY <1>2
  <2> HIDE DEF n, d
  <2> QED BY <2>1, <2>2, <2>3 DEF ViewNodes
<1>4. Kept' = Kept /\ ViewFresh' = ViewFresh
  BY DEF UpsertNode, Kept, InBase, ViewFresh, InDelta
<1> HIDE DEF n, d
<1>5. DOMAIN ViewNodes \cup {n} = LiveNames'
  BY <1>2 DEF ViewForm
<1>6. /\ View!Among(LiveNames') = Between(LiveNames')
      /\ Between(LiveNames) \subseteq Between(LiveNames')
  BY <1>2 DEF View!Among, View!Edges, Between, Triples
<1>7. View!Edges = Triples
  BY DEF View!Edges, Triples
<1>8. ViewSettled' = View!Plus(ViewSettled, View!Only(ViewHidden, Between(LiveNames')))
  <2>1. ViewSettled' = [e \in Triples |-> IF e \in Between(LiveNames') THEN Kept[e] ELSE 0]
    BY <1>4 DEF ViewForm
  <2>2. ASSUME NEW e \in Triples
        PROVE (IF e \in Between(LiveNames') THEN Kept[e] ELSE 0)
                = ViewSettled[e]
                  + (IF e \in Between(LiveNames') THEN ViewHidden[e] ELSE 0)
    <3>1. /\ Kept[e] \in Nat
          /\ ViewSettled[e] = IF e \in Between(LiveNames) THEN Kept[e] ELSE 0
          /\ ViewHidden[e] = IF e \in Between(LiveNames) THEN 0 ELSE Kept[e]
      BY DEF ViewForm
    <3> QED BY <1>6, <3>1
  <2> QED BY <1>7, <2>1, <2>2 DEF View!Plus, View!Only
<1>9. ViewHidden' = View!Only(ViewHidden, View!Edges \ Between(LiveNames'))
  <2>1. ViewHidden' = [e \in Triples |-> IF e \in Between(LiveNames') THEN 0 ELSE Kept[e]]
    BY <1>4 DEF ViewForm
  <2>2. \A e \in Triples : ViewHidden[e] = IF e \in Between(LiveNames) THEN 0 ELSE Kept[e]
    BY DEF ViewForm
  <2> QED BY <1>6, <1>7, <2>1, <2>2 DEF View!Only
<1>10. View!Upsert(n, d)
  BY <1>3, <1>4, <1>5, <1>6, <1>8, <1>9 DEF View!Upsert
<1> QED BY <1>1, <1>10 DEF n, d

(* Marking an edge's last places dead takes it out of sight; marking none  *)
(* of them leaves it as it was.                                            *)
LEMMA KillShrinks ==
  ASSUME Shape, Shape', ViewForm, ViewForm', NEW positions, Kill(positions), NEW e \in Triples
  PROVE  /\ (\A p \in Live : added_edges[p].edge = e => p \in positions) => ViewFresh'[e] = 0
         /\ (\A p \in Live : added_edges[p].edge = e => p \notin positions)
              => ViewFresh'[e] = ViewFresh[e]
<1>1. LiveIn({e})' = LiveIn({e}) \ positions
  BY KillMarks, DeltaEdgeType DEF LiveIn, Live
<1>2. ViewFresh'[e] = Cardinality(LiveIn({e})') /\ ViewFresh[e] = Cardinality(LiveIn({e}))
  BY DEF ViewForm
<1>3. ASSUME \A p \in Live : added_edges[p].edge = e => p \in positions
      PROVE ViewFresh'[e] = 0
  <2>1. LiveIn({e})' = {}
    BY <1>1, <1>3 DEF LiveIn
  <2> QED BY <1>2, <2>1, FS_EmptySet
<1>4. ASSUME \A p \in Live : added_edges[p].edge = e => p \notin positions
      PROVE ViewFresh'[e] = ViewFresh[e]
  <2>1. LiveIn({e})' = LiveIn({e})
    BY <1>1, <1>4 DEF LiveIn
  <2> QED BY <1>2, <2>1
<1> QED BY <1>3, <1>4

(* A removed node takes its edges with it: the side indices hold exactly   *)
(* the edges at that node, so no other edge is marked.                     *)
LEMMA RemoveNodeImplements ==
  ASSUME IInv, IInv', IndexesExact, ViewForm, ViewForm', RemoveNode
  PROVE  Head(todo).name \in Names /\ View!Remove(Head(todo).name)
<1> DEFINE n == Head(todo).name
           positions == Range(out_index[n]) \cup Range(in_index[n])
<1>0. Shape /\ Shape'
  BY DEF IInv
<1>1. n \in Names
  BY TodoType, OpFields DEF IInv, Shape, RemoveNode, Head_is
<1>2. LiveNames' = LiveNames \ {n}
  BY <1>1 DEF RemoveNode, LiveNames, IsPresent
<1>3. ViewNodes' = [m \in LiveNames' |-> ViewNodes[m]]
  <2>1. \A m \in LiveNames' : get_node(m)' = get_node(m)
    BY <1>1, <1>2 DEF RemoveNode, get_node
  <2>2. \A m \in LiveNames : ViewNodes[m] = get_node(m)
    BY DEF ViewNodes
  <2>3. \A m \in LiveNames' : m \in LiveNames
    BY <1>2
  <2> HIDE DEF n
  <2> QED BY <2>1, <2>2, <2>3 DEF ViewNodes
<1>4. Kept' = Kept /\ Kill(positions)
  BY DEF RemoveNode, Kept, InBase
<1>5. \A p \in Live : p \in positions
                        <=> added_edges[p].edge.from = n \/ added_edges[p].edge.to = n
  <2> SUFFICES ASSUME NEW p \in Live
               PROVE p \in positions
                       <=> added_edges[p].edge.from = n \/ added_edges[p].edge.to = n
    OBVIOUS
  <2>1. p \in 1..Len(added_edges)
    BY DEF Live
  <2>2. /\ out_index[n] \in Seq(1..Len(added_edges)) /\ in_index[n] \in Seq(1..Len(added_edges))
    BY <1>0, <1>1 DEF Shape
  <2>3. /\ Occurs(out_index[n], {p}) = IF added_edges[p].edge.from = n THEN 1 ELSE 0
        /\ Occurs(in_index[n], {p}) = IF added_edges[p].edge.to = n THEN 1 ELSE 0
    BY <1>1, <2>1 DEF IndexesExact
  <2> HIDE DEF n
  <2>4. /\ p \in Range(out_index[n]) <=> added_edges[p].edge.from = n
        /\ p \in Range(in_index[n]) <=> added_edges[p].edge.to = n
    <3>1. ASSUME NEW s \in Seq(1..Len(added_edges)), AtMostOnce(s, p)
          PROVE Occurs(s, {p}) = 1 <=> p \in Range(s)
      <4>1. DOMAIN s = 1..Len(s)
        OBVIOUS
      <4>2. p \in Range(s) <=> \E i \in 1..Len(s) : s[i] = p
        BY <4>1 DEF Range
      <4> QED BY <3>1, <4>2, OccursOnce
    <3>2. AtMostOnce(out_index[n], p) /\ AtMostOnce(in_index[n], p)
      BY <2>3 DEF AtMostOnce
    <3>3. /\ Occurs(out_index[n], {p}) = 1 <=> p \in Range(out_index[n])
          /\ Occurs(in_index[n], {p}) = 1 <=> p \in Range(in_index[n])
      BY <2>2, <3>1, <3>2
    <3>4. /\ Occurs(out_index[n], {p}) = 1 <=> added_edges[p].edge.from = n
          /\ Occurs(in_index[n], {p}) = 1 <=> added_edges[p].edge.to = n
      BY <2>3
    <3> QED BY <3>3, <3>4
  <2> QED BY <2>4
<1> HIDE DEF n, positions
<1>6. View!Edges = Triples /\ DOMAIN ViewNodes \ {n} = LiveNames'
  BY <1>2 DEF View!Edges, Triples, ViewForm
<1>7. /\ View!Among(LiveNames') = Between(LiveNames')
      /\ \A e \in Triples : e \in Between(LiveNames')
                              <=> e \in Between(LiveNames) /\ e.from # n /\ e.to # n
  BY <1>2 DEF View!Among, View!Edges, Between, Triples
<1>8. ViewSettled' = View!Only(ViewSettled, Between(LiveNames'))
  <2>1. ViewSettled' = [e \in Triples |-> IF e \in Between(LiveNames') THEN Kept[e] ELSE 0]
    BY <1>4 DEF ViewForm
  <2>2. \A e \in Triples : ViewSettled[e] = IF e \in Between(LiveNames) THEN Kept[e] ELSE 0
    BY DEF ViewForm
  <2> QED BY <1>6, <1>7, <2>1, <2>2 DEF View!Only
<1>9. ViewHidden' = View!Plus(ViewHidden, View!Only(ViewSettled, View!Edges \ Between(LiveNames')))
  <2>1. ViewHidden' = [e \in Triples |-> IF e \in Between(LiveNames') THEN 0 ELSE Kept[e]]
    BY <1>4 DEF ViewForm
  <2>2. ASSUME NEW e \in Triples
        PROVE (IF e \in Between(LiveNames') THEN 0 ELSE Kept[e])
                = ViewHidden[e]
                  + (IF e \in Triples \ Between(LiveNames') THEN ViewSettled[e] ELSE 0)
    <3>1. /\ Kept[e] \in Nat
          /\ ViewSettled[e] = IF e \in Between(LiveNames) THEN Kept[e] ELSE 0
          /\ ViewHidden[e] = IF e \in Between(LiveNames) THEN 0 ELSE Kept[e]
      BY DEF ViewForm
    <3> QED BY <1>7, <3>1
  <2> QED BY <1>6, <2>1, <2>2 DEF View!Plus, View!Only
<1>10. ViewFresh' = View!Only(ViewFresh, Between(LiveNames'))
  <2>1. ASSUME NEW e \in Triples
        PROVE ViewFresh'[e] = IF e \in Between(LiveNames') THEN ViewFresh[e] ELSE 0
    <3>1. CASE e \in Between(LiveNames')
      <4>1. \A p \in Live : added_edges[p].edge = e => p \notin positions
        BY <1>5, <1>7, <3>1
      <4> QED BY <1>0, <1>4, <3>1, <4>1, KillShrinks
    <3>2. CASE e \notin Between(LiveNames')
      BY <3>2 DEF ViewForm
    <3> QED BY <3>1, <3>2
  <2>2. ViewFresh' \in [Triples -> Nat]
    BY DEF ViewForm
  <2> HIDE DEF Triples
  <2> QED BY <1>6, <2>1, <2>2 DEF View!Only
<1>11. View!Remove(n)
  BY <1>3, <1>6, <1>7, <1>8, <1>9, <1>10 DEF View!Remove
<1> QED BY <1>1, <1>11 DEF n

(* A new edge connects two present names, which pass 1 promised.           *)
LEMMA AddEdgeImplements ==
  ASSUME IInv, IInv', ViewForm, ViewForm', AddEdge
  PROVE  Head(todo).edge \in Triples /\ View!Connect(Head(todo).edge)
<1> DEFINE e == Head(todo).edge
<1>0. Shape /\ Shape'
  BY DEF IInv
<1>1. e \in Triples /\ IsPresent(e.from) /\ IsPresent(e.to)
  <2>1. Head(todo) \in Ops /\ Head(todo) = todo[1] /\ 1 \in DOMAIN todo /\ Head(todo).op = "AddEdge"
    <3>1. todo \in Seq(Ops) /\ todo # <<>> /\ Head(todo).op = "AddEdge"
      BY <1>0 DEF Shape, AddEdge, Head_is
    <3>2. DOMAIN todo = 1..Len(todo)
      BY <3>1
    <3> QED BY <3>1, <3>2, TodoType
  <2>2. PresentAt(todo, 1, e.from) /\ PresentAt(todo, 1, e.to)
    BY <2>1 DEF IInv, PromisedEndpoints, Accepts
  <2> QED BY <2>1, <2>2, OpFields DEF PresentAt
<1>2. LiveNames' = LiveNames /\ ViewNodes' = ViewNodes /\ Kept' = Kept
  BY DEF AddEdge, LiveNames, IsPresent, ViewNodes, get_node, Kept, InBase
<1>3. ViewSettled' = ViewSettled /\ ViewHidden' = ViewHidden
  BY <1>2 DEF ViewForm
<1> DEFINE q == Len(added_edges) + 1
<1>4. /\ added_edges' = Append(added_edges, [edge |-> e, dead |-> FALSE])
      /\ Len(added_edges) \in Nat /\ Len(added_edges') = q
      /\ \A p \in 1..Len(added_edges) : added_edges'[p] = added_edges[p]
      /\ added_edges'[q] = [edge |-> e, dead |-> FALSE]
  <2>1. added_edges' = Append(added_edges, [edge |-> e, dead |-> FALSE])
    BY DEF AddEdge
  <2>2. added_edges \in Seq([edge: Triples, dead: BOOLEAN])
    BY <1>0 DEF Shape
  <2> HIDE DEF Triples, e
  <2> QED BY <2>1, <2>2
<1>5. Live' = Live \cup {q} /\ q \notin Live
  BY <1>4 DEF Live
<1>6. ASSUME NEW d \in Triples
      PROVE ViewFresh'[d] = ViewFresh[d] + IF d = e THEN 1 ELSE 0
  <2>1. LiveIn({d})' = IF d = e THEN LiveIn({d}) \cup {q} ELSE LiveIn({d})
    BY <1>4, <1>5 DEF LiveIn, Live
  <2>2. q \notin LiveIn({d})
    BY <1>5 DEF LiveIn
  <2>3. ViewFresh'[d] = Cardinality(LiveIn({d})') /\ ViewFresh[d] = Cardinality(LiveIn({d}))
    BY DEF ViewForm
  <2>4. IsFiniteSet(LiveIn({d})) /\ ViewFresh[d] \in Nat
    <3>1. IsFiniteSet(Live) /\ LiveIn({d}) \subseteq Live
      BY <1>0, FiniteParts DEF LiveIn
    <3> QED BY <3>1, FS_Subset DEF ViewForm
  <2> DEFINE S == LiveIn({d})
  <2>5. S' = (IF d = e THEN S \cup {q} ELSE S) /\ q \notin S /\ IsFiniteSet(S)
        /\ ViewFresh'[d] = Cardinality(S') /\ ViewFresh[d] = Cardinality(S)
    BY <2>1, <2>2, <2>3, <2>4
  <2> HIDE DEF S, e, q
  <2>6. Cardinality(S \cup {q}) = Cardinality(S) + 1
    BY <2>5, FS_AddElement
  <2> QED BY <2>4, <2>5, <2>6
<1> HIDE DEF e, q
<1>7. View!Edges = Triples /\ e \in View!Among(DOMAIN ViewNodes)
  BY <1>1 DEF View!Among, View!Edges, Triples, ViewForm, LiveNames
<1>8. ViewFresh' = [ViewFresh EXCEPT ![e] = @ + 1]
  <2>1. ViewFresh \in [Triples -> Nat] /\ ViewFresh' \in [Triples -> Nat]
    BY DEF ViewForm
  <2>2. \A d \in Triples : ViewFresh'[d] = [ViewFresh EXCEPT ![e] = @ + 1][d]
    <3> HIDE DEF Triples
    <3> QED BY <1>6, <2>1
  <2> HIDE DEF Triples
  <2> QED BY <2>1, <2>2
<1>9. View!Connect(e)
  BY <1>2, <1>3, <1>7, <1>8 DEF View!Connect
<1> QED BY <1>1, <1>9 DEF e

(* Every parallel edge between the two nodes goes, base and delta, and no  *)
(* other: the index lists all that start there, and the tombstone is exact.*)
LEMMA RemoveEdgeImplements ==
  ASSUME IInv, IInv', ViewForm, ViewForm', RemoveEdge
  PROVE  Head(todo).edge \in Triples /\ View!Disconnect(Head(todo).edge)
<1> DEFINE e == Head(todo).edge
           positions == {p \in Range(out_index[e.from]) : added_edges[p].edge = e}
<1>0. Shape /\ Shape'
  BY DEF IInv
<1>1. e \in Triples
  BY TodoType, OpFields DEF IInv, Shape, RemoveEdge, Head_is
<1>2. LiveNames' = LiveNames /\ ViewNodes' = ViewNodes
  BY DEF RemoveEdge, LiveNames, IsPresent, ViewNodes, get_node
<1>3. \A d \in Triples : Kept'[d] = IF d = e THEN 0 ELSE Kept[d]
  BY DEF RemoveEdge, Kept, InBase
<1>4. Kill(positions)
  BY DEF RemoveEdge
<1>5. \A p \in Live : p \in positions <=> added_edges[p].edge = e
  BY DEF IInv, IndexesComplete
<1> HIDE DEF e, positions
<1>6. \A d \in Triples : ViewFresh'[d] = IF d = e THEN 0 ELSE ViewFresh[d]
  <2> SUFFICES ASSUME NEW d \in Triples
               PROVE ViewFresh'[d] = IF d = e THEN 0 ELSE ViewFresh[d]
    OBVIOUS
  <2>1. CASE d = e
    <3>1. \A p \in Live : added_edges[p].edge = d => p \in positions
      BY <1>5, <2>1
    <3> QED BY <1>0, <1>4, <2>1, <3>1, KillShrinks
  <2>2. CASE d # e
    <3>1. \A p \in Live : added_edges[p].edge = d => p \notin positions
      BY <1>5, <2>2
    <3> QED BY <1>0, <1>4, <2>2, <3>1, KillShrinks
  <2> QED BY <2>1, <2>2
<1>7. ASSUME NEW B, NEW C, B = [d \in Triples |-> B[d]], C = [d \in Triples |-> C[d]],
             \A d \in Triples : C[d] = IF d = e THEN 0 ELSE B[d]
      PROVE C = [B EXCEPT ![e] = 0]
  <2> HIDE DEF Triples
  <2> QED BY <1>7
<1>8. /\ ViewSettled = [d \in Triples |-> ViewSettled[d]]
      /\ ViewSettled' = [d \in Triples |-> ViewSettled'[d]]
      /\ ViewHidden = [d \in Triples |-> ViewHidden[d]]
      /\ ViewHidden' = [d \in Triples |-> ViewHidden'[d]]
      /\ ViewFresh = [d \in Triples |-> ViewFresh[d]]
      /\ ViewFresh' = [d \in Triples |-> ViewFresh'[d]]
  <2> HIDE DEF Triples
  <2> QED BY DEF ViewForm
<1>9. \A d \in Triples : /\ ViewSettled'[d] = IF d = e THEN 0 ELSE ViewSettled[d]
                         /\ ViewHidden'[d] = IF d = e THEN 0 ELSE ViewHidden[d]
  <2> HIDE DEF Triples
  <2> QED BY <1>2, <1>3 DEF ViewForm
<1>10. /\ ViewSettled' = [ViewSettled EXCEPT ![e] = 0]
       /\ ViewHidden' = [ViewHidden EXCEPT ![e] = 0]
       /\ ViewFresh' = [ViewFresh EXCEPT ![e] = 0]
  BY <1>6, <1>7, <1>8, <1>9
<1>11. View!Disconnect(e)
  BY <1>2, <1>10 DEF View!Disconnect
<1> QED BY <1>1, <1>11 DEF e

(* A fold emits every edge in sight from its source, once, and the builder *)
(* skips none of them.                                                     *)
LEMMA FoldedGraph ==
  ASSUME IInv, IndexesExact, ViewForm, NEW g, g = build_graph(materialize)
  PROVE  /\ g \in Graphs /\ WellFormed(g) /\ g.nodes = ViewNodes
         /\ \A e \in Triples : Occurs(g.edges, {e}) = ViewSettled[e] + ViewFresh[e]
<1>0. Shape
  BY DEF IInv
<1>1. g \in Graphs /\ WellFormed(g)
  BY <1>0, BuildGraphType
<1>2. g.nodes = ViewNodes
  BY DEF build_graph, materialize, ViewNodes
<1>3. g.edges = Pick(EdgesOut, Between(LiveNames)) /\ EdgesOut \in Seq(Triples)
  <2>1. materialize.edges = EdgesOut /\ DOMAIN materialize.nodes = LiveNames
    BY DEF materialize
  <2>2. {e \in Triples : {e.from, e.to} \subseteq LiveNames} = Between(LiveNames)
    BY DEF Between
  <2>3. g.edges = Pick(materialize.edges,
                       {e \in Triples : {e.from, e.to} \subseteq DOMAIN materialize.nodes})
    BY DEF build_graph
  <2> QED BY <1>0, <2>1, <2>2, <2>3, MaterializeType
<1>4. ASSUME NEW e \in Triples
      PROVE Occurs(g.edges, {e}) = ViewSettled[e] + ViewFresh[e]
  <2>1. Occurs(g.edges, {e}) = Occurs(EdgesOut, Between(LiveNames) \cap {e})
    BY <1>3, OccursPick
  <2>2. Occurs(g.edges, {e}) = InSight(Between(LiveNames) \cap {e})
    BY <2>1, EdgesOutCount
  <2>3. InSight({e}) = ViewSettled[e] + ViewFresh[e]
    BY <1>0, InSightOfOne DEF ViewSettled, ViewFresh
  <2>4. CASE e \in Between(LiveNames)
    <3>1. Between(LiveNames) \cap {e} = {e}
      BY <2>4
    <3> QED BY <2>2, <2>3, <3>1
  <2>5. CASE e \notin Between(LiveNames)
    <3>1. Between(LiveNames) \cap {e} = {}
      BY <2>5
    <3>2. InSight({}) = 0
      <4>1. BaseIn({}) = {} /\ LiveIn({}) = {}
        BY DEF BaseIn, LiveIn
      <4> QED BY <4>1, FS_EmptySet DEF InSight
    <3>3. ViewSettled[e] = 0 /\ ViewFresh[e] = 0
      BY <2>5 DEF ViewForm
    <3> QED BY <2>2, <3>1, <3>2, <3>3
  <2> QED BY <2>4, <2>5
<1> QED BY <1>1, <1>2, <1>4

(* Readers see nothing of a compaction.                                    *)
LEMMA FoldImplements ==
  ASSUME IInv, IInv', IndexesExact, ViewForm, ViewForm', Fold
  PROVE  View!Compact
<1>1. base' = build_graph(materialize)
  BY DEF Fold
<1>2. base'.nodes = ViewNodes /\ DOMAIN base'.nodes = LiveNames
  BY <1>1, FoldedGraph DEF ViewForm
<1>3. ViewNodes' = ViewNodes
  <2>1. LiveNames' = LiveNames
    BY <1>2 DEF Fold, LiveNames, IsPresent, NoNodes
  <2>2. \A x \in LiveNames : get_node(x)' = ViewNodes[x]
    BY <1>2 DEF Fold, get_node, NoNodes
  <2>3. ViewNodes = [x \in LiveNames |-> ViewNodes[x]]
    BY DEF ViewNodes
  <2> QED BY <2>1, <2>2, <2>3 DEF ViewNodes
<1>5. ASSUME NEW e \in Triples
      PROVE InBase(e)' = ViewSettled[e] + ViewFresh[e]
  <2>1. InBase(e)' = Occurs(base'.edges, {e})
    <3>1. Places(base'.edges, {e}) = {i \in DOMAIN base'.edges : base'.edges[i] = e}
      BY DEF Places
    <3> QED BY <3>1 DEF InBase, Occurs
  <2> QED BY <1>1, <2>1, FoldedGraph
<1>6. removed_nodes' = {} /\ removed_edges' = {} /\ Live' = {}
  BY DEF Fold, Live
<1>7. View!Edges = Triples
  BY DEF View!Edges, Triples
<1>8. ViewSettled' = View!Plus(ViewSettled, ViewFresh)
  <2>1. ViewSettled' = [e \in Triples |-> InBase(e)']
    BY <1>6 DEF ViewSettled, Masked
  <2> QED BY <1>5, <1>7, <2>1 DEF View!Plus
<1>9. ViewFresh' = View!NoEdge
  <2>1. \A e \in Triples : ViewFresh'[e] = 0
    <3> SUFFICES ASSUME NEW e \in Triples PROVE ViewFresh'[e] = 0
      OBVIOUS
    <3>1. LiveIn({e})' = {}
      BY <1>6 DEF LiveIn
    <3> QED BY <3>1, FS_EmptySet DEF ViewForm
  <2>2. ViewFresh' \in [Triples -> Nat]
    BY DEF ViewForm
  <2> HIDE DEF Triples
  <2> QED BY <1>7, <2>1, <2>2 DEF View!NoEdge
<1>10. ViewHidden' = View!NoEdge
  BY <1>6, <1>7 DEF ViewHidden, Masked, View!NoEdge
<1> QED BY <1>3, <1>8, <1>9, <1>10 DEF View!Compact

(* A built graph is a plain graph with nothing fresh and nothing hidden.   *)
LEMMA InitImplements ==
  ASSUME Init, IInv, ViewForm
  PROVE  View!Init
<1>0. Shape
  BY DEF IInv
<1>1. View!Edges = Triples /\ View!Among(LiveNames) = Between(LiveNames)
  BY DEF View!Edges, View!Among, Triples, Between
<1>2. ViewNodes \in UNION {[N -> Data] : N \in SUBSET Names}
  <2>1. materialize.nodes = ViewNodes /\ LiveNames \in SUBSET Names
    BY DEF materialize, ViewNodes, LiveNames
  <2> QED BY <1>0, <2>1, MaterializeType
<1>3. ViewSettled \in [Triples -> Nat]
  <2>1. \A e \in Triples : (IF e \in Between(LiveNames) THEN Kept[e] ELSE 0) \in Nat
    BY DEF ViewForm
  <2> HIDE DEF Triples
  <2> QED BY <2>1 DEF ViewForm
<1>4. ViewSettled = View!Only(ViewSettled, Between(LiveNames))
  <2> HIDE DEF Triples
  <2> QED BY <1>1 DEF ViewForm, View!Only
<1>5. ViewFresh = View!NoEdge
  <2>1. \A e \in Triples : ViewFresh[e] = 0
    <3> SUFFICES ASSUME NEW e \in Triples PROVE ViewFresh[e] = 0
      OBVIOUS
    <3>1. LiveIn({e}) = {}
      BY DEF Init, LiveIn, Live
    <3> QED BY <3>1, FS_EmptySet DEF ViewForm
  <2> HIDE DEF Triples
  <2> QED BY <1>1, <2>1 DEF ViewForm, View!NoEdge
<1>6. ViewHidden = View!NoEdge
  BY <1>1 DEF Init, ViewHidden, Masked, View!NoEdge
<1> QED BY <1>1, <1>2, <1>3, <1>4, <1>5, <1>6 DEF View!Init, ViewForm

(* A batch only queues its operations, and a step that leaves the delta    *)
(* alone leaves the graph alone.                                           *)
LEMMA NextImplements ==
  ASSUME IInv, IInv', IndexesExact, ViewForm, ViewForm', [Next]_vars
  PROVE  [View!Next]_View!vars
<1>1. CASE UpsertNode
  BY <1>1, UpsertImplements DEF View!Next
<1>2. CASE RemoveNode
  BY <1>2, RemoveNodeImplements DEF View!Next
<1>3. CASE AddEdge
  <2>1. View!Edges = Triples
    BY DEF View!Edges, Triples
  <2> QED BY <1>3, <2>1, AddEdgeImplements DEF View!Next
<1>4. CASE RemoveEdge
  <2>1. View!Edges = Triples
    BY DEF View!Edges, Triples
  <2> QED BY <1>4, <2>1, RemoveEdgeImplements DEF View!Next
<1>5. CASE Fold
  BY <1>5, FoldImplements DEF View!Next
<1>6. CASE UNCHANGED <<base, delta>>
  BY <1>6 DEF delta, View!vars, ViewNodes, ViewSettled, ViewFresh, ViewHidden, LiveNames,
              IsPresent, get_node, Masked, InBase, InDelta
<1>7. CASE \E ops \in Batches : Apply(ops)
  BY <1>6, <1>7 DEF Apply
<1>8. CASE UNCHANGED vars
  BY <1>6, <1>8 DEF vars
<1> QED BY <1>1, <1>2, <1>3, <1>4, <1>5, <1>7, <1>8 DEF Next, Mutate

(* The refinement: with its tombstones, dead flags, side indices and folds *)
(* the delta is a mutable graph with named nodes and a bag of edges, from  *)
(* one reopen to the next (delta.rs, apply; persist/mod.rs, compact).      *)
THEOREM OverlayImplementsGraph == Spec => View!Spec
<1>1. Init /\ IInv /\ ViewForm => View!Init
  BY InitImplements
<1>2. /\ IInv /\ IInv' /\ IndexesExact /\ ViewForm /\ ViewForm' /\ [Next]_vars
      => [View!Next]_View!vars
  BY NextImplements
<1> QED BY <1>1, <1>2, OverlayForm, InitIndexes, NextIndexes, Invariant, PTL
        DEF Spec, View!Spec

(***************************************************************************)
(* What one operation makes of the names and of the edges in sight, as a   *)
(* function of them and of the operation alone: two overlays that show the *)
(* same graph show the same graph after it (DeltaRecoveryProofs).          *)
(***************************************************************************)
Total == [e \in Triples |-> ViewSettled[e] + ViewFresh[e]]

NodesAfter(nodes, op) ==
  IF op.op = "UpsertNode"
  THEN [x \in DOMAIN nodes \cup {op.name} |-> IF x = op.name THEN op.data ELSE nodes[x]]
  ELSE IF op.op = "RemoveNode" THEN [x \in DOMAIN nodes \ {op.name} |-> nodes[x]]
  ELSE nodes

TotalAfter(nodes, total, op) ==
  [e \in Triples |->
     IF op.op = "RemoveNode" /\ e \notin Between(DOMAIN nodes \ {op.name}) THEN 0
     ELSE IF op.op = "RemoveEdge" /\ e = op.edge THEN 0
     ELSE IF op.op = "AddEdge" /\ e = op.edge THEN total[e] + 1
     ELSE total[e]]

(* A node put back brings its hidden edges back.                           *)
TotalBack(nodes, total, hidden, x) ==
  [e \in Triples |->
     total[e] + IF e \in Between(DOMAIN nodes \cup {x}) THEN hidden[e] ELSE 0]

(* The numbers behind the totals.                                          *)
LEMMA TotalParts ==
  ASSUME ViewForm
  PROVE  \A e \in Triples :
           /\ Total[e] = ViewSettled[e] + ViewFresh[e]
           /\ ViewSettled[e] \in Nat /\ ViewFresh[e] \in Nat /\ ViewHidden[e] \in Nat
           /\ e \in Between(DOMAIN ViewNodes) => ViewHidden[e] = 0
<1> SUFFICES ASSUME NEW e \in Triples
             PROVE  /\ Total[e] = ViewSettled[e] + ViewFresh[e]
                    /\ ViewSettled[e] \in Nat /\ ViewFresh[e] \in Nat /\ ViewHidden[e] \in Nat
                    /\ e \in Between(DOMAIN ViewNodes) => ViewHidden[e] = 0
  OBVIOUS
<1>1. Total[e] = ViewSettled[e] + ViewFresh[e]
  <2> HIDE DEF Triples
  <2> QED BY DEF Total
<1>2. /\ Kept[e] \in Nat /\ ViewFresh[e] \in Nat
      /\ ViewSettled[e] = IF e \in Between(LiveNames) THEN Kept[e] ELSE 0
      /\ ViewHidden[e] = IF e \in Between(LiveNames) THEN 0 ELSE Kept[e]
      /\ DOMAIN ViewNodes = LiveNames
  BY DEF ViewForm
<1> QED BY <1>1, <1>2

(* A name that is neither present nor tombstoned has no edge in the base,  *)
(* hidden or not: its first upsert brings nothing back.                    *)
LEMMA NewNameHidesNothing ==
  ASSUME IInv, NEW x, ~IsPresent(x), x \notin removed_nodes
  PROVE  \A e \in Triples : x \in {e.from, e.to} => ViewHidden[e] = 0
<1> SUFFICES ASSUME NEW e \in Triples, x \in {e.from, e.to}
             PROVE  ViewHidden[e] = 0
  OBVIOUS
<1>1. x \notin DOMAIN base.nodes
  BY DEF IsPresent
<1>2. {i \in DOMAIN base.edges : base.edges[i] = e} = {}
  BY <1>1 DEF IInv, WellFormed, Range
<1>3. InBase(e) = 0
  BY <1>2, FS_EmptySet DEF InBase
<1> HIDE DEF Triples
<1> QED BY <1>3 DEF ViewHidden

(* An upsert.                                                              *)
LEMMA UpsertTotal ==
  ASSUME IInv, ViewForm, ViewForm', UpsertNode
  PROVE  /\ ViewNodes' = NodesAfter(ViewNodes, Head(todo))
         /\ Total' = TotalBack(ViewNodes, Total, ViewHidden, Head(todo).name)
         /\ Head(todo).name \in DOMAIN ViewNodes
              => Total' = TotalAfter(ViewNodes, Total, Head(todo))
<1> DEFINE op   == Head(todo)
           back == Between(DOMAIN ViewNodes \cup {op.name})
<1>1. op.name \in Names /\ op.data \in Data /\ View!Upsert(op.name, op.data)
  BY UpsertImplements
<1>2. op.op = "UpsertNode"
  BY DEF UpsertNode, Head_is
<1> HIDE DEF op
<1>3. ViewNodes' = NodesAfter(ViewNodes, op)
  BY <1>1, <1>2 DEF View!Upsert, NodesAfter
<1>4. View!Edges = Triples /\ View!Among(DOMAIN ViewNodes \cup {op.name}) = back
  BY DEF View!Edges, View!Among, Triples, Between
<1>5. /\ ViewSettled' = View!Plus(ViewSettled, View!Only(ViewHidden, back))
      /\ ViewFresh' = ViewFresh
  BY <1>1, <1>4 DEF View!Upsert
<1>6. Total' = [e \in Triples |-> ViewSettled'[e] + ViewFresh'[e]]
  BY DEF Total
<1> HIDE DEF back
<1>7. ASSUME NEW e \in Triples
      PROVE ViewSettled'[e] + ViewFresh'[e]
              = Total[e] + IF e \in back THEN ViewHidden[e] ELSE 0
  <2>1. ViewSettled'[e] = ViewSettled[e] + IF e \in back THEN ViewHidden[e] ELSE 0
    <3> HIDE DEF Triples
    <3> QED BY <1>4, <1>5 DEF View!Plus, View!Only
  <2> QED BY <1>5, <2>1, TotalParts
<1>8. Total' = TotalBack(ViewNodes, Total, ViewHidden, op.name)
  BY <1>6, <1>7 DEF TotalBack, back
<1>9. ASSUME op.name \in DOMAIN ViewNodes
      PROVE  Total' = TotalAfter(ViewNodes, Total, op)
  <2>1. back = Between(DOMAIN ViewNodes)
    <3>1. DOMAIN ViewNodes \cup {op.name} = DOMAIN ViewNodes
      BY <1>9
    <3> QED BY <3>1 DEF back
  <2>2. \A e \in Triples : (Total[e] + IF e \in back THEN ViewHidden[e] ELSE 0) = Total[e]
    BY <2>1, TotalParts
  <2> QED BY <1>2, <1>6, <1>7, <2>2 DEF TotalAfter
<1> QED BY <1>3, <1>8, <1>9 DEF op

(* The other three, and an upsert of a name that is there.                 *)
LEMMA MutateTotal ==
  ASSUME IInv, IInv', IndexesExact, ViewForm, ViewForm', Mutate
  PROVE  /\ ViewNodes' = NodesAfter(ViewNodes, Head(todo))
         /\ (Head_is("UpsertNode") => Head(todo).name \in DOMAIN ViewNodes)
              => Total' = TotalAfter(ViewNodes, Total, Head(todo))
<1>0. View!Edges = Triples
  BY DEF View!Edges, Triples
<1>1. Total' = [e \in Triples |-> ViewSettled'[e] + ViewFresh'[e]]
  BY DEF Total
<1>2. CASE UpsertNode
  <2>1. Head_is("UpsertNode")
    BY <1>2 DEF UpsertNode
  <2> QED BY <1>2, <2>1, UpsertTotal
<1>3. CASE RemoveNode
  <2> DEFINE op   == Head(todo)
             stay == Between(DOMAIN ViewNodes \ {op.name})
  <2>1. op.name \in Names /\ View!Remove(op.name)
    BY <1>3, RemoveNodeImplements
  <2>2. op.op = "RemoveNode"
    BY <1>3 DEF RemoveNode, Head_is
  <2> HIDE DEF op
  <2>3. ViewNodes' = NodesAfter(ViewNodes, op)
    BY <2>1, <2>2 DEF View!Remove, NodesAfter
  <2>4. View!Among(DOMAIN ViewNodes \ {op.name}) = stay
    BY <1>0 DEF View!Among, Between
  <2>5. ViewSettled' = View!Only(ViewSettled, stay) /\ ViewFresh' = View!Only(ViewFresh, stay)
    BY <2>1, <2>4 DEF View!Remove
  <2> HIDE DEF stay
  <2>6. ASSUME NEW e \in Triples
        PROVE ViewSettled'[e] + ViewFresh'[e] = IF e \notin stay THEN 0 ELSE Total[e]
    <3>1. /\ ViewSettled'[e] = IF e \in stay THEN ViewSettled[e] ELSE 0
          /\ ViewFresh'[e] = IF e \in stay THEN ViewFresh[e] ELSE 0
      <4> HIDE DEF Triples
      <4> QED BY <1>0, <2>5 DEF View!Only
    <3> QED BY <3>1, TotalParts
  <2>7. Total' = TotalAfter(ViewNodes, Total, op)
    BY <1>1, <2>2, <2>6 DEF TotalAfter, stay
  <2> QED BY <2>3, <2>7 DEF op
<1>4. CASE AddEdge
  <2> DEFINE op == Head(todo)
  <2>1. op.edge \in Triples /\ View!Connect(op.edge)
    BY <1>4, AddEdgeImplements
  <2>2. op.op = "AddEdge"
    BY <1>4 DEF AddEdge, Head_is
  <2> HIDE DEF op
  <2>3. /\ ViewFresh' = [ViewFresh EXCEPT ![op.edge] = @ + 1]
        /\ ViewNodes' = ViewNodes /\ ViewSettled' = ViewSettled
    BY <2>1 DEF View!Connect
  <2>4. DOMAIN ViewFresh = Triples
    BY DEF ViewForm
  <2>5. ASSUME NEW e \in Triples
        PROVE ViewSettled'[e] + ViewFresh'[e] = IF e = op.edge THEN Total[e] + 1 ELSE Total[e]
    <3>1. ViewFresh'[e] = IF e = op.edge THEN ViewFresh[e] + 1 ELSE ViewFresh[e]
      <4> HIDE DEF Triples
      <4> QED BY <2>3, <2>4
    <3> QED BY <2>3, <3>1, TotalParts
  <2>6. Total' = TotalAfter(ViewNodes, Total, op)
    BY <1>1, <2>2, <2>5 DEF TotalAfter
  <2>7. ViewNodes' = NodesAfter(ViewNodes, op)
    BY <2>2, <2>3 DEF NodesAfter
  <2> QED BY <2>6, <2>7 DEF op
<1>5. CASE RemoveEdge
  <2> DEFINE op == Head(todo)
  <2>1. op.edge \in Triples /\ View!Disconnect(op.edge)
    BY <1>5, RemoveEdgeImplements
  <2>2. op.op = "RemoveEdge"
    BY <1>5 DEF RemoveEdge, Head_is
  <2> HIDE DEF op
  <2>3. /\ ViewSettled' = [ViewSettled EXCEPT ![op.edge] = 0]
        /\ ViewFresh' = [ViewFresh EXCEPT ![op.edge] = 0]
        /\ ViewNodes' = ViewNodes
    BY <2>1 DEF View!Disconnect
  <2>4. DOMAIN ViewFresh = Triples /\ DOMAIN ViewSettled = Triples
    BY DEF ViewForm
  <2>5. ASSUME NEW e \in Triples
        PROVE ViewSettled'[e] + ViewFresh'[e] = IF e = op.edge THEN 0 ELSE Total[e]
    <3>1. /\ ViewFresh'[e] = IF e = op.edge THEN 0 ELSE ViewFresh[e]
          /\ ViewSettled'[e] = IF e = op.edge THEN 0 ELSE ViewSettled[e]
      <4> HIDE DEF Triples
      <4> QED BY <2>3, <2>4
    <3> QED BY <3>1, TotalParts
  <2>6. Total' = TotalAfter(ViewNodes, Total, op)
    BY <1>1, <2>2, <2>5 DEF TotalAfter
  <2>7. ViewNodes' = NodesAfter(ViewNodes, op)
    BY <2>2, <2>3 DEF NodesAfter
  <2> QED BY <2>6, <2>7 DEF op
<1> QED BY <1>2, <1>3, <1>4, <1>5 DEF Mutate

(* All that makes the overlay sound, in one invariant.                     *)
Sound == IInv /\ IndexesExact /\ Recount

(* Every step keeps it.                                                    *)
LEMMA NextSound == Sound /\ [Next]_vars => Sound'
<1>1. IInv /\ [Next]_vars => IInv'
  BY NextIInv
<1> QED BY <1>1, NextIndexes, NextRecount DEF Sound

(* What it gives the readers.                                              *)
LEMMA SoundGives ==
  Sound => /\ ShadowXorTombstone /\ PromisedEndpoints /\ NoDanglingEdge
           /\ CountersExact /\ ReadersSeeView
           /\ seq \in 0..Len(BatchBound) => TypeOK
<1>1. Sound => ShadowXorTombstone /\ PromisedEndpoints /\ NoDanglingEdge /\ CountersExact
  BY RecountForm DEF Sound, IInv
<1>2. Sound => ReadersSeeView /\ (seq \in 0..Len(BatchBound) => TypeOK)
  BY ReadersParts, TypeOKParts DEF Sound
<1> QED BY <1>1, <1>2

Uncounted == \A i \in 1..4 : counters[i] = 0

(* A fresh delta shows its base.                                           *)
LEMMA FreshView ==
  Fresh /\ Uncounted => /\ Sound /\ ViewNodes = base.nodes
                        /\ \A e \in Triples : Total[e] = Occurs(base.edges, {e})
<1> SUFFICES ASSUME Fresh, Uncounted
             PROVE  /\ Sound /\ ViewNodes = base.nodes
                    /\ \A e \in Triples : Total[e] = Occurs(base.edges, {e})
  OBVIOUS
<1>1. IInv
  BY FreshDelta
<1>2. IndexesExact
  <2>1. 1..Len(added_edges) = {}
    BY DEF Fresh
  <2> QED BY <2>1 DEF IndexesExact
<1>3. ViewNodes = base.nodes
  <2>1. PICK N \in SUBSET Names : base.nodes \in [N -> Data]
    BY DEF Fresh, Graphs
  <2>2. LiveNames = N
    BY <2>1 DEF Fresh, LiveNames, IsPresent, NoNodes
  <2>3. \A x \in N : get_node(x) = base.nodes[x]
    BY DEF Fresh, get_node, NoNodes
  <2>4. ViewNodes = [x \in N |-> base.nodes[x]]
    BY <2>2, <2>3 DEF ViewNodes
  <2>5. base.nodes = [x \in N |-> base.nodes[x]]
    BY <2>1
  <2> QED BY <2>4, <2>5
<1>4. ASSUME NEW e \in Triples
      PROVE Total[e] = Occurs(base.edges, {e})
  <2>1. ViewForm
    BY <1>1, OverlayForm
  <2>2. ViewSettled[e] = InBase(e)
    BY DEF Fresh, ViewSettled, Masked
  <2>3. ViewFresh[e] = 0
    <3>1. LiveIn({e}) = {}
      BY DEF Fresh, LiveIn, Live
    <3> QED BY <2>1, <3>1, FS_EmptySet DEF ViewForm
  <2>4. Shape
    BY <1>1 DEF IInv
  <2>5. InBase(e) \in Nat
    BY <2>4, InSightOfOne
  <2>6. InBase(e) = Occurs(base.edges, {e})
    <3>1. Places(base.edges, {e}) = {i \in DOMAIN base.edges : base.edges[i] = e}
      BY DEF Places
    <3> QED BY <3>1 DEF InBase, Occurs
  <2> QED BY <2>1, <2>2, <2>3, <2>5, <2>6, TotalParts
<1> QED BY <1>1, <1>2, <1>3, <1>4, FreshCounts DEF Sound, Uncounted

(* The readers count the totals.                                           *)
LEMMA TotalIsListed ==
  ASSUME IInv, IndexesExact, ViewForm, NEW e \in Triples
  PROVE  CountIn(outgoing_neighbors(e.from), e) = Total[e]
<1>1. Shape
  BY DEF IInv
<1>2. e.from \in Names /\ {d \in {e} : d.from = e.from} = {e}
  BY DEF Triples
<1>3. Occurs(outgoing_neighbors(e.from), {e}) = InSight({e})
  BY <1>2, OutgoingCount
<1>4. InSight({e}) = ViewSettled[e] + ViewFresh[e]
  BY <1>1, InSightOfOne DEF ViewSettled, ViewFresh
<1>5. CountIn(outgoing_neighbors(e.from), e) = Occurs(outgoing_neighbors(e.from), {e})
  BY <1>1, InSightOfOne
<1> QED BY <1>3, <1>4, <1>5, TotalParts

(* Every operation of a batch is an operation of GraphView.                *)
LEMMA MutateImplements ==
  ASSUME IInv, IInv', IndexesExact, ViewForm, ViewForm', Mutate
  PROVE  View!Next
<1>0. View!Edges = Triples
  BY DEF View!Edges, Triples
<1>1. CASE UpsertNode
  BY <1>1, UpsertImplements DEF View!Next
<1>2. CASE RemoveNode
  BY <1>2, RemoveNodeImplements DEF View!Next
<1>3. CASE AddEdge
  BY <1>0, <1>3, AddEdgeImplements DEF View!Next
<1>4. CASE RemoveEdge
  BY <1>0, <1>4, RemoveEdgeImplements DEF View!Next
<1> QED BY <1>1, <1>2, <1>3, <1>4 DEF Mutate
=============================================================================

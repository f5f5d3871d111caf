------------------------- MODULE DeltaRecoveryProofs -------------------------
(***************************************************************************)
(* For every set of names, every base, every batch, and any history of     *)
(* compactions that succeed, or fail after they committed, and of reopens: *)
(* the replay may skip pass 1, and a reopen gives back every node, and     *)
(* every edge save those at a removed node that was put back in between.   *)
(*                                                                         *)
(* Both graphs satisfy the invariant of GraphDeltaProofs, which is         *)
(* instantiated for the recovered one, so what an operation makes of a     *)
(* graph in sight is the same function on both sides (MutateTotal).  The   *)
(* exception is the upsert of a removed name: the edges it brings back are *)
(* the hidden ones, which two different bases need not agree on.  All of   *)
(* them are edges of that name, and a new name has none.                   *)
(***************************************************************************)
EXTENDS DeltaRecovery, GraphDeltaProofs

RP == INSTANCE GraphDeltaProofs WITH
  base <- r_base, added_nodes <- r_added_nodes, added_edges <- r_added_edges,
  removed_nodes <- r_removed_nodes, removed_edges <- r_removed_edges,
  out_index <- r_out_index, in_index <- r_in_index,
  tombstone_base_hits <- r_tombstone_base_hits,
  added_non_base <- r_added_non_base,
  masked_base_edge_count <- r_masked_base_edge_count,
  live_delta_edge_count <- r_live_delta_edge_count

(***************************************************************************)
(* An instance has its own copy of every operator: here is that they say   *)
(* the same thing.                                                         *)
(***************************************************************************)
(* The assumption the instance's theorems rest on.                         *)
LEMMA RecoveredAssumption ==
  /\ RP!IsFiniteSet(Names)
  /\ Bases \subseteq RP!Graphs /\ \A g \in Bases : RP!WellFormed(g)
  /\ BatchBound \in Seq(Nat)
<1>1. RP!IsFiniteSet(Names)
  BY BasesAssumption DEF RP!IsFiniteSet, IsFiniteSet
<1>2. Bases \subseteq RP!Graphs
  BY BasesAssumption DEF RP!Graphs, Graphs, RP!Triples, Triples
<1>3. \A g : RP!WellFormed(g) <=> WellFormed(g)
  BY DEF RP!WellFormed, WellFormed, RP!Range, Range
<1> QED BY <1>1, <1>2, <1>3, BasesAssumption

(* The operators that read no state.                                       *)
LEMMA SameConstants ==
  /\ RP!Triples = Triples /\ RP!Ops = Ops /\ RP!Batches = Batches
  /\ RP!Graphs = Graphs /\ RP!NoNodes = NoNodes /\ RP!NoIndex = NoIndex
  /\ \A g : RP!WellFormed(g) <=> WellFormed(g)
  /\ \A s : RP!Range(s) = Range(s)
  /\ \A S : RP!Cardinality(S) = Cardinality(S)
  /\ \A L : RP!Between(L) = Between(L)
  /\ \A s, T : RP!Occurs(s, T) = Occurs(s, T)
  /\ \A op, x : RP!Touches(op, x) <=> Touches(op, x)
<1>1. RP!Triples = Triples
  BY DEF RP!Triples, Triples
<1>2. RP!Ops = Ops
  BY <1>1 DEF RP!Ops, Ops
<1>3. RP!Batches = Batches
  BY <1>2 DEF RP!Batches, Batches
<1>4. RP!Graphs = Graphs
  BY <1>1 DEF RP!Graphs, Graphs
<1>5. RP!NoNodes = NoNodes /\ RP!NoIndex = NoIndex
  BY DEF RP!NoNodes, NoNodes, RP!NoIndex, NoIndex
<1>6. \A s : RP!Range(s) = Range(s)
  BY DEF RP!Range, Range
<1>7. \A g : RP!WellFormed(g) <=> WellFormed(g)
  BY <1>6 DEF RP!WellFormed, WellFormed
<1>8. \A L : RP!Between(L) = Between(L)
  BY <1>1 DEF RP!Between, Between
<1>9. \A S : RP!Cardinality(S) = Cardinality(S)
  BY DEF RP!Cardinality, RP!IsFiniteSet, Cardinality, IsFiniteSet
<1>10. \A s, T : RP!Occurs(s, T) = Occurs(s, T)
  BY <1>9 DEF RP!Occurs, RP!Places, Occurs, Places
<1>11. \A op, x : RP!Touches(op, x) <=> Touches(op, x)
  BY DEF RP!Touches, Touches
<1> QED BY <1>1, <1>2, <1>3, <1>4, <1>5, <1>6, <1>7, <1>8, <1>9, <1>10, <1>11

(* The four operations, replayed.                                          *)
LEMMA SameActions ==
  /\ Recovered!UpsertNode <=> RP!UpsertNode
  /\ Recovered!RemoveNode <=> RP!RemoveNode
  /\ Recovered!AddEdge <=> RP!AddEdge
  /\ Recovered!RemoveEdge <=> RP!RemoveEdge
<1>1. \A S : Recovered!Cardinality(S) = RP!Cardinality(S)
  BY DEF Recovered!Cardinality, Recovered!IsFiniteSet, RP!Cardinality, RP!IsFiniteSet
<1>2. \A x, R : Recovered!IncidentLive(x, R) = RP!IncidentLive(x, R)
  BY <1>1 DEF Recovered!IncidentLive, RP!IncidentLive
<1>3. \A positions : Recovered!Kill(positions) <=> RP!Kill(positions)
  BY <1>1 DEF Recovered!Kill, RP!Kill
<1>4. \A s : Recovered!Range(s) = RP!Range(s)
  BY DEF Recovered!Range, RP!Range
<1>5. \A kind : Recovered!Head_is(kind) <=> RP!Head_is(kind)
  BY DEF Recovered!Head_is, RP!Head_is
<1>6. \A e : Recovered!count_live_base_edges_matching(e)
               = RP!count_live_base_edges_matching(e)
  BY <1>1 DEF Recovered!count_live_base_edges_matching, RP!count_live_base_edges_matching
<1>7. Recovered!UpsertNode <=> RP!UpsertNode
  BY <1>2, <1>5 DEF Recovered!UpsertNode, RP!UpsertNode
<1>8. Recovered!RemoveNode <=> RP!RemoveNode
  BY <1>2, <1>3, <1>4, <1>5 DEF Recovered!RemoveNode, RP!RemoveNode
<1>9. Recovered!AddEdge <=> RP!AddEdge
  BY <1>5 DEF Recovered!AddEdge, RP!AddEdge
<1>10. Recovered!RemoveEdge <=> RP!RemoveEdge
  BY <1>3, <1>4, <1>5, <1>6 DEF Recovered!RemoveEdge, RP!RemoveEdge
<1> QED BY <1>7, <1>8, <1>9, <1>10

(* What the properties read of the recovered graph.                        *)
LEMMA SameReaders ==
  /\ Recovered!Accepts(todo) <=> RP!Accepts(todo)
  /\ Recovered!NoDanglingEdge <=> RP!NoDanglingEdge
  /\ RecoveredNodes = RP!ViewNodes
  /\ \A e \in Triples : CountIn(Recovered!outgoing_neighbors(e.from), e)
                          = RP!CountIn(RP!outgoing_neighbors(e.from), e)
<1>1. \A x : /\ Recovered!IsPresent(x) <=> RP!IsPresent(x)
             /\ Recovered!get_node(x) = RP!get_node(x)
             /\ Recovered!Masked(x) <=> RP!Masked(x)
  BY DEF Recovered!IsPresent, RP!IsPresent, Recovered!get_node, RP!get_node,
         Recovered!Masked, RP!Masked
<1>2. Recovered!Accepts(todo) <=> RP!Accepts(todo)
  <2>1. \A op, x : Recovered!Touches(op, x) <=> RP!Touches(op, x)
    BY DEF Recovered!Touches, RP!Touches
  <2>2. \A i, x : Recovered!PresentAt(todo, i, x) <=> RP!PresentAt(todo, i, x)
    BY <1>1, <2>1 DEF Recovered!PresentAt, RP!PresentAt
  <2> QED BY <2>2 DEF Recovered!Accepts, RP!Accepts
<1>3. Recovered!NoDanglingEdge <=> RP!NoDanglingEdge
  <2>1. \A s : Recovered!Range(s) = RP!Range(s)
    BY DEF Recovered!Range, RP!Range
  <2> QED BY <1>1, <2>1 DEF Recovered!NoDanglingEdge, RP!NoDanglingEdge
<1>4. RecoveredNodes = RP!ViewNodes
  <2>1. Recovered!LiveNames = RP!LiveNames
    BY <1>1 DEF Recovered!LiveNames, RP!LiveNames
  <2> QED BY <1>1, <2>1 DEF RecoveredNodes, RP!ViewNodes
<1>5. \A x : Recovered!outgoing_neighbors(x) = RP!outgoing_neighbors(x)
  <2>1. \A s, S : Recovered!Pick(s, S) = RP!Pick(s, S)
    <3>1. \A s, D : Recovered!Sublist(s, D) = RP!Sublist(s, D)
      BY DEF Recovered!Sublist, RP!Sublist, Recovered!InOrder, RP!InOrder,
             Recovered!Cardinality, RP!Cardinality
    <3> QED BY <3>1 DEF Recovered!Pick, RP!Pick
  <2>2. \A s : Recovered!Reverse(s) = RP!Reverse(s)
    BY DEF Recovered!Reverse, RP!Reverse
  <2>3. \A S : Recovered!BaseEdges(S) = RP!BaseEdges(S)
    BY <2>1, <2>2 DEF Recovered!BaseEdges, RP!BaseEdges
  <2>4. \A s : Recovered!DeltaEdges(s) = RP!DeltaEdges(s)
    BY DEF Recovered!DeltaEdges, RP!DeltaEdges
  <2>5. Recovered!Live = RP!Live /\ Recovered!Triples = RP!Triples
    BY DEF Recovered!Live, RP!Live, Recovered!Triples, RP!Triples
  <2> QED BY <1>1, <2>1, <2>3, <2>4, <2>5
          DEF Recovered!outgoing_neighbors, RP!outgoing_neighbors
<1>6. \A list, e : RP!CountIn(list, e) = CountIn(list, e)
  BY SameConstants DEF RP!CountIn, CountIn
<1> QED BY <1>2, <1>3, <1>4, <1>5, <1>6

(* A batch is accepted or not by which names are present.                  *)
LEMMA SameAccepts ==
  ASSUME \A x : IsPresent(x) <=> RP!IsPresent(x), NEW ops
  PROVE  Accepts(ops) <=> RP!Accepts(ops)
<1>1. \A i, x : PresentAt(ops, i, x) <=> RP!PresentAt(ops, i, x)
  BY SameConstants DEF PresentAt, RP!PresentAt
<1> QED BY <1>1 DEF Accepts, RP!Accepts

(* Two overlays with the same fields are the same graph.                   *)
LEMMA SameState ==
  live = recovered =>
    /\ Sound <=> RP!Sound
    /\ ViewNodes = RP!ViewNodes /\ ViewHidden = RP!ViewHidden /\ Total = RP!Total
<1> SUFFICES ASSUME live = recovered
             PROVE  /\ Sound <=> RP!Sound
                    /\ ViewNodes = RP!ViewNodes /\ ViewHidden = RP!ViewHidden
                    /\ Total = RP!Total
  OBVIOUS
<1>0. /\ r_base = base /\ r_added_nodes = added_nodes /\ r_added_edges = added_edges
      /\ r_removed_nodes = removed_nodes /\ r_removed_edges = removed_edges
      /\ r_out_index = out_index /\ r_in_index = in_index
      /\ r_tombstone_base_hits = tombstone_base_hits /\ r_added_non_base = added_non_base
      /\ r_masked_base_edge_count = masked_base_edge_count
      /\ r_live_delta_edge_count = live_delta_edge_count
  BY DEF live, recovered
<1>1. \A x : (IsPresent(x) <=> RP!IsPresent(x)) /\ get_node(x) = RP!get_node(x)
  BY <1>0 DEF IsPresent, RP!IsPresent, get_node, RP!get_node
<1>2. ViewNodes = RP!ViewNodes
  <2>1. LiveNames = RP!LiveNames
    BY <1>1 DEF LiveNames, RP!LiveNames
  <2> QED BY <1>1, <2>1 DEF ViewNodes, RP!ViewNodes
<1>3. \A e : Masked(e) <=> RP!Masked(e)
  BY <1>0 DEF Masked, RP!Masked
<1>4. \A e : InBase(e) = RP!InBase(e) /\ InDelta(e) = RP!InDelta(e)
  BY <1>0, SameConstants DEF InBase, RP!InBase, InDelta, RP!InDelta
<1>5. /\ ViewSettled = RP!ViewSettled /\ ViewHidden = RP!ViewHidden
      /\ ViewFresh = RP!ViewFresh
  BY <1>0, <1>3, <1>4, SameConstants
     DEF ViewSettled, RP!ViewSettled, ViewHidden, RP!ViewHidden, ViewFresh, RP!ViewFresh
<1>6. Total = RP!Total
  BY <1>5, SameConstants DEF Total, RP!Total
<1>7. IndexesExact <=> RP!IndexesExact
  BY <1>0, SameConstants DEF IndexesExact, RP!IndexesExact
<1>8. Live = RP!Live
  BY <1>0 DEF Live, RP!Live
<1>9. Recount <=> RP!Recount
  <2>1. MaskedBy(removed_nodes, removed_edges) = RP!MaskedBy(removed_nodes, removed_edges)
    BY <1>0 DEF MaskedBy, RP!MaskedBy
  <2> QED BY <1>0, <1>8, <2>1, SameConstants DEF Recount, RP!Recount
<1>10. IInv <=> RP!IInv
  <2>1. Shape <=> RP!Shape
    BY <1>0, SameConstants DEF Shape, RP!Shape
  <2>2. IndexesComplete <=> RP!IndexesComplete
    BY <1>0, <1>8, SameConstants DEF IndexesComplete, RP!IndexesComplete
  <2>3. ShadowXorTombstone <=> RP!ShadowXorTombstone
    BY <1>0 DEF ShadowXorTombstone, RP!ShadowXorTombstone
  <2>4. PromisedEndpoints <=> RP!PromisedEndpoints
    BY <1>1, SameAccepts DEF PromisedEndpoints, RP!PromisedEndpoints
  <2>5. NoDanglingEdge <=> RP!NoDanglingEdge
    BY <1>0, <1>1, <1>3, SameConstants DEF NoDanglingEdge, RP!NoDanglingEdge
  <2>6. WellFormed(base) <=> RP!WellFormed(r_base)
    BY <1>0, SameConstants
  <2> QED BY <2>1, <2>2, <2>3, <2>4, <2>5, <2>6 DEF IInv, RP!IInv
<1> QED BY <1>2, <1>5, <1>6, <1>7, <1>9, <1>10 DEF Sound, RP!Sound

(***************************************************************************)
(* The invariant: both overlays are sound, they show the same nodes, and   *)
(* the same edges between the names that were not put back.                *)
(***************************************************************************)
SameEdges ==
  \A e \in Triples : {e.from, e.to} \cap revived = {} => Total[e] = RP!Total[e]

RInv ==
  /\ Sound /\ RP!Sound
  /\ seq \in 0..Len(BatchBound)
  /\ ViewNodes = RP!ViewNodes
  /\ SameEdges

(* What is in sight follows from the invariant, after a step too.          *)
FormsHold == (IInv => ViewForm) /\ (RP!IInv => RP!ViewForm)

ShowsBase ==
  Fresh /\ Uncounted =>
    /\ Sound /\ ViewNodes = base.nodes
    /\ \A e \in Triples : Total[e] = Occurs(base.edges, {e})

RecoveredShowsBase ==
  RP!Fresh /\ RP!Uncounted =>
    /\ RP!Sound /\ RP!ViewNodes = r_base.nodes
    /\ \A e \in Triples : RP!Total[e] = Occurs(r_base.edges, {e})

SameStateAgrees ==
  live = recovered => /\ Sound <=> RP!Sound
                      /\ ViewNodes = RP!ViewNodes /\ Total = RP!Total

(* These hold of every state.                                              *)
LEMMA InEveryState == FormsHold /\ ShowsBase /\ RecoveredShowsBase /\ SameStateAgrees
<1>1. FormsHold
  BY OverlayForm, RP!OverlayForm, RecoveredAssumption DEF FormsHold
<1>2. ShowsBase
  BY FreshView DEF ShowsBase
<1>3. RecoveredShowsBase
  BY RP!FreshView, RecoveredAssumption, SameConstants DEF RecoveredShowsBase
<1>4. SameStateAgrees
  BY SameState DEF SameStateAgrees
<1> QED BY <1>1, <1>2, <1>3, <1>4

(* The names present are those of the nodes in sight.                      *)
LEMMA PresenceAgrees ==
  ASSUME RInv
  PROVE  \A x : IsPresent(x) <=> RP!IsPresent(x)
<1>1. Shape /\ RP!Shape
  BY DEF RInv, Sound, RP!Sound, IInv, RP!IInv
<1>2. LiveNames = RP!LiveNames
  <2>1. DOMAIN ViewNodes = LiveNames /\ DOMAIN RP!ViewNodes = RP!LiveNames
    BY DEF ViewNodes, RP!ViewNodes
  <2> QED BY <2>1 DEF RInv
<1>3. \A x : IsPresent(x) => x \in Names
  <2>1. DOMAIN added_nodes \subseteq Names /\ DOMAIN base.nodes \subseteq Names
    BY <1>1 DEF Shape, Graphs
  <2> QED BY <2>1 DEF IsPresent
<1>4. \A x : RP!IsPresent(x) => x \in Names
  <2>1. DOMAIN r_added_nodes \subseteq Names /\ DOMAIN r_base.nodes \subseteq Names
    BY <1>1, SameConstants DEF RP!Shape, Graphs
  <2> QED BY <2>1 DEF RP!IsPresent
<1> QED BY <1>2, <1>3, <1>4 DEF LiveNames, RP!LiveNames

(* A step of GraphDelta on each side keeps each side sound.                *)
LEMMA BothSound ==
  ASSUME RInv, [Next]_vars, [RP!Next]_(RP!vars)
  PROVE  Sound' /\ RP!Sound' /\ (seq \in 0..Len(BatchBound))'
<1>1. Sound' /\ (seq \in 0..Len(BatchBound))'
  BY NextSound, SeqStaysBounded DEF RInv
<1>2. RP!Sound'
  BY RP!NextSound, RecoveredAssumption DEF RInv
<1> QED BY <1>1, <1>2

(* An overlay left alone shows what it showed.                             *)
LEMMA UnchangedView ==
  UNCHANGED <<base, delta>> => ViewNodes' = ViewNodes /\ Total' = Total
BY DEF delta, Total, ViewNodes, ViewSettled, ViewFresh, LiveNames, IsPresent, get_node,
       Masked, InBase, InDelta

(* And so does the recovered one.                                          *)
LEMMA UnchangedRecovered ==
  UNCHANGED recovered => RP!ViewNodes' = RP!ViewNodes /\ RP!Total' = RP!Total
BY DEF recovered, RP!Total, RP!ViewNodes, RP!ViewSettled, RP!ViewFresh, RP!LiveNames,
       RP!IsPresent, RP!get_node, RP!Masked, RP!InBase, RP!InDelta

(***************************************************************************)
(* Every step keeps it.                                                    *)
(***************************************************************************)
(* An accepted batch: recovery would have accepted it too.                 *)
LEMMA AcceptKeeps ==
  ASSUME RInv, NEW ops \in Batches, Accept(ops)
  PROVE  RInv'
<1>1. Apply(ops) /\ UNCHANGED recovered /\ revived' = revived
  BY DEF Accept
<1>2. RP!Apply(ops)
  <2>1. RP!Accepts(ops)
    BY <1>1, PresenceAgrees, SameAccepts DEF Apply
  <2> QED BY <1>1, <2>1 DEF Apply, RP!Apply, RP!delta, RP!counters, recovered
<1>3. [Next]_vars /\ [RP!Next]_(RP!vars)
  BY <1>1, <1>2, SameConstants DEF Next, RP!Next
<1>4. ViewNodes' = ViewNodes /\ Total' = Total
  BY <1>1, UnchangedView DEF Apply
<1>5. SameEdges'
  BY <1>1, <1>4, UnchangedRecovered DEF RInv, SameEdges
<1> QED BY <1>1, <1>3, <1>4, <1>5, BothSound, UnchangedRecovered DEF RInv

(* An operation does the same to what both show.  The upsert of an absent  *)
(* name brings back the same, too, unless the two overlays differ and the  *)
(* name was removed from one of them; and then only edges of that name.    *)
LEMMA ReplayKeeps ==
  ASSUME RInv, FormsHold', Replay
  PROVE  RInv'
<1>1. Mutate /\ RP!Mutate
  BY SameActions DEF Replay, Mutate, RP!Mutate
<1>2. [Next]_vars /\ [RP!Next]_(RP!vars)
  BY <1>1 DEF Next, RP!Next
<1>3. Sound' /\ RP!Sound' /\ (seq \in 0..Len(BatchBound))'
  BY <1>2, BothSound
<1>4. IInv /\ IndexesExact /\ ViewForm /\ IInv' /\ ViewForm'
  BY <1>3, InEveryState DEF RInv, Sound, FormsHold
<1>5. RP!IInv /\ RP!IndexesExact /\ RP!ViewForm /\ RP!IInv' /\ RP!ViewForm'
  BY <1>3, InEveryState DEF RInv, RP!Sound, FormsHold
<1>6. /\ ViewNodes' = NodesAfter(ViewNodes, Head(todo))
      /\ (Head_is("UpsertNode") => Head(todo).name \in DOMAIN ViewNodes)
           => Total' = TotalAfter(ViewNodes, Total, Head(todo))
  BY <1>1, <1>4, MutateTotal
<1>7. /\ RP!ViewNodes' = RP!NodesAfter(RP!ViewNodes, Head(todo))
      /\ (RP!Head_is("UpsertNode") => Head(todo).name \in DOMAIN RP!ViewNodes)
           => RP!Total' = RP!TotalAfter(RP!ViewNodes, RP!Total, Head(todo))
  BY <1>1, <1>5, RP!MutateTotal, RecoveredAssumption
<1>8. \A N, T, H, op, x : /\ RP!NodesAfter(N, op) = NodesAfter(N, op)
                          /\ RP!TotalAfter(N, T, op) = TotalAfter(N, T, op)
                          /\ RP!TotalBack(N, T, H, x) = TotalBack(N, T, H, x)
  BY SameConstants DEF RP!NodesAfter, NodesAfter, RP!TotalAfter, TotalAfter,
                       RP!TotalBack, TotalBack
<1>9. ViewNodes' = RP!ViewNodes'
  BY <1>6, <1>7, <1>8 DEF RInv
<1>10. ASSUME NEW e \in Triples, {e.from, e.to} \cap revived' = {}
       PROVE  Total'[e] = RP!Total'[e]
  <2>1. {e.from, e.to} \cap PutBack = {} /\ Total[e] = RP!Total[e]
    BY <1>10 DEF Replay, RInv, SameEdges
  <2>2. RP!Head_is("UpsertNode") <=> Head_is("UpsertNode")
    BY DEF RP!Head_is, Head_is
  <2>3. CASE Head_is("UpsertNode") => Head(todo).name \in DOMAIN ViewNodes
    <3>1. Total'[e] = TotalAfter(ViewNodes, Total, Head(todo))[e]
      BY <1>6, <2>3
    <3>2. RP!Total'[e] = TotalAfter(ViewNodes, RP!Total, Head(todo))[e]
      BY <1>7, <1>8, <2>2, <2>3 DEF RInv
    <3> HIDE DEF Triples
    <3> QED BY <2>1, <3>1, <3>2 DEF TotalAfter
  <2>4. CASE Head_is("UpsertNode") /\ Head(todo).name \notin DOMAIN ViewNodes
    <3>1. UpsertNode /\ RP!UpsertNode
      BY <2>4, SameActions DEF Replay, Head_is, RemoveNode, AddEdge, RemoveEdge
    <3>2. Total' = TotalBack(ViewNodes, Total, ViewHidden, Head(todo).name)
      BY <1>4, <3>1, UpsertTotal
    <3>3. RP!Total' = RP!TotalBack(RP!ViewNodes, RP!Total, RP!ViewHidden, Head(todo).name)
      BY <1>5, <3>1, RP!UpsertTotal, RecoveredAssumption
    <3>4. ~IsPresent(Head(todo).name)
      <4>1. Head(todo).name \in Names
        BY <1>4, <3>1, UpsertImplements
      <4>2. DOMAIN ViewNodes = LiveNames
        BY <1>4 DEF ViewForm
      <4> QED BY <2>4, <4>1, <4>2 DEF LiveNames
    <3>5. e \in Between(DOMAIN ViewNodes \cup {Head(todo).name})
            => ViewHidden[e] = RP!ViewHidden[e]
      <4>1. CASE live = recovered
        BY <4>1, SameState
      <4>2. CASE live # recovered /\ Head(todo).name \in {e.from, e.to}
        <5>1. Head(todo).name \notin removed_nodes /\ Head(todo).name \notin r_removed_nodes
          BY <2>1, <2>4, <4>2 DEF PutBack
        <5>2. ~RP!IsPresent(Head(todo).name)
          BY <3>4, PresenceAgrees
        <5>3. ViewHidden[e] = 0
          BY <1>4, <3>4, <4>2, <5>1, NewNameHidesNothing
        <5>4. RP!ViewHidden[e] = 0
          BY <1>5, <4>2, <5>1, <5>2, RP!NewNameHidesNothing, RecoveredAssumption,
             SameConstants
        <5> QED BY <5>3, <5>4
      <4>3. CASE Head(todo).name \notin {e.from, e.to}
        <5>1. e \in Between(DOMAIN ViewNodes \cup {Head(todo).name})
                => e \in Between(DOMAIN ViewNodes)
          BY <4>3 DEF Between
        <5>2. e \in Between(DOMAIN ViewNodes) => ViewHidden[e] = 0
          BY <1>4, TotalParts
        <5>3. e \in Between(DOMAIN ViewNodes) => RP!ViewHidden[e] = 0
          BY <1>5, RP!TotalParts, RecoveredAssumption, SameConstants DEF RInv
        <5> QED BY <5>1, <5>2, <5>3
      <4> QED BY <4>1, <4>2, <4>3
    <3>6. Total'[e] = TotalBack(ViewNodes, Total, ViewHidden, Head(todo).name)[e]
      BY <3>2
    <3>7. RP!Total'[e] = TotalBack(ViewNodes, RP!Total, RP!ViewHidden, Head(todo).name)[e]
      BY <1>8, <3>3 DEF RInv
    <3> HIDE DEF Triples
    <3> QED BY <2>1, <3>5, <3>6, <3>7 DEF TotalBack
  <2> QED BY <2>3, <2>4
<1> QED BY <1>3, <1>9, <1>10 DEF RInv, SameEdges

(* The snapshot a compaction commits shows what the live overlay shows.    *)
LEMMA SnapshotKeeps ==
  ASSUME RInv, RecoveredShowsBase', SnapshotIsLiveView, todo = <<>>, todo' = todo
  PROVE  RP!Sound' /\ RP!ViewNodes' = ViewNodes /\ RP!Total' = Total
<1> PICK g : g = build_graph(materialize)
  OBVIOUS
<1>1. IInv /\ IndexesExact /\ ViewForm
  BY InEveryState DEF RInv, Sound, FormsHold
<1>2. /\ g \in Graphs /\ WellFormed(g) /\ g.nodes = ViewNodes
      /\ \A e \in Triples : Occurs(g.edges, {e}) = ViewSettled[e] + ViewFresh[e]
  BY <1>1, FoldedGraph
<1>3. r_base' = g
  BY DEF SnapshotIsLiveView
<1>4. RP!Fresh' /\ RP!Uncounted'
  <2>1. RP!Fresh'
    BY <1>2, <1>3, SameConstants DEF SnapshotIsLiveView, RP!Fresh
  <2>2. RP!Uncounted'
    BY DEF SnapshotIsLiveView, RP!Uncounted, RP!counters
  <2> QED BY <2>1, <2>2
<1>5. /\ RP!Sound' /\ RP!ViewNodes' = g.nodes
      /\ \A e \in Triples : RP!Total'[e] = Occurs(g.edges, {e})
  BY <1>3, <1>4 DEF RecoveredShowsBase
<1>6. \A e \in Triples : RP!Total'[e] = Total[e]
  BY <1>1, <1>2, <1>5, TotalParts
<1>7. RP!Total' = [e \in Triples |-> RP!Total'[e]]
  BY SameConstants DEF RP!Total
<1>8. Total = [e \in Triples |-> Total[e]]
  BY DEF Total
<1> QED BY <1>2, <1>5, <1>6, <1>7, <1>8

(* A compaction: both start again from the same base.                      *)
LEMMA CompactKeeps ==
  ASSUME RInv, ShowsBase', RecoveredShowsBase', compact
  PROVE  RInv'
<1> PICK g : g = build_graph(materialize)
  OBVIOUS
<1>1. Fold /\ SnapshotIsLiveView /\ todo = <<>> /\ todo' = todo /\ base' = g
  BY DEF compact, Fold
<1>2. RP!Sound' /\ RP!ViewNodes' = ViewNodes /\ RP!Total' = Total
  BY <1>1, SnapshotKeeps
<1>3. IInv /\ IndexesExact /\ ViewForm
  BY InEveryState DEF RInv, Sound, FormsHold
<1>4. /\ g \in Graphs /\ WellFormed(g) /\ g.nodes = ViewNodes
      /\ \A e \in Triples : Occurs(g.edges, {e}) = ViewSettled[e] + ViewFresh[e]
  BY <1>3, FoldedGraph
<1>5. Fresh' /\ Uncounted'
  <2>1. Fresh'
    BY <1>1, <1>4 DEF Fold, Fresh
  <2>2. Uncounted'
    BY <1>1 DEF Fold, Uncounted, counters
  <2> QED BY <2>1, <2>2
<1>6. /\ Sound' /\ ViewNodes' = g.nodes
      /\ \A e \in Triples : Total'[e] = Occurs(g.edges, {e})
  BY <1>1, <1>5 DEF ShowsBase
<1>7. \A e \in Triples : Total'[e] = Total[e]
  BY <1>3, <1>4, <1>6, TotalParts
<1>8. Total' = [e \in Triples |-> Total'[e]] /\ Total = [e \in Triples |-> Total[e]]
  BY DEF Total
<1>9. seq' = seq
  BY <1>1 DEF Fold
<1> QED BY <1>2, <1>4, <1>6, <1>7, <1>8, <1>9 DEF RInv, SameEdges

(* One that fails after its MANIFEST is committed changes the disk only.   *)
LEMMA FailedCompactKeeps ==
  ASSUME RInv, RecoveredShowsBase', compact_fails_after_commit
  PROVE  RInv'
<1>1. SnapshotIsLiveView /\ todo = <<>> /\ UNCHANGED vars
  BY DEF compact_fails_after_commit
<1>2. todo' = todo /\ seq' = seq /\ UNCHANGED <<base, delta>>
  BY <1>1 DEF vars
<1>3. RP!Sound' /\ RP!ViewNodes' = ViewNodes /\ RP!Total' = Total
  BY <1>1, <1>2, SnapshotKeeps
<1>4. Sound'
  BY <1>1, NextSound DEF RInv
<1> QED BY <1>2, <1>3, <1>4, UnchangedView DEF RInv, SameEdges

(* A reopen: the recovered graph is the live one from then on.             *)
LEMMA ReopenKeeps ==
  ASSUME RInv, SameStateAgrees', reopen
  PROVE  RInv'
<1>1. live' = recovered' /\ UNCHANGED recovered /\ todo' = todo /\ seq' = seq
  BY DEF reopen, live, recovered
<1>2. UNCHANGED RP!vars
  BY <1>1 DEF recovered, RP!vars, RP!delta, RP!counters
<1>3. RP!Sound'
  BY <1>2, RP!NextSound, RecoveredAssumption DEF RInv
<1>4. (Sound' <=> RP!Sound') /\ ViewNodes' = RP!ViewNodes' /\ Total' = RP!Total'
  BY <1>1 DEF SameStateAgrees
<1> QED BY <1>1, <1>3, <1>4 DEF RInv, SameEdges

(* A new store has one graph.                                              *)
LEMMA InitRInv == RecoveryInit => RInv
<1> SUFFICES ASSUME RecoveryInit PROVE RInv
  OBVIOUS
<1>1. live = recovered
  BY DEF RecoveryInit, Init, live, recovered
<1>2. Fresh /\ Uncounted
  BY BasesAssumption DEF RecoveryInit, Init, Fresh, Uncounted, counters
<1>3. Sound
  BY <1>2, InEveryState DEF ShowsBase
<1>4. seq \in 0..Len(BatchBound)
  BY BasesAssumption DEF RecoveryInit, Init
<1> QED BY <1>1, <1>3, <1>4, InEveryState DEF RInv, SameEdges, SameStateAgrees

(* All steps together.                                                     *)
LEMMA NextRInv ==
  /\ RInv /\ FormsHold' /\ ShowsBase' /\ RecoveredShowsBase' /\ SameStateAgrees'
  /\ [RecoveryNext]_allvars
  => RInv'
<1> SUFFICES ASSUME RInv, FormsHold', ShowsBase', RecoveredShowsBase', SameStateAgrees',
                    [RecoveryNext]_allvars
             PROVE  RInv'
  OBVIOUS
<1>1. ASSUME NEW ops \in Batches, Accept(ops) PROVE RInv'
  BY <1>1, AcceptKeeps
<1>2. CASE Replay
  BY <1>2, ReplayKeeps
<1>3. CASE compact
  BY <1>3, CompactKeeps
<1>4. CASE compact_fails_after_commit
  BY <1>4, FailedCompactKeeps
<1>5. CASE reopen
  BY <1>5, ReopenKeeps
<1>6. CASE UNCHANGED allvars
  <2>1. UNCHANGED vars /\ UNCHANGED recovered /\ revived' = revived
    BY <1>6 DEF allvars
  <2>2. UNCHANGED RP!vars /\ UNCHANGED <<base, delta>>
    BY <2>1 DEF vars, recovered, RP!vars, RP!delta, RP!counters
  <2> QED BY <2>1, <2>2, BothSound, UnchangedView, UnchangedRecovered DEF RInv, SameEdges
<1> QED BY <1>1, <1>2, <1>3, <1>4, <1>5, <1>6 DEF RecoveryNext

(***************************************************************************)
(* The theorems.                                                           *)
(***************************************************************************)
(* The live and the recovered graph keep the invariant.                    *)
THEOREM RecoveryInvariant == RecoverySpec => []RInv
BY InitRInv, NextRInv, InEveryState, PTL DEF RecoverySpec

(* Reopens and half-failed compactions included, the overlay in memory     *)
(* keeps shadows and tombstones apart, pass 1's promises, no dangling edge,*)
(* exact counters and exact readers (delta.rs).                            *)
THEOREM OverlaySurvivesReopens ==
  RecoverySpec => [](/\ TypeOK /\ ShadowXorTombstone /\ PromisedEndpoints /\ NoDanglingEdge
                     /\ CountersExact /\ ReadersSeeView)
<1>1. RInv => /\ TypeOK /\ ShadowXorTombstone /\ PromisedEndpoints /\ NoDanglingEdge
              /\ CountersExact /\ ReadersSeeView
  BY SoundGives DEF RInv
<1> QED BY <1>1, RecoveryInvariant, PTL

(* The replay may skip pass 1 (delta.rs, replay): whatever the live graph  *)
(* accepted the recovered one would have accepted too, and no edge ever    *)
(* lands on a node that recovery does not have.                            *)
THEOREM ReplayIsSafe == RecoverySpec => []ReplayNeedsNoValidation
<1>1. RInv => ReplayNeedsNoValidation
  <2>1. RP!Sound => RP!Accepts(todo) /\ RP!NoDanglingEdge
    BY DEF RP!Sound, RP!IInv, RP!PromisedEndpoints
  <2> QED BY <2>1, SameReaders DEF RInv, ReplayNeedsNoValidation
<1> QED BY <1>1, RecoveryInvariant, PTL

(* A reopen loses, invents or changes no node; nor an edge, save at a      *)
(* removed node that was put back after a compaction that failed half way  *)
(* (persist/mod.rs, compact_locked).  New nodes and their edges are no     *)
(* exception.                                                              *)
THEOREM ReopenGivesTheGraphBack == RecoverySpec => []RecoversTheGraph
<1>1. RInv => RecoversTheGraph
  <2> SUFFICES ASSUME RInv PROVE RecoversTheGraph
    OBVIOUS
  <2>1. IInv /\ IndexesExact /\ ViewForm
    BY InEveryState DEF FormsHold, RInv, Sound
  <2>2. RP!IInv /\ RP!IndexesExact /\ RP!ViewForm
    BY InEveryState DEF FormsHold, RInv, RP!Sound
  <2>3. Nodes = ViewNodes /\ RecoveredNodes = RP!ViewNodes
    BY SameReaders DEF Nodes, ViewNodes
  <2>4. \A e \in Triples : CountIn(outgoing_neighbors(e.from), e) = Total[e]
    BY <2>1, TotalIsListed
  <2>5. \A e \in Triples : RP!CountIn(RP!outgoing_neighbors(e.from), e) = RP!Total[e]
    BY <2>2, RP!TotalIsListed, RecoveredAssumption, SameConstants
  <2>6. \A e \in Triples : EdgeBag[e] = Total[e]
    BY <2>4 DEF EdgeBag
  <2>7. \A e \in Triples : RecoveredEdgeBag[e] = RP!Total[e]
    BY <2>5, SameReaders DEF RecoveredEdgeBag
  <2> QED BY <2>3, <2>6, <2>7 DEF RInv, SameEdges, RecoversTheGraph
<1> QED BY <1>1, RecoveryInvariant, PTL

(* From one opening of the store to the next the overlay, its batches and  *)
(* its compactions, those that fail half way included, are the plain graph *)
(* of GraphView.                                                           *)
THEOREM ViewBetweenReopens == RecoverySpec => ImplementsViewBetweenReopens
<1>1. Init /\ IInv /\ ViewForm => View!Init
  BY InitImplements
<1>2. /\ RInv /\ RInv' /\ FormsHold /\ FormsHold' /\ [RecoveryNext]_allvars
      => [View!Next \/ reopen]_live
  <2> SUFFICES ASSUME RInv, RInv', FormsHold, FormsHold', [RecoveryNext]_allvars
               PROVE  [View!Next \/ reopen]_live
    OBVIOUS
  <2>1. IInv /\ IInv' /\ IndexesExact /\ ViewForm /\ ViewForm'
    BY DEF RInv, Sound, FormsHold
  <2>2. ASSUME NEW ops \in Batches, Accept(ops) PROVE UNCHANGED live
    BY <2>2 DEF Accept, Apply, delta, counters, live
  <2>3. CASE Replay
    <3>1. Mutate
      BY <2>3 DEF Replay, Mutate
    <3> QED BY <2>1, <3>1, MutateImplements
  <2>4. CASE compact
    <3>1. View!Compact
      BY <2>1, <2>4, FoldImplements DEF compact
    <3> QED BY <3>1 DEF View!Next
  <2>5. CASE compact_fails_after_commit
    BY <2>5 DEF compact_fails_after_commit, vars, delta, counters, live
  <2>6. CASE UNCHANGED allvars
    BY <2>6 DEF allvars, vars, delta, counters, live
  <2> QED BY <2>2, <2>3, <2>4, <2>5, <2>6 DEF RecoveryNext
<1>3. RecoveryInit => Init
  BY DEF RecoveryInit
<1>4. (RInv => IInv) /\ (FormsHold /\ IInv => ViewForm)
  BY DEF RInv, Sound, FormsHold
<1> QED BY <1>1, <1>2, <1>3, <1>4, InEveryState, RecoveryInvariant, PTL
        DEF RecoverySpec, ImplementsViewBetweenReopens
=============================================================================

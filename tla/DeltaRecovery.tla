---------------------------- MODULE DeltaRecovery ----------------------------
(***************************************************************************)
(* The graph in memory and the graph a reopen would recover, side by side: *)
(* how persist/mod.rs feeds GraphDelta.  Every accepted batch is also      *)
(* replayed, without pass 1, onto what the MANIFEST's snapshot holds.      *)
(*                                                                         *)
(* The two start equal and stay equal until a compaction commits its       *)
(* MANIFEST and then fails without poisoning the writer (the directory     *)
(* sync after the rename, or the re-mmap of step 7): the disk has a folded *)
(* base and no delta, the process keeps its old base and delta, and more   *)
(* batches are acknowledged on top.  The durable steps of one operation    *)
(* are the business of PersistentGraph, so each is whole here.             *)
(***************************************************************************)
EXTENDS GraphDelta

VARIABLES
  r_base, r_added_nodes, r_added_edges, r_removed_nodes, r_removed_edges,
  r_out_index, r_in_index, r_tombstone_base_hits, r_added_non_base,
  r_masked_base_edge_count, r_live_delta_edge_count,
  revived  \* history: removed nodes put back while the two differed

Recovered == INSTANCE GraphDelta WITH
  base <- r_base, added_nodes <- r_added_nodes, added_edges <- r_added_edges,
  removed_nodes <- r_removed_nodes, removed_edges <- r_removed_edges,
  out_index <- r_out_index, in_index <- r_in_index,
  tombstone_base_hits <- r_tombstone_base_hits,
  added_non_base <- r_added_non_base,
  masked_base_edge_count <- r_masked_base_edge_count,
  live_delta_edge_count <- r_live_delta_edge_count

live      == <<base, added_nodes, added_edges, removed_nodes, removed_edges,
               out_index, in_index, tombstone_base_hits, added_non_base,
               masked_base_edge_count, live_delta_edge_count>>
recovered == <<r_base, r_added_nodes, r_added_edges, r_removed_nodes,
               r_removed_edges, r_out_index, r_in_index, r_tombstone_base_hits,
               r_added_non_base, r_masked_base_edge_count, r_live_delta_edge_count>>
allvars   == <<vars, recovered, revived>>

(* PersistentGraph::apply: the batch validated, logged, and about to run.  *)
Accept(ops) == Apply(ops) /\ UNCHANGED <<recovered, revived>>

(* The node that the next operation brings back, if live and recovered     *)
(* graph may have different edges for it.                                  *)
PutBack ==
  IF Head_is("UpsertNode") /\ live # recovered
  THEN {Head(todo).name} \cap (removed_nodes \cup r_removed_nodes) ELSE {}

(* One operation on the live delta; recovery will replay it on its own.    *)
Replay ==
  /\ \/ UpsertNode /\ Recovered!UpsertNode
     \/ RemoveNode /\ Recovered!RemoveNode
     \/ AddEdge    /\ Recovered!AddEdge
     \/ RemoveEdge /\ Recovered!RemoveEdge
  /\ revived' = revived \cup PutBack

(* The snapshot is the live view, folded, and the frames it covers are     *)
(* skipped by the replay.                                                  *)
SnapshotIsLiveView ==
  /\ r_base' = build_graph(materialize)
  /\ r_added_nodes' = NoNodes /\ r_added_edges' = <<>>
  /\ r_removed_nodes' = {} /\ r_removed_edges' = {}
  /\ r_out_index' = NoIndex /\ r_in_index' = NoIndex
  /\ r_tombstone_base_hits' = 0 /\ r_added_non_base' = 0
  /\ r_masked_base_edge_count' = 0 /\ r_live_delta_edge_count' = 0
  /\ revived' = {}

compact == Fold /\ SnapshotIsLiveView

compact_fails_after_commit ==
  /\ todo = <<>> /\ ~is_empty
  /\ SnapshotIsLiveView
  /\ UNCHANGED vars

(* The process dies or closes between two operations and the store is      *)
(* opened again: from then on the recovered graph is the live one.         *)
reopen ==
  /\ todo = <<>> /\ live # recovered
  /\ base' = r_base
  /\ added_nodes' = r_added_nodes /\ added_edges' = r_added_edges
  /\ removed_nodes' = r_removed_nodes /\ removed_edges' = r_removed_edges
  /\ out_index' = r_out_index /\ in_index' = r_in_index
  /\ tombstone_base_hits' = r_tombstone_base_hits
  /\ added_non_base' = r_added_non_base
  /\ masked_base_edge_count' = r_masked_base_edge_count
  /\ live_delta_edge_count' = r_live_delta_edge_count
  /\ revived' = {}
  /\ UNCHANGED <<todo, seq, recovered>>

RecoveryInit ==
  /\ Init
  /\ r_base = base
  /\ r_added_nodes = NoNodes /\ r_added_edges = <<>>
  /\ r_removed_nodes = {} /\ r_removed_edges = {}
  /\ r_out_index = NoIndex /\ r_in_index = NoIndex
  /\ r_tombstone_base_hits = 0 /\ r_added_non_base = 0
  /\ r_masked_base_edge_count = 0 /\ r_live_delta_edge_count = 0
  /\ revived = {}

RecoveryNext ==
  \/ \E ops \in Batches : Accept(ops)
  \/ Replay
  \/ compact
  \/ compact_fails_after_commit
  \/ reopen

RecoverySpec == RecoveryInit /\ [][RecoveryNext]_allvars

(***************************************************************************)
(* Properties.                                                             *)
(***************************************************************************)

(* Replay skips pass 1 (delta.rs, replay).  It may: whatever the live      *)
(* graph accepted, the recovered one would have accepted too, and no edge  *)
(* ever lands on a node that recovery does not have.                       *)
ReplayNeedsNoValidation == Recovered!Accepts(todo) /\ Recovered!NoDanglingEdge

Nodes == [x \in LiveNames |-> get_node(x)]
RecoveredNodes == [x \in Recovered!LiveNames |-> Recovered!get_node(x)]

EdgeBag == [e \in Triples |-> CountIn(outgoing_neighbors(e.from), e)]
RecoveredEdgeBag ==
  [e \in Triples |-> CountIn(Recovered!outgoing_neighbors(e.from), e)]

(* A reopen loses, invents or changes no node; nor an edge, save at a      *)
(* removed node that was put back after a compaction that failed half way: *)
(* which edges come back with a node depends on whether they were in the   *)
(* base, and the two graphs have different bases.  The edges between all   *)
(* other nodes, new ones included, are the same also then.                 *)
RecoversTheGraph ==
  /\ Nodes = RecoveredNodes
  /\ \A e \in Triples :
       {e.from, e.to} \cap revived = {} => EdgeBag[e] = RecoveredEdgeBag[e]

(* From one opening of the store to the next, the overlay, its batches and *)
(* its compactions, those that fail half way included, are the plain graph *)
(* that GraphView describes.                                               *)
ImplementsViewBetweenReopens ==
  View!Init /\ [][View!Next \/ reopen]_live

(* The documented claim, without the exception: opening the directory      *)
(* after any acknowledged batches gives back the graph they made           *)
(* (incremental_persistence_spec.md, testing plan, "open(dir) after apply* *)
(* round-trips; compact preserves the logical graph").                     *)
RecoversEdges == EdgeBag = RecoveredEdgeBag
=============================================================================

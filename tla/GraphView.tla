------------------------------ MODULE GraphView ------------------------------
(***************************************************************************)
(* What a mutable graph promises its readers: named nodes, a bag of        *)
(* parallel edges between them, and the four operations of delta.rs        *)
(* (enum Op).  No overlay, no tombstones, no positions and no counters.    *)
(*                                                                         *)
(* One thing cannot be abstracted away.  An edge that was in the graph at  *)
(* the last compaction is `settled`; removing one of its endpoints only    *)
(* hides it, and putting that node back shows it again.  An edge added     *)
(* since then is `fresh`, and is gone for good with its endpoint.          *)
(***************************************************************************)
EXTENDS Naturals

CONSTANTS Names, Kinds, Data

VARIABLES
  nodes,    \* the present names, each with its data
  settled,  \* visible edges the last compaction (or build) left: a bag
  fresh,    \* visible edges added since: a bag
  hidden    \* settled edges that lost an endpoint since: a bag

vars == <<nodes, settled, fresh, hidden>>

Edges    == [from: Names, to: Names, kind: Kinds]
Among(N) == {e \in Edges : e.from \in N /\ e.to \in N}

NoEdge     == [e \in Edges |-> 0]
Plus(B, C) == [e \in Edges |-> B[e] + C[e]]
Only(B, S) == [e \in Edges |-> IF e \in S THEN B[e] ELSE 0]

Init ==
  /\ nodes \in UNION {[N -> Data] : N \in SUBSET Names}
  /\ settled \in [Edges -> Nat] /\ settled = Only(settled, Among(DOMAIN nodes))
  /\ fresh = NoEdge /\ hidden = NoEdge

(* Adding or replacing a node never touches the edges in sight.            *)
Upsert(n, d) ==
  LET present == DOMAIN nodes \cup {n}
      back    == Among(present)
  IN /\ nodes' = [m \in present |-> IF m = n THEN d ELSE nodes[m]]
     /\ settled' = Plus(settled, Only(hidden, back))
     /\ hidden' = Only(hidden, Edges \ back)
     /\ UNCHANGED fresh

Remove(n) ==
  LET present == DOMAIN nodes \ {n}
      stay    == Among(present)
  IN /\ nodes' = [m \in present |-> nodes[m]]
     /\ settled' = Only(settled, stay)
     /\ hidden' = Plus(hidden, Only(settled, Edges \ stay))
     /\ fresh' = Only(fresh, stay)

(* An edge is only ever added between nodes that are there.                *)
Connect(e) ==
  /\ e \in Among(DOMAIN nodes)
  /\ fresh' = [fresh EXCEPT ![e] = @ + 1]
  /\ UNCHANGED <<nodes, settled, hidden>>

Disconnect(e) ==
  /\ settled' = [settled EXCEPT ![e] = 0]
  /\ fresh' = [fresh EXCEPT ![e] = 0]
  /\ hidden' = [hidden EXCEPT ![e] = 0]
  /\ UNCHANGED nodes

(* Readers see nothing of a compaction.                                    *)
Compact ==
  /\ settled' = Plus(settled, fresh)
  /\ fresh' = NoEdge /\ hidden' = NoEdge
  /\ UNCHANGED nodes

Next ==
  \/ \E n \in Names, d \in Data : Upsert(n, d)
  \/ \E n \in Names : Remove(n)
  \/ \E e \in Edges : Connect(e) \/ Disconnect(e)
  \/ Compact

Spec == Init /\ [][Next]_vars
=============================================================================

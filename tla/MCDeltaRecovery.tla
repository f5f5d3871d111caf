--------------------------- MODULE MCDeltaRecovery ---------------------------
(* An empty store; one with a single node and its self-loop, so that the   *)
(* other name is new to it; and one with a self-loop, parallel edges and   *)
(* edges in both directions.  Batches of one, one and two operations.      *)
EXTENDS DeltaRecovery

CONSTANTS n1, n2, k1, d1

edge(x, y) == [from |-> x, to |-> y, kind |-> k1]

MCBatchBound == <<1, 1, 2>>

MCBases == {
  [nodes |-> NoNodes, edges |-> <<>>],
  [nodes |-> [x \in {n1} |-> d1], edges |-> <<edge(n1, n1)>>],
  [nodes |-> [x \in {n1, n2} |-> d1],
   edges |-> <<edge(n1, n1), edge(n1, n2), edge(n1, n2), edge(n2, n1)>>]}
=============================================================================

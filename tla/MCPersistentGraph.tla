-------------------------- MODULE MCPersistentGraph --------------------------
(* TLC instances of PersistentGraph.  The batches are model values; the    *)
(* cfgs differ in the policies, the crashes and the failing steps allowed. *)
EXTENDS PersistentGraph, TLC
=============================================================================

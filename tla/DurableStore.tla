----------------------------- MODULE DurableStore -----------------------------
(***************************************************************************)
(* What the persistent graph promises its client, whatever happens to the  *)
(* machine (src/persist/mod.rs, the durability contract of apply, and      *)
(* src/persist/commit.rs, "The honest contract"): batches are all or       *)
(* nothing, an acknowledged batch is never lost, and a batch whose apply   *)
(* returned Err may be there after the next open, or not, but blocks every *)
(* other one until then.                                                   *)
(***************************************************************************)
EXTENDS Naturals, Sequences

CONSTANT Batches

VARIABLES
  up,       \* does a client hold an open handle?
  graph,    \* the batches in the state readers see (none when down)
  acked,    \* those acknowledged as durable
  attempt   \* graph, with the batch an apply has begun and not finished

vars == <<up, graph, acked, attempt>>

Prefixes(g) == {SubSeq(g, 1, n) : n \in 0..Len(g)}

Init == up = FALSE /\ graph = << >> /\ acked = << >> /\ attempt = << >>

(* Recovery picks any state between what was acknowledged and what was     *)
(* attempted, and acknowledges it (committed_seq covers it).               *)
Open ==
  /\ ~ up /\ up' = TRUE
  /\ graph' \in Prefixes(attempt)
  /\ acked \in Prefixes(graph')
  /\ acked' = graph' /\ attempt' = graph'

(* The batch is on its way; it may survive from here on.                   *)
Begin(b) ==
  /\ up /\ attempt = graph
  /\ attempt' = Append(graph, b)
  /\ UNCHANGED <<up, graph, acked>>

(* The batch is published, acknowledged as durable or not yet.             *)
Finish(b) ==
  /\ up /\ attempt \in {graph, Append(graph, b)}
  /\ graph' = Append(graph, b) /\ attempt' = graph'
  /\ acked' \in {acked, graph'}
  /\ UNCHANGED up

(* flush, close and compaction acknowledge all that is published.          *)
Commit ==
  /\ up /\ acked' = graph
  /\ UNCHANGED <<up, graph, attempt>>

(* The handle is closed, or lost.                                          *)
Down ==
  /\ up /\ up' = FALSE /\ graph' = << >>
  /\ UNCHANGED <<acked, attempt>>

Next ==
  \/ Open \/ Commit \/ Down
  \/ \E b \in Batches : Begin(b) \/ Finish(b)

Spec == Init /\ [][Next]_vars

=============================================================================

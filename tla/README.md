# A TLA+ development for orpheusgraph

orpheusgraph is an in-memory directed graph with bounded, scored traversal, a
mutable overlay (the *delta*) on an immutable *base*, and a crash-safe
single-writer store for the pair. This directory models it in TLA+, checks the
models with TLC on small instances, and proves theorems about them with TLAPS.
Paths below are relative to the repository (`src/persist/mod.rs` is the store).

## 1. The system

| Component | State | Operations | Talks to |
|---|---|---|---|
| Persistent store, `persist/mod.rs` | the writer (base, delta, `seq`, `durable_seq`, `epoch`, snapshot pointers, poison flag), behind one mutex; the published `GraphState`, behind an `ArcSwap` | `create`, `open`, `apply`, `flush`, `compact`, `close`, `set_fsync_policy` | every file below, through the `Vfs` seam; the delta; readers load `GraphState` without the lock |
| Write-ahead log, `persist/wal.rs` | `wal.log`; policy, `since_fsync`, `poisoned` | `append`, `flush`, `truncate`, `scan_wal_bytes` | called by the store under the mutex |
| COMMIT sidecar, `persist/commit.rs` | two slots with generations; `next_slot`, `next_gen` | `create`, `open`, `advance` | called by the store at every fsync point |
| MANIFEST, `persist/manifest.rs` | root pointer: snapshot, `high_seq`, epoch, `clean_shutdown` | `read_manifest`, `write_file_atomic` | rewritten by create, open, compaction, close |
| Lock, `persist/lock.rs` | an flock | `acquire`, never waiting; released on drop and by the kernel | one handle per directory; taken by `create` and `open` |
| Delta, `delta.rs` | added nodes and edges, tombstones, side indices, four counters | `apply` (validate, then mutate), `replay`, `materialize`, the merged accessor | read by traversal; cloned and published by the store |
| Snapshot format, `persist/snapshot.rs` | CSR arrays and a name table, mapped from a file | `to_rkyv_v2`, `validate_v2`, lookups | written by compaction, read by `open` |
| Builder and graph, `builder.rs`, `graph.rs`, `accessor.rs` | an immutable graph | `build_graph`, PageRank, both listings | called at build, by compaction and by every read |
| V0 archive, `serialization.rs` | bytes of a graph, and a view of them | `to_rkyv`, `from_bytes`, `from_rkyv_rebuild` | used by programs without a store |
| Overlay and traversal, `overlay.rs`, `traversal.rs`, `scoring.rs` | per call: frontier, visited set, heap | `beam_traverse`, `find_path`, `contextual_subgraph`, `multi_beam_intersection` | read any accessor |
| Python bindings, `pybridge.rs` | the objects, each with a store or none and a borrow flag; the GIL | every method above; conversions | hold the GIL for short calls, leave it for long ones |

What is hard here is the store: an operation is a sequence of writes, renames
and syncs, each of which may fail, tear, or be cut short by the death of the
process or of the machine, and what the next `open` finds is a combination of
several files that no straight run produced. Around it are the threads and
processes that share a directory: four locks (GIL, borrow flag, writer mutex,
flock), two of them taken in both orders. Everything else is sequential; its
difficulty is in bookkeeping that is updated incrementally (the delta's counters
and side indices), in representations that must agree (owned graph, V0 view, CSR
file, base with delta), and in determinism.

`PROJECT.json` lists the hazards, each at its line, with the properties aimed at
them.

## 2. Modules

| Module | Stands for |
|---|---|
| `DurableFile` | one file or directory: the image a process sees and the images a power cut may leave (`vfs.rs`, and the fault model of `tests/powerloss_harness.rs`) |
| `DurableStore` | the promise: what a client of the store may rely on |
| `PersistentGraph` | the store: `mod.rs`, `wal.rs`, `manifest.rs`, step by durable step |
| `CommitRegister` | the promise of COMMIT: one register |
| `CommitFile` | COMMIT as it is: two slots written in turn |
| `GraphView` | the promise of a mutable graph: nodes, a bag of edges, four operations |
| `GraphDelta` | `delta.rs`: the overlay on a base, both passes of `apply`, the merged view, `materialize`, and the fold of a compaction |
| `DeltaRecovery` | the graph in memory next to the graph a reopen would recover |
| `SnapshotCsr` | `snapshot.rs`: a graph as the arrays of a V2 snapshot, the sweep that admits a file, and reading it owned or mapped; extends `GraphBuilder` |
| `GraphBuilder` | `builder.rs`, the listings of `accessor.rs`, and the V0 archive of `serialization.rs` |
| `Overlay` | what one request sees of a graph: `overlay.rs`, `scoring.rs`, the context and visibility of `types.rs` |
| `Traversal` | `traversal.rs`: the four traversals, and the same call after a compaction |
| `Sessions` | the threads and processes that share one directory: `pybridge.rs`, `lock.rs`, and the locking of `mod.rs` |
| `Lists` | sets and lists put in order: what the others sort, filter and cut with |
| `MC*` | TLC instances |
| `CommitFileProofs`, `PersistentGraphProofs`, `GraphDeltaProofs`, `DeltaRecoveryProofs`, `TraversalProofs`, `SnapshotProofs`, `SessionsProofs` | theorems |
| `ListProofs` | lemmas about lists that four of them use |

The layers fit together by refinement:

    DurableStore   <== PersistentGraph  (property KeepsItsPromise; theorem PromiseRefinement)
    CommitRegister <== PersistentGraph  (property UsesMarkerAsRegister; theorem MarkerRefinement)
    CommitRegister <== CommitFile       (property IsARegister; theorem ImplementsRegister)
    GraphView      <== DeltaRecovery    (property ImplementsViewBetweenReopens)

The second line says that the store asks of its marker nothing but what the
register allows (in particular it never advances it again after a failed
advance, and only after opening it); the third that the two-slot file gives
exactly that. So `PersistentGraph` may keep the marker as a single value.

### Files and faults: `DurableFile`

A file is a record `[vis, crash]`. `vis` is the page cache: what a running
process reads, and what survives when the process dies. `crash` is the set of
images a power cut may leave. A write adds its image, and its torn forms, to the
set; a sync that returned `Ok` leaves only the visible image. A sync that
returned `Err` either persisted everything or nothing certain (the fault
harness's `persist` flag). Un-synced writes reach the disk in order, as in the
harness. A power cut picks one crash image of each file independently.

`write_file_atomic` syncs its temporary file before the rename, so MANIFEST and
snapshots are never torn: they are part of one "directory" whose images are
recorded in `dir`, made durable by `fsync_dir`. A rename whose `fsync_dir` has
not returned is therefore visible but may be undone.

The budget `MaxFaults` counts the steps that return `Err`. A process killed
between a write and its sync leaves the same disk as an `Err` from the sync
followed by the death of the process, and spends the same unit; so "one fault"
includes "killed between rename and fsync_dir". Deaths between two durable
steps are free (`Kill`), and so are power cuts.

### The store: `PersistentGraph`

The logical graph is abstracted to the sequence of batches applied since the
store was empty: `graph`. Its length is `seq`, a WAL frame holds one batch, a
snapshot holds a sequence of them and stands for its own crc. Recovery is a
function of three images, `RecoveredGraph(wal, commit, dir)`, with its own
domain, `Recoverable`: between them they are steps 1 to 3c of `open_with_vfs`.

Every operation runs under the writer mutex, so one program counter `pc` is
enough. An operation is cut at its durable steps, each an action:

| Code | Actions |
|---|---|
| `create_with_vfs` | `CreateSnapshot`, `CreateWal`, `CreateCommit`, `CreateManifest` |
| `open_with_vfs` | `OpenScan` (1-3c, 5), `OpenTruncate` (4), `OpenCommit` (5b), `OpenManifest` (6, 6b, 8) |
| `apply` | `Apply` (append, and the publication if it was not synced), `ApplyCommit` (marker, publication) |
| `flush` | `Flush`, `FlushCommit` |
| `compact_locked` | `CompactSnapshot`, `CompactManifest`, `CompactCommit`, `CompactTruncate`, `CompactReopen`; entered from `Compact` or, past the threshold, from `apply` (`auto`) |
| `close` | `Close`, `CloseCommit`, `CloseManifest` |
| handle dropped, process death | `Kill` |
| power loss | `PowerLoss` |

Each action has a disjunct per outcome of its write or sync. `epoch` is a number
from a counter: the code draws 128 random bits and relies on their being new.

Three history variables say what the client saw: `acked` is the graph somebody
was told is durable (`apply` returned `Ok` under `EveryBatch`, `flush` returned,
or `committed_seq()` covers it), `attempt` is the live graph with the batch of an
apply that may have been written, and `named[e]` is the longest graph published
under epoch `e`.

What the model abstracts: batches are opaque (their effect on nodes and edges is
the delta's business); `DeltaIsEmpty` is false as soon as a batch outside
`NoopBatches` was applied since the last fold (removing what was added leaves
tombstones, so the code's delta is not empty either); a batch the delta rejects,
a failed CAS or a poisoned call returns before it changes anything, and is the
absence of a step; `set_auto_compact_threshold` is the constant `AutoThreshold`;
byte framing, JSON, checksums and file names are their outcome: an image checks
out or does not. Two of compaction's errors do nothing (`to_rkyv_v2` and
`write_file_atomic` before the rename) and are the same disjunct.

### COMMIT: `CommitFile`

`file` has pairs of slots as images. `Advance` writes slot `next_slot`; a torn
write makes that slot invalid (the crc), a failed or lost one leaves any crash
image of `DurableFile`. After a failed advance the writer is poisoned, so the
file must be opened again before the next one: that is `ready`.

### The delta: `GraphDelta`, `GraphView`, `DeltaRecovery`

`GraphDelta` has the fields of the struct one for one, plus `base`, the batch in
progress `todo` and `seq`. `Apply(ops)` is pass 1: its guard `Accepts` is the
scratch copy, written as "the last earlier operation on this node decides". Pass 2
is one action per operation (`UpsertNode`, `RemoveNode`, `AddEdge`,
`RemoveEdge`), with the counters updated the incremental way the code does it, so
the invariants are checked between the operations of a batch too; nothing
interleaves with them, because the code works on a private clone. A batch that
pass 1 rejects changes nothing and is no step. `Fold` is `materialize`,
`build_graph_prenormalized` and a fresh delta, which is what a compaction does
to the logical state.

Positions in `added_edges` count from 1. The base lists edges newest first, as
petgraph does; a mapped CSR base sorts them instead. No property of the delta
depends on the order, only on how often an edge is listed. A node's data is one
value; an edge is `(from, to, kind)`, so parallel edges are repetitions; an
operation's temporal window is satisfiable or not; ACLs play no part before
the traversal. `DeltaError`'s payload is not modelled.

`GraphView` is the same four operations on plain bags of edges. It has to tell
`settled` edges (in the last base) from `fresh` ones: a removed and re-inserted
node gets its settled edges back and not its fresh ones, so a compaction, which
makes fresh edges settled, is visible in what later operations do. `View` maps
shadows over base to `nodes`, unmasked base edges to `settled`, live delta edges
to `fresh`, and base edges masked by an endpoint alone to `hidden`.

`DeltaRecovery` adds a second copy of the delta's variables, the graph that
recovery would build: the snapshot the MANIFEST names, with the later frames
replayed (`Recovered!`, without pass 1). `compact_fails_after_commit` is a
compaction that returns an error once its MANIFEST is renamed: at the directory
sync after the rename, or at the mapping of the new file. Neither poisons the
writer. After the former a clean `close` writes the old pointer back; that is a
reopen without the failed compaction, and so no new state.

The overlay implements `GraphView` from one opening of the store to the next,
whatever compactions succeed or fail in between.

### The graph and its files: `GraphBuilder`, `SnapshotCsr`

A graph is its nodes in index order and its edges in insertion order. `build_graph`
keeps the last of several nodes of one name, sorts by name, and skips an edge to
an unknown name or with an inverted window; `graph_neighbors` lists the newest
edge first, as petgraph does. `to_rkyv` and `to_rkyv_v2` give the arrays of the
two formats as functions on `0 .. n-1`. Names and kinds are numbers, because the
V2 format depends on their order; the fields after `kind` in the edge order are
further keys of the same kind and are left out, as are weights and metadata (a
node has a datum, to tell which of two definitions won). Validity windows are looked at
by `build_graph` alone and not kept: a foreign file with an inverted window, whose edge
a compaction would drop, is not modelled. `fnv1a` is a variable
that starts as any function from names to `Hashes` and never changes: all
collisions are tried. `validate_csr` has one operator per group of checks, in the
code's order, and counts empty slots from prefix sums as the code does. `idx_of`,
`Outgoing` and `Incoming` are the bounded reads of `ArchivedCsrView`; an
out-of-bounds read ends a lookup or a listing there too.

The module is the life of one graph. It is built (`Init`), written to V0 bytes,
closed, and read back as a view or rebuilt (`ToRkyv`, `CloseGraph`, `FromRkyv`);
`create` makes a store of it; `compact` reads what is open through the accessor,
rebuilds it, writes it, and maps the new file without validation or keeps the folded
graph, according to the writer's `mode`; `open_snapshot` sweeps under `Full` and
trusts under `Crc`, which its comment reserves for files this program wrote
(`trusted`). `OtherWriter` changes up to `MaxChanges` cells, or drops the last cell
of an array, in a file that is not open, its crc being that of the changed file:
the case the sweep is for; the tests at the end of `snapshot.rs` build such files
one by one. `OtherArchive` does the same to V0 bytes, of which `from_bytes` checks
the ends of the edges and `from_rkyv_rebuild` skips what is out of range. V0 bytes in
which two nodes have one name are not modelled: `to_rkyv` writes none. What a
compaction does to a delta is `GraphDelta`'s.

### One request: `Overlay`, `Traversal`

`Overlay` is a set of operators over a graph, given as nodes and *listings* (any
`GraphAccessor`), and a context. `neighbors_with_overlay` is the cut-off, the
overlay's edges and the filter; `compute_score` is the sum of three components
times one minus the noise, with integer weights and penalties in tenths, so that
equal scores are equal and no rounding hides a tie. `OverlayIndex` keeps the last
definition of a node.

`Traversal` runs one call, with an action for each step in which the code could
have gone another way: an entry taken from the heap (any one of least cost, since a
binary heap orders only what `Ord` compares), one neighbor relaxed, one level of
one beam, one seed. Up to two beams run in sequence and more in any order, as
rayon may; beams share nothing. Hash maps whose content is sorted afterwards are sets.
Then `Compact` rewrites the listings -- sorted as the CSR file is, or reversed,
as a rebuilt petgraph is -- and the same call runs once more. PageRank is
held still there: that a compaction recomputes it is documented.

### Threads and processes: `Sessions`

A graph is again the sequence of batches applied; recovery is the committed
prefix, which is what `PersistentGraph` establishes. The state is the directory
(is there a MANIFEST, what does the marker cover), the flock, the objects with
the writer mutex of their store and the published `GraphState`, the GIL of each
process and a frame per thread. A step between two blocking points under
the GIL is one action.

| Code | Actions |
|---|---|
| `py_open`, `py_create_persistent`, `create_with_vfs`, `open_with_vfs` | `CallOpen`, `CallCreate`, `TakeLock`, `LockHeld`, `RefuseToClobber`, `BuildFiles`, `WriteManifest`, `Recover` |
| `apply` | `CallApply`, `Lock`, `RefuseBatch`, `AppendBatch`, `Publish`, `Fold`, `Release`, `Return` |
| `flush`, `compact` | `CallFlush`, `CallCompact`, `Lock`, `Commit` or `Fold`, `Release`, `Return` |
| `close` | `CallClose` (takes the store out), `Lock`, `Commit`, `Release`, `LeaveStore`, `Return` |
| `set_fsync_policy` | `CallKnob` (with the GIL), `SetPolicy` |
| `seq`, the traversals | `ReadSeq`; `CallRead` (one load of the published state), `ReadBase`, `ReadDelta`, `Return` |
| object dropped, process killed | `DropObject`, `Kill` |

A knob keeps the GIL while it waits for the mutex; `apply` leaves the GIL first
and takes it back after the mutex is free. `open` and `create` keep it
throughout. An object is borrowed by every thread inside one of its methods;
`close`, which needs it exclusively, is refused while there is one. `open` looks for
the MANIFEST before it has the flock and `create` looks again with it. The
`expected_seq` a caller passes is the last one it read, however old. The history
`accepted` is what `apply` returned.

## 3. What the runs check

| Run | Question | Bounds | Distinct states |
|---|---|---|---|
| `store_crash` | crash safety of every operation, under the three fsync policies, with auto-compaction and batches that leave the delta empty | 2 batches (one a no-op), `seq` up to 2, 3 epochs, 1 fault | 0.75 M |
| `store_process` | the machine never fails; liveness of recovery | 1 batch, `seq` up to 2, 4 epochs, 2 faults, any process deaths | 1.0 M |
| `commit_file` | the two slots | 3 markers, 6 generations | 6.6 k |
| `store_bricks`, `store_resurrects`, `store_process_death` | statements of the comments that do not hold | | |
| `delta` | counters, listings and refinement, operation by operation; what pass 1 predicts of a batch; live graph against recovered graph | 2 names, 3 bases, three batches, the last of up to two operations, any compactions, failures and reopens | 0.24 M |
| `delta_forgets` | "`open(dir)` after `apply*` round-trips" | the same | |
| `snapshot` | the graph built, archived, written, admitted and read | 4 inputs of up to 4 nodes and 4 edges, all hashes into 3 values, 2 changed cells | 1.3 M |
| `traversal` | the four traversals and their answers, before and after a compaction | 24 graphs of 4 nodes, 8 contexts, 17 calls | 63 k |
| `path_ties` | "(seq, ctx) fully determines traversal output", of `find_path` | 1 graph | |
| `sessions` | locks, compare-and-set, reads, creation races, liveness of every call | 2 threads of one process and 1 of another, 2 calls each; 2 handles, 1 kill | 0.14 M |

The properties of the store:

* `SurvivesPowerLoss`: while a handle is open, every combination of crash images
  is recoverable and recovers all that was acknowledged. It quantifies over the
  images without taking the crash step, so each reachable state tests all cuts.
* `NoSilentLoss`: the same at any time, also in the middle of `open`, for the
  combinations recovery accepts. `NeverBricks` (all are accepted) is false: see 5.
* `NoResurrection`: nothing recovered that was not attempted in this timeline.
* `EpochSeqNamesOneState`: `(epoch, seq)`, the token readers cache by, names one
  state. It is what the epoch re-mint of recovery is for.
* `LiveStateIsOnDisk`: replaying the visible files gives the live graph, so no
  operation that failed without poisoning left memory and disk apart. This is
  where a compaction that fails half-way is caught.
* `ProcessDeathNeverBricks`: with the page cache intact, recovery accepts what
  it finds, after any two failing steps.
* `KeepsItsPromise`: every step is a step of `DurableStore`. In particular
  nothing acknowledged is taken back, and a batch whose apply failed may or may not
  be there after the next open, but blocks every other one until then (the poisoned
  writer).
* `Reopens`: once crashes stop, a store that has a MANIFEST opens.

Why the bounds are enough: two batches tell the batch that was dropped from the
one that took its seq; `seq` 2 gives a log with a committed and an uncommitted
frame, and a snapshot with frames on both sides of it; three epochs give two
recoveries, so a crash inside a recovery and what it does to the next one; one
fault, with free deaths and cuts, puts an error in every step of every
operation. `EpochsLeft > faults` in the crash guards only keeps a bound from
looking like a deadlock: it refuses a crash after which no epoch would be left
for the recovery. Deadlock is checked in every run
of the store and of COMMIT. It is not in those of the delta: after the last batch
of `BatchBound` an empty delta has nothing left to do. Nor in `snapshot`, where a file
the sweep refuses stays refused, `traversal`, where the second answer is the end,
and `sessions`, where the calls are spent; there `CallsReturn` says that none of
them is stuck.

`NoResurrection` and `KeepsItsPromise` hold for one fault and fail for two
(`store_resurrects`); with one they are proved for any number of epochs and batches.
`SurvivesPowerLoss`, `NoSilentLoss`, `EpochSeqNamesOneState`, `LiveStateIsOnDisk` and
`ProcessDeathNeverBricks` are proved for any number of faults too (section 4).

The properties of the delta:

* `CountersExact`: `node_count` and `edge_count` answer from four counters that
  are adjusted by what each operation thinks it changed; the invariant compares
  them with a recount after every operation. `TypeOK` says none goes below zero.
* `ImplementsViewBetweenReopens` and `ReadersSeeView`: overlay, tombstones, dead flags and
  indices are together a plain graph, and both listings and both counts show it.
* `PromisedEndpoints`, `ShadowXorTombstone`, `NoDanglingEdge`: see 4.
* `ReplayNeedsNoValidation`: the claim in the comment of `replay` that skipping
  pass 1 is safe after a compaction.
* `RecoversTheGraph`: live and recovered graph agree, but for the edges at a removed node
  put back after a compaction that failed half way (the history variable `revived`
  holds these nodes): see 5. A new node is no exception, nor are edges elsewhere.

Two names give edges both ways, self-loops and two tombstones at once; four
operations in three batches reach remove, revive, remove again with an edge
masked twice, with compactions and reopens in between, and the batch of two lets
its second operation meet what the first one did. One base has a self-loop, a
parallel pair and an edge back; one has a node and its self-loop, so that the other
name is in the delta alone; the third is empty. All properties of this run are also
proved for batches of any number and length (section 4).

The properties of the snapshot:

* `SelfWrittenValidates`: the sweep never refuses what the writer wrote (an
  earlier version of it did, says the comment at `snapshot.rs:510`).
* `LookupExact`: in an admitted file the probe finds every node and nothing else.
* `DirectionsAgree`: in an admitted file each edge is in one outgoing and one
  incoming listing, those of its endpoints; and the listings by name of an owned
  graph, a V0 view and a mapped file tell the same in both directions.
* `HeldIsWritten`: through archive, create, compact, close and reopen in any mode,
  what is listed is what is in the bytes.
* `Deterministic`: neither the order of the inputs nor a name given twice leads to
  another file of the same graph.

Three nodes make a table of eight; the hashes 0, 6 and 7 let all three collide at
its end and wrap, with two of them, or all, after the wrap. Two changed cells are
what it takes to move a node to another slot, or to repeat one edge in the mirror
and leave out another. The graphs have parallel edges that differ in kind alone,
a self-loop, a node without outgoing edges, and no nodes at all; one is given
twice, in two orders.

The properties of the traversals:

* `OnlyAllowedEdges`: edges are read in two places, the shared neighbor function and
  the rebuild of a heatmap's edges; neither lets one through that is out of its
  window or whose tags the caller lacks. The rebuild does not apply the fan-out
  cut-off, so a heatmap shows a hub's edges between nodes it found otherwise.
* `ParentsDescend` and `CheapestPath`: stale heap entries, ties and circles do no
  harm; the path is one of least cost, compared with distances computed level by
  level over all edges, and is missing only if there is none.
* `BeamKeepsTheBest`: nothing reachable was left out in favour of something worse.
* `SubgraphFromSeeds`: what a subgraph holds, including which edges may be missing.
* `HeatmapExact`: starts, thresholds and hits, and one edge per pair and kind.
* `SameAnswerAfterCompaction`: the same call gives the same nodes, in the same
  order, and the same edges up to their non-key fields; a path of the same cost.

Four nodes and an overlay's fifth make a diamond with equal costs on both sides, a
hub that one escape or the other saves, circles, and a start that is no node;
each context turns on one or two of the features.

The properties of the sessions:

* `OneStore`: whoever works on a store or its files does so under the flock of its
  own handle. The borrow flag and the order in `close` are what it rests on.
* `CompareAndSet`: a returned seq keeps naming the caller's batch, and a batch sent
  with `expected_seq` directly follows it, whoever else wrote or compacted.
* `ReadsSeeOneMoment`: a traversal never mixes base and delta of two moments, nor
  misses a batch whose apply had returned.
* `NeverClobbered`: no race of `open(create=true)` and `create` empties a store.
* `CallsReturn`: no deadlock between the GIL, the mutex and the flock.

The two threads of one process have four calls between them: create, and then read of
the token and apply against another apply, or two applies, of which the second
compacts, or apply, then close against a call that is under way. The
third, in another process, tries to create or open at any point and can go on with what
it has opened. Two calls of each put every pair of blocking calls side by side, which is
what `CallsReturn` is about: the mutex asked for with the GIL in hand while its holder
wants the GIL. `Policies` has `every_batch` alone there, so that two policies are
covered (a handle starts with `on_flush`). The four safety properties of this run are also
proved for any number of threads and calls (section 4).

**Fairness.** In `store_process`, weak fairness of `Create`, `Open` and `Running`:
the steps of a call in progress, which a thread that is not killed takes, and the
client's call of `create` or `open` when it has no handle. Nothing is assumed of
`apply`, `flush`, `compact` or `close`. `Reopens` is conditioned on crashes
ceasing; the bounded number of faults makes a sync succeed in the end. In
`sessions`, weak fairness of `Continue(t)`: a thread in a call is scheduled. No
lock is assumed fair: with a bounded number of calls each is taken a bounded number
of times, so a waiter's turn comes. (With endless calls a thread could starve:
neither the mutex nor the GIL promises otherwise, and nothing here relies on it.)

## 4. What is proved

`CommitFileProofs`, for any markers and any `MaxGen`:
`TypeCorrect`, `NeverCorrupt` (some slot of every crash image is valid),
`PingPong` (the slot about to be overwritten is not the live one) and
`ImplementsRegister` (`Spec => IsARegister`). The invariant adds to these that
generations tell two valid slots of one image apart, so that the selection is
never a tie, and that while the file is open the slot that is *not* next holds
the newest generation in *every* crash image -- which is why a torn write can
only ever cost the new marker. It is inductive because a failed advance closes
the file: without that, the next advance would overwrite from an image where
the un-synced slot may be missing.

`PersistentGraphProofs!TypeCorrect`, for any constants satisfying
`ConstantsAssumption`: type correctness, which here says more than types: the
set of snapshots is typed so that a snapshot of seq `n` holds `n` batches, and
recovery is a `CHOOSE` over the log, so the proof shows that whatever `open`
accepts it rebuilds as a sequence of batches of length `commit_hw`. The
invariant is `TypeOK` with one conjunct for the frame `ApplyCommit` reads back.

`PersistentGraphProofs` has four parts. The first is this theorem and the facts about
files, directories and recovery that the others use. `MarkerRefinement` (`Spec => UsesMarkerAsRegister`) is
the refinement step by step: every step of the store leaves the marker alone or is
one of the register's, in its order of open, advance, failure and close.

In the second part, `NothingAcknowledgedIsLost`, for any number of failing writes and
syncs, any crash kinds and any batches: `NoSilentLoss`. A power cut picks the log,
the marker and the directory independently, so the invariant `DurabilityInv` is
about all pairs of crash images: every marker covers the acknowledged graph, every
snapshot a MANIFEST may select agrees with it, and so does every log beyond each of
these snapshots (`AckedIsKept`). That alone is not inductive. One `open` may read one
image of the log and a later cut leave another, so the images also have to agree
among themselves up to the marker (`LogsAgree`); and a live writer's snapshots and
log must be those of the graph in memory (`LiveWriter`), as the next
acknowledgement is of that graph.

The third part is the other direction, that nothing *more* comes back
than was attempted, under the hypothesis `MaxFaults <= 1` and otherwise for any
constants. The hypothesis is the weakest of its kind: section 5 shows two faults that
break both results.

* `NothingIsResurrected` (`NoResurrection`). `AttemptInv` distinguishes two kinds of
  logs. Until the fault, every crash image of the log follows the attempted graph, and
  has no frame that the visible one lacks (`CleanLogs`). A truncation that fails in
  `open` may leave images with frames beyond the graph, which the next open no longer
  sees (`StaleLogs`); but then the one fault is spent, so every directory image selects
  the same snapshot (`OneSnapshot`), and what the images hold up to any *marker* is
  still of the graph. The marker moves on only once the log is synced, that is once
  one image is left, or once a snapshot holds all there is.
* `PromiseRefinement` (`KeepsItsPromise`): the store implements `DurableStore`, one lemma
  per kind of step. `AttemptInv` supplies that what `open` returns is a prefix of what
  was attempted, `DurabilityInv` that it extends what was acknowledged, and
  `LiveWriter` that an unpoisoned writer has no batch pending but the one of the
  running `apply`.

The fourth part, with the generality of the second:

* `OpenHandleSurvivesPowerLoss` (`SurvivesPowerLoss`). What a crash image holds
  agrees with the graph by `DurabilityInv`; here every image holds *enough* of it:
  each log all batches between any snapshot and any marker, each directory the
  files its MANIFEST names (`EveryImageOpens`), and no step of a compaction deletes
  a snapshot that is still selected.
* `MemoryIsOnDisk` (`LiveStateIsOnDisk`).
* `ProcessDeathLeavesItOpen` (`ProcessDeathNeverBricks`), for every `CrashKinds`
  without `"power"`. The hypothesis is needed: a cut during recovery can leave a
  store that does not open (section 5), so what is known of the files of a closed
  store is known only while the machine stays up. The three others allow both kinds.
* `EpochNamesOneState` (`EpochSeqNamesOneState`). Recovery mints an epoch, or takes
  over the one it finds. `EpochInv` says that an epoch not minted names nothing, and
  that a MANIFEST is clean only if no handle is open and all its epoch published was
  acknowledged; so whoever takes an epoch over begins with every state it named.

`DurabilityInv`, `RecoveryInv` and `EpochInv` were checked by TLC before they were
proved, with up to three faults and otherwise in the bounds of `store_crash`;
`AttemptInv` with one fault, in those bounds and with four epochs.

`GraphDeltaProofs`, for any finite set of names, any well-formed bases and
batches of any length: `TypeCorrect`, `ShadowsAndTombstonesApart`,
`EndpointsArePromised`, `EdgesNeverDangle`, `CountersNeverDrift`, `ReadersSeeTheGraph`
and `OverlayImplementsGraph`. `EdgesNeverDangle` needs the two before it and more. Its
invariant `IInv`
adds that the side indices list every live edge at both endpoints
(`IndexesComplete`), because `RemoveNode` kills through the indices and would
otherwise miss one, and that the base is well formed, which a fold preserves
because the builder drops what has no endpoints (`BuildGraphType`) -- so the
proof that nothing is dropped does not assume it. `ScratchStaysRight` is the
argument for the two passes: a step that does to every name's presence what its
operation says leaves the rest of the batch as acceptable as it was. The
assumptions are those of `BasesAssumption`.

* `CountersNeverDrift` (`CountersExact`) and with it the counters' part of `TypeOK`.
  The invariant is the recount itself, with the masked edges as a function of the
  tombstones. `OneMoreTombstone` is what both an upsert and a removal need: tombstoning
  one more name masks exactly the edges that `IncidentLive` counts, outgoing and then
  incoming without the self-loops, and none at a name that is not in the base.
* `ReadersSeeTheGraph` (`ReadersSeeView`). A listing is a reversed selection of the base
  edges and the images of selected positions, so the proof counts occurrences:
  `Occurs` of a concatenation, a reversal, a selection, an image. The image needs
  each position to be in the index of its end once and in no other
  (`IndexesExact`, which strengthens `IndexesComplete`).
* `OverlayImplementsGraph` (`Spec => View!Spec`): the refinement, one lemma per
  operation. A base edge that nobody removed is `settled` if both endpoints are in sight
  and `hidden` if not (`OverlayForm`): tombstones of the endpoints do not matter beyond
  that, which is why a node that comes back brings exactly its base edges back. It
  is a theorem of `GraphDelta`'s own specification, that is from one opening of the
  store to the next.

`IndexesExact` and `Spec => View!Spec` were checked by TLC first, in the bounds of the
run `delta`.

`DeltaRecoveryProofs`, from the same assumptions, for the graph in memory and the one a
reopen would recover, through any history of batches, compactions, compactions that
fail after they committed, and reopens: `ReplayIsSafe` (`ReplayNeedsNoValidation`),
`ReopenGivesTheGraphBack` (`RecoversTheGraph`), `ViewBetweenReopens`
(`ImplementsViewBetweenReopens`) and `OverlaySurvivesReopens` (`TypeOK` and the
invariants of the overlay, now with reopens). The module instantiates
`GraphDeltaProofs` for the recovered overlay, so that each of its lemmas holds on both
sides (`RP!`); an instance has its own copy of every operator, and the first
part shows that the copies agree. The invariant `RInv` says that both overlays are
`Sound`, show the same nodes, and the same edges between nodes that are not in `revived`.

* Neither of the two properties is inductive alone, for what an operation does to a
  graph depends on hidden state: tombstones, dead flags, indices, the base. What it
  does to the graph *in sight* does not: it is a function of the nodes, the number of
  each edge and the operation (`MutateTotal`, from the refinement lemmas), except that
  the upsert of an absent name adds the hidden edges (`UpsertTotal`). So two overlays
  that show the same stay the same under the same operation, however differently
  base and delta share the work. Hidden edges that an upsert brings back are all edges of
  its name, and a name that neither overlay has tombstoned hides none
  (`NewNameHidesNothing`); what is left is what `revived` records.
* A batch is accepted or refused by which names are present (`SameAccepts`), and those
  are the nodes in sight; hence the replay may skip pass 1.
* A snapshot holds the graph in sight (`FoldedGraph`) and a fresh overlay shows its
  base (`FreshView`), so a compaction, whole or half, keeps the two together.
* A reopen makes the recovered overlay the live one, and two overlays with the same
  fields are the same graph (`SameState`).

`RInv` was checked by TLC first, in the bounds of the run `delta`.

`ListProofs` is what the proofs about the delta, the snapshot and the traversals share.
It begins with an induction over the naturals that needs no operator parameter
(`NatSetInduction`), and from it what a flattened sequence is. `InOrder` lists a finite
set along a strict order: the rank of an element is the number of elements before it,
ranks are unique and exhaust `0, 1, ...` (`RankInjective`, `RankOnto`), so each position
of the list has exactly one candidate. A stable sort is a listing of positions, and a
filter is the listing of the positions it keeps. `Occurs`, how often a list names
something, is counted through concatenation, reversal, selection and image.

`TraversalProofs`, for any graphs, contexts and calls. The module begins with
`NeighborsExact`: `neighbors_with_overlay` returns exactly the
edges in `Followed`, whichever order the base lists them in.

* `PathsLeadBack` (`ParentsDescend`). `PathInv` adds that a node's distance is at most the
  cost of each of its heap entries (`Reached`), that a parent link is an allowed edge paid
  for in the child's distance (`Linked`), and that a reached node is still in the heap or
  has its edges relaxed (`Relaxed`). `CostPositive` is where the floor under the score in
  `edge_cost` is needed: it makes distances fall along the parent links.
* `CheapestPathFound` (`CheapestPath`), Dijkstra's algorithm as it is written, stale heap
  entries and all. `LeastCost` in the property is the Bellman-Ford reference, `N` rounds
  over all edges; the proof shows it to be a lower bound of every walk (`WalksCostMore`)
  and, through the relaxed edges of a finished node, an upper bound of its distance
  (`DistancesAreLeast`). `PathCost` is recursive, so its value is pinned down step by
  step on the trail `reconstruct_path` follows back (`PathCostSteps`, `PathComesBack`).
* `BeamsKeepTheBest` (`BeamKeepsTheBest`). What a level leaves out weighs no more than
  the `k` it kept, so if anything was left out, `k` were kept, and they stay results.
  `BeamOk` carries this from level to level.
* `SubgraphIsFromSeeds` (`SubgraphFromSeeds`). `Gathered` says what the seeds done so far
  have contributed, as a set `X` of seeds: `node_set` only guards the pushing of nodes
  and whether a seed is expanded, which is why an edge may be missing.
* `HeatmapIsExact` (`HeatmapExact`). Nothing to carry but that beams hold nodes, since the
  heatmap is made in one step: that each key is listed once needs that edges of two
  different nodes never share a key, and that a listing has no repetition.
* `OnlyAllowedEdgesUsed` (`OnlyAllowedEdges`), from the invariants above and what is in
  `edges` and `parent` meanwhile (`Walked`).

* `SameAnswerAfterwards` (`SameAnswerAfterCompaction`). All that a request sees of a graph
  is gathered in one value, `View`: the edges it may follow, the nodes and their weights,
  how often a node's neighbors name each key. No step changes it, and a compaction
  only reorders lists (`ViewFixed`). Each answer is then determined by the view alone
  (`Determined`), as are the beams and seeds on the way to it (`Answered`): a beam's levels
  are a function of the view (`LevelOfView`, `RunsEndTogether`), and so is each seed's
  contribution. Nodes are a set in a total order, which has one listing; edges are sorted
  by keys, and sorted lists with the same counts of every key have the same keys
  (`KeysAgree`), whichever of two parallel edges comes first. For `find_path` nothing of
  this holds but the cost, which is the least both times.

The invariants were checked by TLC first, in the bounds of the run `traversal`; but not
`Answered`, which says that a run exists, and TLC cannot look for one.

`SnapshotProofs`, for any names, kinds and data, any inputs, any hash of the names and
any number of cells changed by other writers (`BuilderAssumption`, `SnapshotAssumption`):
`OwnSnapshotsValidate` (`SelfWrittenValidates`), `ProbesAreExact` (`LookupExact`),
`ListingsAgree` (`DirectionsAgree`), `WhatIsHeldIsWritten` (`HeldIsWritten`) and
`SnapshotsAreCanonical` (`Deterministic`).

* *The table.* `build_name_buckets` is an induction over the inserts: after `i` of them
  the table holds `i` nodes in `m > i` slots, so a free slot exists, and every slot
  between a node's home and its own is taken. `TableValidates` turns this into what the
  sweep asks. The converse, `ProbeExact`, is the point of the sweep: it never probes, it
  counts the empty slots between home and slot with prefix sums. No empty one on the way,
  also when the way wraps, means that the probe of `idx_of` cannot stop early; and since
  each node is in one slot and names are strictly sorted, it stops nowhere else.
* *The arrays.* A mirror that is sorted by target, is a permutation and is cut by
  offsets that group it lists each edge once, at its target
  (`ListingsHold`). This holds of what was written (`WrittenValidates`) and of whatever
  was swept (`Swept`); both are `Readable`, and every accessor of a readable file
  lists the graph that a rebuild of it gives (`ArchivedFits`, next to `OwnedFits` and
  `ViewFits`).
* *There and back.* `RoundTripV0` and `RoundTripV2`: a graph rebuilt from its bytes is
  the graph. A sorted list of distinct names is determined by its elements
  (`InOrderUnique`), and two sorted edge lists in which each record occurs equally often
  are the same list even where records tie; hence the bytes are determined by nodes and
  edges (`WriterDetermined`), and a compaction, which reads through any accessor, rebuilds
  the same graph (`FoldFacts`).

The invariant `SnapshotInv` says of the archive that its names are distinct and its edges
in range unless another writer changed it; of the file that it is what the writer makes of
some graph as long as it is `trusted`; and of what is open that it is readable and fits the
bytes. None of the five properties is inductive without it, for each is about what is
open now and needs to know where the bytes came from. TLC checked it first, in
the bounds of the run `snapshot`.

`SessionsProofs!OneStorePerDirectory`, for any threads, processes, handles and
calls: `OneStore`. The invariant `Inv` has three parts: what a thread in a call may
rely on of its handle's status and owner (`Relies`), that an `open` and a `close` have
their handle to themselves (`Alone`), and that a handle with a store holds the
flock (`Holds`). `Alone` is the borrow flag; without it a `close` could drop the
store, and the flock with it, under another thread's call.

The second half of `SessionsProofs`, on top of that invariant and again for any constants:
`TypeCorrect`, `SeqNamesBatch` (`CompareAndSet`), `ReadsAreSnapshots`
(`ReadsSeeOneMoment`) and `CommittedStays` (`NeverClobbered`). Two more layers make
the whole inductive. `Data` says that a thread between lock and unlock has its name
in the mutex (`Guards`), that the clone `apply` works on is the log and one batch
more until it is published (`Drafts`: nobody can have moved the log in between,
which is the mutex), and that what readers load is the log cut in two (`Halves`).
`Safe` adds what follows in time: a read's view is a first part of the log for as
long as it runs (`Reads`); a returned seq names its batch (`Accepted`); the marker
covers no more than the log has or is about to get (`Covered`, the exception being
the moment between `append_frame` and `Publish`); and no handle has a store without
a MANIFEST, which is what the second look of `create`, under the flock, is for
(`Opening`).

Every safety invariant and action property that a passing run checks is a theorem. Only
model-checked is liveness (`Reopens`, `CallsReturn`), which the prover cannot treat.

## 5. Where the code and its comments differ

* **A cut during recovery can make the store unopenable** (`store_bricks`,
  `NeverBricks`). `open` reads a MANIFEST whose rename may not be durable
  (compaction died, or failed, between rename and `fsync_dir`), takes its
  snapshot as a floor, and stamps COMMIT from it at step 5b; only step 6 syncs
  the directory. Power lost in between leaves the old MANIFEST, the old log and
  a marker that is ahead of both, which `open` refuses. The comments at
  `mod.rs:587` and `mod.rs:734` rule this out. The same for un-synced log
  frames: `NoSilentLoss` holds because the refusal is loud.
* **A dropped frame can come back** (`store_resurrects`, `NoResurrection` with two
  faults). Recovery's truncation that was cut short between `set_len` and
  `sync_all` is not repeated, because the next open sees a log without a tail.
* `FsyncPolicy::OnFlush` says process death loses nothing
  (`store_process_death`); recovery drops what the marker does not cover.
* `wal.rs:211` and `mod.rs:856` say an `Err` from `apply` means "not committed";
  `commit.rs:19` explains why it cannot: the slot whose sync failed may be on the
  disk, and the batch comes back. `KeepsItsPromise` allows for it.
* **A node put back after a failed compaction has other edges in memory than on
  disk** (`delta_forgets`, `RecoversEdges`). Upserting a removed base node shows
  its base edges again; in a base that was folded in between they are gone.
  A compaction that fails after its MANIFEST rename leaves the process on the old
  base while the disk has the new one. `docs/incremental_persistence_spec.md:659`
  and `:634` promise the round trip. Nodes are never affected, and
  edges only in this way and only at the node put back (`RecoversTheGraph`).
* **A compaction can change the path found** (`path_ties`,
  `StateAndContextDetermineThePath`). Of two parallel edges, or two chains of one
  cost, `find_path` keeps the one listed first, and a compaction relists a node's
  edges at an unchanged `(epoch, seq)`. `docs/incremental_persistence_spec.md:636`
  says that `(seq, ctx)` determines the output. The other traversals sort.
* `pybridge.rs:1041` says of `apply` that a returned seq is durable, which is not so
  under `on_flush`, the default; the comment at `:1009` calls `seq` the durable
  commit seq, and it is the published one.

Smaller things met on the way, none of which a run is about: `traversal.rs:336` says
that dangling edges are dropped, which is so in `contextual_subgraph`; a
`multi_beam_intersection` from a name that is no node returns overlay edges that end
at it (`HeatmapExact` allows for it). A start node listed twice counts as two beams.
`find_path` walks through names that are no node, at the highest cost. Two creators
that race for one directory: the second gets `CorruptError` ("structurally
corrupt", `pybridge.rs:33`) over a healthy store, and `open(create=false)`
during a creation gets `NotFound`.

## 6. Not modelled

* PageRank, the normalization of weights, and the rounding, overflow and NaN of
  `f32`: floating point. Scores are integers here.
* The byte encodings (rkyv, postcard, JSON) and checksums, beyond an image that
  checks out or does not.
* The parsing of Python dicts into nodes, edges, operations and contexts, and the
  result objects: pure conversion.
* Memory mapping and its failure modes beyond "mapping the new snapshot failed".
* `set_auto_compact_threshold` at run time; the threshold's default.
* Error types and messages (`error.rs`); benchmarks and tests, whose harnesses are
  read as the fault model.
* A network file system on which flock does not exclude.

## 7. Plan

Done: the store and COMMIT; the delta; the snapshot with the builder and the V0
archive; overlay and traversal; sessions. Next, in this order:

1. Parsing at the boundary of `pybridge.rs`: what an overlay node or an
   operation lacks when a key is missing.
2. `resolve_overlay_node`, which the crate exports and no traversal calls: it takes the
   first of two overlay nodes of one name, where the index takes the last.

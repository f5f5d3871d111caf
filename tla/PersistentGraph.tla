--------------------------- MODULE PersistentGraph ---------------------------
(***************************************************************************)
(* The crash-safe single-writer store of src/persist: one handle, its      *)
(* writer state, and the four things it keeps on disk -- wal.log, COMMIT,  *)
(* MANIFEST.json and the snapshot files -- step by step, under process     *)
(* death, power loss and failing writes and syncs.                         *)
(*                                                                         *)
(* The logical graph is the sequence of the batches applied to the empty   *)
(* store; its length is the sequence number (seq) the code publishes.      *)
(* Every operation runs under the writer mutex, so one program counter pc  *)
(* is enough; an operation is cut at each of its durable steps, and a      *)
(* crash may come between any two.                                         *)
(***************************************************************************)
EXTENDS Naturals, Sequences, FiniteSets, DurableFile

CONSTANTS
  Batches,        \* the batches a client may apply
  NoopBatches,    \* those that leave the delta empty (no ops at all)
  Policies,       \* the fsync policies the client may select
  EveryN,         \* the n of FsyncPolicy::EveryN(n)
  AutoThreshold,  \* delta ops beyond which apply compacts
  CrashKinds,     \* which of "process" and "power" the environment may do
  MaxSeq,         \* bound: batches in one timeline
  MaxEpoch,       \* bound: epochs minted
  MaxFaults       \* bound: writes and syncs that return Err

AllPolicies == {"EveryBatch", "EveryN", "OnFlush"}

ASSUME ConstantsAssumption ==
  /\ Batches # {} /\ NoopBatches \subseteq Batches
  /\ Policies \subseteq AllPolicies
  /\ EveryN \in Nat /\ AutoThreshold \in Nat
  /\ CrashKinds \subseteq {"process", "power"}
  /\ MaxSeq \in Nat /\ MaxEpoch \in Nat /\ MaxFaults \in Nat

VARIABLES
  wal,        \* wal.log: a file of sequences of frames
  commit,     \* COMMIT: a file whose image is the marker it selects
  dir,        \* the directory: MANIFEST, snapshots, and which files exist
  pc,         \* "closed", "idle", or the durable step an operation is at
  auto,       \* is the running compaction the one at the end of apply?
  superseded, \* the snapshot file a compaction removes in the end
  graph,      \* Writer.base with Writer.delta on top, as batches
  base_seq,   \* how many of them are folded into Writer.base
  snapshot,   \* Writer.snapshot_seq, compaction_id and snapshot_crc32
  durable_seq, epoch, poisoned, policy, since_fsync, delta_ops,
  next_epoch, \* the epochs from here on are unminted
  faults,     \* how many more writes and syncs may fail
  acked,      \* history: what some caller was told is durable
  attempt,    \* history: graph, with the batch of a failed apply if any
  named       \* history: for each epoch the longest graph published in it

disk    == <<wal, commit, dir>>
writer  == <<graph, base_seq, snapshot, durable_seq, epoch, poisoned, policy,
             since_fsync, delta_ops>>
history == <<acked, attempt, named>>
vars    == <<disk, pc, auto, superseded, writer, next_epoch, faults, history>>

(***************************************************************************)
(* Disk images.                                                            *)
(***************************************************************************)
Graphs == Seq(Batches)

(* A WAL frame; ok is whether its length and crc check out.                *)
Frame(seq, b, ok) == [seq |-> seq, batch |-> b, ok |-> ok]
Frames == [seq : Nat, batch : Batches, ok : BOOLEAN]

(* A snapshot file: the seq it folds, the compaction id that makes its name *)
(* unique, and the graph in it, which also stands for its crc.             *)
Snapshots == {s \in [seq : Nat, cid : Nat, data : Graphs] : Len(s.data) = s.seq}
SameName(s, t) == s.seq = t.seq /\ s.cid = t.cid

ManifestRecord(s, e, high, clean) ==
  [snap |-> s, epoch |-> e, high |-> high, clean |-> clean]
Manifests ==
  [snap : Snapshots, epoch : 0..MaxEpoch, high : Nat, clean : BOOLEAN]

(* Epoch 0 is never minted: a MANIFEST with it stands for no MANIFEST.     *)
NoSnapshot == [seq |-> 0, cid |-> 0, data |-> << >>]
NoManifest == ManifestRecord(NoSnapshot, 0, 0, FALSE)

Dirs == [man : Manifests, snaps : SUBSET Snapshots,
         has_wal : BOOLEAN, has_commit : BOOLEAN]
EmptyDir == [man |-> NoManifest, snaps |-> {},
             has_wal |-> FALSE, has_commit |-> FALSE]

(* rename(2) replaces a file of the same name.                             *)
PutSnapshot(d, s) ==
  [d EXCEPT !.snaps = {t \in @ : ~ SameName(s, t)} \cup {s}]
PutManifest(d, m) == [d EXCEPT !.man = m]

(***************************************************************************)
(* Recovery, as a function of a WAL image w, a marker c and a directory d. *)
(***************************************************************************)
(* scan_wal_bytes stops at the first frame that does not check out.        *)
Scanned(w) == {i \in DOMAIN w : \A j \in 1..i : w[j].ok}

(* Mutants of HighWater: no floor; the MANIFEST's high_seq, not the marker. *)
HighWaterWithoutFloor(c, d) == c
HighWaterOfManifest(c, d) == d.man.high

(* commit_hw: the marker, with the snapshot as its floor.                  *)
HighWater(c, d) == IF c >= d.man.snap.seq THEN c ELSE d.man.snap.seq

(* The frames within the marker, whose bytes stay; those replayed; those   *)
(* beyond it, dropped with whatever tail is torn.                          *)
Committed(w, hw)     == {i \in Scanned(w) : w[i].seq <= hw}
Replayed(w, hw, d)   == {i \in Committed(w, hw) : w[i].seq > d.man.snap.seq}
CommittedPart(w, hw) == SubSeq(w, 1, Cardinality(Committed(w, hw)))
HasTail(w, hw)       == Len(w) > Cardinality(Committed(w, hw))

(* The replayed frames must be snapshot_seq+1, +2, ... up to commit_hw.    *)
NoGap(w, hw, d) ==
  /\ \A i, j \in Replayed(w, hw, d) : i < j => w[i].seq < w[j].seq
  /\ {w[i].seq : i \in Replayed(w, hw, d)} = (d.man.snap.seq + 1)..hw

Recoverable(w, c, d) ==
  /\ d.man # NoManifest
  /\ d.has_wal /\ d.has_commit
  /\ d.man.snap \in d.snaps
  /\ HighWater(c, d) >= d.man.high
  /\ NoGap(w, HighWater(c, d), d)

FrameOf(w, hw, d, k) == CHOOSE i \in Replayed(w, hw, d) : w[i].seq = k

RecoveredGraph(w, c, d) ==
  [k \in 1..HighWater(c, d) |->
     IF k <= d.man.snap.seq THEN d.man.snap.data[k]
                            ELSE w[FrameOf(w, HighWater(c, d), d, k)].batch]

(***************************************************************************)
(* Helpers of the actions.                                                 *)
(***************************************************************************)
Extends(g, h) == Len(h) <= Len(g) /\ \A k \in DOMAIN h : g[k] = h[k]

Fault == faults > 0 /\ faults' = faults - 1

(* Mutant of Poison: the error is returned and the writer lives on.        *)
ErrorOnly == Fault /\ UNCHANGED poisoned

(* A write, sync or marker that failed ends the writer's life.             *)
Poison == Fault /\ poisoned' = TRUE

(* The handle is dropped, or dies: nothing of the writer is left.          *)
HandleGone ==
  /\ pc' = "closed" /\ auto' = FALSE /\ superseded' = {}
  /\ graph' = << >> /\ base_seq' = 0 /\ snapshot' = NoSnapshot
  /\ durable_seq' = 0 /\ epoch' = 0 /\ poisoned' = FALSE
  /\ policy' = "OnFlush" /\ since_fsync' = 0 /\ delta_ops' = 0

(* ArcSwap::store: from here on readers see graph g at (e, Len(g)).        *)
Publish(g, e) ==
  named' = [named EXCEPT ![e] = IF Extends(g, @) THEN g ELSE @]

(* Some caller learns that g is durable: apply or flush returned Ok, or    *)
(* committed_seq() covers it.                                              *)
Ack(g) == acked' = g

(* Mutants: the slot is not synced; the error does not poison.             *)
AdvanceUnsynced(seq) ==
  /\ commit' = Written(commit, seq, {}) /\ durable_seq' = seq
  /\ UNCHANGED <<poisoned, faults>>
AdvanceErrorOnly(seq) ==
  /\ ErrorOnly
  /\ commit' \in Interrupted(commit, seq, {})
  /\ UNCHANGED durable_seq

(* Writer::advance_commit, when CommitFile::advance returned Ok and not.   *)
AdvanceOk(seq) ==
  /\ commit' = Durable(seq) /\ durable_seq' = seq
  /\ UNCHANGED <<poisoned, faults>>
AdvanceErr(seq) ==
  /\ Poison
  /\ commit' \in Interrupted(commit, seq, {})
  /\ UNCHANGED durable_seq

(* write_file_atomic: the tmp file is synced before the rename, so the     *)
(* directory changes in one step, durably once fsync_dir returned Ok.      *)
AtomicOk(d)  == dir' = Durable(d) /\ UNCHANGED faults
AtomicErr(d) == Fault /\ dir' \in Interrupted(dir, d, {})

(***************************************************************************)
(* create(): the snapshot, wal.log, COMMIT, and last the MANIFEST.  While  *)
(* there is no MANIFEST, COMMIT's image is the 0 create() will write.      *)
(***************************************************************************)
FirstSnapshot == NoSnapshot

CreateSnapshot ==
  /\ pc = "closed" /\ dir.vis.man = NoManifest
  /\ \/ AtomicOk(PutSnapshot(dir.vis, FirstSnapshot)) /\ pc' = "create_wal"
     \/ AtomicErr(PutSnapshot(dir.vis, FirstSnapshot)) /\ UNCHANGED pc
  /\ UNCHANGED <<wal, commit, auto, superseded, writer, next_epoch, history>>

CreateWal ==
  /\ pc = "create_wal"
  /\ LET d == [dir.vis EXCEPT !.has_wal = TRUE]
     IN \/ /\ wal' = Durable(<< >>)
           /\ AtomicOk(d)
           /\ pc' = "create_commit"
           /\ UNCHANGED <<auto, superseded, writer>>
        \/ /\ wal' \in Interrupted(wal, << >>, {})
           /\ AtomicErr(d)
           /\ HandleGone
  /\ UNCHANGED <<commit, next_epoch, history>>

CreateCommit ==
  /\ pc = "create_commit"
  /\ next_epoch <= MaxEpoch
  /\ next_epoch' = next_epoch + 1
  /\ LET d == [dir.vis EXCEPT !.has_commit = TRUE]
     IN \/ /\ AtomicOk(d)
           /\ pc' = "create_manifest" /\ epoch' = next_epoch
           /\ UNCHANGED <<auto, superseded, graph, base_seq, snapshot, durable_seq,
                          poisoned, policy, since_fsync, delta_ops>>
        \/ AtomicErr(d) /\ HandleGone
  /\ UNCHANGED <<wal, commit, history>>

CreateManifest ==
  /\ pc = "create_manifest"
  /\ LET d == PutManifest(dir.vis, ManifestRecord(FirstSnapshot, epoch, 0, FALSE))
     IN \/ /\ AtomicOk(d)
           /\ pc' = "idle" /\ snapshot' = FirstSnapshot
           /\ Publish(graph, epoch)
           /\ UNCHANGED <<auto, superseded, graph, base_seq, durable_seq, epoch, poisoned,
                          policy, since_fsync, delta_ops>>
        \/ AtomicErr(d) /\ HandleGone /\ UNCHANGED named
  /\ UNCHANGED <<wal, commit, next_epoch, acked, attempt>>

(***************************************************************************)
(* open(): recovery.  It fails, changing nothing, unless the files it sees *)
(* are Recoverable.                                                        *)
(***************************************************************************)
(* Mutant of Mints: a lost tail that leaves nothing to truncate is missed. *)
MintsIfTruncated(tail, man) == tail

(* A truncation, or a shutdown that was not clean, re-mints the epoch.     *)
Mints(tail, man) == tail \/ ~ man.clean

OpenScan ==
  /\ pc = "closed"
  /\ Recoverable(wal.vis, commit.vis, dir.vis)
  /\ LET man  == dir.vis.man
         hw   == HighWater(commit.vis, dir.vis)
         tail == HasTail(wal.vis, hw)
         mint == Mints(tail, man)
     IN /\ mint => next_epoch <= MaxEpoch
        /\ epoch' = (IF mint THEN next_epoch ELSE man.epoch)
        /\ next_epoch' = (IF mint THEN next_epoch + 1 ELSE next_epoch)
        /\ graph' = RecoveredGraph(wal.vis, commit.vis, dir.vis)
        /\ base_seq' = man.snap.seq
        /\ snapshot' = man.snap
        /\ durable_seq' = hw
        /\ pc' = IF tail THEN "open_truncate" ELSE "open_commit"
  /\ UNCHANGED <<disk, auto, superseded, poisoned, policy, since_fsync, delta_ops, faults,
                 history>>

(* Mutant: the log is scanned again until it has no tail.                  *)
OpenTruncateRescans == pc = "open_truncate" /\ UNCHANGED vars

OpenTruncate ==
  /\ pc = "open_truncate"
  /\ LET kept == CommittedPart(wal.vis, durable_seq)
     IN \/ /\ wal' = Durable(kept) /\ dir' = Synced(dir)
           /\ pc' = "open_commit"
           /\ UNCHANGED <<auto, superseded, writer, faults>>
        \/ /\ Fault
           /\ wal' \in Interrupted(wal, kept, {})
           /\ HandleGone
           /\ UNCHANGED dir
  /\ UNCHANGED <<commit, next_epoch, history>>

OpenCommit ==
  /\ pc = "open_commit"
  /\ \/ /\ AdvanceOk(durable_seq)
        /\ pc' = "open_manifest"
        /\ UNCHANGED <<auto, superseded, graph, base_seq, snapshot, epoch, policy,
                       since_fsync, delta_ops>>
     \/ /\ Fault
        /\ commit' \in Interrupted(commit, durable_seq, {})
        /\ HandleGone
  /\ UNCHANGED <<wal, dir, next_epoch, history>>

(* The MANIFEST, then gc_orphan_snapshots: best effort and never synced.   *)
OpenManifest ==
  /\ pc = "open_manifest"
  /\ LET d == PutManifest(dir.vis,
                          ManifestRecord(snapshot, epoch, durable_seq, FALSE))
         orphans == {t \in d.snaps : ~ SameName(t, snapshot)}
     IN \/ /\ \E gone \in SUBSET orphans :
                dir' = Written(Durable(d), [d EXCEPT !.snaps = @ \ gone], {})
           /\ pc' = "idle"
           /\ Ack(graph) /\ attempt' = graph /\ Publish(graph, epoch)
           /\ UNCHANGED <<auto, superseded, writer, faults>>
        \/ AtomicErr(d) /\ HandleGone /\ UNCHANGED history
  /\ UNCHANGED <<wal, commit, next_epoch>>

(***************************************************************************)
(* apply(): append the frame, sync as the policy says, advance the marker  *)
(* if it was synced, publish.  A batch the delta rejects, or a failed CAS, *)
(* returns before anything changes.                                        *)
(***************************************************************************)
SyncsNow ==
  \/ policy = "EveryBatch"
  \/ policy = "EveryN" /\ since_fsync + 1 >= (IF EveryN = 0 THEN 1 ELSE EveryN)

(* delta_ops > threshold sends the same call on into compact_locked.       *)
OpCount(b) == IF b \in NoopBatches THEN 0 ELSE 1

Published(b) ==
  LET g   == Append(graph, b)
      ops == delta_ops + OpCount(b)
  IN  /\ graph' = g /\ attempt' = g /\ Publish(g, epoch)
      /\ delta_ops' = ops /\ auto' = (ops > AutoThreshold)
      /\ pc' = IF ops > AutoThreshold THEN "compact_snapshot" ELSE "idle"
      /\ UNCHANGED superseded

Apply(b) ==
  /\ pc = "idle" /\ ~ poisoned
  /\ Len(graph) < MaxSeq
  /\ LET seq   == Len(graph) + 1
         frame == Frame(seq, b, TRUE)
         torn  == {Append(wal.vis, Frame(seq, b, FALSE))}
         img   == Append(wal.vis, frame)
     IN \/ \* write-through only
           /\ ~ SyncsNow
           /\ wal' = Written(wal, img, torn)
           /\ since_fsync' = IF policy = "EveryN" THEN since_fsync + 1
                                                  ELSE since_fsync
           /\ Published(b)
           /\ UNCHANGED <<poisoned, acked, faults>>
        \/ \* written and synced: the marker is next
           /\ SyncsNow
           /\ wal' = Durable(img)
           /\ since_fsync' = 0
           /\ pc' = "apply_commit" /\ attempt' = Append(graph, b)
           /\ UNCHANGED <<auto, superseded, graph, delta_ops, poisoned, acked, named, faults>>
        \/ \* write_all failed
           /\ Poison
           /\ wal' \in FailedWrite(wal, torn)
           /\ UNCHANGED <<pc, auto, superseded, graph, delta_ops, since_fsync, history>>
        \/ \* the sync failed: the frame may or may not be on the disk
           /\ Poison /\ SyncsNow
           /\ wal' \in FailedSync(wal, img, torn)
           /\ attempt' = Append(graph, b)
           /\ since_fsync' = IF policy = "EveryN" THEN since_fsync + 1
                                                  ELSE since_fsync
           /\ UNCHANGED <<pc, auto, superseded, graph, delta_ops, acked, named>>
  /\ UNCHANGED <<commit, dir, base_seq, snapshot, durable_seq, epoch, policy,
                 next_epoch>>

ApplyCommit ==
  /\ pc = "apply_commit"
  /\ LET b == wal.vis[Len(wal.vis)].batch
         g == Append(graph, b)
     IN \/ AdvanceOk(Len(g)) /\ Ack(g) /\ Published(b)
        \/ /\ AdvanceErr(Len(g))
           /\ pc' = "idle"
           /\ UNCHANGED <<auto, superseded, graph, delta_ops, history>>
  /\ UNCHANGED <<wal, dir, base_seq, snapshot, epoch, policy, since_fsync,
                 next_epoch>>

SetPolicy ==
  /\ pc = "idle"
  /\ policy' \in Policies \ {policy}
  /\ UNCHANGED <<disk, pc, auto, superseded, graph, base_seq, snapshot, durable_seq, epoch,
                 poisoned, since_fsync, delta_ops, next_epoch, faults, history>>

(***************************************************************************)
(* flush(): sync the log, then the marker.                                 *)
(***************************************************************************)
Flush ==
  /\ pc = "idle" /\ ~ poisoned
  /\ \/ /\ wal' = Synced(wal) /\ since_fsync' = 0
        /\ pc' = "flush_commit"
        /\ UNCHANGED <<poisoned, faults>>
     \/ /\ Poison
        /\ wal' \in FailedSync(wal, wal.vis, {})
        /\ UNCHANGED <<pc, since_fsync>>
  /\ UNCHANGED <<commit, dir, auto, superseded, graph, base_seq, snapshot, durable_seq,
                 epoch, policy, delta_ops, next_epoch, history>>

FlushCommit ==
  /\ pc = "flush_commit"
  /\ \/ AdvanceOk(Len(graph)) /\ Ack(graph)
     \/ AdvanceErr(Len(graph)) /\ UNCHANGED acked
  /\ pc' = "idle"
  /\ UNCHANGED <<wal, dir, auto, superseded, graph, base_seq, snapshot, epoch, policy,
                 since_fsync, delta_ops, next_epoch, attempt, named>>

(***************************************************************************)
(* compact_locked(), from compact() or at the end of apply().  An error    *)
(* before the marker, or after the log was reset, does not poison.         *)
(***************************************************************************)
DeltaIsEmpty == \A k \in (base_seq + 1)..Len(graph) : graph[k] \in NoopBatches

(* Mutants of NewSnapshot: it folds at durable_seq; it reuses the live id. *)
SnapshotAtDurableSeq == [seq |-> durable_seq, cid |-> snapshot.cid + 1, data |-> graph]
SnapshotOfSameId == [seq |-> Len(graph), cid |-> snapshot.cid, data |-> graph]

NewSnapshot == [seq |-> Len(graph), cid |-> snapshot.cid + 1, data |-> graph]

(* compact() returns; apply() swallows the error and resets delta_ops.     *)
CompactReturns ==
  /\ pc' = "idle" /\ auto' = FALSE /\ superseded' = {}
  /\ delta_ops' = IF auto THEN 0 ELSE delta_ops

Compact ==
  /\ pc = "idle" /\ ~ poisoned
  /\ pc' = "compact_snapshot"
  /\ UNCHANGED <<disk, auto, superseded, writer, next_epoch, faults, history>>

CompactSnapshot ==
  /\ pc = "compact_snapshot"
  /\ LET d == PutSnapshot(dir.vis, NewSnapshot)
     IN \/ /\ DeltaIsEmpty
           /\ delta_ops' = 0
           /\ pc' = "idle" /\ auto' = FALSE
           /\ UNCHANGED <<dir, superseded, faults>>
        \/ /\ ~ DeltaIsEmpty
           /\ AtomicOk(d)
           /\ superseded' = {snapshot}
           /\ pc' = "compact_manifest"
           /\ UNCHANGED <<auto, delta_ops>>
        \/ ~ DeltaIsEmpty /\ AtomicErr(d) /\ CompactReturns
  /\ UNCHANGED <<wal, commit, graph, base_seq, snapshot, durable_seq, epoch,
                 poisoned, policy, since_fsync, next_epoch, history>>

CompactManifest ==
  /\ pc = "compact_manifest"
  /\ LET d == PutManifest(dir.vis,
                          ManifestRecord(NewSnapshot, epoch, Len(graph), FALSE))
     IN \/ /\ AtomicOk(d)
           /\ snapshot' = NewSnapshot
           /\ pc' = "compact_commit"
           /\ UNCHANGED <<auto, superseded, delta_ops>>
        \/ AtomicErr(d) /\ CompactReturns /\ UNCHANGED snapshot
  /\ UNCHANGED <<wal, commit, graph, base_seq, durable_seq, epoch, poisoned,
                 policy, since_fsync, next_epoch, history>>

CompactCommit ==
  /\ pc = "compact_commit"
  /\ LET seq == IF durable_seq >= snapshot.seq THEN durable_seq ELSE snapshot.seq
     IN \/ /\ AdvanceOk(seq) /\ Ack(graph)
           /\ pc' = "compact_truncate"
           /\ UNCHANGED <<auto, superseded, delta_ops>>
        \/ AdvanceErr(seq) /\ CompactReturns /\ UNCHANGED acked
  /\ UNCHANGED <<wal, dir, graph, base_seq, snapshot, epoch, policy,
                 since_fsync, next_epoch, attempt, named>>

CompactTruncate ==
  /\ pc = "compact_truncate"
  /\ \/ /\ wal' = Durable(<< >>) /\ since_fsync' = 0
        /\ pc' = "compact_reopen"
        /\ UNCHANGED <<poisoned, faults, auto, superseded, delta_ops>>
     \/ /\ Poison
        /\ wal' \in Interrupted(wal, << >>, {})
        /\ since_fsync' \in {since_fsync, 0}
        /\ CompactReturns
  /\ UNCHANGED <<commit, dir, graph, base_seq, snapshot, durable_seq, epoch,
                 policy, next_epoch, history>>

(* Mapping the new snapshot may fail; removing the old one is best effort. *)
CompactReopen ==
  /\ pc = "compact_reopen"
  /\ \/ /\ base_seq' = snapshot.seq /\ delta_ops' = 0
        /\ pc' = "idle" /\ auto' = FALSE /\ superseded' = {}
        /\ \E gone \in SUBSET superseded :
             dir' = Written(dir, [dir.vis EXCEPT !.snaps = @ \ gone], {})
        /\ Publish(graph, epoch)
        /\ UNCHANGED faults
     \/ /\ Fault /\ CompactReturns
        /\ UNCHANGED <<dir, base_seq, named>>
  /\ UNCHANGED <<wal, commit, graph, snapshot, durable_seq, epoch, poisoned,
                 policy, since_fsync, next_epoch, acked, attempt>>

(***************************************************************************)
(* close(): seal everything, then say so in the MANIFEST; a writer that is *)
(* or becomes poisoned records an unclean shutdown.                        *)
(***************************************************************************)
Close ==
  /\ pc = "idle"
  /\ \/ /\ ~ poisoned
        /\ wal' = Synced(wal)
        /\ pc' = "close_commit"
        /\ UNCHANGED <<poisoned, faults>>
     \/ /\ ~ poisoned /\ Poison
        /\ wal' \in FailedSync(wal, wal.vis, {})
        /\ pc' = "close_manifest"
     \/ /\ poisoned
        /\ pc' = "close_manifest"
        /\ UNCHANGED <<wal, poisoned, faults>>
  /\ UNCHANGED <<commit, dir, auto, superseded, graph, base_seq, snapshot,
                 durable_seq, epoch, policy, since_fsync, delta_ops,
                 next_epoch, history>>

CloseCommit ==
  /\ pc = "close_commit"
  /\ \/ AdvanceOk(Len(graph)) /\ Ack(graph)
     \/ AdvanceErr(Len(graph)) /\ UNCHANGED acked
  /\ pc' = "close_manifest"
  /\ UNCHANGED <<wal, dir, auto, superseded, graph, base_seq, snapshot, epoch,
                 policy, since_fsync, delta_ops, next_epoch, attempt, named>>

CloseManifest ==
  /\ pc = "close_manifest"
  /\ LET d == PutManifest(dir.vis,
                ManifestRecord(snapshot, epoch, durable_seq, ~ poisoned))
     IN AtomicOk(d) \/ AtomicErr(d)
  /\ HandleGone
  /\ UNCHANGED <<wal, commit, next_epoch, history>>

(***************************************************************************)
(* The environment.  A process that dies, or drops its handle, leaves the  *)
(* cache as it is; a power cut leaves one crash image of each file.  The   *)
(* guard keeps enough epochs for the opens that are still to come.         *)
(***************************************************************************)
EpochsLeft == MaxEpoch + 1 - next_epoch

Kill ==
  /\ "process" \in CrashKinds
  /\ pc # "closed" /\ EpochsLeft > faults
  /\ HandleGone
  /\ UNCHANGED <<disk, next_epoch, faults, history>>

PowerLoss ==
  /\ "power" \in CrashKinds
  /\ pc = "closed" \/ EpochsLeft > faults
  /\ \E w \in wal.crash, c \in commit.crash, d \in dir.crash :
       wal' = Durable(w) /\ commit' = Durable(c) /\ dir' = Durable(d)
  /\ HandleGone
  /\ UNCHANGED <<next_epoch, faults, history>>

Init ==
  /\ wal = Durable(<< >>) /\ commit = Durable(0) /\ dir = Durable(EmptyDir)
  /\ pc = "closed" /\ auto = FALSE /\ superseded = {}
  /\ graph = << >> /\ base_seq = 0 /\ snapshot = NoSnapshot
  /\ durable_seq = 0 /\ epoch = 0 /\ poisoned = FALSE
  /\ policy = "OnFlush" /\ since_fsync = 0 /\ delta_ops = 0
  /\ next_epoch = 1 /\ faults = MaxFaults
  /\ acked = << >> /\ attempt = << >>
  /\ named = [e \in 1..MaxEpoch |-> << >>]

Create == CreateSnapshot \/ CreateWal \/ CreateCommit \/ CreateManifest
Open   == OpenScan \/ OpenTruncate \/ OpenCommit \/ OpenManifest
Running ==
  \/ ApplyCommit \/ FlushCommit \/ CloseCommit \/ CloseManifest
  \/ CompactSnapshot \/ CompactManifest \/ CompactCommit
  \/ CompactTruncate \/ CompactReopen
Client ==
  \/ \E b \in Batches : Apply(b)
  \/ SetPolicy \/ Flush \/ Compact \/ Close
Crash == Kill \/ PowerLoss

Next == Create \/ Open \/ Running \/ Client \/ Crash

Spec == Init /\ [][Next]_vars

(***************************************************************************)
(* Properties.                                                             *)
(***************************************************************************)
PCs == {"closed", "idle",
        "create_wal", "create_commit", "create_manifest",
        "open_truncate", "open_commit", "open_manifest",
        "apply_commit", "flush_commit", "close_commit", "close_manifest",
        "compact_snapshot", "compact_manifest", "compact_commit",
        "compact_truncate", "compact_reopen"}

(* A handle has been returned to the client and not yet dropped.           *)
Opening    == {"closed", "create_wal", "create_commit", "create_manifest",
               "open_truncate", "open_commit", "open_manifest"}
HandleOpen == pc \notin Opening

\* The type of every variable: the writer's counters, the three kinds of
\* file with all their crash images, and the history.
TypeOK ==
  /\ wal \in File(Seq(Frames)) /\ commit \in File(Nat) /\ dir \in File(Dirs)
  /\ pc \in PCs /\ auto \in BOOLEAN /\ superseded \in SUBSET Snapshots
  /\ graph \in Graphs /\ base_seq \in Nat /\ snapshot \in Snapshots
  /\ durable_seq \in Nat /\ epoch \in 0..MaxEpoch /\ poisoned \in BOOLEAN
  /\ policy \in AllPolicies /\ since_fsync \in Nat /\ delta_ops \in Nat
  /\ next_epoch \in 1..(MaxEpoch + 1) /\ faults \in 0..MaxFaults
  /\ acked \in Graphs /\ attempt \in Graphs
  /\ named \in [1..MaxEpoch -> Graphs]

\* While a handle is open, whatever a power cut leaves of the log, the marker
\* and the directory -- each on its own -- recovery accepts it and rebuilds a
\* graph that holds everything acknowledged as durable (open_with_vfs after
\* any prefix of apply, flush, compact and close).
SurvivesPowerLoss ==
  HandleOpen =>
    \A w \in wal.crash, c \in commit.crash, d \in dir.crash :
      /\ Recoverable(w, c, d)
      /\ Extends(RecoveredGraph(w, c, d), acked)

\* At any time, also between two steps of a recovery: a crash image that
\* recovery accepts never yields a graph without an acknowledged batch.
NoSilentLoss ==
  \A w \in wal.crash, c \in commit.crash, d \in dir.crash :
    Recoverable(w, c, d) => Extends(RecoveredGraph(w, c, d), acked)

\* Recovery brings back nothing that no apply asked for: the graph of every
\* crash image is a prefix of the last timeline, the batch of an apply that
\* returned Err included.
NoResurrection ==
  \A w \in wal.crash, c \in commit.crash, d \in dir.crash :
    Recoverable(w, c, d) => Extends(attempt, RecoveredGraph(w, c, d))

\* (epoch, seq) names one state: every graph published in an epoch is a
\* prefix of the longest one, across reopens, truncated tails and compaction.
EpochSeqNamesOneState == HandleOpen => Extends(named[epoch], graph)

\* The state readers see can be rebuilt from the visible files by replaying
\* every frame: no step of an operation that failed without poisoning the
\* writer left memory and disk apart.
LiveStateIsOnDisk ==
  (HandleOpen /\ ~ poisoned /\ pc # "apply_commit") =>
    /\ Recoverable(wal.vis, Len(graph), dir.vis)
    /\ RecoveredGraph(wal.vis, Len(graph), dir.vis) = graph

\* As long as the machine stays up, open() accepts what it finds: after the
\* death of the process at any step of any operation, the first open
\* included, and after any number of failed writes and syncs.
ProcessDeathNeverBricks ==
  dir.vis.man # NoManifest => Recoverable(wal.vis, commit.vis, dir.vis)

\* Recovery never refuses the files a power cut leaves, whenever it comes:
\* "cannot false-brick a reopen after a legitimate power-loss of un-fsync'd
\* data" (src/persist/mod.rs, the comment on high_seq in open_with_vfs).
NeverBricks ==
  \A w \in wal.crash, c \in commit.crash, d \in dir.crash :
    d.man # NoManifest => Recoverable(w, c, d)

\* The type doc of FsyncPolicy::OnFlush: "Write-through means process death
\* still loses nothing; only power loss needs the flush."  What a new process
\* recovers from the visible files is the graph readers saw.
ProcessDeathLosesNothing ==
  (HandleOpen /\ ~ poisoned /\ pc # "apply_commit") =>
    RecoveredGraph(wal.vis, commit.vis, dir.vis) = graph

(***************************************************************************)
(* The store keeps the promise DurableStore states to its client, and asks *)
(* of COMMIT no more than the register CommitFile implements.              *)
(***************************************************************************)
\* Every step of the store, crashes included, is a step of the promise:
\* recovery picks a state between what was acknowledged and what was
\* attempted, and an Err'd batch blocks every other one until then.
Promise == INSTANCE DurableStore WITH
  up <- HandleOpen, graph <- IF HandleOpen THEN graph ELSE << >>
KeepsItsPromise == Promise!Spec

\* The marker is never advanced through a CommitFile that failed an advance,
\* nor before COMMIT was opened.
Marker == INSTANCE CommitRegister WITH
  register <- commit,
  ready <- ~ poisoned /\
           pc \notin {"closed", "create_wal", "create_commit", "create_manifest"},
  Marks <- 0..MaxSeq, FirstMark <- 0
UsesMarkerAsRegister == Marker!Spec

(***************************************************************************)
(* Liveness.  create and open run to their end once called, operations do  *)
(* too, and the client calls open again when it has no handle; nothing is  *)
(* assumed of the client's other calls.                                    *)
(***************************************************************************)
FairSpec == Spec /\ WF_vars(Create) /\ WF_vars(Open) /\ WF_vars(Running)

\* A store with a MANIFEST opens again, if the machine at last stays up.
Reopens ==
  <>[][~ Crash]_vars =>
    ((pc = "closed" /\ dir.vis.man # NoManifest) ~> HandleOpen)

=============================================================================

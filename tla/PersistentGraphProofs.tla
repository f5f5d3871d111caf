------------------------ MODULE PersistentGraphProofs ------------------------
(***************************************************************************)
(* Theorems of PersistentGraph, for any batches, policies, thresholds and  *)
(* crash kinds, and for any number of faults, in four parts: the facts     *)
(* about files, directories and recovery that the others rest on; that     *)
(* nothing acknowledged is lost; that nothing else is recovered and the    *)
(* store implements DurableStore; that recovery accepts what it finds.     *)
(***************************************************************************)
EXTENDS PersistentGraph, SequenceTheorems, FiniteSetTheorems, TLAPS

(***************************************************************************)
(* Files.                                                                  *)
(***************************************************************************)
\* Every outcome of a write or sync is again a file of the same images.
LEMMA FileTypes ==
  ASSUME NEW S, NEW f \in File(S), NEW img \in S, NEW torn \in SUBSET S
  PROVE  /\ f.vis \in S /\ f.crash \in SUBSET S /\ f.vis \in f.crash
         /\ Durable(img) \in File(S) /\ Synced(f) \in File(S)
         /\ Written(f, img, torn) \in File(S)
         /\ FailedWrite(f, torn) \subseteq File(S)
         /\ FailedSync(f, img, torn) \subseteq File(S)
         /\ Interrupted(f, img, torn) \subseteq File(S)
<1>1. f.vis \in S /\ f.crash \in SUBSET S /\ f.vis \in f.crash
  BY DEF File
<1>2. Durable(img) \in File(S) /\ Synced(f) \in File(S)
  BY <1>1 DEF File, Durable, Synced
<1>3. \A x \in S : Written(f, x, torn) \in File(S)
  BY <1>1 DEF File, Written
<1>4. FailedWrite(f, torn) \subseteq File(S)
  BY <1>3 DEF FailedWrite
<1>5. FailedSync(f, img, torn) \subseteq File(S)
  BY <1>2, <1>3 DEF FailedSync
<1> QED
  BY <1>1, <1>2, <1>3, <1>4, <1>5 DEF Interrupted

(***************************************************************************)
(* Directories.                                                            *)
(***************************************************************************)
\* The directory create() starts from has no MANIFEST and no file.
LEMMA EmptyDirType ==
  NoSnapshot \in Snapshots /\ NoManifest \in Manifests /\ EmptyDir \in Dirs
<1>1. << >> \in Graphs /\ Len(<< >>) = 0
  BY EmptySeq DEF Graphs
<1>2. NoSnapshot \in Snapshots
  BY <1>1 DEF NoSnapshot, Snapshots
<1>3. NoManifest \in Manifests
  BY <1>2, ConstantsAssumption DEF NoManifest, ManifestRecord, Manifests
<1> QED
  BY <1>2, <1>3 DEF EmptyDir, Dirs

\* A MANIFEST record of any of the places that build one is well typed.
LEMMA ManifestType ==
  ASSUME NEW s \in Snapshots, NEW e \in 0..MaxEpoch, NEW h \in Nat, NEW c \in BOOLEAN
  PROVE  ManifestRecord(s, e, h, c) \in Manifests
BY DEF ManifestRecord, Manifests

\* What the renames, creations and removals make of a directory.
LEMMA DirTypes ==
  ASSUME NEW d \in Dirs, NEW s \in Snapshots, NEW m \in Manifests, NEW gone
  PROVE  /\ PutSnapshot(d, s) \in Dirs /\ PutManifest(d, m) \in Dirs
         /\ [d EXCEPT !.has_wal = TRUE] \in Dirs
         /\ [d EXCEPT !.has_commit = TRUE] \in Dirs
         /\ [d EXCEPT !.snaps = @ \ gone] \in Dirs
BY DEF PutSnapshot, PutManifest, Dirs

(***************************************************************************)
(* Recovery.                                                               *)
(***************************************************************************)
\* A function on 1..n with values in S is a sequence over S.
LEMMA FunctionIsSeq ==
  ASSUME NEW S, NEW n \in Nat, NEW f \in [1..n -> S]
  PROVE  f \in Seq(S) /\ Len(f) = n
BY SeqDef

\* The elements of a sequence with one more at its end.
LEMMA Appended ==
  ASSUME NEW S, NEW s \in Seq(S), NEW x \in S
  PROVE  /\ Append(s, x) \in Seq(S) /\ Append(s, x) # << >>
         /\ Len(Append(s, x)) = Len(s) + 1 /\ Len(s) \in Nat
         /\ Append(s, x)[Len(s) + 1] = x
         /\ \A k \in 1..Len(s) : Append(s, x)[k] = s[k]
OBVIOUS

\* What append writes, whole or torn, is again a log of frames.
LEMMA AppendedFrame ==
  ASSUME NEW w \in Seq(Frames), NEW n \in Nat, NEW b \in Batches, NEW ok \in BOOLEAN
  PROVE  /\ Append(w, Frame(n + 1, b, ok)) \in Seq(Frames)
         /\ Append(w, Frame(n + 1, b, ok)) # << >>
<1>1. Frame(n + 1, b, ok) \in Frames
  BY DEF Frame, Frames
<1> HIDE DEF Frame
<1> QED
  BY <1>1, Appended

\* The committed high water is a number at or above the marker and the
\* snapshot it is computed from.
LEMMA HighWaterType ==
  ASSUME NEW c \in Nat, NEW d \in Dirs
  PROVE  /\ HighWater(c, d) \in Nat
         /\ HighWater(c, d) >= c /\ HighWater(c, d) >= d.man.snap.seq
         /\ HighWater(c, d) \in {c, d.man.snap.seq}
         /\ d.man.snap \in Snapshots /\ d.man.snap.seq \in Nat
         /\ d.man.snap.data \in Graphs /\ Len(d.man.snap.data) = d.man.snap.seq
         /\ d.man.high \in Nat /\ d.man.epoch \in 0..MaxEpoch
<1>1. /\ d.man.snap \in Snapshots /\ d.man.snap.seq \in Nat
      /\ d.man.snap.data \in Graphs /\ Len(d.man.snap.data) = d.man.snap.seq
      /\ d.man.high \in Nat /\ d.man.epoch \in 0..MaxEpoch
  BY DEF Dirs, Manifests, Snapshots
<1> QED
  BY <1>1 DEF HighWater

\* Truncation at the committed boundary keeps a prefix of the log.
LEMMA CommittedPartType ==
  ASSUME NEW w \in Seq(Frames), NEW hw \in Nat
  PROVE  /\ Cardinality(Committed(w, hw)) \in 0..Len(w)
         /\ CommittedPart(w, hw) \in Seq(Frames)
<1>1. Committed(w, hw) \in SUBSET (1..Len(w)) /\ Len(w) \in Nat
  BY DEF Committed, Scanned
<1>2. IsFiniteSet(1..Len(w)) /\ Cardinality(1..Len(w)) = Len(w)
  <2>1. 1 \in Int /\ Len(w) \in Int
    BY <1>1
  <2>2. /\ IsFiniteSet(1..Len(w))
        /\ Cardinality(1..Len(w)) = IF 1 > Len(w) THEN 0 ELSE Len(w) - 1 + 1
    BY <2>1, FS_Interval
  <2> QED
    BY <1>1, <2>2
<1>3. IsFiniteSet(Committed(w, hw)) /\ Cardinality(Committed(w, hw)) <= Len(w)
  BY <1>1, <1>2, FS_Subset
<1>4. Cardinality(Committed(w, hw)) \in 0..Len(w)
  BY <1>1, <1>3, FS_CardinalityType
<1>5. \A i \in 1..Cardinality(Committed(w, hw)) : w[i] \in Frames
  BY <1>4, ElementOfSeq
<1> QED
  BY <1>4, <1>5, SubSeqProperties DEF CommittedPart

\* The replayed frame of a seq between the snapshot and the high water exists.
LEMMA ReplayedFrame ==
  ASSUME NEW w \in Seq(Frames), NEW hw \in Nat, NEW d, NoGap(w, hw, d),
         NEW k \in (d.man.snap.seq + 1)..hw
  PROVE  /\ FrameOf(w, hw, d, k) \in Replayed(w, hw, d)
         /\ FrameOf(w, hw, d, k) \in 1..Len(w)
         /\ w[FrameOf(w, hw, d, k)].seq = k
         /\ w[FrameOf(w, hw, d, k)] \in Frames
<1>1. \E j \in Replayed(w, hw, d) : w[j].seq = k
  BY DEF NoGap
<1>2. FrameOf(w, hw, d, k) \in Replayed(w, hw, d) /\ w[FrameOf(w, hw, d, k)].seq = k
  BY <1>1 DEF FrameOf
<1>3. FrameOf(w, hw, d, k) \in 1..Len(w)
  BY <1>2 DEF Replayed, Committed, Scanned
<1> QED
  BY <1>2, <1>3, ElementOfSeq

\* What recovery rebuilds from a log, a marker and a directory it accepts is
\* a sequence of batches as long as the committed high water.
LEMMA RecoveredGraphType ==
  ASSUME NEW w \in Seq(Frames), NEW c \in Nat, NEW d \in Dirs, Recoverable(w, c, d)
  PROVE  /\ RecoveredGraph(w, c, d) \in Graphs
         /\ Len(RecoveredGraph(w, c, d)) = HighWater(c, d)
<1> DEFINE hw == HighWater(c, d)
           g  == RecoveredGraph(w, c, d)
<1>1. /\ hw \in Nat /\ d.man.snap.seq \in Nat
      /\ d.man.snap.data \in Graphs /\ Len(d.man.snap.data) = d.man.snap.seq
  BY HighWaterType
<1>2. ASSUME NEW k \in 1..hw PROVE g[k] \in Batches
  <2>1. CASE k <= d.man.snap.seq
    <3>1. g[k] = d.man.snap.data[k]
      BY <2>1 DEF RecoveredGraph
    <3> QED
      BY <1>1, <2>1, <3>1, ElementOfSeq DEF Graphs
  <2>2. CASE ~ (k <= d.man.snap.seq)
    <3>1. k \in (d.man.snap.seq + 1)..hw /\ NoGap(w, hw, d)
      BY <1>1, <2>2 DEF Recoverable
    <3>2. w[FrameOf(w, hw, d, k)] \in Frames
      BY <1>1, <3>1, ReplayedFrame
    <3>3. g[k] = w[FrameOf(w, hw, d, k)].batch
      BY <2>2 DEF RecoveredGraph
    <3> QED
      BY <3>2, <3>3 DEF Frames
  <2> QED
    BY <2>1, <2>2
<1>3. g \in [1..hw -> Batches]
  <2>1. g = [k \in 1..hw |-> g[k]]
    BY DEF RecoveredGraph
  <2> QED
    BY <1>2, <2>1
<1> QED
  BY <1>1, <1>3, FunctionIsSeq DEF Graphs

(***************************************************************************)
(* Type correctness.                                                       *)
(***************************************************************************)
(* The marker step of apply reads back the frame appended before it.       *)
TypeInv == TypeOK /\ (pc = "apply_commit" => wal.vis # << >>)

\* write_file_atomic leaves a typed directory, whether or not it succeeds.
LEMMA AtomicTypes ==
  ASSUME TypeOK, NEW d \in Dirs, AtomicOk(d) \/ AtomicErr(d)
  PROVE  dir' \in File(Dirs) /\ faults' \in 0..MaxFaults
<1>1. dir \in File(Dirs) /\ faults \in 0..MaxFaults
  BY DEF TypeOK
<1>2. Durable(d) \in File(Dirs) /\ Interrupted(dir, d, {}) \subseteq File(Dirs)
  BY <1>1, FileTypes
<1> QED
  BY <1>1, <1>2, ConstantsAssumption DEF AtomicOk, AtomicErr, Fault

\* advance_commit leaves a typed marker, whether or not it succeeds.
LEMMA AdvanceTypes ==
  ASSUME TypeOK, NEW seq \in Nat, AdvanceOk(seq) \/ AdvanceErr(seq)
  PROVE  /\ commit' \in File(Nat) /\ faults' \in 0..MaxFaults
         /\ durable_seq' \in Nat /\ poisoned' \in BOOLEAN
<1>1. /\ commit \in File(Nat) /\ faults \in 0..MaxFaults
      /\ durable_seq \in Nat /\ poisoned \in BOOLEAN
  BY DEF TypeOK
<1>2. Durable(seq) \in File(Nat) /\ Interrupted(commit, seq, {}) \subseteq File(Nat)
  BY <1>1, FileTypes
<1>3. AdvanceOk(seq) => commit' \in File(Nat) /\ faults' = faults /\ durable_seq' = seq
  BY <1>2 DEF AdvanceOk
<1>4. AdvanceErr(seq) => /\ commit' \in File(Nat) /\ durable_seq' = durable_seq
                         /\ faults > 0 /\ faults' = faults - 1
  BY <1>2 DEF AdvanceErr, Poison, Fault
<1>5. commit' \in File(Nat) /\ faults' \in 0..MaxFaults /\ durable_seq' \in Nat
  BY <1>1, <1>3, <1>4, ConstantsAssumption
<1>6. poisoned' \in BOOLEAN
  BY <1>1, Zenon DEF AdvanceOk, AdvanceErr, Poison
<1> QED
  BY <1>5, <1>6

\* A dropped handle leaves the writer in the typed state it started from.
LEMMA HandleGoneTypes ==
  ASSUME HandleGone
  PROVE  /\ pc' = "closed" /\ auto' \in BOOLEAN /\ superseded' \in SUBSET Snapshots
         /\ graph' \in Graphs /\ base_seq' \in Nat /\ snapshot' \in Snapshots
         /\ durable_seq' \in Nat /\ epoch' \in 0..MaxEpoch /\ poisoned' \in BOOLEAN
         /\ policy' \in AllPolicies /\ since_fsync' \in Nat /\ delta_ops' \in Nat
<1>1. << >> \in Graphs /\ 0 \in 0..MaxEpoch /\ 0 \in Nat
  BY EmptySeq, ConstantsAssumption DEF Graphs
<1>2. {} \in SUBSET Snapshots /\ NoSnapshot \in Snapshots /\ "OnFlush" \in AllPolicies
  BY EmptyDirType DEF AllPolicies
<1> QED
  BY <1>1, <1>2, Zenon DEF HandleGone

\* Publishing a graph in a minted epoch keeps the history typed.
LEMMA PublishTypes ==
  ASSUME TypeOK, NEW g \in Graphs, NEW e, Publish(g, e)
  PROVE  named' \in [1..MaxEpoch -> Graphs]
BY DEF TypeOK, Publish

\* The empty directory without a handle.
LEMMA InitTypeInv == Init => TypeInv
<1> SUFFICES ASSUME Init PROVE TypeInv
  OBVIOUS
<1>1. << >> \in Graphs /\ << >> \in Seq(Frames)
  BY EmptySeq DEF Graphs
<1>2. wal \in File(Seq(Frames)) /\ commit \in File(Nat) /\ dir \in File(Dirs)
  BY <1>1, EmptyDirType DEF Init, Durable, File
<1>3. pc # "apply_commit" /\ pc \in PCs /\ policy \in AllPolicies
  BY DEF Init, PCs, AllPolicies
<1>4. auto \in BOOLEAN /\ poisoned \in BOOLEAN
  BY Zenon DEF Init
<1>5. /\ superseded \in SUBSET Snapshots /\ snapshot \in Snapshots
      /\ graph \in Graphs /\ acked \in Graphs /\ attempt \in Graphs
      /\ named \in [1..MaxEpoch -> Graphs]
  BY <1>1, EmptyDirType DEF Init
<1>6. /\ base_seq \in Nat /\ durable_seq \in Nat /\ epoch \in 0..MaxEpoch
      /\ since_fsync \in Nat /\ delta_ops \in Nat
      /\ next_epoch \in 1..(MaxEpoch + 1) /\ faults \in 0..MaxFaults
  BY ConstantsAssumption DEF Init
<1> QED
  BY <1>2, <1>3, <1>4, <1>5, <1>6 DEF TypeInv, TypeOK

\* What the log becomes, whatever a write or sync returned.
LEMMA WalTypes ==
  ASSUME TypeOK, NEW img \in Seq(Frames), NEW torn \in SUBSET Seq(Frames)
  PROVE  /\ Durable(img) \in File(Seq(Frames)) /\ Synced(wal) \in File(Seq(Frames))
         /\ Written(wal, img, torn) \in File(Seq(Frames))
         /\ FailedWrite(wal, torn) \subseteq File(Seq(Frames))
         /\ FailedSync(wal, img, torn) \subseteq File(Seq(Frames))
         /\ Interrupted(wal, img, torn) \subseteq File(Seq(Frames))
<1>1. wal \in File(Seq(Frames))
  BY DEF TypeOK
<1> QED
  BY <1>1, FileTypes

\* Poisoning uses up one fault.
LEMMA PoisonTypes ==
  ASSUME TypeOK, Poison \/ Fault
  PROVE  faults' \in 0..MaxFaults
BY ConstantsAssumption DEF TypeOK, Poison, Fault

\* Where compact_locked leaves its caller, with or without an error.
LEMMA CompactReturnsTypes ==
  ASSUME TypeOK, CompactReturns
  PROVE  /\ pc' = "idle" /\ auto' = FALSE /\ superseded' = {}
         /\ delta_ops' \in Nat
<1>1. delta_ops' \in {0, delta_ops}
  <2>1. CASE auto
    BY <2>1, Zenon DEF CompactReturns
  <2>2. CASE ~ auto
    BY <2>2, Zenon DEF CompactReturns
  <2> QED
    BY <2>1, <2>2
<1> QED
  BY <1>1 DEF CompactReturns, TypeOK

\* The snapshot compaction writes holds as many batches as its seq says.
LEMMA NewSnapshotType ==
  ASSUME TypeOK
  PROVE  NewSnapshot \in Snapshots /\ Len(graph) \in Nat
BY DEF TypeOK, NewSnapshot, Snapshots, Graphs

\* Every step preserves the types: one step of the proof for each action.
LEMMA NextTypeInv == TypeInv /\ [Next]_vars => TypeInv'
<1> SUFFICES ASSUME TypeInv, [Next]_vars PROVE TypeInv'
  OBVIOUS
<1>0. TypeOK
  BY DEF TypeInv
<1>w. /\ wal.vis \in Seq(Frames) /\ wal \in File(Seq(Frames))
      /\ commit.vis \in Nat /\ commit \in File(Nat)
      /\ dir.vis \in Dirs /\ dir \in File(Dirs)
      /\ << >> \in Seq(Frames) /\ << >> \in Graphs
  BY <1>0, EmptySeq DEF TypeOK, File, Graphs
<1>n. /\ NewSnapshot \in Snapshots /\ Len(graph) \in Nat
      /\ NoSnapshot \in Snapshots /\ FirstSnapshot \in Snapshots
  BY <1>0, NewSnapshotType, EmptyDirType DEF FirstSnapshot
<1> USE DEF TypeInv, TypeOK, PCs, AllPolicies, disk, writer, history
<1>1. CASE CreateSnapshot
  <2>1. dir' \in File(Dirs) /\ faults' \in 0..MaxFaults
    BY <1>0, <1>w, <1>n, <1>1, EmptyDirType, DirTypes, AtomicTypes DEF CreateSnapshot
  <2> QED
    BY <1>1, <2>1 DEF CreateSnapshot
<1>2. CASE CreateWal
  <2>1. [dir.vis EXCEPT !.has_wal = TRUE] \in Dirs
    BY <1>w, EmptyDirType, DirTypes
  <2>2. dir' \in File(Dirs) /\ faults' \in 0..MaxFaults
    BY <1>0, <1>2, <2>1, AtomicTypes DEF CreateWal
  <2>3. wal' \in File(Seq(Frames))
    <3>1. wal' = Durable(<< >>) \/ wal' \in Interrupted(wal, << >>, {})
      BY <1>2 DEF CreateWal
    <3>2. /\ Durable(<< >>) \in File(Seq(Frames))
          /\ Interrupted(wal, << >>, {}) \subseteq File(Seq(Frames))
      BY <1>0, <1>w, WalTypes
    <3> QED
      BY <3>1, <3>2
  <2>4. CASE HandleGone
    BY <1>2, <2>2, <2>3, <2>4, HandleGoneTypes DEF CreateWal
  <2>5. CASE pc' = "create_commit" /\ UNCHANGED <<auto, superseded, writer>>
    BY <1>2, <2>2, <2>3, <2>5 DEF CreateWal
  <2> QED
    BY <1>2, <2>4, <2>5 DEF CreateWal
<1>3. CASE CreateCommit
  <2>1. [dir.vis EXCEPT !.has_commit = TRUE] \in Dirs
    BY <1>w, EmptyDirType, DirTypes
  <2>2. dir' \in File(Dirs) /\ faults' \in 0..MaxFaults
    BY <1>0, <1>3, <2>1, AtomicTypes DEF CreateCommit
  <2>3. next_epoch' \in 1..(MaxEpoch + 1) /\ next_epoch \in 0..MaxEpoch
    BY <1>3, ConstantsAssumption DEF CreateCommit
  <2>4. CASE HandleGone
    BY <1>3, <2>2, <2>3, <2>4, HandleGoneTypes DEF CreateCommit
  <2>5. CASE pc' = "create_manifest"
    <3>1. ~ HandleGone
      BY <2>5 DEF HandleGone
    <3> QED
      BY <1>3, <2>2, <2>3, <2>5, <3>1 DEF CreateCommit
  <2> QED
    BY <1>3, <2>4, <2>5 DEF CreateCommit
<1>4. CASE CreateManifest
  <2> DEFINE d == PutManifest(dir.vis, ManifestRecord(FirstSnapshot, epoch, 0, FALSE))
  <2>1. d \in Dirs
    BY <1>w, <1>n, ManifestType, DirTypes
  <2>2. dir' \in File(Dirs) /\ faults' \in 0..MaxFaults
    BY <1>0, <1>4, <2>1, AtomicTypes DEF CreateManifest
  <2>3. named' \in [1..MaxEpoch -> Graphs]
    BY <1>0, <1>4, PublishTypes DEF CreateManifest
  <2>4. CASE HandleGone
    BY <1>4, <2>2, <2>3, <2>4, HandleGoneTypes DEF CreateManifest
  <2>5. CASE pc' = "idle"
    <3>1. ~ HandleGone
      BY <2>5 DEF HandleGone
    <3> QED
      BY <1>4, <1>n, <2>2, <2>3, <2>5, <3>1 DEF CreateManifest
  <2> QED
    BY <1>4, <2>4, <2>5 DEF CreateManifest
<1>5. CASE OpenScan
  <2>1. /\ RecoveredGraph(wal.vis, commit.vis, dir.vis) \in Graphs
        /\ HighWater(commit.vis, dir.vis) \in Nat
        /\ dir.vis.man.snap \in Snapshots /\ dir.vis.man.snap.seq \in Nat
        /\ dir.vis.man.epoch \in 0..MaxEpoch
    BY <1>w, <1>5, RecoveredGraphType, HighWaterType DEF OpenScan
  <2>2. epoch' \in 0..MaxEpoch /\ next_epoch' \in 1..(MaxEpoch + 1)
    BY <1>5, <2>1, ConstantsAssumption DEF OpenScan
  <2>3. pc' \in {"open_truncate", "open_commit"}
    BY <1>5 DEF OpenScan
  <2> QED
    BY <1>5, <2>1, <2>2, <2>3 DEF OpenScan
<1>6. CASE OpenTruncate
  <2>1. CommittedPart(wal.vis, durable_seq) \in Seq(Frames)
    BY <1>w, CommittedPartType
  <2>2. wal' \in File(Seq(Frames))
    <3> DEFINE kept == CommittedPart(wal.vis, durable_seq)
    <3>1. wal' = Durable(kept) \/ wal' \in Interrupted(wal, kept, {})
      BY <1>6 DEF OpenTruncate
    <3>2. /\ Durable(kept) \in File(Seq(Frames))
          /\ Interrupted(wal, kept, {}) \subseteq File(Seq(Frames))
      BY <1>0, <2>1, WalTypes
    <3> QED
      BY <3>1, <3>2
  <2>3. dir' \in File(Dirs)
    BY <1>w, <1>6, EmptyDirType, FileTypes DEF OpenTruncate
  <2>4. faults' \in 0..MaxFaults
    BY <1>0, <1>6, PoisonTypes DEF OpenTruncate
  <2>5. CASE HandleGone
    BY <1>6, <2>2, <2>3, <2>4, <2>5, HandleGoneTypes DEF OpenTruncate
  <2>6. CASE pc' = "open_commit" /\ UNCHANGED <<auto, superseded, writer>>
    BY <1>6, <2>2, <2>3, <2>4, <2>6 DEF OpenTruncate
  <2> QED
    BY <1>6, <2>5, <2>6 DEF OpenTruncate
<1>7. CASE OpenCommit
  <2>1. CASE HandleGone
    <3>1. faults' \in 0..MaxFaults
      BY <1>0, <1>7, <2>1, PoisonTypes, AdvanceTypes DEF OpenCommit
    <3>2. commit' \in File(Nat)
      BY <1>0, <1>w, <1>7, FileTypes, AdvanceTypes DEF OpenCommit
    <3> QED
      BY <1>7, <2>1, <3>1, <3>2, HandleGoneTypes DEF OpenCommit
  <2>2. CASE AdvanceOk(durable_seq) /\ pc' = "open_manifest"
    <3>1. ~ HandleGone
      BY <2>2 DEF HandleGone
    <3>2. /\ commit' \in File(Nat) /\ faults' \in 0..MaxFaults
          /\ durable_seq' \in Nat /\ poisoned' \in BOOLEAN
      BY <1>0, <2>2, AdvanceTypes
    <3> QED
      BY <1>7, <2>2, <3>1, <3>2 DEF OpenCommit
  <2> QED
    BY <1>7, <2>1, <2>2 DEF OpenCommit
<1>8. CASE OpenManifest
  <2> DEFINE m == ManifestRecord(snapshot, epoch, durable_seq, FALSE)
             d == PutManifest(dir.vis, m)
  <2>1. d \in Dirs
    BY <1>w, <1>n, ManifestType, DirTypes
  <2>2. CASE HandleGone
    <3>1. dir' \in File(Dirs) /\ faults' \in 0..MaxFaults
      BY <1>0, <1>8, <2>1, <2>2, AtomicTypes DEF OpenManifest, HandleGone
    <3> QED
      BY <1>8, <2>2, <3>1, HandleGoneTypes DEF OpenManifest, HandleGone
  <2>3. CASE pc' = "idle"
    <3>1. PICK gone : dir' = Written(Durable(d), [d EXCEPT !.snaps = @ \ gone], {})
      BY <1>8, <2>3 DEF OpenManifest, HandleGone
    <3>2. Durable(d) \in File(Dirs) /\ [d EXCEPT !.snaps = @ \ gone] \in Dirs
      BY <2>1, <1>n, <1>w, EmptyDirType, DirTypes, FileTypes
    <3>3. dir' \in File(Dirs)
      BY <3>1, <3>2, FileTypes
    <3>4. named' \in [1..MaxEpoch -> Graphs]
      BY <1>0, <1>8, <2>3, PublishTypes DEF OpenManifest, HandleGone
    <3> QED
      BY <1>8, <2>3, <3>3, <3>4 DEF OpenManifest, HandleGone, Ack
  <2> QED
    BY <1>8, <2>2, <2>3 DEF OpenManifest
<1>9. CASE ApplyCommit
  <2> DEFINE b == wal.vis[Len(wal.vis)].batch
             g == Append(graph, b)
  <2>1. Len(wal.vis) \in 1..Len(wal.vis)
    BY <1>w, <1>9, EmptySeq DEF ApplyCommit
  <2>2. b \in Batches
    <3>1. wal.vis[Len(wal.vis)] \in Frames
      BY <1>w, <2>1, ElementOfSeq
    <3> QED
      BY <3>1 DEF Frames
  <2> HIDE DEF b
  <2>3. g \in Graphs /\ Len(g) \in Nat
    BY <1>n, <2>2 DEF Graphs
  <2>4. /\ commit' \in File(Nat) /\ faults' \in 0..MaxFaults
        /\ durable_seq' \in Nat /\ poisoned' \in BOOLEAN
    BY <1>0, <1>9, <2>3, AdvanceTypes DEF ApplyCommit
  <2>5. CASE Ack(g) /\ Published(b)
    <3>1. named' \in [1..MaxEpoch -> Graphs]
      BY <1>0, <2>3, <2>5, PublishTypes DEF Published
    <3>2. delta_ops' \in Nat /\ auto' \in BOOLEAN /\ pc' \in {"compact_snapshot", "idle"}
      BY <2>5 DEF Published, OpCount
    <3>3. graph' = g /\ attempt' = g /\ acked' = g /\ superseded' = superseded
      BY <2>5 DEF Published, Ack
    <3> HIDE DEF g
    <3> QED
      BY <1>9, <2>3, <2>4, <3>1, <3>2, <3>3 DEF ApplyCommit
  <2>6. CASE AdvanceErr(Len(g)) /\ pc' = "idle"
             /\ UNCHANGED <<auto, superseded, graph, delta_ops, history>>
    BY <1>9, <2>4, <2>6 DEF ApplyCommit
  <2> QED
    BY <1>9, <2>5, <2>6 DEF ApplyCommit, b
<1>10. CASE FlushCommit
  <2>1. /\ commit' \in File(Nat) /\ faults' \in 0..MaxFaults
        /\ durable_seq' \in Nat /\ poisoned' \in BOOLEAN
    BY <1>0, <1>n, <1>10, AdvanceTypes DEF FlushCommit
  <2> QED
    BY <1>10, <2>1 DEF FlushCommit, Ack
<1>11. CASE CloseCommit
  <2>1. /\ commit' \in File(Nat) /\ faults' \in 0..MaxFaults
        /\ durable_seq' \in Nat /\ poisoned' \in BOOLEAN
    BY <1>0, <1>n, <1>11, AdvanceTypes DEF CloseCommit
  <2> QED
    BY <1>11, <2>1 DEF CloseCommit, Ack
<1>12. CASE CloseManifest
  <2> DEFINE d == PutManifest(dir.vis,
                     ManifestRecord(snapshot, epoch, durable_seq, ~ poisoned))
  <2>1. d \in Dirs
    BY <1>w, <1>n, ManifestType, DirTypes
  <2>2. dir' \in File(Dirs) /\ faults' \in 0..MaxFaults
    BY <1>0, <1>12, <2>1, AtomicTypes DEF CloseManifest
  <2> QED
    BY <1>12, <2>2, HandleGoneTypes DEF CloseManifest
<1>13. CASE CompactSnapshot
  <2>1. PutSnapshot(dir.vis, NewSnapshot) \in Dirs
    BY <1>w, <1>n, EmptyDirType, DirTypes
  <2>2. dir' \in File(Dirs) /\ faults' \in 0..MaxFaults
    BY <1>0, <1>13, <2>1, AtomicTypes DEF CompactSnapshot
  <2>3. /\ pc' \in {"idle", "compact_manifest"} /\ auto' \in BOOLEAN
        /\ superseded' \in SUBSET Snapshots /\ delta_ops' \in Nat
    <3>1. CASE CompactReturns
      BY <1>0, <1>13, <3>1, CompactReturnsTypes DEF CompactSnapshot
    <3>2. CASE ~ CompactReturns
      <4>1. \/ pc' = "idle" /\ auto' = FALSE /\ delta_ops' = 0 /\ superseded' = superseded
            \/ /\ pc' = "compact_manifest" /\ auto' = auto
               /\ delta_ops' = delta_ops /\ superseded' = {snapshot}
        BY <1>13, <3>2, Zenon DEF CompactSnapshot
      <4>2. auto' \in BOOLEAN
        BY <1>0, <4>1, Zenon
      <4> QED
        BY <4>1, <4>2
    <3> QED
      BY <3>1, <3>2
  <2> QED
    BY <1>13, <2>2, <2>3 DEF CompactSnapshot
<1>14. CASE CompactManifest
  <2> DEFINE d == PutManifest(dir.vis,
                     ManifestRecord(NewSnapshot, epoch, Len(graph), FALSE))
  <2>1. d \in Dirs
    BY <1>w, <1>n, ManifestType, DirTypes
  <2>2. dir' \in File(Dirs) /\ faults' \in 0..MaxFaults
    BY <1>0, <1>14, <2>1, AtomicTypes DEF CompactManifest
  <2>3. /\ pc' \in {"idle", "compact_commit"} /\ auto' \in BOOLEAN
        /\ superseded' \in SUBSET Snapshots /\ delta_ops' \in Nat
        /\ snapshot' \in Snapshots
    <3>1. CASE CompactReturns
      BY <1>0, <1>14, <1>n, <3>1, CompactReturnsTypes DEF CompactManifest
    <3>2. CASE ~ CompactReturns
      BY <1>14, <1>n, <3>2 DEF CompactManifest
    <3> QED
      BY <3>1, <3>2
  <2> QED
    BY <1>14, <2>2, <2>3 DEF CompactManifest
<1>15. CASE CompactCommit
  <2> DEFINE seq == IF durable_seq >= snapshot.seq THEN durable_seq ELSE snapshot.seq
  <2>1. seq \in Nat
    BY DEF Snapshots
  <2>2. /\ commit' \in File(Nat) /\ faults' \in 0..MaxFaults
        /\ durable_seq' \in Nat /\ poisoned' \in BOOLEAN
    BY <1>0, <1>15, <2>1, AdvanceTypes DEF CompactCommit
  <2>3. /\ pc' \in {"idle", "compact_truncate"} /\ auto' \in BOOLEAN
        /\ superseded' \in SUBSET Snapshots /\ delta_ops' \in Nat
        /\ acked' \in Graphs
    <3>1. CASE CompactReturns
      BY <1>0, <1>15, <3>1, CompactReturnsTypes DEF CompactCommit, Ack
    <3>2. CASE ~ CompactReturns
      BY <1>15, <3>2 DEF CompactCommit, Ack
    <3> QED
      BY <3>1, <3>2
  <2> QED
    BY <1>15, <2>2, <2>3 DEF CompactCommit
<1>16. CASE CompactTruncate
  <2>1. /\ Durable(<< >>) \in File(Seq(Frames))
        /\ Interrupted(wal, << >>, {}) \subseteq File(Seq(Frames))
    BY <1>0, <1>w, WalTypes
  <2>2. wal' \in File(Seq(Frames)) /\ since_fsync' \in Nat
    BY <1>16, <2>1 DEF CompactTruncate
  <2>3. faults' \in 0..MaxFaults
    BY <1>0, <1>16, PoisonTypes DEF CompactTruncate
  <2>4. /\ pc' \in {"idle", "compact_reopen"} /\ auto' \in BOOLEAN
        /\ superseded' \in SUBSET Snapshots /\ delta_ops' \in Nat
    <3>1. CASE CompactReturns
      BY <1>0, <1>16, <3>1, CompactReturnsTypes DEF CompactTruncate
    <3>2. CASE ~ CompactReturns
      BY <1>16, <3>2 DEF CompactTruncate
    <3> QED
      BY <3>1, <3>2
  <2>5. poisoned' \in BOOLEAN
    BY <1>0, <1>16, Zenon DEF CompactTruncate, Poison
  <2> QED
    BY <1>16, <2>2, <2>3, <2>4, <2>5 DEF CompactTruncate
<1>17. CASE CompactReopen
  <2>1. dir' \in File(Dirs) /\ base_seq' \in Nat /\ named' \in [1..MaxEpoch -> Graphs]
    <3>1. CASE UNCHANGED <<dir, base_seq, named>>
      BY <3>1
    <3>2. CASE /\ base_seq' = snapshot.seq /\ Publish(graph, epoch)
               /\ \E gone \in SUBSET superseded :
                    dir' = Written(dir, [dir.vis EXCEPT !.snaps = @ \ gone], {})
      <4>1. PICK gone : dir' = Written(dir, [dir.vis EXCEPT !.snaps = @ \ gone], {})
        BY <3>2
      <4>2. [dir.vis EXCEPT !.snaps = @ \ gone] \in Dirs
        BY <1>w, <1>n, EmptyDirType, DirTypes
      <4>3. dir' \in File(Dirs)
        BY <1>w, <4>1, <4>2, FileTypes
      <4>4. named' \in [1..MaxEpoch -> Graphs]
        BY <1>0, <3>2, PublishTypes
      <4> QED
        BY <3>2, <4>3, <4>4 DEF Snapshots
    <3> QED
      BY <1>17, <3>1, <3>2 DEF CompactReopen
  <2>2. faults' \in 0..MaxFaults
    BY <1>0, <1>17, PoisonTypes DEF CompactReopen
  <2>3. /\ pc' = "idle" /\ auto' \in BOOLEAN
        /\ superseded' \in SUBSET Snapshots /\ delta_ops' \in Nat
    <3>1. CASE CompactReturns
      BY <1>0, <1>17, <3>1, CompactReturnsTypes DEF CompactReopen
    <3>2. CASE ~ CompactReturns
      <4>1. pc' = "idle" /\ auto' = FALSE /\ delta_ops' = 0 /\ superseded' = {}
        BY <1>17, <3>2, Zenon DEF CompactReopen
      <4> QED
        BY <4>1
    <3> QED
      BY <3>1, <3>2
  <2> QED
    BY <1>17, <2>1, <2>2, <2>3 DEF CompactReopen
<1>18. CASE SetPolicy
  BY <1>18, ConstantsAssumption DEF SetPolicy
<1>19. CASE Flush
  <2>1. FailedSync(wal, wal.vis, {}) \subseteq File(Seq(Frames)) /\ Synced(wal) \in File(Seq(Frames))
    BY <1>0, <1>w, WalTypes
  <2>2. wal' \in File(Seq(Frames))
    BY <1>19, <2>1 DEF Flush
  <2>3. faults' \in 0..MaxFaults
    BY <1>0, <1>19, PoisonTypes DEF Flush
  <2>4. poisoned' \in BOOLEAN
    BY <1>0, <1>19, Zenon DEF Flush, Poison
  <2> QED
    BY <1>19, <2>2, <2>3, <2>4 DEF Flush
<1>20. CASE Compact
  BY <1>20 DEF Compact
<1>21. CASE Close
  <2>1. FailedSync(wal, wal.vis, {}) \subseteq File(Seq(Frames)) /\ Synced(wal) \in File(Seq(Frames))
    BY <1>0, <1>w, WalTypes
  <2>2. wal' \in File(Seq(Frames))
    BY <1>21, <2>1 DEF Close
  <2>3. faults' \in 0..MaxFaults
    BY <1>0, <1>21, PoisonTypes DEF Close
  <2>4. poisoned' \in BOOLEAN
    BY <1>0, <1>21, Zenon DEF Close, Poison
  <2>5. pc' \in {"close_commit", "close_manifest"}
    BY <1>21 DEF Close
  <2> QED
    BY <1>21, <2>2, <2>3, <2>4, <2>5 DEF Close
<1>22. CASE Kill
  BY <1>22, HandleGoneTypes DEF Kill
<1>23. CASE PowerLoss
  <2>1. PICK w \in wal.crash, c \in commit.crash, d \in dir.crash :
          wal' = Durable(w) /\ commit' = Durable(c) /\ dir' = Durable(d)
    BY <1>23 DEF PowerLoss
  <2>2. w \in Seq(Frames) /\ c \in Nat /\ d \in Dirs
    BY <1>w DEF File
  <2>3. wal' \in File(Seq(Frames)) /\ commit' \in File(Nat) /\ dir' \in File(Dirs)
    BY <2>1, <2>2 DEF Durable, File
  <2> QED
    BY <1>23, <2>3, HandleGoneTypes DEF PowerLoss
<1>24. ASSUME NEW b \in Batches, Apply(b) PROVE TypeInv'
  <2> DEFINE img  == Append(wal.vis, Frame(Len(graph) + 1, b, TRUE))
             torn == {Append(wal.vis, Frame(Len(graph) + 1, b, FALSE))}
             g    == Append(graph, b)
  <2>1. /\ img \in Seq(Frames) /\ torn \in SUBSET Seq(Frames)
        /\ g \in Graphs /\ img # << >>
    <3>2. img \in Seq(Frames) /\ img # << >>
      BY <1>w, <1>n, AppendedFrame
    <3>3. Append(wal.vis, Frame(Len(graph) + 1, b, FALSE)) \in Seq(Frames)
      BY <1>w, <1>n, AppendedFrame
    <3>4. g \in Seq(Batches)
      BY <1>0, Appended DEF Graphs
    <3>5. torn \in SUBSET Seq(Frames) /\ g \in Graphs
      BY <3>3, <3>4, Zenon DEF Graphs
    <3> HIDE DEF img, torn, g
    <3> QED
      BY <3>2, <3>5
  <2>2. /\ Durable(img) \in File(Seq(Frames)) /\ Written(wal, img, torn) \in File(Seq(Frames))
        /\ FailedWrite(wal, torn) \subseteq File(Seq(Frames))
        /\ FailedSync(wal, img, torn) \subseteq File(Seq(Frames))
        /\ Durable(img).vis = img
    BY <1>0, <2>1, WalTypes DEF Durable
  <2>3. since_fsync + 1 \in Nat
    OBVIOUS
  <2>4. UNCHANGED <<commit, dir, base_seq, snapshot, durable_seq, epoch, policy, next_epoch>>
    BY <1>24 DEF Apply
  <2> HIDE DEF img, torn
  <2>5. CASE /\ wal' = Written(wal, img, torn) /\ Published(b)
             /\ since_fsync' \in {since_fsync, since_fsync + 1}
             /\ UNCHANGED <<poisoned, acked, faults>>
    <3>1. named' \in [1..MaxEpoch -> Graphs]
      BY <1>0, <2>1, <2>5, PublishTypes DEF Published
    <3>2. delta_ops' \in Nat /\ auto' \in BOOLEAN /\ pc' \in {"compact_snapshot", "idle"}
      BY <2>5 DEF Published, OpCount
    <3>3. graph' = g /\ attempt' = g /\ superseded' = superseded
      BY <2>5 DEF Published
    <3> HIDE DEF g
    <3> QED
      BY <2>1, <2>2, <2>3, <2>4, <2>5, <3>1, <3>2, <3>3
  <2>6. CASE /\ wal' = Durable(img) /\ since_fsync' = 0
             /\ pc' = "apply_commit" /\ attempt' = g
             /\ UNCHANGED <<auto, superseded, graph, delta_ops, poisoned, acked, named, faults>>
    BY <2>1, <2>2, <2>4, <2>6
  <2>7. CASE /\ wal' \in FailedWrite(wal, torn) /\ Poison
             /\ UNCHANGED <<pc, auto, superseded, graph, delta_ops, since_fsync, history>>
    <3>1. poisoned' = TRUE /\ faults' \in 0..MaxFaults
      BY <1>0, <2>7, PoisonTypes DEF Poison
    <3> QED
      BY <1>24, <2>1, <2>2, <2>4, <2>7, <3>1 DEF Apply
  <2>8. CASE /\ wal' \in FailedSync(wal, img, torn) /\ Poison /\ attempt' = g
             /\ since_fsync' \in {since_fsync, since_fsync + 1}
             /\ UNCHANGED <<pc, auto, superseded, graph, delta_ops, acked, named>>
    <3>1. poisoned' = TRUE /\ faults' \in 0..MaxFaults
      BY <1>0, <2>8, PoisonTypes DEF Poison
    <3>2. pc # "apply_commit"
      BY <1>24 DEF Apply
    <3> QED
      BY <2>1, <2>2, <2>3, <2>4, <2>8, <3>1, <3>2
  <2> QED
    BY <1>24, <2>5, <2>6, <2>7, <2>8 DEF Apply, img, torn
<1>25. CASE UNCHANGED vars
  BY <1>25 DEF vars
<1> QED
  BY <1>1, <1>2, <1>3, <1>4, <1>5, <1>6, <1>7, <1>8, <1>9, <1>10, <1>11, <1>12,
     <1>13, <1>14, <1>15, <1>16, <1>17, <1>18, <1>19, <1>20, <1>21, <1>22, <1>23,
     <1>24, <1>25 DEF Next, Create, Open, Running, Client, Crash

\* So the types hold in every state.
LEMMA TypeInvariant == Spec => []TypeInv
BY InitTypeInv, NextTypeInv, PTL DEF Spec

\* Every variable, every crash image of every file included, keeps its type:
\* in particular each snapshot holds exactly the graph its seq says, and what
\* recovery replays is made of batches some apply appended.
THEOREM TypeCorrect == Spec => []TypeOK
<1>1. TypeInv => TypeOK
  BY DEF TypeInv
<1> QED
  BY <1>1, TypeInvariant, PTL

(***************************************************************************)
(* The store uses COMMIT as the register CommitFile implements.            *)
(***************************************************************************)
(* Where a marker is about to be advanced, and the rest of a compaction.   *)
Advancing ==
  {"open_commit", "apply_commit", "flush_commit", "close_commit",
   "compact_snapshot", "compact_manifest", "compact_commit", "compact_truncate",
   "compact_reopen"}

(* No marker is advanced by a poisoned writer, and none passes the bound:  *)
(* not those on the disk, those a snapshot stands for, nor the next one.   *)
MarkerInv ==
  /\ pc \in Opening \cup Advancing => ~ poisoned
  /\ Len(graph) <= MaxSeq /\ durable_seq <= MaxSeq /\ snapshot.seq <= MaxSeq
  /\ \A c \in commit.crash : c <= MaxSeq
  /\ \A d \in dir.crash : d.man.snap.seq <= MaxSeq
  /\ pc = "apply_commit" => Len(graph) < MaxSeq

\* A dropped handle has nothing to advance.
LEMMA HandleGoneMarker ==
  ASSUME HandleGone
  PROVE  /\ ~ poisoned' /\ pc' = "closed"
         /\ Len(graph') <= MaxSeq /\ durable_seq' <= MaxSeq /\ snapshot'.seq <= MaxSeq
<1>1. graph' = << >> /\ durable_seq' = 0 /\ snapshot'.seq = 0 /\ pc' = "closed"
  BY DEF HandleGone, NoSnapshot
<1>2. ~ poisoned'
  BY Zenon DEF HandleGone
<1> QED
  BY <1>1, <1>2, ConstantsAssumption

\* A new directory image bounds the seqs of the crash images with its own.
LEMMA AtomicMarker ==
  ASSUME TypeOK, MarkerInv, NEW d \in Dirs, AtomicOk(d) \/ AtomicErr(d),
         d.man.snap.seq <= MaxSeq
  PROVE  \A x \in dir'.crash : x.man.snap.seq <= MaxSeq
<1>1. dir'.crash \subseteq dir.crash \cup {d}
  BY DEF TypeOK, AtomicOk, AtomicErr, Durable, Interrupted, FailedWrite, FailedSync, Written
<1> QED
  BY <1>1 DEF MarkerInv

\* An advanced marker, whether or not the advance succeeded.
LEMMA AdvanceMarker ==
  ASSUME TypeOK, MarkerInv, NEW seq \in 0..MaxSeq,
         \/ commit' = Durable(seq)
         \/ commit' \in Interrupted(commit, seq, {})
  PROVE  \A c \in commit'.crash : c <= MaxSeq
<1>1. commit'.crash \subseteq commit.crash \cup {seq}
  BY DEF Durable, Interrupted, FailedWrite, FailedSync, Written
<1> QED
  BY <1>1 DEF MarkerInv

\* A recovered graph is within the bound when the files it comes from are.
LEMMA RecoveredMarker ==
  ASSUME TypeOK, MarkerInv, Recoverable(wal.vis, commit.vis, dir.vis)
  PROVE  /\ HighWater(commit.vis, dir.vis) <= MaxSeq
         /\ Len(RecoveredGraph(wal.vis, commit.vis, dir.vis)) <= MaxSeq
         /\ dir.vis.man.snap.seq <= MaxSeq
<1>1. /\ wal.vis \in Seq(Frames)
      /\ commit.vis \in Nat /\ commit.vis \in commit.crash
      /\ dir.vis \in Dirs /\ dir.vis \in dir.crash
  BY DEF TypeOK, File
<1>2. commit.vis <= MaxSeq /\ dir.vis.man.snap.seq <= MaxSeq
  BY <1>1 DEF MarkerInv
<1>3. HighWater(commit.vis, dir.vis) \in {commit.vis, dir.vis.man.snap.seq}
  BY <1>1, HighWaterType
<1>4. Len(RecoveredGraph(wal.vis, commit.vis, dir.vis)) = HighWater(commit.vis, dir.vis)
  BY <1>1, RecoveredGraphType
<1> QED
  BY <1>2, <1>3, <1>4

\* The empty directory without a handle.
LEMMA InitMarkerInv == Init => MarkerInv
<1> SUFFICES ASSUME Init PROVE MarkerInv
  OBVIOUS
<1>1. /\ Len(graph) <= MaxSeq /\ durable_seq <= MaxSeq /\ snapshot.seq <= MaxSeq
      /\ pc # "apply_commit"
  BY ConstantsAssumption DEF Init, NoSnapshot
<1>2. \A c \in commit.crash : c <= MaxSeq
  BY ConstantsAssumption DEF Init, Durable
<1>3. \A d \in dir.crash : d.man.snap.seq <= MaxSeq
  BY ConstantsAssumption DEF Init, Durable, EmptyDir, NoManifest, ManifestRecord, NoSnapshot
<1>4. ~ poisoned
  BY Zenon DEF Init
<1> QED
  BY <1>1, <1>2, <1>3, <1>4, Zenon DEF MarkerInv

\* Every step keeps the markers within the bound and a poisoned writer away
\* from them.
LEMMA NextMarkerInv == TypeInv /\ MarkerInv /\ [Next]_vars => MarkerInv'
<1> SUFFICES ASSUME TypeInv, MarkerInv, [Next]_vars PROVE MarkerInv'
  OBVIOUS
<1>0. TypeOK
  BY DEF TypeInv
<1>w. /\ dir.vis \in Dirs /\ dir.vis \in dir.crash /\ dir.vis.man.snap.seq <= MaxSeq
      /\ durable_seq \in 0..MaxSeq /\ snapshot \in Snapshots /\ snapshot.seq \in 0..MaxSeq
      /\ graph \in Graphs /\ Len(graph) \in 0..MaxSeq
      /\ epoch \in 0..MaxEpoch /\ 0 \in 0..MaxEpoch
      /\ wal.vis \in Seq(Frames)
  <2>1. dir.vis \in Dirs /\ dir.vis \in dir.crash /\ dir.vis.man.snap.seq <= MaxSeq
    BY <1>0 DEF TypeOK, File, MarkerInv
  <2>2. durable_seq \in 0..MaxSeq /\ snapshot \in Snapshots /\ snapshot.seq \in 0..MaxSeq
    BY <1>0, ConstantsAssumption DEF TypeOK, MarkerInv, Snapshots
  <2>3. graph \in Graphs /\ Len(graph) \in 0..MaxSeq
    BY <1>0, NewSnapshotType, ConstantsAssumption DEF TypeOK, MarkerInv
  <2>4. epoch \in 0..MaxEpoch /\ 0 \in 0..MaxEpoch /\ wal.vis \in Seq(Frames)
    BY <1>0, ConstantsAssumption DEF TypeOK, File
  <2> QED
    BY <2>1, <2>2, <2>3, <2>4
<1>n. /\ NewSnapshot \in Snapshots /\ NewSnapshot.seq = Len(graph)
      /\ FirstSnapshot \in Snapshots /\ FirstSnapshot.seq = 0 /\ 0 <= MaxSeq
  BY <1>0, NewSnapshotType, EmptyDirType, ConstantsAssumption
     DEF FirstSnapshot, NoSnapshot, NewSnapshot
<1>m. /\ \A c \in commit.crash : c <= MaxSeq
      /\ \A d \in dir.crash : d.man.snap.seq <= MaxSeq
      /\ pc = "apply_commit" => Len(graph) < MaxSeq
      /\ pc \in Opening \cup Advancing => ~ poisoned
  BY DEF MarkerInv
<1>u. CASE /\ UNCHANGED <<commit, graph, durable_seq, poisoned>>
           /\ \A d \in dir'.crash : d.man.snap.seq <= MaxSeq
           /\ snapshot'.seq <= MaxSeq
           /\ pc' = "apply_commit" => Len(graph) < MaxSeq
           /\ pc' \in Opening \cup Advancing => ~ poisoned
  <2>1. ~ poisoned' <=> ~ poisoned
    BY <1>u
  <2> QED
    BY <1>u, <1>w, <1>m, <2>1, Zenon DEF MarkerInv
<1>g. CASE /\ HandleGone
           /\ \A c \in commit'.crash : c <= MaxSeq
           /\ \A d \in dir'.crash : d.man.snap.seq <= MaxSeq
  BY <1>g, HandleGoneMarker DEF MarkerInv
<1>a. ASSUME NEW seq \in 0..MaxSeq,
             \/ AdvanceOk(seq)
             \/ AdvanceErr(seq) /\ pc' \notin Opening \cup Advancing,
             UNCHANGED <<dir, snapshot>>, Len(graph') <= MaxSeq,
             pc' # "apply_commit", ~ poisoned
      PROVE  MarkerInv'
  <2>1. \A c \in commit'.crash : c <= MaxSeq
    BY <1>0, <1>a, AdvanceMarker DEF AdvanceOk, AdvanceErr
  <2>2. durable_seq' <= MaxSeq
    BY <1>w, <1>a DEF AdvanceOk, AdvanceErr
  <2>3. pc' \in Opening \cup Advancing => ~ poisoned'
    BY <1>a, Zenon DEF AdvanceOk
  <2> QED
    BY <1>w, <1>m, <1>a, <2>1, <2>2, <2>3, Zenon DEF MarkerInv
<1> USE DEF disk, writer, history
<1>1. CASE CreateSnapshot
  <2> DEFINE d == PutSnapshot(dir.vis, FirstSnapshot)
  <2>1. d \in Dirs /\ d.man.snap.seq <= MaxSeq
    BY <1>w, <1>n, EmptyDirType, DirTypes DEF PutSnapshot, Dirs
  <2>2. \A x \in dir'.crash : x.man.snap.seq <= MaxSeq
    BY <1>0, <1>1, <2>1, AtomicMarker DEF CreateSnapshot
  <2>3. pc' \in Opening /\ pc \in Opening /\ pc' # "apply_commit"
    BY <1>1 DEF CreateSnapshot, Opening
  <2> QED
    BY <1>1, <1>u, <1>w, <1>m, <2>2, <2>3 DEF CreateSnapshot
<1>2. CASE CreateWal
  <2> DEFINE d == [dir.vis EXCEPT !.has_wal = TRUE]
  <2>1. d \in Dirs /\ d.man.snap.seq <= MaxSeq
    BY <1>w, <1>n, EmptyDirType, DirTypes DEF Dirs
  <2>2. \A x \in dir'.crash : x.man.snap.seq <= MaxSeq
    BY <1>0, <1>2, <2>1, AtomicMarker DEF CreateWal
  <2>3. /\ pc \in Opening
        /\ \/ HandleGone
           \/ /\ pc' = "create_commit"
              /\ UNCHANGED <<graph, durable_seq, snapshot, poisoned>>
    BY <1>2 DEF CreateWal, Opening
  <2>4. CASE HandleGone
    BY <1>2, <1>g, <1>m, <2>2, <2>4 DEF CreateWal
  <2>5. CASE /\ pc' = "create_commit"
             /\ UNCHANGED <<graph, durable_seq, snapshot, poisoned>>
    BY <1>2, <1>u, <1>w, <1>m, <2>2, <2>3, <2>5 DEF CreateWal
  <2> QED
    BY <2>3, <2>4, <2>5
<1>3. CASE CreateCommit
  <2> DEFINE d == [dir.vis EXCEPT !.has_commit = TRUE]
  <2>1. d \in Dirs /\ d.man.snap.seq <= MaxSeq
    BY <1>w, <1>n, EmptyDirType, DirTypes DEF Dirs
  <2>2. \A x \in dir'.crash : x.man.snap.seq <= MaxSeq
    BY <1>0, <1>3, <2>1, AtomicMarker DEF CreateCommit
  <2>3. /\ pc \in Opening
        /\ \/ HandleGone
           \/ pc' = "create_manifest" /\ UNCHANGED <<graph, durable_seq, snapshot, poisoned>>
    BY <1>3 DEF CreateCommit, Opening
  <2>4. CASE HandleGone
    BY <1>3, <1>g, <1>m, <2>2, <2>4 DEF CreateCommit
  <2>5. CASE pc' = "create_manifest" /\ UNCHANGED <<graph, durable_seq, snapshot, poisoned>>
    BY <1>3, <1>u, <1>w, <1>m, <2>2, <2>3, <2>5 DEF CreateCommit
  <2> QED
    BY <2>3, <2>4, <2>5
<1>4. CASE CreateManifest
  <2> DEFINE d == PutManifest(dir.vis, ManifestRecord(FirstSnapshot, epoch, 0, FALSE))
  <2>1. d \in Dirs /\ d.man.snap.seq <= MaxSeq
    <3>0. 0 \in Nat /\ FALSE \in BOOLEAN
      OBVIOUS
    <3>1. ManifestRecord(FirstSnapshot, epoch, 0, FALSE) \in Manifests
      BY <1>w, <1>n, <3>0, ManifestType, Zenon
    <3>2. d \in Dirs
      BY <1>w, <1>n, <3>1, DirTypes
    <3> QED
      BY <1>w, <1>n, <3>2 DEF PutManifest, ManifestRecord, Dirs
  <2>2. \A x \in dir'.crash : x.man.snap.seq <= MaxSeq
    BY <1>0, <1>4, <2>1, AtomicMarker DEF CreateManifest
  <2>3. /\ pc \in Opening
        /\ \/ HandleGone
           \/ /\ pc' = "idle" /\ snapshot' = FirstSnapshot
              /\ UNCHANGED <<graph, durable_seq, poisoned>>
    BY <1>4 DEF CreateManifest, Opening
  <2>4. CASE HandleGone
    BY <1>4, <1>g, <1>m, <2>2, <2>4 DEF CreateManifest
  <2>5. CASE /\ pc' = "idle" /\ snapshot' = FirstSnapshot
             /\ UNCHANGED <<graph, durable_seq, poisoned>>
    BY <1>4, <1>u, <1>n, <1>m, <2>2, <2>3, <2>5 DEF CreateManifest
  <2> QED
    BY <2>3, <2>4, <2>5
<1>5. CASE OpenScan
  <2>1. /\ HighWater(commit.vis, dir.vis) <= MaxSeq
        /\ Len(RecoveredGraph(wal.vis, commit.vis, dir.vis)) <= MaxSeq
        /\ dir.vis.man.snap.seq <= MaxSeq
    BY <1>0, <1>5, RecoveredMarker DEF OpenScan
  <2>2. /\ Len(graph') <= MaxSeq /\ durable_seq' <= MaxSeq /\ snapshot'.seq <= MaxSeq
        /\ pc' # "apply_commit" /\ pc \in Opening
        /\ UNCHANGED <<commit, dir, poisoned>>
    BY <1>5, <2>1 DEF OpenScan, Opening
  <2>3. ~ poisoned'
    BY <1>m, <2>2, Zenon
  <2> QED
    BY <1>m, <2>2, <2>3, Zenon DEF MarkerInv
<1>6. CASE OpenTruncate
  <2>1. \A x \in dir'.crash : x.man.snap.seq <= MaxSeq
    BY <1>6, <1>w, <1>m DEF OpenTruncate, Synced, Durable
  <2>2. /\ pc \in Opening /\ UNCHANGED commit
        /\ \/ HandleGone
           \/ /\ pc' = "open_commit"
              /\ UNCHANGED <<graph, durable_seq, snapshot, poisoned>>
    BY <1>6 DEF OpenTruncate, Opening
  <2>3. CASE HandleGone
    BY <1>g, <1>m, <2>1, <2>2, <2>3
  <2>4. CASE /\ pc' = "open_commit"
             /\ UNCHANGED <<graph, durable_seq, snapshot, poisoned>>
    BY <1>u, <1>w, <1>m, <2>1, <2>2, <2>4
  <2> QED
    BY <2>2, <2>3, <2>4
<1>7. CASE OpenCommit
  <2>1. CASE HandleGone
    <3>1. \A c \in commit'.crash : c <= MaxSeq
      BY <1>0, <1>w, <1>7, AdvanceMarker DEF OpenCommit, AdvanceOk
    <3> QED
      BY <1>7, <1>g, <1>m, <2>1, <3>1 DEF OpenCommit
  <2>2. CASE AdvanceOk(durable_seq) /\ pc' = "open_manifest" /\ UNCHANGED <<graph, snapshot>>
    <3>1. ~ poisoned /\ pc' # "apply_commit"
      BY <1>7, <1>m, <2>2 DEF OpenCommit, Opening
    <3>2. \A c \in commit'.crash : c <= MaxSeq
      BY <1>0, <1>w, <2>2, AdvanceMarker DEF AdvanceOk
    <3>3. durable_seq' <= MaxSeq /\ poisoned' = poisoned /\ dir' = dir
      BY <1>w, <1>7, <2>2 DEF AdvanceOk, OpenCommit
    <3>4. ~ poisoned'
      BY <3>1, <3>3, Zenon
    <3> QED
      BY <1>w, <1>m, <2>2, <3>1, <3>2, <3>3, <3>4, Zenon DEF MarkerInv
  <2> QED
    BY <1>7, <2>1, <2>2 DEF OpenCommit
<1>8. CASE OpenManifest
  <2> DEFINE d == PutManifest(dir.vis, ManifestRecord(snapshot, epoch, durable_seq, FALSE))
  <2>1. d \in Dirs /\ d.man.snap.seq <= MaxSeq
    <3>1. d \in Dirs
      BY <1>0, <1>w, ManifestType, DirTypes DEF TypeOK
    <3> QED
      BY <1>w, <3>1 DEF PutManifest, ManifestRecord, Dirs
  <2>2. CASE AtomicErr(d) /\ HandleGone
    <3>1. \A x \in dir'.crash : x.man.snap.seq <= MaxSeq
      BY <1>0, <2>1, <2>2, AtomicMarker
    <3> QED
      BY <1>8, <1>g, <1>m, <2>2, <3>1 DEF OpenManifest
  <2>3. CASE /\ \E gone : dir' = Written(Durable(d), [d EXCEPT !.snaps = @ \ gone], {})
             /\ pc' = "idle" /\ UNCHANGED writer
    <3>1. PICK gone : dir' = Written(Durable(d), [d EXCEPT !.snaps = @ \ gone], {})
      BY <2>3
    <3>2. [d EXCEPT !.snaps = @ \ gone].man = d.man
      BY <2>1 DEF Dirs
    <3>3. \A x \in dir'.crash : x.man.snap.seq <= MaxSeq
      BY <2>1, <3>1, <3>2 DEF Written, Durable
    <3>4. /\ pc \in Opening /\ pc' # "apply_commit"
          /\ UNCHANGED <<commit, graph, durable_seq, snapshot, poisoned>>
      BY <1>8, <2>3 DEF OpenManifest, Opening
    <3> QED
      BY <1>u, <1>w, <1>m, <3>3, <3>4
  <2> QED
    BY <1>8, <2>2, <2>3 DEF OpenManifest
<1>9. CASE ApplyCommit
  <2> DEFINE g == Append(graph, wal.vis[Len(wal.vis)].batch)
  <2>1. Len(g) = Len(graph) + 1 /\ Len(graph) < MaxSeq /\ ~ poisoned
    <3>1. wal.vis # << >> /\ Len(graph) < MaxSeq /\ ~ poisoned
      BY <1>9, <1>m DEF ApplyCommit, TypeInv, Advancing
    <3>2. wal.vis[Len(wal.vis)] \in Frames
      BY <1>w, <3>1, EmptySeq, ElementOfSeq, LenProperties
    <3>3. wal.vis[Len(wal.vis)].batch \in Batches
      BY <3>2 DEF Frames
    <3> QED
      BY <1>w, <3>1, <3>3, Appended DEF Graphs
  <2> HIDE DEF g
  <2>2. Len(g) \in 0..MaxSeq
    BY <1>w, <2>1, ConstantsAssumption
  <2>3. CASE AdvanceOk(Len(g)) /\ graph' = g /\ pc' \in {"compact_snapshot", "idle"}
    BY <1>9, <1>a, <2>1, <2>2, <2>3 DEF ApplyCommit
  <2>4. CASE AdvanceErr(Len(g)) /\ graph' = graph /\ pc' = "idle"
    BY <1>9, <1>w, <1>a, <2>1, <2>2, <2>4 DEF ApplyCommit, Opening, Advancing
  <2> QED
    BY <1>9, <2>3, <2>4 DEF ApplyCommit, Published, g
<1>10. CASE FlushCommit
  <2>1. ~ poisoned /\ pc' = "idle"
    BY <1>10, <1>m DEF FlushCommit, Advancing
  <2>2. UNCHANGED <<dir, snapshot, graph>>
    BY <1>10 DEF FlushCommit
  <2>3. AdvanceOk(Len(graph)) \/ AdvanceErr(Len(graph))
    BY <1>10 DEF FlushCommit
  <2> QED
    BY <1>w, <1>a, <2>1, <2>2, <2>3 DEF Opening, Advancing
<1>11. CASE CloseCommit
  <2>1. ~ poisoned /\ pc' = "close_manifest"
    BY <1>11, <1>m DEF CloseCommit, Advancing
  <2>2. UNCHANGED <<dir, snapshot, graph>>
    BY <1>11 DEF CloseCommit
  <2>3. AdvanceOk(Len(graph)) \/ AdvanceErr(Len(graph))
    BY <1>11 DEF CloseCommit
  <2> QED
    BY <1>w, <1>a, <2>1, <2>2, <2>3 DEF Opening, Advancing
<1>12. CASE CloseManifest
  <2> DEFINE d == PutManifest(dir.vis,
                     ManifestRecord(snapshot, epoch, durable_seq, ~ poisoned))
  <2>1. d \in Dirs /\ d.man.snap.seq <= MaxSeq
    <3>1. d \in Dirs
      BY <1>0, <1>w, ManifestType, DirTypes DEF TypeOK
    <3> QED
      BY <1>w, <3>1 DEF PutManifest, ManifestRecord, Dirs
  <2>2. \A x \in dir'.crash : x.man.snap.seq <= MaxSeq
    BY <1>0, <1>12, <2>1, AtomicMarker DEF CloseManifest
  <2> QED
    BY <1>12, <1>g, <1>m, <2>2 DEF CloseManifest
<1>13. CASE CompactSnapshot
  <2> DEFINE d == PutSnapshot(dir.vis, NewSnapshot)
  <2>1. d \in Dirs /\ d.man.snap.seq <= MaxSeq
    BY <1>w, <1>n, EmptyDirType, DirTypes DEF PutSnapshot, Dirs
  <2>2. \A x \in dir'.crash : x.man.snap.seq <= MaxSeq
    BY <1>0, <1>m, <1>13, <2>1, AtomicMarker DEF CompactSnapshot
  <2>3. /\ pc \in Advancing /\ pc' \in {"idle", "compact_manifest"}
        /\ UNCHANGED <<commit, graph, durable_seq, snapshot, poisoned>>
    BY <1>13 DEF CompactSnapshot, CompactReturns, Advancing
  <2> QED
    BY <1>u, <1>w, <1>m, <2>2, <2>3
<1>14. CASE CompactManifest
  <2> DEFINE d == PutManifest(dir.vis,
                     ManifestRecord(NewSnapshot, epoch, Len(graph), FALSE))
  <2>1. d \in Dirs /\ d.man.snap.seq <= MaxSeq
    <3>1. Len(graph) \in Nat /\ FALSE \in BOOLEAN
      BY <1>w
    <3>2. ManifestRecord(NewSnapshot, epoch, Len(graph), FALSE) \in Manifests
      BY <1>w, <1>n, <3>1, ManifestType, Zenon
    <3>3. d \in Dirs
      BY <1>w, <1>n, <3>2, DirTypes
    <3> QED
      BY <1>w, <1>n, <3>3 DEF PutManifest, ManifestRecord, Dirs
  <2>2. \A x \in dir'.crash : x.man.snap.seq <= MaxSeq
    BY <1>0, <1>14, <2>1, AtomicMarker DEF CompactManifest
  <2>3. /\ pc \in Advancing /\ pc' \in {"idle", "compact_commit"}
        /\ snapshot' \in {snapshot, NewSnapshot}
        /\ UNCHANGED <<commit, graph, durable_seq, poisoned>>
    BY <1>14 DEF CompactManifest, CompactReturns, Advancing
  <2> QED
    BY <1>u, <1>w, <1>n, <1>m, <2>2, <2>3
<1>15. CASE CompactCommit
  <2> DEFINE seq == IF durable_seq >= snapshot.seq THEN durable_seq ELSE snapshot.seq
  <2>1. seq \in 0..MaxSeq
    BY <1>w
  <2>2. ~ poisoned /\ UNCHANGED <<dir, snapshot, graph>>
    BY <1>15, <1>m DEF CompactCommit, Advancing
  <2>3. \/ AdvanceOk(seq) /\ pc' = "compact_truncate"
        \/ AdvanceErr(seq) /\ pc' = "idle"
    BY <1>15 DEF CompactCommit, CompactReturns
  <2> HIDE DEF seq
  <2>4. CASE AdvanceOk(seq) /\ pc' = "compact_truncate"
    BY <1>w, <1>a, <2>1, <2>2, <2>4
  <2>5. CASE AdvanceErr(seq) /\ pc' = "idle"
    BY <1>w, <1>a, <2>1, <2>2, <2>5 DEF Opening, Advancing
  <2> QED
    BY <2>3, <2>4, <2>5
<1>16. CASE CompactTruncate
  <2>1. /\ UNCHANGED <<commit, dir, graph, durable_seq, snapshot>>
        /\ \/ pc' = "compact_reopen" /\ UNCHANGED poisoned
           \/ pc' = "idle"
    BY <1>16 DEF CompactTruncate, CompactReturns
  <2>2. ~ poisoned
    BY <1>16, <1>m DEF CompactTruncate, Advancing
  <2>3. pc' \in Opening \cup Advancing => ~ poisoned'
    BY <2>1, <2>2 DEF Opening, Advancing
  <2> QED
    BY <1>w, <1>m, <2>1, <2>3 DEF MarkerInv
<1>17. CASE CompactReopen
  <2>1. /\ pc' = "idle" /\ UNCHANGED <<commit, graph, durable_seq, snapshot, poisoned>>
    BY <1>17 DEF CompactReopen, CompactReturns
  <2>2. ASSUME NEW x \in dir'.crash PROVE x.man.snap.seq <= MaxSeq
    <3>1. \/ dir' = dir
          \/ \E gone : dir' = Written(dir, [dir.vis EXCEPT !.snaps = @ \ gone], {})
      BY <1>17 DEF CompactReopen
    <3>2. ASSUME NEW gone PROVE [dir.vis EXCEPT !.snaps = @ \ gone].man = dir.vis.man
      BY <1>w DEF Dirs
    <3>3. CASE dir' = dir
      BY <1>m, <2>2, <3>3
    <3>4. CASE \E gone : dir' = Written(dir, [dir.vis EXCEPT !.snaps = @ \ gone], {})
      <4>1. PICK gone : dir' = Written(dir, [dir.vis EXCEPT !.snaps = @ \ gone], {})
        BY <3>4
      <4>2. x \in dir.crash \/ x.man = dir.vis.man
        BY <2>2, <3>2, <4>1 DEF Written
      <4> QED
        BY <1>w, <1>m, <4>2
    <3> QED
      BY <3>1, <3>3, <3>4
  <2> QED
    BY <1>u, <1>w, <2>1, <2>2 DEF Opening, Advancing
<1>18. CASE SetPolicy
  BY <1>18, <1>u, <1>w, <1>m DEF SetPolicy
<1>19. CASE Flush
  <2>1. /\ UNCHANGED <<commit, dir, graph, durable_seq, snapshot>>
        /\ ~ poisoned
        /\ \/ pc' = "flush_commit" /\ UNCHANGED poisoned
           \/ pc' = "idle"
    BY <1>19, Zenon DEF Flush
  <2>2. pc' \in Opening \cup Advancing => ~ poisoned'
    BY <2>1 DEF Opening, Advancing
  <2> QED
    BY <1>w, <1>m, <2>1, <2>2 DEF MarkerInv
<1>20. CASE Compact
  BY <1>20, <1>u, <1>w, <1>m DEF Compact
<1>21. CASE Close
  <2>1. /\ UNCHANGED <<commit, dir, graph, durable_seq, snapshot>>
        /\ \/ ~ poisoned /\ pc' = "close_commit" /\ UNCHANGED poisoned
           \/ pc' = "close_manifest"
    BY <1>21, Zenon DEF Close
  <2>2. pc' \in Opening \cup Advancing => ~ poisoned'
    BY <2>1 DEF Opening, Advancing
  <2> QED
    BY <1>w, <1>m, <2>1, <2>2 DEF MarkerInv
<1>22. CASE Kill
  BY <1>22, <1>g, <1>m DEF Kill
<1>23. CASE PowerLoss
  <2>1. HandleGone
    BY <1>23 DEF PowerLoss
  <2>2. PICK c \in commit.crash, d \in dir.crash : commit' = Durable(c) /\ dir' = Durable(d)
    BY <1>23 DEF PowerLoss
  <2> QED
    BY <1>g, <1>m, <2>1, <2>2 DEF Durable
<1>24. ASSUME NEW b \in Batches, Apply(b) PROVE MarkerInv'
  <2>1. /\ Len(graph) < MaxSeq /\ ~ poisoned /\ pc = "idle"
        /\ UNCHANGED <<commit, dir, durable_seq, snapshot>>
    BY <1>24 DEF Apply
  <2>2. \/ graph' = Append(graph, b) /\ UNCHANGED poisoned /\ pc' # "apply_commit"
        \/ graph' = graph /\ UNCHANGED poisoned
        \/ graph' = graph /\ pc' = "idle"
    BY <1>24 DEF Apply, Published
  <2>3. Len(graph') <= MaxSeq
    <3>1. Len(Append(graph, b)) = Len(graph) + 1
      BY <1>w, Appended DEF Graphs
    <3> QED
      BY <1>w, <2>1, <2>2, <3>1, ConstantsAssumption
  <2>4. pc' \in Opening \cup Advancing => ~ poisoned'
    BY <2>1, <2>2 DEF Opening, Advancing
  <2>5. pc' = "apply_commit" => Len(graph') < MaxSeq
    BY <2>1, <2>2
  <2> QED
    BY <1>w, <1>m, <2>1, <2>3, <2>4, <2>5, Zenon DEF MarkerInv
<1>25. CASE UNCHANGED vars
  BY <1>25, <1>u, <1>w, <1>m DEF vars
<1> QED
  BY <1>1, <1>2, <1>3, <1>4, <1>5, <1>6, <1>7, <1>8, <1>9, <1>10, <1>11, <1>12,
     <1>13, <1>14, <1>15, <1>16, <1>17, <1>18, <1>19, <1>20, <1>21, <1>22, <1>23,
     <1>24, <1>25 DEF Next, Create, Open, Running, Client, Crash

\* So they hold in every state.
LEMMA MarkerInvariant == Spec => [](TypeInv /\ MarkerInv)
<1>1. Init => TypeInv /\ MarkerInv
  BY InitTypeInv, InitMarkerInv
<1>2. TypeInv /\ MarkerInv /\ [Next]_vars => (TypeInv /\ MarkerInv)'
  BY NextTypeInv, NextMarkerInv
<1> QED
  BY <1>1, <1>2, PTL DEF Spec

\* A step that leaves COMMIT alone opens the register, drops it or stutters.
LEMMA MarkerLeftAlone ==
  ASSUME UNCHANGED commit
  PROVE  [Marker!Next]_(Marker!vars)
BY DEF Marker!Next, Marker!Open, Marker!Drop, Marker!vars

\* Every advance, finished or not, is one of the register.
LEMMA MarkerAdvances ==
  ASSUME MarkerInv, NEW seq \in 0..MaxSeq, pc \in Advancing,
         \/ AdvanceOk(seq) /\ pc' \notin {"closed", "create_wal", "create_commit",
                                          "create_manifest"}
         \/ AdvanceErr(seq)
         \/ commit' \in Interrupted(commit, seq, {}) /\ HandleGone
  PROVE  [Marker!Next]_(Marker!vars)
<1>1. ~ poisoned /\ pc \notin {"closed", "create_wal", "create_commit", "create_manifest"}
  BY DEF MarkerInv, Advancing
<1>i. Marker!Interrupted(commit, seq, {}) = Interrupted(commit, seq, {})
  BY DEF Marker!Interrupted, Marker!FailedWrite, Marker!FailedSync, Marker!Written,
     Marker!Durable, Interrupted, FailedWrite, FailedSync, Written, Durable
<1>m. seq \in 0..MaxSeq
  OBVIOUS
<1>2. CASE /\ AdvanceOk(seq)
           /\ pc' \notin {"closed", "create_wal", "create_commit", "create_manifest"}
  <2>1. ~ poisoned' /\ commit' = Durable(seq)
    BY <1>1, <1>2, Zenon DEF AdvanceOk
  <2>2. Marker!Advance(seq)
    BY <1>1, <1>2, <2>1, Zenon DEF Marker!Advance, Marker!Durable, Durable
  <2> QED
    BY <2>2 DEF Marker!Next
<1>3. CASE AdvanceErr(seq)
  <2>1. poisoned' /\ commit' \in Interrupted(commit, seq, {})
    BY <1>3, Zenon DEF AdvanceErr, Poison
  <2>2. Marker!Fail(seq)
    BY <1>1, <1>i, <2>1, Zenon DEF Marker!Fail
  <2> QED
    BY <2>2 DEF Marker!Next
<1>4. CASE commit' \in Interrupted(commit, seq, {}) /\ HandleGone
  <2>1. pc' = "closed"
    BY <1>4 DEF HandleGone
  <2>2. Marker!Fail(seq)
    BY <1>1, <1>4, <1>i, <2>1, Zenon DEF Marker!Fail
  <2> QED
    BY <2>2 DEF Marker!Next
<1> QED
  BY <1>2, <1>3, <1>4

\* Every step of the store is one of the register, or leaves it alone.
LEMMA NextMarker ==
  TypeInv /\ MarkerInv /\ [Next]_vars => [Marker!Next]_(Marker!vars)
<1> SUFFICES ASSUME TypeInv, MarkerInv, [Next]_vars PROVE [Marker!Next]_(Marker!vars)
  OBVIOUS
<1>w. /\ graph \in Graphs /\ Len(graph) \in 0..MaxSeq /\ durable_seq \in 0..MaxSeq
      /\ snapshot.seq \in 0..MaxSeq /\ wal.vis \in Seq(Frames)
  <2>1. TypeOK
    BY DEF TypeInv
  <2>2. Len(graph) \in 0..MaxSeq /\ durable_seq \in 0..MaxSeq
    BY <2>1, NewSnapshotType, ConstantsAssumption DEF TypeOK, MarkerInv
  <2>3. graph \in Graphs /\ snapshot.seq \in 0..MaxSeq /\ wal.vis \in Seq(Frames)
    BY <2>1, ConstantsAssumption DEF TypeOK, Snapshots, File, MarkerInv
  <2> QED
    BY <2>2, <2>3
<1>1. CASE UNCHANGED commit
  BY <1>1, MarkerLeftAlone
<1>2. CASE OpenCommit
  <2>1. \/ AdvanceOk(durable_seq) /\ pc' = "open_manifest"
        \/ commit' \in Interrupted(commit, durable_seq, {}) /\ HandleGone
    BY <1>2, Zenon DEF OpenCommit
  <2>2. pc \in Advancing
    BY <1>2 DEF OpenCommit, Advancing
  <2> QED
    BY <1>w, <2>1, <2>2, MarkerAdvances
<1>3. CASE ApplyCommit
  <2> DEFINE g == Append(graph, wal.vis[Len(wal.vis)].batch)
  <2>1. wal.vis # << >> /\ Len(graph) < MaxSeq
    BY <1>3 DEF ApplyCommit, TypeInv, MarkerInv
  <2>2. wal.vis[Len(wal.vis)].batch \in Batches
    <3>1. wal.vis[Len(wal.vis)] \in Frames
      BY <1>w, <2>1, EmptySeq, ElementOfSeq, LenProperties
    <3> QED
      BY <3>1 DEF Frames
  <2>3. Len(g) = Len(graph) + 1
    BY <1>w, <2>2, Appended DEF Graphs
  <2>4. /\ pc \in Advancing
        /\ \/ AdvanceOk(Len(g)) /\ pc' \in {"compact_snapshot", "idle"}
           \/ AdvanceErr(Len(g))
    BY <1>3 DEF ApplyCommit, Published, Advancing
  <2> HIDE DEF g
  <2>5. Len(g) \in 0..MaxSeq
    BY <1>w, <2>1, <2>3, ConstantsAssumption
  <2> QED
    BY <2>4, <2>5, MarkerAdvances
<1>4. CASE FlushCommit
  <2>1. /\ pc \in Advancing /\ pc' = "idle"
        /\ AdvanceOk(Len(graph)) \/ AdvanceErr(Len(graph))
    BY <1>4 DEF FlushCommit, Advancing
  <2> QED
    BY <1>w, <2>1, MarkerAdvances
<1>5. CASE CloseCommit
  <2>1. /\ pc \in Advancing /\ pc' = "close_manifest"
        /\ AdvanceOk(Len(graph)) \/ AdvanceErr(Len(graph))
    BY <1>5 DEF CloseCommit, Advancing
  <2> QED
    BY <1>w, <2>1, MarkerAdvances
<1>6. CASE CompactCommit
  <2> DEFINE seq == IF durable_seq >= snapshot.seq THEN durable_seq ELSE snapshot.seq
  <2>1. seq \in 0..MaxSeq
    BY <1>w
  <2>2. /\ pc \in Advancing
        /\ \/ AdvanceOk(seq) /\ pc' = "compact_truncate"
           \/ AdvanceErr(seq)
    BY <1>6 DEF CompactCommit, Advancing
  <2> HIDE DEF seq
  <2> QED
    BY <2>1, <2>2, MarkerAdvances
<1>7. CASE PowerLoss
  <2>1. PICK c \in commit.crash : commit' = Durable(c)
    BY <1>7 DEF PowerLoss
  <2>2. pc' = "closed"
    BY <1>7 DEF PowerLoss, HandleGone
  <2>3. commit' = Marker!Durable(c)
    BY <2>1 DEF Durable, Marker!Durable
  <2>4. Marker!Cut
    BY <2>2, <2>3, Zenon DEF Marker!Cut
  <2> QED
    BY <2>4 DEF Marker!Next
<1>8. CASE Create \/ OpenScan \/ OpenTruncate \/ OpenManifest
  BY <1>1, <1>8 DEF Create, CreateSnapshot, CreateWal, CreateCommit, CreateManifest,
     OpenScan, OpenTruncate, OpenManifest, disk
<1>9. CASE \/ CloseManifest \/ CompactSnapshot \/ CompactManifest
           \/ CompactTruncate \/ CompactReopen
  BY <1>1, <1>9 DEF CloseManifest, CompactSnapshot, CompactManifest, CompactTruncate,
     CompactReopen
<1>10. CASE Client \/ Kill
  BY <1>1, <1>10 DEF Client, Apply, SetPolicy, Flush, Compact, Close, Kill, disk
<1>11. CASE UNCHANGED vars
  BY <1>1, <1>11 DEF vars, disk
<1> QED
  BY <1>2, <1>3, <1>4, <1>5, <1>6, <1>7, <1>8, <1>9, <1>10, <1>11
     DEF Next, Open, Running, Crash

\* The store uses COMMIT as CommitRegister promises it, for any constants: a
\* marker is advanced only by a writer none of whose steps has failed, after
\* COMMIT was opened, and a crash or an error leaves the old marker or the new.
THEOREM MarkerRefinement == Spec => UsesMarkerAsRegister
<1>1. Init => Marker!Init
  <2>1. Init => commit = Marker!Durable(0)
    BY DEF Init, Durable, Marker!Durable
  <2> QED
    BY <2>1, Zenon DEF Marker!Init
<1> QED
  BY <1>1, MarkerInvariant, NextMarker, PTL DEF UsesMarkerAsRegister, Marker!Spec, Spec


(***************************************************************************)
(* The store never loses what it acknowledged, for any batches, policies,  *)
(* thresholds and crash kinds, and for any number of failing writes and    *)
(* syncs: the inductive invariant of NoSilentLoss and its proof.           *)
(*                                                                         *)
(* A power cut picks the log, the marker and the directory independently,  *)
(* so the argument is about every pair of crash images: each marker covers *)
(* the acknowledged graph, each snapshot a MANIFEST may select agrees with *)
(* it, and each log does, beyond each of these snapshots.                  *)
(*                                                                         *)
(* The second part is about what was attempted: with one failing write or  *)
(* sync at most, nothing else is recovered, and the store implements       *)
(* DurableStore.                                                           *)
(***************************************************************************)

(***************************************************************************)
(* The inductive invariant.                                                *)
(***************************************************************************)
NoHandle == {"closed", "create_wal", "create_commit", "create_manifest"}
Recovering == {"open_truncate", "open_commit", "open_manifest"}

(* The MANIFESTs a power cut may leave, and the snapshots they select or   *)
(* will select when the writer's own MANIFEST is written.                  *)
Mans  == {d.man : d \in dir.crash}
Snaps == {m.snap : m \in Mans} \cup (IF pc \in NoHandle THEN {} ELSE {snapshot})

(* What a snapshot holds of g is what g says; so are the frames of a log   *)
(* beyond seq n.  A log without a stray has no frame beyond g.             *)
SnapAgrees(s, g)   == \A k \in 1..Len(g) : k <= s.seq => s.data[k] = g[k]
LogAgrees(w, n, g) == \A i \in Scanned(w) :
                        n < w[i].seq /\ w[i].seq <= Len(g) => w[i].batch = g[w[i].seq]
NoStray(w, g)      == \A i \in Scanned(w) : w[i].seq <= Len(g)

(* Any two logs of W hold the same batches between seqs n and c.           *)
SameBatches(W, n, c) ==
  \A v, w \in W : \A i \in Scanned(v), j \in Scanned(w) :
    v[i].seq = w[j].seq /\ n < v[i].seq /\ v[i].seq <= c => v[i].batch = w[j].batch

InOrder(w) == \A i, j \in Scanned(w) : i < j => w[i].seq < w[j].seq

(* What every crash image has to do with the acknowledged graph.           *)
AckedIsKept ==
  /\ \A c \in commit.crash : Len(acked) <= c
  /\ \A s \in Snaps : SnapAgrees(s, acked)
  /\ \A w \in wal.crash, s \in Snaps : LogAgrees(w, s.seq, acked)

(* The crash images of the log among themselves, as the next open may see  *)
(* one of them and a later power cut another.                              *)
LogsAgree ==
  /\ \A w \in wal.crash : InOrder(w)
  /\ SameBatches(wal.crash, dir.vis.man.snap.seq, commit.vis)
  /\ pc \notin NoHandle => SameBatches(wal.crash, snapshot.seq, commit.vis)

(* A live writer: its log and every snapshot are of the graph in memory,   *)
(* with the frame the running apply has appended.                          *)
LiveWriter ==
  /\ Extends(graph, acked) /\ durable_seq <= Len(graph) /\ commit.vis <= Len(graph)
  /\ attempt = IF pc = "apply_commit"
               THEN Append(graph, wal.vis[Len(wal.vis)].batch) ELSE graph
  /\ \A s \in Snaps : s.seq <= Len(graph) /\ Extends(graph, s.data)
                      /\ LogAgrees(wal.vis, s.seq, attempt)
  /\ NoStray(wal.vis, attempt)
  /\ snapshot.seq <= dir.vis.man.snap.seq
  /\ pc \in {"apply_commit", "flush_commit", "close_commit"} => wal.crash = {wal.vis}
  /\ pc = "compact_commit" =>
       /\ snapshot.seq = Len(graph)
       /\ \A m \in Mans : m.snap = snapshot

(* Between the scan of a recovery and the handle it returns.               *)
RecoveringWriter ==
  /\ snapshot = dir.vis.man.snap /\ durable_seq = Len(graph)
  /\ Extends(graph, acked) /\ snapshot.seq <= Len(graph) /\ Extends(graph, snapshot.data)
  /\ \A w \in wal.crash : LogAgrees(w, snapshot.seq, graph)
  /\ IF pc = "open_truncate" THEN wal.vis # << >> ELSE NoStray(wal.vis, graph)
  /\ pc = "open_manifest" => commit = Durable(durable_seq)

(* Where a MANIFEST may be missing nothing was ever stored.                *)
CreatedEmpty ==
  /\ \A m \in Mans : m # NoManifest => m.epoch > 0
  /\ NoManifest \in Mans =>
       /\ acked = << >> /\ attempt = << >>
       /\ wal = Durable(<< >>) /\ commit = Durable(0) /\ durable_seq = 0
       /\ \A m \in Mans : m.snap = NoSnapshot
       /\ ~ HandleOpen
  /\ pc \in NoHandle => graph = << >> /\ durable_seq = 0 /\ ~ poisoned
  /\ pc \in NoHandle \ {"closed"} => dir.vis.man = NoManifest
  /\ pc \notin NoHandle \ {"create_manifest"} => epoch > 0
  /\ poisoned => pc \in {"idle", "close_manifest"}

DurabilityInv ==
  /\ AckedIsKept /\ LogsAgree /\ CreatedEmpty
  /\ HandleOpen /\ ~ poisoned => LiveWriter
  /\ pc \in Recovering => RecoveringWriter

(***************************************************************************)
(* Logs: what a scan finds in a shorter, a torn and a longer one.          *)
(***************************************************************************)
(* Every frame a scan of v finds, a scan of w finds in the same place.     *)
Within(v, w) == \A i \in Scanned(v) : i \in Scanned(w) /\ v[i] = w[i]

\* The empty log, the log itself and every prefix of it are within a log.
LEMMA WithinPrefix ==
  ASSUME NEW w \in Seq(Frames)
  PROVE  /\ Within(<< >>, w) /\ Within(w, w)
         /\ \A n \in 0..Len(w) : Within(SubSeq(w, 1, n), w)
<1>1. Within(<< >>, w) /\ Within(w, w)
  BY EmptySeq DEF Within, Scanned
<1>2. ASSUME NEW n \in 0..Len(w) PROVE Within(SubSeq(w, 1, n), w)
  <2> DEFINE v == SubSeq(w, 1, n)
  <2>1. Len(w) \in Nat /\ \A i \in 1..n : w[i] \in Frames
    BY <1>2, ElementOfSeq
  <2>2. v \in Seq(Frames) /\ Len(v) = n /\ \A i \in 1..n : v[i] = w[i]
    BY <1>2, <2>1, SubSeqProperties
  <2> HIDE DEF v
  <2>3. DOMAIN v = 1..n /\ DOMAIN w = 1..Len(w)
    BY <2>2
  <2>4. ASSUME NEW i \in Scanned(v) PROVE i \in Scanned(w) /\ v[i] = w[i]
    <3>1. i \in 1..n /\ \A j \in 1..i : v[j].ok
      BY <2>3, <2>4 DEF Scanned
    <3>2. i \in 1..Len(w) /\ \A j \in 1..i : v[j] = w[j]
      BY <1>2, <2>1, <2>2, <3>1
    <3>3. \A j \in 1..i : w[j].ok
      BY <3>1, <3>2
    <3> QED
      BY <2>2, <2>3, <3>1, <3>2, <3>3 DEF Scanned
  <2> QED
    BY <2>4 DEF Within, v
<1> QED
  BY <1>1, <1>2

(* v is s with x at its end.                                               *)
Grown(v, s, x) == v = Append(s, x)

\* One more frame: a scan finds at most that one more, and a torn one not.
LEMMA ScanAppended ==
  ASSUME NEW w \in Seq(Frames), NEW f \in Frames, NEW v, Grown(v, w, f),
         NEW i \in Scanned(v)
  PROVE  \/ i \in Scanned(w) /\ v[i] = w[i]
         \/ i = Len(w) + 1 /\ v[i] = f /\ f.ok
<1>1. v \in Seq(Frames) /\ Len(v) = Len(w) + 1 /\ Len(w) \in Nat /\ v[Len(w) + 1] = f
      /\ \A k \in 1..Len(w) : v[k] = w[k]
  BY Appended DEF Grown
<1>2. DOMAIN v = 1..(Len(w) + 1) /\ DOMAIN w = 1..Len(w)
  BY <1>1
<1>3. i \in 1..(Len(w) + 1) /\ \A j \in 1..i : v[j].ok
  BY <1>2 DEF Scanned
<1>4. CASE i = Len(w) + 1
  <2>1. i \in 1..i
    BY <1>1, <1>4
  <2> QED
    BY <1>1, <1>3, <1>4, <2>1
<1>5. CASE i # Len(w) + 1
  <2>1. i \in 1..Len(w) /\ \A j \in 1..i : v[j] = w[j]
    BY <1>1, <1>3, <1>5
  <2>2. i \in Scanned(w)
    BY <1>2, <1>3, <2>1 DEF Scanned
  <2> QED
    BY <1>1, <2>1, <2>2
<1> QED
  BY <1>4, <1>5

\* So a log with a torn frame at its end is within the log before it.
LEMMA WithinTorn ==
  ASSUME NEW w \in Seq(Frames), NEW n \in Nat, NEW b \in Batches
  PROVE  Within(Append(w, Frame(n + 1, b, FALSE)), w)
<1> DEFINE f == Frame(n + 1, b, FALSE)
<1>1. f \in Frames /\ ~ f.ok
  BY DEF Frame, Frames
<1> DEFINE v == Append(w, f)
<1> HIDE DEF f
<1>2. Grown(v, w, f)
  BY DEF Grown
<1> HIDE DEF v
<1>3. ASSUME NEW i \in Scanned(v) PROVE i \in Scanned(w) /\ v[i] = w[i]
  BY <1>1, <1>2, ScanAppended
<1> QED
  BY <1>3 DEF Within, v, f

\* What holds of a log holds of every log within it.
LEMMA WithinKeeps ==
  ASSUME NEW v, NEW w, Within(v, w)
  PROVE  /\ \A n, g : LogAgrees(w, n, g) => LogAgrees(v, n, g)
         /\ \A g : NoStray(w, g) => NoStray(v, g)
         /\ InOrder(w) => InOrder(v)
BY DEF Within, LogAgrees, NoStray, InOrder

\* A scanned frame has a number.
LEMMA ScannedFrame ==
  ASSUME NEW w \in Seq(Frames), NEW i \in Scanned(w)
  PROVE  /\ w[i] \in Frames /\ w[i].seq \in Nat /\ w[i].batch \in Batches
         /\ i \in 1..Len(w) /\ Len(w) \in Nat
<1>1. i \in 1..Len(w) /\ Len(w) \in Nat
  BY DEF Scanned
<1>2. w[i] \in Frames
  BY <1>1, ElementOfSeq
<1> QED
  BY <1>1, <1>2 DEF Frames

\* In a log in order a seq names one frame.
LEMMA OrderIsUnique ==
  ASSUME NEW w \in Seq(Frames), InOrder(w), NEW i \in Scanned(w), NEW j \in Scanned(w),
         w[i].seq = w[j].seq
  PROVE  i = j
<1>1. i \in Nat /\ j \in Nat /\ w[i].seq \in Nat /\ w[j].seq \in Nat
  BY ScannedFrame
<1>2. ~ (i < j) /\ ~ (j < i)
  BY <1>1 DEF InOrder
<1> QED
  BY <1>1, <1>2

\* What open() keeps of a log in order has no frame beyond the high water.
LEMMA KeptIsCommitted ==
  ASSUME NEW w \in Seq(Frames), InOrder(w), NEW hw \in Nat
  PROVE  /\ Within(CommittedPart(w, hw), w)
         /\ \A i \in Scanned(CommittedPart(w, hw)) : CommittedPart(w, hw)[i].seq <= hw
<1> DEFINE C == Committed(w, hw)
           m == Cardinality(C)
           v == CommittedPart(w, hw)
<1>1. m \in 0..Len(w) /\ Len(w) \in Nat /\ v = SubSeq(w, 1, m)
  BY CommittedPartType DEF CommittedPart
<1>2. Within(v, w)
  BY <1>1, WithinPrefix
<1>3. ASSUME NEW i \in Scanned(v), ~ (v[i].seq <= hw) PROVE FALSE
  <2>1. i \in Scanned(w) /\ v[i] = w[i] /\ i \in 1..Len(w) /\ w[i].seq \in Nat
    BY <1>2, <1>3, ScannedFrame DEF Within
  <2>2. i \in 1..m
    <3>0. \A k \in 1..m : w[k] \in Frames
      BY <1>1, ElementOfSeq
    <3>1. v \in Seq(Frames) /\ Len(v) = m
      BY <1>1, <3>0, SubSeqProperties
    <3> QED
      BY <1>3, <3>1 DEF Scanned
  <2>3. C \subseteq 1..(i - 1)
    <3>1. ASSUME NEW c \in C PROVE c \in 1..(i - 1)
      <4>1. c \in Scanned(w) /\ w[c].seq <= hw /\ c \in 1..Len(w) /\ w[c].seq \in Nat
        BY <3>1, ScannedFrame DEF Committed
      <4>2. c # i /\ ~ (i < c)
        BY <1>3, <2>1, <4>1 DEF InOrder
      <4> QED
        BY <2>1, <4>1, <4>2
    <3> QED
      BY <3>1
  <2>4. IsFiniteSet(1..(i - 1)) /\ Cardinality(1..(i - 1)) = i - 1
    <3>1. 1 \in Int /\ i - 1 \in Int /\ (1 > i - 1 => i - 1 = 0)
      BY <2>2
    <3>2. /\ IsFiniteSet(1..(i - 1))
          /\ Cardinality(1..(i - 1)) = IF 1 > i - 1 THEN 0 ELSE i - 1 - 1 + 1
      BY <3>1, FS_Interval
    <3> QED
      BY <3>1, <3>2
  <2>5. m <= i - 1
    BY <2>3, <2>4, FS_Subset
  <2> QED
    BY <1>1, <2>2, <2>5
<1> QED
  BY <1>2, <1>3

(***************************************************************************)
(* Recovery reads back what the log and the snapshot agree on.             *)
(***************************************************************************)
\* A graph the log and the snapshot agree with is a prefix of the recovered
\* one, if the high water reaches its end.
LEMMA RecoveredHolds ==
  ASSUME NEW w \in Seq(Frames), NEW c \in Nat, NEW d \in Dirs, Recoverable(w, c, d),
         NEW g \in Graphs, LogAgrees(w, d.man.snap.seq, g), SnapAgrees(d.man.snap, g),
         Len(g) <= HighWater(c, d)
  PROVE  Extends(RecoveredGraph(w, c, d), g)
<1> DEFINE r  == RecoveredGraph(w, c, d)
           hw == HighWater(c, d)
           n  == d.man.snap.seq
<1>1. /\ hw \in Nat /\ n \in Nat /\ r \in Graphs /\ Len(r) = hw
      /\ Len(g) \in Nat /\ DOMAIN g = 1..Len(g)
  BY HighWaterType, RecoveredGraphType DEF Graphs
<1>2. ASSUME NEW k \in 1..Len(g) PROVE r[k] = g[k]
  <2>1. k \in 1..hw
    BY <1>1
  <2>2. CASE k <= n
    <3>1. r[k] = d.man.snap.data[k]
      BY <2>1, <2>2 DEF RecoveredGraph
    <3> QED
      BY <2>2, <3>1 DEF SnapAgrees
  <2>3. CASE ~ (k <= n)
    <3> DEFINE i == FrameOf(w, hw, d, k)
    <3>1. k \in (n + 1)..hw /\ NoGap(w, hw, d)
      BY <1>1, <2>1, <2>3 DEF Recoverable
    <3>2. i \in Replayed(w, hw, d) /\ w[i].seq = k
      BY <1>1, <3>1, ReplayedFrame
    <3>3. r[k] = w[i].batch
      BY <2>1, <2>3 DEF RecoveredGraph
    <3> HIDE DEF i
    <3>4. i \in Scanned(w) /\ n < w[i].seq /\ w[i].seq <= Len(g)
      BY <1>1, <2>3, <3>2 DEF Replayed, Committed
    <3>5. w[i].batch = g[w[i].seq]
      BY <3>4 DEF LogAgrees
    <3> QED
      BY <3>2, <3>3, <3>5
  <2> QED
    BY <2>2, <2>3
<1> HIDE DEF r, hw
<1> QED
  BY <1>1, <1>2 DEF Extends, r, hw

\* And the recovered graph agrees with the log and the snapshot it is from.
LEMMA RecoveredAgrees ==
  ASSUME NEW w \in Seq(Frames), NEW c \in Nat, NEW d \in Dirs, Recoverable(w, c, d)
  PROVE  /\ LogAgrees(w, d.man.snap.seq, RecoveredGraph(w, c, d))
         /\ Extends(RecoveredGraph(w, c, d), d.man.snap.data)
         /\ d.man.snap.seq <= Len(RecoveredGraph(w, c, d))
<1> DEFINE r  == RecoveredGraph(w, c, d)
           hw == HighWater(c, d)
           n  == d.man.snap.seq
<1>1. /\ hw \in Nat /\ n \in Nat /\ n <= hw /\ r \in Graphs /\ Len(r) = hw
      /\ d.man.snap.data \in Graphs /\ Len(d.man.snap.data) = n
  BY HighWaterType, RecoveredGraphType
<1>2. ASSUME NEW i \in Scanned(w), n < w[i].seq, w[i].seq <= Len(r)
      PROVE  w[i].batch = r[w[i].seq]
  <2> DEFINE j == FrameOf(w, hw, d, w[i].seq)
  <2>1. /\ w[i].seq \in (n + 1)..hw /\ w[i].seq \in 1..hw /\ ~ (w[i].seq <= n)
        /\ NoGap(w, hw, d)
    BY <1>1, <1>2, ScannedFrame DEF Recoverable
  <2>2. i \in Replayed(w, hw, d)
    BY <1>1, <1>2 DEF Replayed, Committed
  <2>3. j \in Replayed(w, hw, d) /\ w[j].seq = w[i].seq
    <3> HIDE DEF hw
    <3> QED
      BY <1>1, <2>1, ReplayedFrame
  <2>4. r[w[i].seq] = w[j].batch
    BY <2>1 DEF RecoveredGraph
  <2> HIDE DEF j
  <2>5. i = j
    <3>1. i \in Nat /\ j \in Nat /\ w[i].seq \in Nat /\ w[j].seq \in Nat
      BY <2>2, <2>3, ScannedFrame DEF Replayed, Committed
    <3>2. ~ (i < j) /\ ~ (j < i)
      BY <2>1, <2>2, <2>3, <3>1 DEF NoGap
    <3> QED
      BY <3>1, <3>2
  <2> QED
    BY <2>4, <2>5
<1>3. ASSUME NEW k \in 1..n PROVE r[k] = d.man.snap.data[k]
  <2>1. k \in 1..hw /\ k <= n
    BY <1>1
  <2> QED
    BY <2>1 DEF RecoveredGraph
<1> HIDE DEF r, hw
<1>4. LogAgrees(w, n, r)
  BY <1>2 DEF LogAgrees
<1>5. DOMAIN d.man.snap.data = 1..n
  BY <1>1 DEF Graphs
<1> QED
  BY <1>1, <1>3, <1>4, <1>5 DEF Extends, r, hw

\* Without a tail every scanned frame is within the high water.
LEMMA NoTailNoStray ==
  ASSUME NEW w \in Seq(Frames), NEW hw \in Nat, ~ HasTail(w, hw)
  PROVE  \A i \in Scanned(w) : w[i].seq <= hw
<1>1. /\ Cardinality(Committed(w, hw)) = Len(w) /\ Len(w) \in Nat
      /\ Committed(w, hw) \subseteq 1..Len(w)
  BY CommittedPartType DEF HasTail, Committed, Scanned
<1>2. IsFiniteSet(1..Len(w)) /\ Cardinality(1..Len(w)) = Len(w)
  <2>1. 1 \in Int /\ Len(w) \in Int /\ (1 > Len(w) => Len(w) = 0)
    BY <1>1
  <2>2. /\ IsFiniteSet(1..Len(w))
        /\ Cardinality(1..Len(w)) = IF 1 > Len(w) THEN 0 ELSE Len(w) - 1 + 1
    BY <2>1, FS_Interval
  <2> QED
    BY <1>1, <2>1, <2>2
<1>3. Committed(w, hw) = 1..Len(w)
  BY <1>1, <1>2, FS_Subset
<1> QED
  BY <1>3 DEF Committed, Scanned

\* So the invariant says what it is for: no crash image loses a batch.
LEMMA NothingLost ==
  ASSUME TypeOK, AckedIsKept
  PROVE  NoSilentLoss
<1> SUFFICES ASSUME NEW w \in wal.crash, NEW c \in commit.crash, NEW d \in dir.crash,
                    Recoverable(w, c, d)
             PROVE  Extends(RecoveredGraph(w, c, d), acked)
  BY DEF NoSilentLoss
<1>1. w \in Seq(Frames) /\ c \in Nat /\ d \in Dirs /\ acked \in Graphs
  BY DEF TypeOK, File
<1>2. d.man.snap \in Snaps /\ Len(acked) <= c
  BY DEF Snaps, Mans, AckedIsKept
<1>3. LogAgrees(w, d.man.snap.seq, acked) /\ SnapAgrees(d.man.snap, acked)
  BY <1>2 DEF AckedIsKept
<1>4. Len(acked) <= HighWater(c, d)
  <2>1. HighWater(c, d) \in Nat /\ HighWater(c, d) >= c /\ Len(acked) \in Nat
    BY <1>1, HighWaterType DEF Graphs
  <2> QED
    BY <1>1, <1>2, <2>1
<1> QED
  BY <1>1, <1>3, <1>4, RecoveredHolds

(***************************************************************************)
(* What a step may do to the log, to the MANIFEST and to the marker.       *)
(***************************************************************************)
(* No frame is new.                                                        *)
LogsWithin == \A v \in wal'.crash : \E w \in wal.crash : Within(v, w)

(* The MANIFEST stays, or m is put in its place.                           *)
ManStays  == Mans' \subseteq Mans /\ dir'.vis.man = dir.vis.man
ManPut(m) == Mans' \subseteq Mans \cup {m} /\ dir'.vis.man \in {dir.vis.man, m}

\* The types, taken apart.
LEMMA Shapes ==
  ASSUME TypeOK
  PROVE  /\ wal.vis \in wal.crash /\ \A w \in wal.crash : w \in Seq(Frames)
         /\ commit.vis \in commit.crash /\ \A c \in commit.crash : c \in Nat
         /\ dir.vis \in dir.crash /\ \A d \in dir.crash : d \in Dirs
         /\ graph \in Graphs /\ Len(graph) \in Nat /\ DOMAIN graph = 1..Len(graph)
         /\ acked \in Graphs /\ Len(acked) \in Nat /\ DOMAIN acked = 1..Len(acked)
         /\ snapshot \in Snapshots /\ durable_seq \in Nat /\ epoch \in 0..MaxEpoch
BY DEF TypeOK, File, Graphs

\* The snapshots, taken apart.
LEMMA SnapsShape ==
  ASSUME TypeOK
  PROVE  /\ dir.vis.man \in Mans /\ dir.vis.man.snap \in Snaps
         /\ Mans \subseteq Manifests /\ Snaps \subseteq Snapshots
         /\ \A s \in Snapshots : /\ s.seq \in Nat /\ s.data \in Graphs
                                 /\ Len(s.data) = s.seq /\ DOMAIN s.data = 1..s.seq
<1>1. dir.vis \in dir.crash /\ \A d \in dir.crash : d \in Dirs
  BY Shapes
<1>2. Mans \subseteq Manifests /\ dir.vis.man \in Mans
  BY <1>1 DEF Mans, Dirs
<1>3. snapshot \in Snapshots /\ \A m \in Manifests : m.snap \in Snapshots
  BY DEF TypeOK, Manifests
<1>4. Snaps \subseteq Snapshots /\ dir.vis.man.snap \in Snaps
  BY <1>2, <1>3 DEF Snaps
<1>5. ASSUME NEW s \in Snapshots
      PROVE  /\ s.seq \in Nat /\ s.data \in Graphs
             /\ Len(s.data) = s.seq /\ DOMAIN s.data = 1..s.seq
  BY DEF Snapshots, Graphs
<1> QED
  BY <1>2, <1>4, <1>5

\* A log written over with one within it, or not at all.
LEMMA LogStep ==
  ASSUME TypeOK, NEW v, Within(v, wal.vis),
         wal' \in {wal, Durable(v), Synced(wal)} \cup Interrupted(wal, v, {})
                  \cup FailedWrite(wal, {v})
  PROVE  LogsWithin
<1>1. \A w \in wal.crash : Within(w, w)
  BY Shapes, WithinPrefix
<1>2. wal'.crash \subseteq wal.crash \cup {v}
  BY Shapes DEF Durable, Synced, Interrupted, FailedWrite, FailedSync, Written
<1> QED
  BY <1>1, <1>2, Shapes DEF LogsWithin

\* A directory written over with one of MANIFEST m, or not at all.
LEMMA DirStep ==
  ASSUME TypeOK, NEW d,
         dir' \in {dir, Durable(d), Synced(dir)} \cup Interrupted(dir, d, {})
  PROVE  ManPut(d.man) /\ (d.man = dir.vis.man => ManStays)
<1>1. dir'.crash \subseteq dir.crash \cup {d} /\ dir'.vis \in {dir.vis, d}
  BY Shapes DEF Durable, Synced, Interrupted, FailedWrite, FailedSync, Written
<1>2. ManPut(d.man)
  BY <1>1 DEF ManPut, Mans
<1>3. dir.vis.man \in Mans
  BY SnapsShape
<1> QED
  BY <1>1, <1>2, <1>3 DEF ManPut, ManStays

\* A marker advanced to seq, or not at all.
LEMMA MarkerStep ==
  ASSUME NEW seq, commit' = Durable(seq) \/ commit' \in Interrupted(commit, seq, {})
  PROVE  commit'.crash \subseteq commit.crash \cup {seq} /\ commit'.vis \in {commit.vis, seq}
BY DEF Durable, Interrupted, FailedWrite, FailedSync, Written

(***************************************************************************)
(* How the parts of the invariant are kept.                                *)
(***************************************************************************)
\* Logs within those before, markers at or above the acknowledged graph and
\* snapshots that were there or agree with all that is.
LEMMA AckedStays ==
  ASSUME AckedIsKept, acked' = acked, LogsWithin,
         \A c \in commit'.crash : Len(acked) <= c,
         \A s \in Snaps' : \/ s \in Snaps
                           \/ /\ SnapAgrees(s, acked)
                              /\ \A w \in wal.crash : LogAgrees(w, s.seq, acked)
  PROVE  AckedIsKept'
<1>1. ASSUME NEW s \in Snaps'
      PROVE  SnapAgrees(s, acked) /\ \A w \in wal.crash : LogAgrees(w, s.seq, acked)
  BY DEF AckedIsKept
<1>2. ASSUME NEW s \in Snaps', NEW v \in wal'.crash PROVE LogAgrees(v, s.seq, acked)
  <2>1. PICK w \in wal.crash : Within(v, w)
    BY DEF LogsWithin
  <2> QED
    BY <1>1, <2>1, WithinKeeps
<1> QED
  BY <1>1, <1>2 DEF AckedIsKept

\* Logs within those before, and no wider range of seqs they must agree on.
LEMMA LogsStay ==
  ASSUME LogsAgree, LogsWithin,
         SameBatches(wal.crash, dir'.vis.man.snap.seq, commit'.vis),
         pc' \notin NoHandle => SameBatches(wal.crash, snapshot'.seq, commit'.vis)
  PROVE  LogsAgree'
<1>1. \A v \in wal'.crash : InOrder(v)
  BY WithinKeeps DEF LogsAgree, LogsWithin
<1>2. ASSUME NEW n, NEW c, SameBatches(wal.crash, n, c)
      PROVE  SameBatches(wal'.crash, n, c)
  BY <1>2 DEF SameBatches, LogsWithin, Within
<1> QED
  BY <1>1, <1>2 DEF LogsAgree

\* One log in order agrees with itself.
LEMMA OneLogAgrees ==
  ASSUME NEW w \in Seq(Frames), InOrder(w), NEW n, NEW c
  PROVE  SameBatches({w}, n, c)
<1> SUFFICES ASSUME NEW i \in Scanned(w), NEW j \in Scanned(w), w[i].seq = w[j].seq
             PROVE  w[i].batch = w[j].batch
  BY DEF SameBatches
<1> QED
  BY OrderIsUnique

\* Nothing lies between a seq and one that is no larger; and a narrower range
\* is no stronger a claim.
LEMMA NarrowRange ==
  ASSUME NEW W \in SUBSET Seq(Frames), NEW n \in Nat, NEW c \in Nat
  PROVE  /\ c <= n => SameBatches(W, n, c)
         /\ \A m \in Nat : SameBatches(W, m, c) /\ m <= n => SameBatches(W, n, c)
<1>1. \A v \in W : \A i \in Scanned(v) : v[i].seq \in Nat
  BY ScannedFrame
<1> QED
  BY <1>1 DEF SameBatches

\* A step of an open handle that leaves memory, marker and MANIFEST alone and
\* puts no frame into the log: all but the durable steps of apply, flush and
\* close, and those of a compaction that write the MANIFEST and the marker.
LEMMA QuietStep ==
  ASSUME TypeOK, DurabilityInv, LogsWithin, ManStays,
         UNCHANGED <<commit, graph, snapshot, durable_seq, epoch, acked, attempt>>,
         HandleOpen, pc' \notin Opening,
         \/ poisoned' /\ pc' \in {"idle", "close_manifest"}
         \/ /\ ~ poisoned /\ ~ poisoned'
            /\ pc # "apply_commit" /\ pc' \notin {"apply_commit", "compact_commit"}
            /\ Within(wal'.vis, wal.vis)
            /\ pc' \in {"flush_commit", "close_commit"} => wal'.crash = {wal'.vis}
  PROVE  DurabilityInv'
<1>1. /\ pc \notin NoHandle /\ pc' \notin NoHandle /\ pc' \notin Recovering
      /\ pc \notin NoHandle \ {"create_manifest"}
      /\ pc' \notin NoHandle \ {"create_manifest"} /\ pc' \notin NoHandle \ {"closed"}
  BY DEF HandleOpen, Opening, NoHandle, Recovering
<1>2. AckedIsKept /\ LogsAgree /\ CreatedEmpty /\ (~ poisoned => LiveWriter)
  BY Zenon DEF DurabilityInv
<1>3. Snaps' \subseteq Snaps
  BY <1>1 DEF Snaps, ManStays
<1>4. AckedIsKept'
  BY <1>2, <1>3, AckedStays DEF AckedIsKept
<1>5. LogsAgree'
  BY <1>1, <1>2, LogsStay DEF LogsAgree, ManStays
<1>6. CreatedEmpty'
  <2>1. NoManifest \notin Mans'
    BY <1>2 DEF ManStays, CreatedEmpty
  <2>2. \A m \in Mans' : m # NoManifest => m.epoch > 0
    BY <1>2 DEF ManStays, CreatedEmpty
  <2>3. epoch' > 0
    BY <1>1, <1>2 DEF CreatedEmpty
  <2>4. poisoned' => pc' \in {"idle", "close_manifest"}
    OBVIOUS
  <2> QED
    BY <1>1, <2>1, <2>2, <2>3, <2>4, Zenon DEF CreatedEmpty
<1>7. ASSUME ~ poisoned' PROVE LiveWriter'
  <2>1. /\ ~ poisoned /\ pc # "apply_commit" /\ Within(wal'.vis, wal.vis)
        /\ pc' \notin {"apply_commit", "compact_commit"}
        /\ pc' \in {"flush_commit", "close_commit"} => wal'.crash = {wal'.vis}
    BY <1>7
  <2>2. /\ LiveWriter /\ attempt = graph
    BY <1>2, <2>1 DEF LiveWriter
  <2>3. NoStray(wal'.vis, attempt')
    BY <2>1, <2>2, WithinKeeps DEF LiveWriter
  <2>4. \A s \in Snaps' : /\ s.seq <= Len(graph') /\ Extends(graph', s.data)
                          /\ LogAgrees(wal'.vis, s.seq, attempt')
    BY <1>3, <2>1, <2>2, WithinKeeps DEF LiveWriter
  <2> QED
    BY <2>1, <2>2, <2>3, <2>4 DEF LiveWriter, ManStays
<1> QED
  BY <1>1, <1>4, <1>5, <1>6, <1>7, Zenon DEF DurabilityInv

\* The marker covers the log of an open handle: apply, flush and close.
LEMMA AcknowledgingStep ==
  ASSUME TypeOK, DurabilityInv, ~ poisoned,
         pc \in {"apply_commit", "flush_commit", "close_commit"},
         attempt \in Graphs, AdvanceOk(Len(attempt)),
         acked' = attempt, graph' = attempt, attempt' = attempt,
         UNCHANGED <<wal, dir, snapshot, epoch>>,
         pc' \in {"idle", "compact_snapshot", "close_manifest"}
  PROVE  DurabilityInv'
<1>1. /\ pc \notin NoHandle /\ pc' \notin NoHandle /\ pc' \notin Recovering /\ HandleOpen
      /\ pc \notin NoHandle \ {"create_manifest"}
      /\ pc' \notin NoHandle \ {"create_manifest"} /\ pc' \notin NoHandle \ {"closed"}
  BY DEF HandleOpen, Opening, NoHandle, Recovering
<1>2. /\ LogsAgree /\ CreatedEmpty /\ LiveWriter
      /\ wal.crash = {wal.vis} /\ wal.vis \in Seq(Frames) /\ InOrder(wal.vis)
  <2>1. LogsAgree /\ CreatedEmpty /\ LiveWriter
    BY <1>1, Zenon DEF DurabilityInv
  <2> QED
    BY <2>1, Shapes DEF LiveWriter, LogsAgree
<1>3. Snaps' = Snaps /\ Mans' = Mans
  BY <1>1 DEF Snaps, Mans
<1>4. commit' = Durable(Len(attempt)) /\ durable_seq' = Len(attempt) /\ ~ poisoned'
  BY Zenon DEF AdvanceOk
<1>5. /\ Len(attempt) \in Nat /\ DOMAIN attempt = 1..Len(attempt) /\ Len(graph) <= Len(attempt)
      /\ \A k \in 1..Len(graph) : attempt[k] = graph[k]
  <2>1. attempt = graph \/ attempt = Append(graph, wal.vis[Len(wal.vis)].batch)
    BY <1>2 DEF LiveWriter
  <2>2. graph \in Seq(Batches) /\ Len(graph) \in Nat
    BY Shapes DEF Graphs
  <2> QED
    BY <2>1, <2>2 DEF Graphs
<1>6. \A s \in Snaps : /\ s.seq <= Len(graph) /\ LogAgrees(wal.vis, s.seq, attempt)
                       /\ s.seq \in Nat /\ Len(s.data) = s.seq
                       /\ \A k \in 1..s.seq : s.data[k] = graph[k]
  <2>1. \A s \in Snaps : s.seq \in Nat /\ Len(s.data) = s.seq /\ DOMAIN s.data = 1..s.seq
    BY SnapsShape
  <2> QED
    BY <1>2, <2>1 DEF LiveWriter, Extends
<1>7. AckedIsKept'
  <2>1. \A s \in Snaps : SnapAgrees(s, attempt)
    BY <1>5, <1>6, Shapes DEF SnapAgrees
  <2> QED
    BY <1>2, <1>3, <1>4, <1>6, <2>1 DEF AckedIsKept, Durable
<1>8. LogsAgree'
  <2>1. \A n, c : SameBatches(wal.crash, n, c)
    BY <1>2, OneLogAgrees
  <2> QED
    BY <1>2, <2>1 DEF LogsAgree
<1>9. CreatedEmpty'
  <2>1. NoManifest \notin Mans' /\ epoch' > 0
    BY <1>1, <1>2, <1>3 DEF CreatedEmpty
  <2>2. \A m \in Mans' : m # NoManifest => m.epoch > 0
    BY <1>2, <1>3 DEF CreatedEmpty
  <2> QED
    BY <1>1, <1>4, <2>1, <2>2, Zenon DEF CreatedEmpty
<1>10. LiveWriter'
  <2>1. Extends(graph', acked')
    BY <1>5 DEF Extends
  <2>2. \A s \in Snaps' : /\ s.seq <= Len(graph') /\ Extends(graph', s.data)
                          /\ LogAgrees(wal'.vis, s.seq, attempt')
    <3>1. ASSUME NEW s \in Snaps
          PROVE  s.seq <= Len(attempt) /\ Extends(attempt, s.data)
      <4>1. DOMAIN s.data = 1..s.seq /\ s.seq \in Nat /\ Len(s.data) = s.seq
        BY SnapsShape
      <4>2. Len(graph) \in Nat /\ s.seq <= Len(graph)
        BY <1>6, Shapes
      <4>3. \A k \in 1..s.seq : s.data[k] = graph[k] /\ k \in 1..Len(graph)
        BY <1>6, <4>1, <4>2
      <4> QED
        BY <1>5, <4>1, <4>2, <4>3 DEF Extends
    <3> QED
      BY <1>3, <1>6, <3>1
  <2>3. /\ pc' \notin {"apply_commit", "flush_commit", "close_commit", "compact_commit"}
        /\ durable_seq' <= Len(graph') /\ commit'.vis <= Len(graph')
    BY <1>4, <1>5 DEF Durable
  <2>4. NoStray(wal'.vis, attempt') /\ snapshot'.seq <= dir'.vis.man.snap.seq
    BY <1>2 DEF LiveWriter
  <2> QED
    BY <2>1, <2>2, <2>3, <2>4 DEF LiveWriter
<1> QED
  BY <1>1, <1>7, <1>8, <1>9, <1>10, Zenon DEF DurabilityInv

\* An advance that failed leaves the writer poisoned and the acknowledged
\* graph where it was.
LEMMA FailedAdvance ==
  ASSUME TypeOK, DurabilityInv, HandleOpen, NEW seq \in Nat, AdvanceErr(seq),
         Len(acked) <= seq,
         UNCHANGED <<wal, dir, snapshot, epoch, acked>>,
         pc' \in {"idle", "close_manifest"},
         SameBatches(wal.crash, dir.vis.man.snap.seq, seq),
         SameBatches(wal.crash, snapshot.seq, seq)
  PROVE  DurabilityInv'
<1>1. /\ pc \notin NoHandle /\ pc' \notin NoHandle /\ pc' \notin Recovering
      /\ pc \notin NoHandle \ {"create_manifest"}
      /\ pc' \notin NoHandle \ {"create_manifest"} /\ pc' \notin NoHandle \ {"closed"}
  BY DEF HandleOpen, Opening, NoHandle, Recovering
<1>2. AckedIsKept /\ LogsAgree /\ CreatedEmpty
  BY Zenon DEF DurabilityInv
<1>3. Snaps' = Snaps /\ Mans' = Mans
  BY <1>1 DEF Snaps, Mans
<1>4. commit'.crash \subseteq commit.crash \cup {seq} /\ commit'.vis \in {commit.vis, seq}
  BY MarkerStep DEF AdvanceErr
<1>5. poisoned'
  BY Zenon DEF AdvanceErr, Poison
<1>6. AckedIsKept'
  BY <1>2, <1>3, <1>4 DEF AckedIsKept
<1>7. LogsAgree'
  BY <1>1, <1>2, <1>4 DEF LogsAgree
<1>8. CreatedEmpty'
  <2>1. NoManifest \notin Mans' /\ epoch' > 0
    BY <1>1, <1>2, <1>3 DEF CreatedEmpty
  <2>2. \A m \in Mans' : m # NoManifest => m.epoch > 0
    BY <1>2, <1>3 DEF CreatedEmpty
  <2> QED
    BY <1>1, <2>1, <2>2, Zenon DEF CreatedEmpty
<1> QED
  BY <1>1, <1>5, <1>6, <1>7, <1>8, Zenon DEF DurabilityInv

(***************************************************************************)
(* One lemma for each group of actions.                                    *)
(***************************************************************************)
\* Choosing a policy, starting an operation, and the steps of a compaction
\* before and after its MANIFEST and its marker.
LEMMA QuietActions ==
  ASSUME TypeOK, DurabilityInv,
         \/ SetPolicy \/ Compact \/ Flush \/ Close
         \/ CompactSnapshot \/ CompactTruncate \/ CompactReopen
  PROVE  DurabilityInv'
<1> DEFINE Same == UNCHANGED <<commit, graph, snapshot, durable_seq, epoch, acked, attempt>>
<1>1. /\ wal.vis \in Seq(Frames) /\ dir.vis \in Dirs
      /\ Within(wal.vis, wal.vis) /\ Within(<< >>, wal.vis)
  BY Shapes, WithinPrefix
<1>2. pc \notin {"idle", "close_manifest"} => ~ poisoned
  BY DEF DurabilityInv, CreatedEmpty
<1>l. /\ wal' = wal => LogsWithin /\ Within(wal'.vis, wal.vis)
      /\ dir' = dir => ManStays
  BY <1>1, LogStep, DirStep
<1>3. CASE SetPolicy
  <2>1. Same /\ wal' = wal /\ dir' = dir /\ pc = "idle" /\ pc' = "idle"
    BY <1>3 DEF SetPolicy, disk, history
  <2>2. ~ poisoned' <=> ~ poisoned
    BY <1>3 DEF SetPolicy
  <2> QED
    BY <1>l, <2>1, <2>2, QuietStep DEF HandleOpen, Opening
<1>4. CASE Compact
  <2>1. /\ Same /\ wal' = wal /\ dir' = dir /\ pc = "idle" /\ pc' = "compact_snapshot"
        /\ ~ poisoned
    BY <1>4 DEF Compact, disk, history, writer
  <2>2. ~ poisoned' <=> ~ poisoned
    BY <1>4 DEF Compact, writer
  <2> QED
    BY <1>l, <2>1, <2>2, QuietStep DEF HandleOpen, Opening
<1>5. CASE Flush
  <2>1. /\ Same /\ dir' = dir /\ pc = "idle" /\ ~ poisoned
        /\ wal' \in {Synced(wal)} \cup FailedSync(wal, wal.vis, {})
    BY <1>5 DEF Flush, history
  <2>2. LogsWithin
    BY <1>1, <2>1, LogStep DEF Interrupted
  <2>3. \/ poisoned' /\ pc' = "idle"
        \/ ~ poisoned' /\ wal' = Synced(wal) /\ pc' = "flush_commit"
    BY <1>5, <2>1, Zenon DEF Flush, Poison
  <2>4. wal' = Synced(wal) => wal'.crash = {wal'.vis} /\ Within(wal'.vis, wal.vis)
    BY <1>1 DEF Synced, Durable
  <2> QED
    BY <1>l, <2>1, <2>2, <2>3, <2>4, QuietStep DEF HandleOpen, Opening
<1>6. CASE Close
  <2>1. /\ Same /\ dir' = dir /\ pc = "idle" /\ pc' \in {"close_commit", "close_manifest"}
        /\ wal' \in {wal, Synced(wal)} \cup FailedSync(wal, wal.vis, {})
    BY <1>6 DEF Close, history
  <2>2. LogsWithin
    BY <1>1, <2>1, LogStep DEF Interrupted
  <2>3. \/ poisoned' /\ pc' = "close_manifest"
        \/ ~ poisoned /\ ~ poisoned' /\ wal' = Synced(wal) /\ pc' = "close_commit"
    <3>1. Poison => poisoned'
      BY Zenon DEF Poison
    <3>2. \/ ~ poisoned /\ poisoned' = poisoned /\ wal' = Synced(wal) /\ pc' = "close_commit"
          \/ Poison /\ pc' = "close_manifest"
          \/ poisoned /\ pc' = "close_manifest" /\ poisoned' = poisoned
      BY <1>6, Zenon DEF Close
    <3>3. CASE ~ poisoned /\ poisoned' = poisoned /\ wal' = Synced(wal) /\ pc' = "close_commit"
      BY <3>3, Zenon
    <3>4. CASE poisoned /\ pc' = "close_manifest" /\ poisoned' = poisoned
      BY <3>4, Zenon
    <3> QED
      BY <3>1, <3>2, <3>3, <3>4, Zenon
  <2>4. wal' = Synced(wal) => wal'.crash = {wal'.vis} /\ Within(wal'.vis, wal.vis)
    BY <1>1 DEF Synced, Durable
  <2> QED
    BY <1>l, <2>1, <2>2, <2>3, <2>4, QuietStep DEF HandleOpen, Opening
<1>7. CASE CompactSnapshot
  <2> DEFINE d == PutSnapshot(dir.vis, NewSnapshot)
  <2>1. /\ Same /\ wal' = wal /\ pc = "compact_snapshot"
        /\ pc' \in {"idle", "compact_manifest"}
        /\ dir' \in {dir, Durable(d)} \cup Interrupted(dir, d, {})
    BY <1>7 DEF CompactSnapshot, CompactReturns, AtomicOk, AtomicErr, history
  <2>2. d.man = dir.vis.man
    BY <1>1 DEF PutSnapshot, Dirs
  <2> HIDE DEF d
  <2>3. ManStays
    BY <2>1, <2>2, DirStep
  <2>4. ~ poisoned /\ (~ poisoned' <=> ~ poisoned)
    BY <1>2, <1>7, <2>1 DEF CompactSnapshot
  <2> QED
    BY <1>l, <2>1, <2>3, <2>4, QuietStep DEF HandleOpen, Opening
<1>8. CASE CompactTruncate
  <2>1. /\ Same /\ dir' = dir /\ pc = "compact_truncate"
        /\ wal' \in {Durable(<< >>)} \cup Interrupted(wal, << >>, {})
    BY <1>8 DEF CompactTruncate, history
  <2>2. LogsWithin
    BY <1>1, <2>1, LogStep
  <2>3. \/ poisoned' /\ pc' = "idle"
        \/ (~ poisoned' <=> ~ poisoned) /\ wal' = Durable(<< >>) /\ pc' = "compact_reopen"
    BY <1>8, Zenon DEF CompactTruncate, Poison, CompactReturns
  <2>4. wal' = Durable(<< >>) => Within(wal'.vis, wal.vis)
    BY <1>1 DEF Durable
  <2>5. ~ poisoned
    BY <1>2, <2>1
  <2> QED
    BY <1>l, <2>1, <2>2, <2>3, <2>4, <2>5, QuietStep DEF HandleOpen, Opening
<1>9. CASE CompactReopen
  <2>1. /\ Same /\ wal' = wal /\ pc = "compact_reopen" /\ pc' = "idle"
    BY <1>9 DEF CompactReopen, CompactReturns
  <2>2. \/ dir' = dir
        \/ \E gone : dir' = Written(dir, [dir.vis EXCEPT !.snaps = @ \ gone], {})
    BY <1>9 DEF CompactReopen
  <2>3. ManStays
    <3>1. ASSUME NEW gone, dir' = Written(dir, [dir.vis EXCEPT !.snaps = @ \ gone], {})
          PROVE  ManStays
      <4> DEFINE d == [dir.vis EXCEPT !.snaps = @ \ gone]
      <4>1. d.man = dir.vis.man
        BY <1>1 DEF Dirs
      <4>2. dir' \in Interrupted(dir, d, {})
        BY <3>1 DEF Interrupted, FailedSync
      <4> HIDE DEF d
      <4> QED
        BY <4>1, <4>2, DirStep
    <3> QED
      BY <1>l, <2>2, <3>1
  <2>4. ~ poisoned /\ (~ poisoned' <=> ~ poisoned)
    BY <1>2, <1>9, <2>1 DEF CompactReopen
  <2> QED
    BY <1>l, <2>1, <2>3, <2>4, QuietStep DEF HandleOpen, Opening
<1> QED
  BY <1>3, <1>4, <1>5, <1>6, <1>7, <1>8, <1>9

\* The marker steps of apply, flush and close.
LEMMA MarkerActions ==
  ASSUME TypeInv, DurabilityInv, ApplyCommit \/ FlushCommit \/ CloseCommit
  PROVE  DurabilityInv'
<1>0. TypeOK
  BY DEF TypeInv
<1>1. /\ HandleOpen /\ ~ poisoned /\ pc \in {"apply_commit", "flush_commit", "close_commit"}
      /\ LogsAgree /\ LiveWriter
  <2>1. pc \in {"apply_commit", "flush_commit", "close_commit"} /\ HandleOpen
    BY DEF ApplyCommit, FlushCommit, CloseCommit, HandleOpen, Opening
  <2>2. ~ poisoned
    BY <2>1, Zenon DEF DurabilityInv, CreatedEmpty
  <2> QED
    BY <2>1, <2>2, Zenon DEF DurabilityInv
<1>2. /\ attempt = IF pc = "apply_commit"
                   THEN Append(graph, wal.vis[Len(wal.vis)].batch) ELSE graph
      /\ Len(acked) <= Len(graph)
  BY <1>1 DEF LiveWriter, Extends
<1>3. attempt \in Graphs /\ Len(attempt) \in Nat /\ Len(acked) <= Len(attempt)
  <2>1. attempt \in Graphs
    BY <1>0 DEF TypeOK
  <2>2. Len(attempt) \in Nat /\ Len(graph) \in Nat /\ Len(acked) \in Nat
    BY <1>0, <2>1, Shapes DEF Graphs
  <2>3. Len(graph) <= Len(attempt)
    <3>1. CASE pc # "apply_commit"
      BY <1>2, <2>2, <3>1
    <3>2. CASE pc = "apply_commit"
      <4> DEFINE b == wal.vis[Len(wal.vis)].batch
      <4>1. wal.vis # << >> /\ wal.vis \in Seq(Frames)
        BY <1>0, <3>2, Shapes DEF TypeInv
      <4>2. wal.vis[Len(wal.vis)] \in Frames
        BY <4>1, EmptySeq, ElementOfSeq, LenProperties
      <4>3. b \in Batches
        BY <4>2 DEF Frames
      <4> HIDE DEF b
      <4>4. graph \in Seq(Batches)
        BY <1>0, Shapes DEF Graphs
      <4>5. Len(Append(graph, b)) = Len(graph) + 1
        BY <4>3, <4>4, Appended
      <4> QED
        BY <1>2, <2>2, <3>2, <4>5 DEF b
    <3> QED
      BY <3>1, <3>2
  <2> QED
    BY <1>2, <2>1, <2>2, <2>3
<1>4. UNCHANGED <<wal, dir, snapshot, epoch>>
  BY DEF ApplyCommit, FlushCommit, CloseCommit
<1>5. \/ /\ AdvanceOk(Len(attempt)) /\ acked' = attempt
         /\ graph' = attempt /\ attempt' = attempt
         /\ pc' \in {"idle", "compact_snapshot", "close_manifest"}
      \/ /\ AdvanceErr(Len(attempt)) /\ acked' = acked
         /\ pc' \in {"idle", "close_manifest"}
  <2>1. CASE ApplyCommit
    <3>1. pc = "apply_commit" /\ attempt = Append(graph, wal.vis[Len(wal.vis)].batch)
      BY <1>2, <2>1 DEF ApplyCommit
    <3> QED
      BY <2>1, <3>1 DEF ApplyCommit, Ack, Published, history
  <2>2. CASE FlushCommit \/ CloseCommit
    <3>1. attempt = graph
      BY <1>2, <2>2 DEF FlushCommit, CloseCommit
    <3> QED
      BY <2>2, <3>1 DEF FlushCommit, CloseCommit, Ack
  <2> QED
    BY <2>1, <2>2
<1>6. CASE /\ AdvanceOk(Len(attempt)) /\ acked' = attempt
           /\ graph' = attempt /\ attempt' = attempt
           /\ pc' \in {"idle", "compact_snapshot", "close_manifest"}
  BY <1>0, <1>1, <1>3, <1>4, <1>6, AcknowledgingStep
<1>7. CASE /\ AdvanceErr(Len(attempt)) /\ acked' = acked
           /\ pc' \in {"idle", "close_manifest"}
  <2>1. \A n, c : SameBatches(wal.crash, n, c)
    <3>1. wal.crash = {wal.vis} /\ InOrder(wal.vis) /\ wal.vis \in Seq(Frames)
      BY <1>0, <1>1, Shapes DEF LiveWriter, LogsAgree
    <3> QED
      BY <3>1, OneLogAgrees
  <2> QED
    BY <1>0, <1>1, <1>3, <1>4, <1>7, <2>1, FailedAdvance
<1> QED
  BY <1>5, <1>6, <1>7

\* The MANIFEST step of a compaction: from here on recovery may start from
\* the new snapshot, which holds the whole graph.
LEMMA CompactManifestKeeps ==
  ASSUME TypeOK, DurabilityInv, CompactManifest
  PROVE  DurabilityInv'
<1> DEFINE m == ManifestRecord(NewSnapshot, epoch, Len(graph), FALSE)
           d == PutManifest(dir.vis, m)
<1>1. /\ pc = "compact_manifest" /\ pc' \in {"idle", "compact_commit"} /\ HandleOpen
      /\ pc \notin NoHandle /\ pc' \notin NoHandle /\ pc' \notin Recovering
      /\ pc \notin NoHandle \ {"create_manifest"}
      /\ pc' \notin NoHandle \ {"create_manifest"} /\ pc' \notin NoHandle \ {"closed"}
  BY DEF CompactManifest, CompactReturns, HandleOpen, Opening, NoHandle, Recovering
<1>2. /\ UNCHANGED <<wal, commit, graph, durable_seq, epoch, acked, attempt>>
      /\ (~ poisoned' <=> ~ poisoned)
      /\ \/ dir' = Durable(d) /\ snapshot' = NewSnapshot /\ pc' = "compact_commit"
         \/ dir' \in Interrupted(dir, d, {}) /\ snapshot' = snapshot /\ pc' = "idle"
  BY DEF CompactManifest, CompactReturns, AtomicOk, AtomicErr, history
<1>3. /\ AckedIsKept /\ LogsAgree /\ CreatedEmpty /\ LiveWriter /\ ~ poisoned
      /\ attempt = graph
  <2>1. AckedIsKept /\ LogsAgree /\ CreatedEmpty
    BY Zenon DEF DurabilityInv
  <2>2. ~ poisoned
    BY <1>1, <2>1 DEF CreatedEmpty
  <2>3. LiveWriter
    BY <1>1, <2>2, Zenon DEF DurabilityInv
  <2> QED
    BY <1>1, <2>1, <2>2, <2>3 DEF LiveWriter
<1>4. d.man = m /\ m.snap = NewSnapshot /\ m.epoch = epoch
  BY Shapes DEF PutManifest, Dirs, ManifestRecord
<1>5. NewSnapshot.seq = Len(graph) /\ NewSnapshot.data = graph
  BY DEF NewSnapshot
<1> HIDE DEF d, m
<1>6. ManPut(m)
  BY <1>2, <1>4, DirStep
<1>7. Snaps' \subseteq Snaps \cup {NewSnapshot}
  BY <1>1, <1>2, <1>4, <1>6 DEF Snaps, ManPut
<1>8. /\ graph \in Graphs /\ Len(graph) \in Nat /\ DOMAIN graph = 1..Len(graph)
      /\ Len(acked) <= Len(graph) /\ Len(acked) \in Nat
      /\ \A k \in 1..Len(acked) : graph[k] = acked[k]
      /\ wal.vis \in wal.crash /\ \A w \in wal.crash : w \in Seq(Frames)
      /\ commit.vis \in Nat /\ commit.vis <= Len(graph)
  BY <1>3, Shapes DEF LiveWriter, Extends
<1>9. LogsWithin
  BY <1>2, <1>8, WithinPrefix DEF LogsWithin
<1>10. AckedIsKept'
  <2>1. SnapAgrees(NewSnapshot, acked)
    BY <1>5, <1>8 DEF SnapAgrees
  <2>2. ASSUME NEW w \in wal.crash PROVE LogAgrees(w, NewSnapshot.seq, acked)
    BY <1>5, <1>8, ScannedFrame DEF LogAgrees
  <2> QED
    BY <1>2, <1>3, <1>7, <1>9, <2>1, <2>2, AckedStays DEF AckedIsKept
<1>11. LogsAgree'
  <2>1. SameBatches(wal.crash, NewSnapshot.seq, commit.vis)
    BY <1>5, <1>8, NarrowRange
  <2>2. dir'.vis.man.snap \in {dir.vis.man.snap, NewSnapshot}
    BY <1>4, <1>6 DEF ManPut
  <2>3. snapshot' \in {snapshot, NewSnapshot}
    BY <1>2
  <2> QED
    BY <1>1, <1>2, <1>3, <1>9, <2>1, <2>2, <2>3, LogsStay DEF LogsAgree
<1>12. CreatedEmpty'
  <2>1. NoManifest \notin Mans /\ epoch > 0 /\ \A x \in Mans : x.epoch > 0
    BY <1>1, <1>3 DEF CreatedEmpty
  <2>2. NoManifest.epoch = 0
    BY DEF NoManifest, ManifestRecord
  <2>3. m # NoManifest
    BY <1>4, <2>1, <2>2
  <2>4. NoManifest \notin Mans' /\ \A x \in Mans' : x.epoch > 0
    BY <1>4, <1>6, <2>1, <2>3 DEF ManPut
  <2>5. epoch' > 0 /\ ~ poisoned'
    BY <1>2, <1>3, <2>1
  <2> QED
    BY <1>1, <2>4, <2>5, Zenon DEF CreatedEmpty
<1>13. LiveWriter'
  <2>1. \A s \in Snaps' : /\ s.seq <= Len(graph') /\ Extends(graph', s.data)
                          /\ LogAgrees(wal'.vis, s.seq, attempt')
    <3>1. ASSUME NEW w \in wal.crash PROVE LogAgrees(w, NewSnapshot.seq, graph)
      BY <1>5, <1>8, ScannedFrame DEF LogAgrees
    <3>2. NewSnapshot.seq <= Len(graph) /\ Extends(graph, NewSnapshot.data)
      BY <1>5, <1>8 DEF Extends
    <3>3. \A s \in Snaps : /\ s.seq <= Len(graph) /\ Extends(graph, s.data)
                           /\ LogAgrees(wal.vis, s.seq, graph)
      BY <1>3 DEF LiveWriter
    <3> QED
      BY <1>2, <1>3, <1>7, <1>8, <3>1, <3>2, <3>3
  <2>2. snapshot'.seq <= dir'.vis.man.snap.seq
    <3>1. CASE dir' = Durable(d) /\ snapshot' = NewSnapshot
      BY <1>4, <1>5, <1>8, <3>1 DEF Durable
    <3>2. CASE snapshot' = snapshot
      <4>1. snapshot.seq <= dir.vis.man.snap.seq /\ snapshot \in Snaps
        BY <1>1, <1>3 DEF LiveWriter, Snaps
      <4>2. snapshot.seq <= Len(graph)
        BY <1>3, <4>1 DEF LiveWriter
      <4> QED
        BY <1>4, <1>5, <1>6, <3>2, <4>1, <4>2 DEF ManPut
    <3> QED
      BY <1>2, <3>1, <3>2
  <2>3. pc' = "compact_commit" => /\ snapshot'.seq = Len(graph')
                                  /\ \A x \in Mans' : x.snap = snapshot'
    BY <1>2, <1>4, <1>5 DEF Durable, Mans
  <2>4. /\ pc' \notin {"apply_commit", "flush_commit", "close_commit"}
        /\ Extends(graph', acked') /\ durable_seq' <= Len(graph')
        /\ commit'.vis <= Len(graph') /\ attempt' = graph' /\ NoStray(wal'.vis, attempt')
    BY <1>1, <1>2, <1>3 DEF LiveWriter
  <2> QED
    BY <2>1, <2>2, <2>3, <2>4, Zenon DEF LiveWriter
<1> QED
  BY <1>1, <1>10, <1>11, <1>12, <1>13, Zenon DEF DurabilityInv

\* The marker step of a compaction acknowledges the whole graph: the only
\* snapshot left holds it.
LEMMA CompactCommitKeeps ==
  ASSUME TypeOK, DurabilityInv, CompactCommit
  PROVE  DurabilityInv'
<1> DEFINE seq == IF durable_seq >= snapshot.seq THEN durable_seq ELSE snapshot.seq
<1>1. /\ pc = "compact_commit" /\ HandleOpen
      /\ pc \notin NoHandle /\ pc \notin NoHandle \ {"create_manifest"}
  BY DEF CompactCommit, HandleOpen, Opening, NoHandle
<1>2. /\ LogsAgree /\ CreatedEmpty /\ LiveWriter /\ ~ poisoned /\ attempt = graph
      /\ snapshot.seq = Len(graph) /\ \A m \in Mans : m.snap = snapshot
  <2>1. LogsAgree /\ CreatedEmpty
    BY Zenon DEF DurabilityInv
  <2>2. ~ poisoned
    BY <1>1, <2>1 DEF CreatedEmpty
  <2>3. LiveWriter
    BY <1>1, <2>2, Zenon DEF DurabilityInv
  <2> QED
    BY <1>1, <2>1, <2>2, <2>3 DEF LiveWriter
<1>3. /\ graph \in Graphs /\ Len(graph) \in Nat /\ Len(acked) \in Nat /\ Len(acked) <= Len(graph)
      /\ seq = Len(graph)
      /\ \A w \in wal.crash : w \in Seq(Frames)
  <2>1. durable_seq <= Len(graph) /\ Len(acked) <= Len(graph) /\ snapshot.seq = Len(graph)
    BY <1>2 DEF LiveWriter, Extends
  <2>2. /\ graph \in Graphs /\ Len(graph) \in Nat /\ Len(acked) \in Nat
        /\ durable_seq \in Nat /\ \A w \in wal.crash : w \in Seq(Frames)
    BY Shapes
  <2>3. seq = Len(graph)
    BY <2>1, <2>2
  <2> QED
    BY <2>1, <2>2, <2>3
<1>4. \A n, c \in Nat : c <= n => SameBatches(wal.crash, n, c)
  BY <1>3, NarrowRange
<1>5. dir.vis.man.snap = snapshot /\ Snaps = {snapshot}
  BY <1>1, <1>2, SnapsShape DEF Snaps
<1>6. UNCHANGED <<wal, dir, snapshot, epoch, graph, attempt>>
  BY DEF CompactCommit
<1>7. \/ AdvanceOk(Len(graph)) /\ acked' = graph /\ pc' = "compact_truncate"
      \/ AdvanceErr(Len(graph)) /\ acked' = acked /\ pc' = "idle"
  BY <1>3 DEF CompactCommit, Ack, CompactReturns
<1>8. CASE AdvanceErr(Len(graph)) /\ acked' = acked /\ pc' = "idle"
  BY <1>1, <1>2, <1>3, <1>4, <1>5, <1>6, <1>8, FailedAdvance
<1>9. CASE AdvanceOk(Len(graph)) /\ acked' = graph /\ pc' = "compact_truncate"
  <2>1. /\ pc' \notin NoHandle /\ pc' \notin Recovering
        /\ pc' \notin NoHandle \ {"create_manifest"} /\ pc' \notin NoHandle \ {"closed"}
    BY <1>9 DEF NoHandle, Recovering
  <2>2. commit' = Durable(Len(graph)) /\ durable_seq' = Len(graph) /\ ~ poisoned'
    BY <1>2, <1>9, Zenon DEF AdvanceOk
  <2>3. Snaps' = Snaps /\ Mans' = Mans
    BY <1>1, <1>6, <2>1 DEF Snaps, Mans
  <2>4. AckedIsKept'
    <3>1. SnapAgrees(snapshot, graph)
      <4>1. Extends(graph, snapshot.data)
        BY <1>2, <1>5 DEF LiveWriter
      <4>2. snapshot.seq \in Nat /\ DOMAIN snapshot.data = 1..snapshot.seq
        BY Shapes, SnapsShape
      <4> QED
        BY <1>2, <4>1, <4>2 DEF Extends, SnapAgrees
    <3>2. ASSUME NEW w \in wal.crash PROVE LogAgrees(w, snapshot.seq, graph)
      BY <1>2, <1>3, ScannedFrame DEF LogAgrees
    <3> QED
      BY <1>3, <1>5, <1>6, <1>9, <2>2, <2>3, <3>1, <3>2 DEF AckedIsKept, Durable
  <2>5. LogsAgree'
    BY <1>2, <1>3, <1>4, <1>5, <1>6, <2>2 DEF LogsAgree, Durable
  <2>6. CreatedEmpty'
    <3>1. NoManifest \notin Mans' /\ epoch' > 0
      BY <1>1, <1>2, <1>6, <2>3 DEF CreatedEmpty
    <3>2. \A m \in Mans' : m # NoManifest => m.epoch > 0
      BY <1>2, <2>3 DEF CreatedEmpty
    <3> QED
      BY <2>1, <2>2, <3>1, <3>2, Zenon DEF CreatedEmpty
  <2>7. LiveWriter'
    <3>1. Extends(graph', acked')
      BY <1>3, <1>6, <1>9 DEF Extends
    <3>2. /\ pc' \notin {"apply_commit", "flush_commit", "close_commit", "compact_commit"}
          /\ durable_seq' <= Len(graph') /\ commit'.vis <= Len(graph')
      BY <1>3, <1>6, <1>9, <2>2 DEF Durable
    <3> QED
      BY <1>2, <1>6, <2>3, <3>1, <3>2 DEF LiveWriter
  <2> QED
    BY <2>1, <2>4, <2>5, <2>6, <2>7, Zenon DEF DurabilityInv
<1> QED
  BY <1>7, <1>8, <1>9

\* The handle is gone, and with it everything but the files: a MANIFEST m may
\* have been put in place, the marker may have moved.
LEMMA GoneStep ==
  ASSUME TypeOK, DurabilityInv, HandleGone, UNCHANGED <<acked, attempt>>,
         LogsWithin, NEW m, ManPut(m),
         m \in Mans \/ (m.snap \in Snaps /\ m.epoch > 0),
         \A c \in commit'.crash : Len(acked) <= c,
         SameBatches(wal.crash, dir.vis.man.snap.seq, commit'.vis),
         SameBatches(wal.crash, m.snap.seq, commit'.vis),
         NoManifest \in Mans => wal' = wal /\ commit' = commit /\ m.snap = NoSnapshot
  PROVE  DurabilityInv'
<1>1. /\ pc' = "closed" /\ pc' \in NoHandle /\ pc' \notin Recovering
      /\ graph' = << >> /\ durable_seq' = 0
  BY DEF HandleGone, NoHandle, Recovering
<1>2. ~ poisoned'
  BY Zenon DEF HandleGone
<1>3. AckedIsKept /\ LogsAgree /\ CreatedEmpty
  BY Zenon DEF DurabilityInv
<1>4. Snaps' \subseteq Snaps
  BY <1>1 DEF Snaps, ManPut
<1>5. AckedIsKept'
  BY <1>3, <1>4, AckedStays
<1>6. LogsAgree'
  <2>1. SameBatches(wal.crash, dir'.vis.man.snap.seq, commit'.vis)
    BY DEF ManPut
  <2> QED
    BY <1>1, <1>3, <2>1, LogsStay
<1>7. CreatedEmpty'
  <2>1. \A x \in Mans' : x # NoManifest => x.epoch > 0
    BY <1>3 DEF CreatedEmpty, ManPut
  <2>2. NoManifest.epoch = 0
    BY DEF NoManifest, ManifestRecord
  <2>3. NoManifest \in Mans' => NoManifest \in Mans
    BY <2>2 DEF ManPut
  <2>4. NoManifest \in Mans' =>
          /\ acked' = << >> /\ attempt' = << >>
          /\ wal' = Durable(<< >>) /\ commit' = Durable(0) /\ durable_seq' = 0
          /\ \A x \in Mans' : x.snap = NoSnapshot
    BY <1>1, <1>3, <2>3 DEF CreatedEmpty, ManPut
  <2>5. ~ HandleOpen' /\ pc' \notin NoHandle \ {"closed"}
        /\ ~ (pc' \notin NoHandle \ {"create_manifest"})
    BY <1>1 DEF HandleOpen, Opening, NoHandle
  <2> QED
    BY <1>1, <1>2, <2>1, <2>4, <2>5, Zenon DEF CreatedEmpty
<1> QED
  <2>1. ~ HandleOpen'
    BY <1>1 DEF HandleOpen, Opening
  <2> QED
    BY <1>1, <1>5, <1>6, <1>7, <2>1, Zenon DEF DurabilityInv

\* Where every log agrees with one graph they agree with each other.
LEMMA GraphIsCommon ==
  ASSUME NEW W \in SUBSET Seq(Frames), NEW n, NEW g,
         \A w \in W : LogAgrees(w, n, g)
  PROVE  SameBatches(W, n, Len(g))
BY DEF SameBatches, LogAgrees

\* Closing, and the death of the process: the files stay as they are, but for
\* the MANIFEST close writes.
LEMMA GoneActions ==
  ASSUME TypeOK, DurabilityInv, CloseManifest \/ Kill
  PROVE  DurabilityInv'
<1>1. AckedIsKept /\ LogsAgree /\ CreatedEmpty
  BY Zenon DEF DurabilityInv
<1>2. LogsWithin
  BY Shapes, WithinPrefix, LogStep DEF CloseManifest, Kill, disk
<1>3. /\ HandleGone /\ UNCHANGED <<wal, commit, acked, attempt>>
  BY DEF CloseManifest, Kill, history, disk
<1>4. /\ \A c \in commit'.crash : Len(acked) <= c
      /\ SameBatches(wal.crash, dir.vis.man.snap.seq, commit'.vis)
  BY <1>1, <1>3 DEF AckedIsKept, LogsAgree
<1>5. CASE Kill
  <2> DEFINE m == dir.vis.man
  <2>1. ManPut(m) /\ m \in Mans
    BY <1>5, DirStep, SnapsShape DEF Kill, disk
  <2>2. NoManifest \in Mans => m.snap = NoSnapshot
    BY <1>1, <2>1 DEF CreatedEmpty
  <2>3. SameBatches(wal.crash, m.snap.seq, commit'.vis)
    BY <1>4
  <2> HIDE DEF m
  <2> QED
    BY <1>2, <1>3, <1>4, <2>1, <2>2, <2>3, GoneStep
<1>6. CASE CloseManifest
  <2> DEFINE m == ManifestRecord(snapshot, epoch, durable_seq, ~ poisoned)
             d == PutManifest(dir.vis, m)
  <2>1. /\ dir' \in {Durable(d)} \cup Interrupted(dir, d, {})
        /\ HandleOpen /\ pc \notin NoHandle /\ pc \notin NoHandle \ {"create_manifest"}
    BY <1>6 DEF CloseManifest, AtomicOk, AtomicErr, HandleOpen, Opening, NoHandle
  <2>2. d.man = m /\ m.snap = snapshot /\ m.epoch = epoch
    BY Shapes DEF PutManifest, Dirs, ManifestRecord
  <2> HIDE DEF d, m
  <2>3. ManPut(m)
    BY <2>1, <2>2, DirStep
  <2>4. m.snap \in Snaps /\ m.epoch > 0 /\ NoManifest \notin Mans
    BY <1>1, <2>1, <2>2 DEF Snaps, CreatedEmpty
  <2>5. SameBatches(wal.crash, m.snap.seq, commit'.vis)
    BY <1>1, <1>3, <2>1, <2>2 DEF LogsAgree
  <2> QED
    BY <1>2, <1>3, <1>4, <2>3, <2>4, <2>5, GoneStep
<1> QED
  BY <1>5, <1>6

\* A power cut leaves one image of each file.
LEMMA PowerLossKeeps ==
  ASSUME TypeOK, DurabilityInv, PowerLoss
  PROVE  DurabilityInv'
<1>1. AckedIsKept /\ LogsAgree /\ CreatedEmpty
  BY Zenon DEF DurabilityInv
<1>2. PICK w \in wal.crash, c \in commit.crash, d \in dir.crash :
        wal' = Durable(w) /\ commit' = Durable(c) /\ dir' = Durable(d)
  BY DEF PowerLoss
<1>3. /\ HandleGone /\ UNCHANGED <<acked, attempt>>
      /\ w \in Seq(Frames) /\ InOrder(w) /\ Within(w, w)
  BY <1>1, Shapes, WithinPrefix DEF PowerLoss, history, LogsAgree
<1>4. /\ wal'.crash = {w} /\ commit'.crash = {c} /\ Mans' = {d.man} /\ d.man \in Mans
      /\ dir'.vis = d /\ commit'.vis = c
  BY <1>2 DEF Durable, Mans
<1>5. /\ pc' = "closed" /\ pc' \in NoHandle /\ pc' \notin Recovering
      /\ graph' = << >> /\ durable_seq' = 0
  BY <1>3 DEF HandleGone, NoHandle, Recovering
<1>6. ~ poisoned'
  BY <1>3, Zenon DEF HandleGone
<1>7. Snaps' = {d.man.snap} /\ d.man.snap \in Snaps
  BY <1>4, <1>5 DEF Snaps
<1>8. AckedIsKept'
  BY <1>1, <1>3, <1>4, <1>7 DEF AckedIsKept
<1>9. LogsAgree'
  <2>1. SameBatches({w}, d.man.snap.seq, c)
    BY <1>3, OneLogAgrees
  <2> QED
    BY <1>3, <1>4, <1>5, <2>1 DEF LogsAgree
<1>10. CreatedEmpty'
  <2>1. \A x \in Mans' : x # NoManifest => x.epoch > 0
    BY <1>1, <1>4 DEF CreatedEmpty
  <2>2. NoManifest \in Mans' =>
          /\ acked' = << >> /\ attempt' = << >>
          /\ wal' = Durable(<< >>) /\ commit' = Durable(0) /\ durable_seq' = 0
          /\ \A x \in Mans' : x.snap = NoSnapshot
    <3>1. SUFFICES ASSUME d.man = NoManifest
                   PROVE  /\ acked' = << >> /\ attempt' = << >>
                          /\ wal' = Durable(<< >>) /\ commit' = Durable(0)
                          /\ d.man.snap = NoSnapshot
      BY <1>4, <1>5
    <3>2. /\ acked = << >> /\ attempt = << >> /\ d.man.snap = NoSnapshot
          /\ wal = Durable(<< >>) /\ commit = Durable(0)
      BY <1>1, <1>4, <3>1 DEF CreatedEmpty
    <3>3. w = << >> /\ c = 0
      BY <3>2 DEF Durable
    <3> QED
      BY <1>2, <1>3, <3>2, <3>3
  <2>3. ~ HandleOpen' /\ pc' \notin NoHandle \ {"closed"}
        /\ ~ (pc' \notin NoHandle \ {"create_manifest"})
    BY <1>5 DEF HandleOpen, Opening, NoHandle
  <2> QED
    BY <1>5, <1>6, <2>1, <2>2, <2>3, Zenon DEF CreatedEmpty
<1> QED
  <2>1. ~ HandleOpen'
    BY <1>5 DEF HandleOpen, Opening
  <2> QED
    BY <1>5, <1>8, <1>9, <1>10, <2>1, Zenon DEF DurabilityInv

(***************************************************************************)
(* apply(): one more frame.                                                *)
(***************************************************************************)
(* Every frame of v up to seq c is one of w.                               *)
WithinUpTo(v, w, c) ==
  \A i \in Scanned(v) : v[i].seq <= c => i \in Scanned(w) /\ v[i] = w[i]

\* What holds of a log up to seq c holds of every log within it up to c.
LEMMA WithinUpToKeeps ==
  ASSUME NEW v, NEW w, NEW c, WithinUpTo(v, w, c)
  PROVE  \A n, g : Len(g) = c /\ LogAgrees(w, n, g) => LogAgrees(v, n, g)
BY DEF WithinUpTo, LogAgrees

\* The log with the next frame of g: in order, no stray, agreeing with the
\* longer graph and, up to the end of g, no different from what it was.
LEMMA NextFrame ==
  ASSUME NEW w \in Seq(Frames), NEW g \in Graphs, NEW b \in Batches,
         InOrder(w), NoStray(w, g),
         NEW f \in Frames, f.seq = Len(g) + 1, f.batch = b, NEW img, Grown(img, w, f),
         NEW h, Grown(h, g, b)
  PROVE  /\ InOrder(img) /\ NoStray(img, h) /\ WithinUpTo(img, w, Len(g))
         /\ \A n \in Nat : LogAgrees(w, n, g) => LogAgrees(img, n, h)
         /\ img \in Seq(Frames) /\ img[Len(img)].batch = b
<1>1. /\ h \in Seq(Batches) /\ Len(h) = Len(g) + 1 /\ Len(g) \in Nat
      /\ h[Len(g) + 1] = b /\ \A k \in 1..Len(g) : h[k] = g[k]
  BY Appended DEF Graphs, Grown
<1>2. f.seq = Len(g) + 1 /\ f.batch = b
  OBVIOUS
<1>3. /\ img \in Seq(Frames) /\ Len(img) = Len(w) + 1 /\ Len(w) \in Nat
      /\ img[Len(w) + 1] = f
  BY Appended DEF Grown
<1>4. \A i \in Scanned(img) : \/ i \in Scanned(w) /\ img[i] = w[i]
                              \/ i = Len(w) + 1 /\ img[i] = f
  BY ScanAppended
<1>5. \A i \in Scanned(w) : /\ w[i].seq \in Nat /\ w[i].seq <= Len(g)
                            /\ i \in 1..Len(w)
  BY ScannedFrame DEF NoStray
<1>6. InOrder(img)
  <2>1. SUFFICES ASSUME NEW i \in Scanned(img), NEW j \in Scanned(img), i < j
                 PROVE  img[i].seq < img[j].seq
    BY DEF InOrder
  <2>2. CASE j \in Scanned(w) /\ img[j] = w[j]
    <3>1. i # Len(w) + 1 /\ i \in 1..Len(img)
      BY <1>3, <1>5, <2>1, <2>2 DEF Scanned
    <3>2. i \in Scanned(w) /\ img[i] = w[i]
      BY <1>4, <3>1
    <3> QED
      BY <2>1, <2>2, <3>2 DEF InOrder
  <2>3. CASE j = Len(w) + 1 /\ img[j] = f
    <3>1. i # Len(w) + 1 /\ i \in 1..Len(img)
      BY <1>3, <2>1, <2>3 DEF Scanned
    <3>2. i \in Scanned(w) /\ img[i] = w[i]
      BY <1>4, <3>1
    <3> QED
      <4>1. img[i].seq \in Nat /\ img[i].seq <= Len(g)
        BY <1>5, <3>2
      <4>2. img[j].seq = Len(g) + 1
        BY <1>2, <2>3
      <4> QED
        BY <1>1, <4>1, <4>2
  <2> QED
    BY <1>4, <2>2, <2>3
<1>7. NoStray(img, h)
  BY <1>1, <1>2, <1>4, <1>5 DEF NoStray
<1>8. WithinUpTo(img, w, Len(g))
  <2>1. ~ (Len(g) + 1 <= Len(g))
    BY <1>1
  <2>2. ASSUME NEW i \in Scanned(img), img[i].seq <= Len(g)
        PROVE  i \in Scanned(w) /\ img[i] = w[i]
    BY <1>2, <1>4, <2>1, <2>2, Zenon
  <2> QED
    BY <2>2 DEF WithinUpTo
<1>9. ASSUME NEW n \in Nat, LogAgrees(w, n, g) PROVE LogAgrees(img, n, h)
  <2>1. SUFFICES ASSUME NEW i \in Scanned(img), n < img[i].seq
                 PROVE  img[i].batch = h[img[i].seq]
    BY DEF LogAgrees
  <2>2. CASE i \in Scanned(w) /\ img[i] = w[i]
    <3>1. w[i].seq \in 1..Len(g) /\ w[i].batch = g[w[i].seq]
      BY <1>1, <1>5, <1>9, <2>1, <2>2 DEF LogAgrees
    <3> QED
      BY <1>1, <2>2, <3>1
  <2>3. CASE img[i] = f
    BY <1>1, <1>2, <2>3
  <2> QED
    BY <1>4, <2>2, <2>3
<1> QED
  BY <1>2, <1>3, <1>6, <1>7, <1>8, <1>9

\* apply() up to the sync of its frame, however that ends.
LEMMA ApplyKeeps ==
  ASSUME TypeOK, DurabilityInv, NEW b \in Batches, Apply(b)
  PROVE  DurabilityInv'
<1> DEFINE w   == wal.vis
           g   == Append(graph, b)
           f   == Frame(Len(graph) + 1, b, TRUE)
           img == Append(w, f)
           cut == Append(w, Frame(Len(graph) + 1, b, FALSE))
<1>1. /\ pc = "idle" /\ pc' \in {"idle", "compact_snapshot", "apply_commit"}
      /\ UNCHANGED <<commit, dir, snapshot, durable_seq, epoch, acked>>
      /\ ~ poisoned
  BY DEF Apply, Published, history
<1>2. \/ /\ wal' = Written(wal, img, {cut}) /\ graph' = g /\ attempt' = g
         /\ pc' \in {"idle", "compact_snapshot"} /\ (~ poisoned' <=> ~ poisoned)
      \/ /\ wal' = Durable(img) /\ graph' = graph /\ attempt' = g
         /\ pc' = "apply_commit" /\ (~ poisoned' <=> ~ poisoned)
      \/ /\ wal' \in FailedWrite(wal, {cut}) \cup FailedSync(wal, img, {cut})
         /\ pc' = "idle" /\ poisoned' = TRUE
  BY DEF Apply, Published, Poison
<1>3. /\ pc \notin NoHandle /\ pc' \notin NoHandle /\ pc' \notin Recovering /\ HandleOpen
      /\ pc \notin NoHandle \ {"create_manifest"}
      /\ pc' \notin NoHandle \ {"create_manifest"} /\ pc' \notin NoHandle \ {"closed"}
  BY <1>1 DEF HandleOpen, Opening, NoHandle, Recovering
<1>4. /\ AckedIsKept /\ LogsAgree /\ CreatedEmpty /\ LiveWriter
      /\ attempt = graph /\ NoStray(w, graph)
  <2>1. AckedIsKept /\ LogsAgree /\ CreatedEmpty /\ LiveWriter
    BY <1>1, <1>3, Zenon DEF DurabilityInv
  <2> QED
    BY <1>1, <2>1 DEF LiveWriter
<1>5. /\ w \in Seq(Frames) /\ w \in wal.crash /\ InOrder(w)
      /\ graph \in Graphs /\ Len(graph) \in Nat /\ Len(acked) \in Nat
      /\ Len(acked) <= Len(graph) /\ commit.vis \in Nat /\ commit.vis <= Len(graph)
  <2>1. /\ w \in Seq(Frames) /\ w \in wal.crash /\ commit.vis \in Nat
        /\ graph \in Graphs /\ Len(graph) \in Nat /\ Len(acked) \in Nat
    BY Shapes
  <2>2. Len(acked) <= Len(graph) /\ commit.vis <= Len(graph)
    BY <1>4 DEF LiveWriter, Extends
  <2> QED
    BY <1>4, <2>1, <2>2 DEF LogsAgree
<1>6. Within(cut, w) /\ InOrder(cut)
  <2>1. Within(cut, w)
    BY <1>5, WithinTorn
  <2> HIDE DEF cut
  <2> QED
    BY <1>5, <2>1, WithinKeeps
<1>7. /\ InOrder(img) /\ NoStray(img, g) /\ WithinUpTo(img, w, Len(graph))
      /\ \A n \in Nat : LogAgrees(w, n, graph) => LogAgrees(img, n, g)
      /\ img[Len(img)].batch = b
  <2>1. f \in Frames /\ f.seq = Len(graph) + 1 /\ f.batch = b
    BY <1>5 DEF Frame, Frames
  <2> HIDE DEF f
  <2>2. Grown(img, w, f) /\ Grown(g, graph, b)
    BY DEF Grown
  <2> HIDE DEF img, g
  <2> QED
    BY <1>4, <1>5, <2>1, <2>2, NextFrame
<1>8. /\ g \in Graphs /\ Len(g) = Len(graph) + 1
      /\ \A k \in 1..Len(graph) : g[k] = graph[k]
  BY <1>5, Appended DEF Graphs
<1> HIDE DEF f, img, cut, g
<1>9. Snaps' = Snaps /\ Mans' = Mans
  BY <1>1, <1>3 DEF Snaps, Mans
<1>10. \A v \in wal'.crash : /\ v \in Seq(Frames) /\ InOrder(v)
                             /\ \E u \in wal.crash : WithinUpTo(v, u, Len(graph))
  <2>1. wal'.crash \subseteq wal.crash \cup {img, cut}
    <3>1. w \in wal.crash
      BY <1>5
    <3> QED
      BY <1>2, <3>1 DEF Written, Durable, FailedWrite, FailedSync
  <2>4. img \in Seq(Frames) /\ cut \in Seq(Frames)
    BY <1>5, AppendedFrame DEF img, cut, f
  <2>5. \A v \in wal.crash : v \in Seq(Frames) /\ InOrder(v)
    BY <1>4, Shapes DEF LogsAgree
  <2>2. \A u : WithinUpTo(u, u, Len(graph))
    BY DEF WithinUpTo
  <2>3. WithinUpTo(cut, w, Len(graph))
    BY <1>6 DEF Within, WithinUpTo
  <2> QED
    BY <1>5, <1>6, <1>7, <2>1, <2>2, <2>3, <2>4, <2>5
<1>11. AckedIsKept'
  <2>1. ASSUME NEW v \in wal'.crash, NEW s \in Snaps PROVE LogAgrees(v, s.seq, acked)
    <3>1. PICK u \in wal.crash : WithinUpTo(v, u, Len(graph))
      BY <1>10
    <3>2. \A i \in Scanned(v) : v[i].seq \in Nat
      <4>1. v \in Seq(Frames)
        BY <1>10
      <4> QED
        BY <4>1, ScannedFrame
    <3>3. LogAgrees(u, s.seq, acked)
      BY <1>4 DEF AckedIsKept
    <3> QED
      BY <1>5, <3>1, <3>2, <3>3 DEF LogAgrees, WithinUpTo
  <2> QED
    BY <1>1, <1>4, <1>9, <2>1 DEF AckedIsKept
<1>12. LogsAgree'
  <2>1. ASSUME NEW n, SameBatches(wal.crash, n, commit.vis)
        PROVE  SameBatches(wal'.crash, n, commit.vis)
    <3>1. SUFFICES ASSUME NEW v \in wal'.crash, NEW x \in wal'.crash,
                          NEW i \in Scanned(v), NEW j \in Scanned(x),
                          v[i].seq = x[j].seq, n < v[i].seq, v[i].seq <= commit.vis
                   PROVE  v[i].batch = x[j].batch
      BY DEF SameBatches
    <3>2. v[i].seq <= Len(graph) /\ x[j].seq <= Len(graph)
      <4>1. v[i].seq \in Nat
        BY <1>10, ScannedFrame
      <4> QED
        BY <1>5, <3>1, <4>1
    <3>3. PICK u \in wal.crash : i \in Scanned(u) /\ v[i] = u[i]
      BY <1>10, <3>2 DEF WithinUpTo
    <3>4. PICK y \in wal.crash : j \in Scanned(y) /\ x[j] = y[j]
      BY <1>10, <3>2 DEF WithinUpTo
    <3> QED
      BY <2>1, <3>1, <3>3, <3>4 DEF SameBatches
  <2> QED
    BY <1>1, <1>3, <1>4, <1>10, <2>1 DEF LogsAgree
<1>13. CreatedEmpty'
  <2>1. NoManifest \notin Mans' /\ epoch' > 0
    BY <1>1, <1>3, <1>4, <1>9 DEF CreatedEmpty
  <2>2. \A m \in Mans' : m # NoManifest => m.epoch > 0
    BY <1>4, <1>9 DEF CreatedEmpty
  <2>3. poisoned' => pc' \in {"idle", "close_manifest"}
    BY <1>1, <1>2, Zenon
  <2> QED
    BY <1>3, <2>1, <2>2, <2>3, Zenon DEF CreatedEmpty
<1>14. ASSUME ~ poisoned' PROVE LiveWriter'
  <2>1. /\ wal'.vis = img /\ attempt' = g
        /\ \/ graph' = g /\ pc' \in {"idle", "compact_snapshot"}
           \/ graph' = graph /\ pc' = "apply_commit" /\ wal'.crash = {wal'.vis}
    <3>1. \/ /\ wal' = Written(wal, img, {cut}) /\ graph' = g /\ attempt' = g
             /\ pc' \in {"idle", "compact_snapshot"}
          \/ /\ wal' = Durable(img) /\ graph' = graph /\ attempt' = g
             /\ pc' = "apply_commit"
      BY <1>2, <1>14, Zenon
    <3> QED
      BY <3>1 DEF Written, Durable
  <2>2. /\ Extends(graph, acked) /\ durable_seq <= Len(graph)
        /\ \A s \in Snaps : /\ s.seq <= Len(graph) /\ Extends(graph, s.data)
                            /\ LogAgrees(w, s.seq, graph)
        /\ snapshot.seq <= dir.vis.man.snap.seq
    BY <1>1, <1>4 DEF LiveWriter
  <2>3. /\ \A s \in Snaps : /\ s.seq \in Nat /\ DOMAIN s.data = 1..s.seq
                            /\ Len(s.data) = s.seq
        /\ durable_seq \in Nat /\ DOMAIN acked = 1..Len(acked)
    BY SnapsShape, Shapes
  <2>4. /\ Len(graph) <= Len(graph') /\ Len(graph') \in Nat
        /\ \A k \in 1..Len(graph) : graph'[k] = graph[k]
    <3>1. CASE graph' = g
      BY <1>5, <1>8, <3>1
    <3>2. CASE graph' = graph
      BY <1>5, <3>2
    <3> QED
      BY <2>1, <3>1, <3>2
  <2>5. Extends(graph', acked) /\ durable_seq <= Len(graph') /\ commit.vis <= Len(graph')
    <3>1. durable_seq <= Len(graph') /\ commit.vis <= Len(graph')
      BY <1>5, <2>2, <2>3, <2>4
    <3>2. \A k \in DOMAIN acked : graph'[k] = acked[k]
      BY <2>2, <2>3, <2>4 DEF Extends
    <3>3. Len(acked) <= Len(graph')
      BY <2>2, <2>3, <2>4, Shapes DEF Extends
    <3> QED
      BY <3>1, <3>2, <3>3 DEF Extends
  <2>6. ASSUME NEW s \in Snaps
        PROVE  /\ s.seq <= Len(graph') /\ Extends(graph', s.data)
               /\ LogAgrees(img, s.seq, g)
    <3>1. /\ s.seq \in Nat /\ DOMAIN s.data = 1..s.seq /\ Len(s.data) = s.seq
          /\ s.seq <= Len(graph) /\ LogAgrees(w, s.seq, graph)
          /\ \A k \in 1..s.seq : graph[k] = s.data[k]
      BY <2>2, <2>3 DEF Extends
    <3>2. LogAgrees(img, s.seq, g)
      BY <1>7, <3>1
    <3>3. s.seq <= Len(graph') /\ \A k \in 1..s.seq : graph'[k] = s.data[k]
      <4>1. s.seq <= Len(graph') /\ \A k \in 1..s.seq : k \in 1..Len(graph)
        BY <1>5, <2>4, <3>1
      <4> QED
        BY <2>4, <3>1, <4>1
    <3> QED
      BY <3>1, <3>2, <3>3 DEF Extends
  <2>7. attempt' = IF pc' = "apply_commit"
                   THEN Append(graph', wal'.vis[Len(wal'.vis)].batch) ELSE graph'
    BY <1>7, <2>1 DEF g
  <2>8. /\ pc' \notin {"flush_commit", "close_commit", "compact_commit"}
        /\ pc' = "apply_commit" => wal'.crash = {wal'.vis}
    BY <2>1
  <2>9. NoStray(wal'.vis, attempt')
    BY <1>7, <2>1
  <2> QED
    BY <1>1, <1>9, <2>1, <2>2, <2>5, <2>6, <2>7, <2>8, <2>9 DEF LiveWriter
<1> QED
  BY <1>3, <1>11, <1>12, <1>13, <1>14, Zenon DEF DurabilityInv

(***************************************************************************)
(* create(): nothing is stored until the MANIFEST is there.                *)
(***************************************************************************)
\* While there is no MANIFEST the log, the marker and the history are empty.
LEMMA NothingStored ==
  ASSUME TypeOK, DurabilityInv, pc \in NoHandle, dir.vis.man = NoManifest
  PROVE  /\ AckedIsKept /\ LogsAgree /\ CreatedEmpty /\ NoManifest \in Mans
         /\ wal = Durable(<< >>) /\ commit = Durable(0)
         /\ acked = << >> /\ attempt = << >> /\ graph = << >> /\ durable_seq = 0
         /\ ~ poisoned /\ NoSnapshot \in Snaps /\ \A m \in Mans : m.snap = NoSnapshot
         /\ \A n, c : SameBatches(wal.crash, n, c)
         /\ << >> \in Seq(Frames) /\ Scanned(<< >>) = {}
<1>1. AckedIsKept /\ LogsAgree /\ CreatedEmpty
  BY Zenon DEF DurabilityInv
<1>2. NoManifest \in Mans /\ NoManifest.snap = NoSnapshot
  BY SnapsShape DEF NoManifest, ManifestRecord
<1>3. /\ wal = Durable(<< >>) /\ commit = Durable(0)
      /\ acked = << >> /\ attempt = << >> /\ graph = << >> /\ durable_seq = 0
      /\ ~ poisoned /\ \A m \in Mans : m.snap = NoSnapshot
  BY <1>1, <1>2, Zenon DEF CreatedEmpty
<1>4. NoSnapshot \in Snaps
  BY <1>2, SnapsShape
<1>5. << >> \in Seq(Frames) /\ Scanned(<< >>) = {}
  BY EmptySeq DEF Scanned
<1>6. \A n, c : SameBatches(wal.crash, n, c)
  BY <1>3, <1>5 DEF Durable, SameBatches
<1> QED
  BY <1>1, <1>2, <1>3, <1>4, <1>5, <1>6

\* A step of create() before its MANIFEST, failed ones included.
LEMMA CreateStep ==
  ASSUME TypeOK, DurabilityInv, pc \in NoHandle, pc' \in NoHandle,
         dir.vis.man = NoManifest, ManStays, wal' = wal,
         UNCHANGED <<commit, graph, durable_seq, acked, attempt>>, ~ poisoned',
         pc' = "create_manifest" => epoch' > 0
  PROVE  DurabilityInv'
<1>1. /\ AckedIsKept /\ LogsAgree /\ CreatedEmpty
      /\ wal = Durable(<< >>) /\ commit = Durable(0) /\ graph = << >>
      /\ acked = << >> /\ attempt = << >> /\ durable_seq = 0
      /\ \A m \in Mans : m.snap = NoSnapshot
      /\ \A n, c : SameBatches(wal.crash, n, c)
  BY NothingStored
<1>2. pc' \notin Recovering /\ ~ HandleOpen'
  BY DEF NoHandle, Recovering, HandleOpen, Opening
<1>3. Snaps' \subseteq Snaps
  BY DEF Snaps, ManStays
<1>4. LogsWithin
  BY Shapes, WithinPrefix DEF LogsWithin
<1>5. AckedIsKept'
  BY <1>1, <1>3, <1>4, AckedStays DEF AckedIsKept
<1>6. LogsAgree'
  BY <1>1, <1>4, LogsStay
<1>7. CreatedEmpty'
  <2>1. dir'.vis.man = NoManifest /\ Mans' \subseteq Mans
    BY DEF ManStays
  <2>2. \A m \in Mans' : (m # NoManifest => m.epoch > 0) /\ m.snap = NoSnapshot
    BY <1>1, <2>1 DEF CreatedEmpty
  <2>3. pc' \notin NoHandle \ {"create_manifest"} => epoch' > 0
    BY DEF NoHandle
  <2> QED
    BY <1>1, <1>2, <2>1, <2>2, <2>3, Zenon DEF CreatedEmpty
<1> QED
  BY <1>2, <1>5, <1>6, <1>7, Zenon DEF DurabilityInv

\* The MANIFEST that ends create(): the writer starts with nothing.
LEMMA CreateManifestKeeps ==
  ASSUME TypeOK, DurabilityInv, CreateManifest
  PROVE  DurabilityInv'
<1> DEFINE m == ManifestRecord(FirstSnapshot, epoch, 0, FALSE)
           d == PutManifest(dir.vis, m)
<1>1. /\ pc = "create_manifest" /\ pc \in NoHandle /\ pc \in NoHandle \ {"closed"}
      /\ UNCHANGED <<wal, commit, acked, attempt>>
  BY DEF CreateManifest, NoHandle
<1>2. /\ dir.vis.man = NoManifest /\ epoch > 0
  BY <1>1 DEF DurabilityInv, CreatedEmpty, NoHandle
<1>3. /\ AckedIsKept /\ LogsAgree /\ CreatedEmpty /\ NoManifest \in Mans
      /\ wal = Durable(<< >>) /\ commit = Durable(0)
      /\ acked = << >> /\ attempt = << >> /\ graph = << >> /\ durable_seq = 0
      /\ ~ poisoned /\ NoSnapshot \in Snaps
      /\ \A n, c : SameBatches(wal.crash, n, c)
      /\ << >> \in Seq(Frames) /\ Scanned(<< >>) = {}
  BY <1>1, <1>2, NothingStored
<1>4. d.man = m /\ m.snap = NoSnapshot /\ m.epoch = epoch
  BY Shapes DEF PutManifest, Dirs, ManifestRecord, FirstSnapshot
<1>5. \/ dir' = Durable(d) /\ pc' = "idle" /\ snapshot' = NoSnapshot
         /\ UNCHANGED <<graph, durable_seq, epoch>> /\ (~ poisoned' <=> ~ poisoned)
      \/ dir' \in Interrupted(dir, d, {}) /\ HandleGone
  BY DEF CreateManifest, AtomicOk, AtomicErr, FirstSnapshot
<1> HIDE DEF d, m
<1>6. CASE dir' \in Interrupted(dir, d, {}) /\ HandleGone
  <2>1. ManPut(m)
    BY <1>4, <1>6, DirStep
  <2>2. LogsWithin
    BY <1>1, Shapes, WithinPrefix DEF LogsWithin
  <2>3. \A c \in commit'.crash : Len(acked) <= c
    BY <1>1, <1>3 DEF AckedIsKept
  <2> QED
    BY <1>1, <1>2, <1>3, <1>4, <1>6, <2>1, <2>2, <2>3, GoneStep
<1>7. CASE /\ dir' = Durable(d) /\ pc' = "idle" /\ snapshot' = NoSnapshot
           /\ UNCHANGED <<graph, durable_seq, epoch>> /\ (~ poisoned' <=> ~ poisoned)
  <2>1. /\ pc' \notin NoHandle /\ pc' \notin Recovering
        /\ pc' \notin NoHandle \ {"closed"} /\ ~ poisoned'
    BY <1>3, <1>7 DEF NoHandle, Recovering
  <2>2. /\ Mans' = {m} /\ Snaps' = {NoSnapshot} /\ dir'.vis.man = m
        /\ wal'.vis = << >> /\ wal'.crash = {<< >>}
        /\ commit'.vis = 0 /\ commit'.crash = {0}
    BY <1>1, <1>3, <1>4, <1>7 DEF Mans, Snaps, Durable
  <2>3. AckedIsKept'
    BY <1>1, <1>3, <2>2 DEF AckedIsKept, SnapAgrees, LogAgrees
  <2>4. LogsAgree'
    BY <1>1, <1>3, <2>2 DEF LogsAgree, InOrder
  <2>5. CreatedEmpty'
    <3>1. m # NoManifest
      BY <1>2, <1>4 DEF NoManifest, ManifestRecord
    <3>2. NoManifest \notin Mans' /\ epoch' > 0 /\ \A x \in Mans' : x.epoch > 0
      BY <1>2, <1>4, <1>7, <2>2, <3>1
    <3> QED
      BY <2>1, <3>2, Zenon DEF CreatedEmpty
  <2>6. LiveWriter'
    <3>1. NoSnapshot.seq = 0 /\ NoSnapshot.data = << >>
      BY DEF NoSnapshot
    <3>2. Extends(<< >>, << >>) /\ Len(<< >>) = 0
      BY EmptySeq DEF Extends
    <3>3. NoStray(<< >>, << >>) /\ LogAgrees(<< >>, 0, << >>)
      BY <1>3 DEF NoStray, LogAgrees
    <3>4. graph' = << >> /\ attempt' = << >> /\ acked' = << >> /\ durable_seq' = 0
      BY <1>1, <1>3, <1>7
    <3> QED
      BY <1>4, <1>7, <2>2, <3>1, <3>2, <3>3, <3>4 DEF LiveWriter
  <2> QED
    BY <2>1, <2>3, <2>4, <2>5, <2>6, Zenon DEF DurabilityInv
<1> QED
  BY <1>5, <1>6, <1>7

\* create() up to its MANIFEST, and however that ends.
LEMMA CreateKeeps ==
  ASSUME TypeOK, DurabilityInv, Create
  PROVE  DurabilityInv'
<1>1. CASE CreateManifest
  BY <1>1, CreateManifestKeeps
<1>2. CASE CreateSnapshot
  <2> DEFINE d == PutSnapshot(dir.vis, FirstSnapshot)
  <2>1. /\ pc \in NoHandle /\ pc' \in {"closed", "create_wal"} /\ dir.vis.man = NoManifest
        /\ dir' \in {Durable(d)} \cup Interrupted(dir, d, {}) /\ wal' = wal
        /\ UNCHANGED <<commit, graph, durable_seq, acked, attempt>>
    BY <1>2 DEF CreateSnapshot, AtomicOk, AtomicErr, NoHandle, writer, history
  <2>2. d.man = dir.vis.man
    BY Shapes DEF PutSnapshot, Dirs
  <2> HIDE DEF d
  <2>3. ManStays
    BY <2>1, <2>2, DirStep
  <2>4. ~ poisoned'
    <3>1. ~ poisoned
      BY <2>1, NothingStored
    <3>2. poisoned' = poisoned
      BY <1>2 DEF CreateSnapshot, writer
    <3> QED
      BY <3>1, <3>2, Zenon
  <2>5. pc' \in NoHandle /\ pc' # "create_manifest"
    BY <2>1 DEF NoHandle
  <2> QED
    BY <2>1, <2>3, <2>4, <2>5, CreateStep
<1>3. CASE CreateWal
  <2> DEFINE d == [dir.vis EXCEPT !.has_wal = TRUE]
  <2>1. /\ pc = "create_wal" /\ pc \in NoHandle /\ pc' \in {"closed", "create_commit"}
        /\ dir' \in {Durable(d)} \cup Interrupted(dir, d, {})
        /\ wal' \in {Durable(<< >>)} \cup Interrupted(wal, << >>, {})
        /\ UNCHANGED <<commit, acked, attempt>>
    BY <1>3 DEF CreateWal, AtomicOk, AtomicErr, HandleGone, NoHandle, history
  <2>2. dir.vis.man = NoManifest
    BY <2>1 DEF DurabilityInv, CreatedEmpty, NoHandle
  <2>3. /\ wal = Durable(<< >>) /\ graph = << >> /\ durable_seq = 0 /\ ~ poisoned
    BY <2>1, <2>2, NothingStored
  <2>4. d.man = dir.vis.man
    BY Shapes DEF Dirs
  <2> HIDE DEF d
  <2>5. ManStays
    BY <2>1, <2>4, DirStep
  <2>6. wal' = wal
    <3>1. Written(Durable(<< >>), << >>, {}) = Durable(<< >>)
      BY DEF Written, Durable
    <3> QED
      BY <2>1, <2>3, <3>1 DEF Interrupted, FailedWrite, FailedSync
  <2>7. graph' = graph /\ durable_seq' = durable_seq /\ ~ poisoned'
    <3>1. \/ graph' = graph /\ durable_seq' = durable_seq /\ poisoned' = poisoned
          \/ graph' = << >> /\ durable_seq' = 0 /\ poisoned' = FALSE
      BY <1>3 DEF CreateWal, HandleGone, writer
    <3>2. ASSUME poisoned' = poisoned PROVE ~ poisoned'
      <4>1. ~ poisoned
        BY <2>3
      <4> QED
        BY <3>2, <4>1, Zenon
    <3>3. poisoned' = FALSE => ~ poisoned'
      BY Zenon
    <3>4. graph' = graph /\ durable_seq' = durable_seq
      BY <2>3, <3>1
    <3> QED
      BY <3>1, <3>2, <3>3, <3>4, Zenon
  <2>8. pc' \in NoHandle /\ pc' # "create_manifest"
    BY <2>1 DEF NoHandle
  <2> QED
    BY <2>1, <2>2, <2>5, <2>6, <2>7, <2>8, CreateStep
<1>4. CASE CreateCommit
  <2> DEFINE d == [dir.vis EXCEPT !.has_commit = TRUE]
  <2>1. /\ pc = "create_commit" /\ pc \in NoHandle /\ pc' \in {"closed", "create_manifest"}
        /\ dir' \in {Durable(d)} \cup Interrupted(dir, d, {}) /\ wal' = wal
        /\ UNCHANGED <<commit, acked, attempt>>
    BY <1>4 DEF CreateCommit, AtomicOk, AtomicErr, HandleGone, NoHandle, history
  <2>2. dir.vis.man = NoManifest
    BY <2>1 DEF DurabilityInv, CreatedEmpty, NoHandle
  <2>3. graph = << >> /\ durable_seq = 0 /\ ~ poisoned
    BY <2>1, <2>2, NothingStored
  <2>4. d.man = dir.vis.man
    BY Shapes DEF Dirs
  <2> HIDE DEF d
  <2>5. ManStays
    BY <2>1, <2>4, DirStep
  <2>6. graph' = graph /\ durable_seq' = durable_seq /\ ~ poisoned'
    <3>1. \/ graph' = graph /\ durable_seq' = durable_seq /\ poisoned' = poisoned
          \/ graph' = << >> /\ durable_seq' = 0 /\ poisoned' = FALSE
      BY <1>4 DEF CreateCommit, HandleGone
    <3>2. ASSUME poisoned' = poisoned PROVE ~ poisoned'
      <4>1. ~ poisoned
        BY <2>3
      <4> QED
        BY <3>2, <4>1, Zenon
    <3>3. poisoned' = FALSE => ~ poisoned'
      BY Zenon
    <3>4. graph' = graph /\ durable_seq' = durable_seq
      BY <2>3, <3>1
    <3> QED
      BY <3>1, <3>2, <3>3, <3>4, Zenon
  <2>7. pc' = "create_manifest" => epoch' > 0
    <3>1. \/ epoch' = next_epoch
          \/ pc' = "closed"
      BY <1>4 DEF CreateCommit, HandleGone
    <3>2. next_epoch \in 1..(MaxEpoch + 1)
      BY DEF TypeOK
    <3> QED
      BY <3>1, <3>2, ConstantsAssumption
  <2>8. pc' \in NoHandle
    BY <2>1 DEF NoHandle
  <2> QED
    BY <2>1, <2>2, <2>5, <2>6, <2>7, <2>8, CreateStep
<1> QED
  BY <1>1, <1>2, <1>3, <1>4 DEF Create

(***************************************************************************)
(* open(): recovery.                                                       *)
(***************************************************************************)
\* The scan: every log that may be the next one agrees with the graph
\* recovered from the one it read.
LEMMA OpenScanKeeps ==
  ASSUME TypeOK, DurabilityInv, OpenScan
  PROVE  DurabilityInv'
<1> DEFINE w  == wal.vis
           c  == commit.vis
           D  == dir.vis
           n  == D.man.snap.seq
           hw == HighWater(c, D)
           r  == RecoveredGraph(w, c, D)
<1>1. /\ pc = "closed" /\ pc \in NoHandle /\ Recoverable(w, c, D)
      /\ pc' = (IF HasTail(w, hw) THEN "open_truncate" ELSE "open_commit")
      /\ UNCHANGED <<wal, commit, dir, acked, attempt>> /\ poisoned' = poisoned
      /\ graph' = r /\ snapshot' = D.man.snap /\ durable_seq' = hw
      /\ epoch' \in {next_epoch, D.man.epoch}
  BY DEF OpenScan, disk, history, NoHandle
<1>2. /\ pc' \notin NoHandle /\ pc' \in Recovering /\ ~ HandleOpen'
      /\ pc' \notin NoHandle \ {"closed"} /\ pc' # "open_manifest"
  BY <1>1 DEF NoHandle, Recovering, HandleOpen, Opening
<1>3. AckedIsKept /\ LogsAgree /\ CreatedEmpty
  BY Zenon DEF DurabilityInv
<1>4. /\ w \in Seq(Frames) /\ w \in wal.crash /\ c \in Nat /\ D \in Dirs
      /\ D.man \in Mans /\ D.man.snap \in Snaps
      /\ \A v \in wal.crash : v \in Seq(Frames)
  BY Shapes, SnapsShape
<1>5. /\ hw \in Nat /\ n \in Nat /\ hw \in {c, n} /\ D.man.epoch \in Nat
      /\ r \in Graphs /\ Len(r) = hw
  <2>1. hw \in Nat /\ n \in Nat /\ hw \in {c, n} /\ D.man.epoch \in Nat
    <3>1. /\ hw \in Nat /\ n \in Nat /\ hw \in {c, n}
          /\ D.man.epoch \in 0..MaxEpoch
      BY <1>4, HighWaterType, Zenon
    <3> QED
      BY <3>1, ConstantsAssumption
  <2>2. r \in Graphs /\ Len(r) = hw
    BY <1>1, <1>4, RecoveredGraphType
  <2> QED
    BY <2>1, <2>2
<1>6. LogAgrees(w, n, r) /\ Extends(r, D.man.snap.data) /\ n <= Len(r)
  BY <1>1, <1>4, RecoveredAgrees
<1>7. Extends(r, acked)
  <2>1. NoSilentLoss
    BY <1>3, NothingLost
  <2>2. c \in commit.crash /\ D \in dir.crash
    BY Shapes
  <2> QED
    BY <1>1, <1>4, <2>1, <2>2 DEF NoSilentLoss
<1> HIDE DEF r
<1>8. ASSUME NEW v \in wal.crash PROVE LogAgrees(v, n, r)
  <2>1. SUFFICES ASSUME NEW i \in Scanned(v), n < v[i].seq, v[i].seq <= Len(r)
                 PROVE  v[i].batch = r[v[i].seq]
    BY DEF LogAgrees
  <2> DEFINE k == v[i].seq
             j == FrameOf(w, hw, D, k)
  <2>2. k \in Nat
    BY <1>4, ScannedFrame
  <2>3. hw = c /\ k \in (n + 1)..hw
    BY <1>5, <2>1, <2>2
  <2>4. j \in Replayed(w, hw, D) /\ w[j].seq = k
    <3>1. NoGap(w, hw, D)
      BY <1>1 DEF Recoverable
    <3> HIDE DEF hw, k
    <3> QED
      BY <1>4, <1>5, <2>3, <3>1, ReplayedFrame
  <2>5. j \in Scanned(w)
    BY <2>4 DEF Replayed, Committed
  <2> HIDE DEF j
  <2>6. v[i].batch = w[j].batch
    <3>1. SameBatches(wal.crash, n, c)
      BY <1>3 DEF LogsAgree
    <3>2. v[i].seq <= c
      BY <1>5, <2>1, <2>3
    <3> QED
      BY <1>4, <2>1, <2>4, <2>5, <3>1, <3>2 DEF SameBatches
  <2>7. w[j].batch = r[k]
    BY <1>6, <2>1, <2>4, <2>5 DEF LogAgrees
  <2> QED
    BY <2>6, <2>7
<1>9. IF pc' = "open_truncate" THEN w # << >> ELSE NoStray(w, r)
  <2>1. CASE HasTail(w, hw)
    <3>1. w # << >>
      <4>1. Cardinality(Committed(w, hw)) \in 0..Len(w)
        BY <1>4, <1>5, CommittedPartType
      <4>2. Len(w) > 0
        BY <1>4, <2>1, <4>1 DEF HasTail
      <4> QED
        BY <4>2, EmptySeq
    <3> QED
      BY <1>1, <2>1, <3>1
  <2>2. CASE ~ HasTail(w, hw)
    <3>1. NoStray(w, r)
      BY <1>4, <1>5, <2>2, NoTailNoStray DEF NoStray
    <3> QED
      BY <1>1, <2>2, <3>1
  <2> QED
    BY <2>1, <2>2
<1>10. RecoveringWriter'
  BY <1>1, <1>2, <1>5, <1>6, <1>7, <1>8, <1>9 DEF RecoveringWriter
<1>11. Mans' = Mans /\ Snaps' = Snaps
  <2>1. Mans' = Mans
    BY <1>1 DEF Mans
  <2>2. Snaps = {m.snap : m \in Mans}
    BY <1>1 DEF Snaps
  <2>3. Snaps' = {m.snap : m \in Mans} \cup {D.man.snap}
    BY <1>1, <1>2, <2>1 DEF Snaps
  <2> QED
    BY <1>4, <2>1, <2>2, <2>3
<1>12. AckedIsKept' /\ LogsAgree'
  BY <1>1, <1>3, <1>11 DEF AckedIsKept, LogsAgree
<1>13. CreatedEmpty'
  <2>1. \A m \in Mans' : m # NoManifest => m.epoch > 0
    BY <1>3, <1>11 DEF CreatedEmpty
  <2>2. epoch' > 0
    <3>1. D.man.epoch > 0
      BY <1>1, <1>3, <1>4 DEF CreatedEmpty, Recoverable
    <3>2. next_epoch > 0
      BY ConstantsAssumption DEF TypeOK
    <3> QED
      BY <1>1, <3>1, <3>2
  <2>3. NoManifest \in Mans' =>
          /\ acked' = << >> /\ attempt' = << >>
          /\ wal' = Durable(<< >>) /\ commit' = Durable(0) /\ durable_seq' = 0
          /\ \A m \in Mans' : m.snap = NoSnapshot
    <3>1. SUFFICES ASSUME NoManifest \in Mans
                   PROVE  /\ acked = << >> /\ attempt = << >>
                          /\ wal = Durable(<< >>) /\ commit = Durable(0) /\ hw = 0
                          /\ \A m \in Mans : m.snap = NoSnapshot
      BY <1>1, <1>11
    <3>2. /\ acked = << >> /\ attempt = << >>
          /\ wal = Durable(<< >>) /\ commit = Durable(0)
          /\ \A m \in Mans : m.snap = NoSnapshot
      BY <1>3, <3>1 DEF CreatedEmpty
    <3>3. c = 0 /\ n = 0
      BY <1>4, <3>2 DEF Durable, NoSnapshot
    <3> QED
      BY <1>5, <3>2, <3>3
  <2>4. ~ poisoned'
    <3>1. ~ poisoned /\ poisoned' = poisoned
      BY <1>1, <1>3, Zenon DEF CreatedEmpty
    <3> QED
      BY <3>1, Zenon
  <2> QED
    BY <1>2, <2>1, <2>2, <2>3, <2>4, Zenon DEF CreatedEmpty
<1> QED
  BY <1>2, <1>10, <1>12, <1>13, Zenon DEF DurabilityInv

\* A durable step of a recovery that succeeded: the log may lose its tail and
\* the marker may reach the end of the recovered graph.
LEMMA RecoveryStep ==
  ASSUME TypeOK, DurabilityInv, pc \in Recovering,
         pc' \in {"open_commit", "open_manifest"}, LogsWithin, ManStays,
         \A c \in commit'.crash : c \in commit.crash \/ c = durable_seq,
         commit'.vis \in {commit.vis, durable_seq},
         NoManifest \in Mans => wal' = wal /\ commit' = commit,
         UNCHANGED <<graph, snapshot, durable_seq, epoch, acked, attempt>>, ~ poisoned',
         NoStray(wal'.vis, graph),
         pc' = "open_manifest" => commit' = Durable(durable_seq)
  PROVE  DurabilityInv'
<1>1. /\ pc \notin NoHandle /\ pc' \notin NoHandle /\ pc' \in Recovering /\ ~ HandleOpen'
      /\ pc \notin NoHandle \ {"create_manifest"}
      /\ pc' \notin NoHandle \ {"create_manifest"} /\ pc' \notin NoHandle \ {"closed"}
      /\ pc' # "open_truncate"
  BY DEF NoHandle, Recovering, HandleOpen, Opening
<1>2. AckedIsKept /\ LogsAgree /\ CreatedEmpty /\ RecoveringWriter
  BY Zenon DEF DurabilityInv
<1>3. Snaps' \subseteq Snaps /\ Mans' \subseteq Mans /\ dir'.vis.man = dir.vis.man
  BY <1>1 DEF Snaps, ManStays
<1>4. AckedIsKept'
  <2>1. Len(acked) <= durable_seq
    BY <1>2 DEF RecoveringWriter, Extends
  <2> QED
    BY <1>2, <1>3, <2>1, AckedStays DEF AckedIsKept
<1>5. LogsAgree'
  <2>1. SameBatches(wal.crash, snapshot.seq, durable_seq)
    BY <1>2, Shapes, GraphIsCommon DEF RecoveringWriter
  <2>2. snapshot.seq = dir'.vis.man.snap.seq
    BY <1>2, <1>3 DEF RecoveringWriter
  <2>3. SameBatches(wal.crash, snapshot.seq, commit'.vis)
    BY <1>1, <1>2, <2>1 DEF LogsAgree
  <2> QED
    BY <1>2, <2>2, <2>3, LogsStay
<1>6. CreatedEmpty'
  <2>1. \A m \in Mans' : m # NoManifest => m.epoch > 0
    BY <1>2, <1>3 DEF CreatedEmpty
  <2>2. NoManifest \in Mans' =>
          /\ acked' = << >> /\ attempt' = << >>
          /\ wal' = Durable(<< >>) /\ commit' = Durable(0) /\ durable_seq' = 0
          /\ \A m \in Mans' : m.snap = NoSnapshot
    BY <1>2, <1>3 DEF CreatedEmpty
  <2>3. epoch' > 0
    BY <1>1, <1>2 DEF CreatedEmpty
  <2> QED
    BY <1>1, <2>1, <2>2, <2>3, Zenon DEF CreatedEmpty
<1>7. RecoveringWriter'
  <2>1. \A v \in wal'.crash : LogAgrees(v, snapshot.seq, graph)
    BY <1>2, WithinKeeps DEF LogsWithin, RecoveringWriter
  <2> QED
    BY <1>1, <1>2, <1>3, <2>1 DEF RecoveringWriter
<1> QED
  BY <1>1, <1>4, <1>5, <1>6, <1>7, Zenon DEF DurabilityInv

\* Its steps up to the MANIFEST, and however they end.
LEMMA OpenStepsKeep ==
  ASSUME TypeOK, DurabilityInv, OpenTruncate \/ OpenCommit
  PROVE  DurabilityInv'
<1>1. /\ pc \in Recovering /\ pc \in {"open_truncate", "open_commit"}
      /\ UNCHANGED <<acked, attempt>>
  BY DEF OpenTruncate, OpenCommit, Recovering, history
<1>2. AckedIsKept /\ LogsAgree /\ CreatedEmpty /\ RecoveringWriter /\ ~ poisoned
  <2>1. AckedIsKept /\ LogsAgree /\ CreatedEmpty /\ RecoveringWriter
    BY <1>1, Zenon DEF DurabilityInv
  <2>2. pc \notin {"idle", "close_manifest"}
    BY <1>1
  <2> QED
    BY <2>1, <2>2, Zenon DEF CreatedEmpty
<1>3. /\ wal.vis \in Seq(Frames) /\ wal.vis \in wal.crash /\ InOrder(wal.vis)
      /\ Within(wal.vis, wal.vis) /\ dir.vis.man \in Mans
      /\ durable_seq \in Nat /\ durable_seq = Len(graph)
      /\ dir.vis.man = dir.vis.man /\ Len(acked) <= durable_seq
  <2>1. wal.vis \in Seq(Frames) /\ wal.vis \in wal.crash /\ durable_seq \in Nat
    BY Shapes
  <2>2. durable_seq = Len(graph) /\ Len(acked) <= durable_seq
    BY <1>2 DEF RecoveringWriter, Extends
  <2> QED
    BY <1>2, <2>1, <2>2, SnapsShape, WithinPrefix DEF LogsAgree
<1>4. NoManifest \in Mans =>
        /\ wal = Durable(<< >>) /\ commit = Durable(0) /\ durable_seq = 0
        /\ \A m \in Mans : m.snap = NoSnapshot
  BY <1>2 DEF CreatedEmpty
<1>5. SameBatches(wal.crash, dir.vis.man.snap.seq, durable_seq)
  BY <1>2, <1>3, Shapes, GraphIsCommon DEF RecoveringWriter
<1>6. CASE OpenTruncate
  <2> DEFINE kept == CommittedPart(wal.vis, durable_seq)
  <2>1. /\ Within(kept, wal.vis) /\ \A i \in Scanned(kept) : kept[i].seq <= durable_seq
    BY <1>3, KeptIsCommitted
  <2>2. commit' = commit /\ pc = "open_truncate"
    BY <1>6 DEF OpenTruncate
  <2>3. \/ /\ wal' = Durable(kept) /\ dir' = Synced(dir) /\ pc' = "open_commit"
           /\ UNCHANGED <<graph, snapshot, durable_seq, epoch>>
           /\ poisoned' = poisoned
        \/ wal' \in Interrupted(wal, kept, {}) /\ HandleGone /\ dir' = dir
    BY <1>6 DEF OpenTruncate, writer
  <2> HIDE DEF kept
  <2>4. LogsWithin
    BY <2>1, <2>3, LogStep
  <2>5. ManStays /\ ManPut(dir.vis.man)
    BY <2>3, DirStep
  <2>6. NoManifest \notin Mans
    <3>1. wal.vis # << >>
      BY <1>2, <2>2 DEF RecoveringWriter
    <3> QED
      BY <1>4, <3>1 DEF Durable
  <2>7. CASE /\ wal' = Durable(kept) /\ dir' = Synced(dir) /\ pc' = "open_commit"
             /\ UNCHANGED <<graph, snapshot, durable_seq, epoch>>
             /\ poisoned' = poisoned
    <3>1. NoStray(wal'.vis, graph)
      BY <1>3, <2>1, <2>7 DEF NoStray, Durable
    <3>2. ~ poisoned'
      BY <1>2, <2>7, Zenon
    <3>3. commit'.vis = commit.vis /\ \A c \in commit'.crash : c \in commit.crash
      BY <2>2
    <3> QED
      BY <1>1, <2>4, <2>5, <2>6, <2>7, <3>1, <3>2, <3>3, RecoveryStep
  <2>8. CASE wal' \in Interrupted(wal, kept, {}) /\ HandleGone /\ dir' = dir
    <3>1. /\ \A c \in commit'.crash : Len(acked) <= c
          /\ SameBatches(wal.crash, dir.vis.man.snap.seq, commit'.vis)
      BY <1>2, <2>2 DEF AckedIsKept, LogsAgree
    <3> QED
      BY <1>1, <1>3, <2>4, <2>5, <2>6, <2>8, <3>1, GoneStep
  <2> QED
    BY <2>3, <2>7, <2>8
<1>7. CASE OpenCommit
  <2>1. wal' = wal /\ dir' = dir /\ pc = "open_commit"
    BY <1>7 DEF OpenCommit
  <2>2. \/ /\ commit' = Durable(durable_seq) /\ pc' = "open_manifest"
           /\ UNCHANGED <<graph, snapshot, durable_seq, epoch>>
           /\ poisoned' = poisoned
        \/ commit' \in Interrupted(commit, durable_seq, {}) /\ HandleGone
    <3>1. AdvanceOk(durable_seq) => /\ commit' = Durable(durable_seq)
                                    /\ durable_seq' = durable_seq
                                    /\ poisoned' = poisoned
      BY DEF AdvanceOk
    <3> QED
      BY <1>7, <3>1 DEF OpenCommit
  <2>3. /\ commit'.crash \subseteq commit.crash \cup {durable_seq}
        /\ commit'.vis \in {commit.vis, durable_seq}
    BY <2>2, MarkerStep
  <2>4. LogsWithin
    BY <1>3, <2>1, LogStep
  <2>5. ManStays /\ ManPut(dir.vis.man)
    BY <2>1, DirStep
  <2>6. NoManifest \in Mans => commit' = commit
    <3>1. SUFFICES ASSUME commit = Durable(0), durable_seq = 0
                   PROVE  commit' = Durable(0)
      BY <1>4
    <3>2. Written(Durable(0), 0, {}) = Durable(0)
      BY DEF Written, Durable
    <3> QED
      BY <2>2, <3>1, <3>2 DEF Interrupted, FailedWrite, FailedSync
  <2>7. CASE /\ commit' = Durable(durable_seq) /\ pc' = "open_manifest"
             /\ UNCHANGED <<graph, snapshot, durable_seq, epoch>>
             /\ poisoned' = poisoned
    <3>1. NoStray(wal'.vis, graph)
      BY <1>2, <2>1 DEF RecoveringWriter
    <3>2. ~ poisoned'
      BY <1>2, <2>7, Zenon
    <3> QED
      BY <1>1, <2>1, <2>3, <2>4, <2>5, <2>6, <2>7, <3>1, <3>2, RecoveryStep
  <2>8. CASE commit' \in Interrupted(commit, durable_seq, {}) /\ HandleGone
    <3>1. /\ \A c \in commit'.crash : Len(acked) <= c
          /\ SameBatches(wal.crash, dir.vis.man.snap.seq, commit'.vis)
      BY <1>2, <1>3, <1>5, <2>3 DEF AckedIsKept, LogsAgree
    <3> QED
      BY <1>1, <1>3, <1>4, <2>1, <2>4, <2>5, <2>6, <2>8, <3>1, GoneStep
  <2> QED
    BY <2>2, <2>7, <2>8
<1> QED
  BY <1>6, <1>7

\* The MANIFEST that ends a recovery: what was recovered is acknowledged.
LEMMA OpenManifestKeeps ==
  ASSUME TypeOK, DurabilityInv, OpenManifest
  PROVE  DurabilityInv'
<1> DEFINE m == ManifestRecord(snapshot, epoch, durable_seq, FALSE)
           d == PutManifest(dir.vis, m)
<1>1. /\ pc = "open_manifest" /\ pc \in Recovering /\ pc \notin NoHandle
      /\ pc \notin NoHandle \ {"create_manifest"} /\ pc # "open_truncate"
      /\ UNCHANGED <<wal, commit>>
  BY DEF OpenManifest, Recovering, NoHandle
<1>2. /\ AckedIsKept /\ LogsAgree /\ CreatedEmpty /\ RecoveringWriter /\ ~ poisoned
      /\ epoch > 0
  <2>1. AckedIsKept /\ LogsAgree /\ CreatedEmpty /\ RecoveringWriter
    BY <1>1, Zenon DEF DurabilityInv
  <2>2. pc \notin {"idle", "close_manifest"}
    BY <1>1
  <2>3. epoch > 0
    BY <1>1, <2>1 DEF CreatedEmpty
  <2> QED
    BY <2>1, <2>2, <2>3, Zenon DEF CreatedEmpty
<1>3. d.man = m /\ m.snap = snapshot /\ m.epoch = epoch /\ d \in [man : {m}, snaps : {d.snaps},
        has_wal : {d.has_wal}, has_commit : {d.has_commit}]
  BY Shapes DEF PutManifest, Dirs, ManifestRecord
<1>4. \/ /\ \E gone : dir' = Written(Durable(d), [d EXCEPT !.snaps = @ \ gone], {})
         /\ pc' = "idle" /\ acked' = graph /\ attempt' = graph /\ poisoned' = poisoned
         /\ UNCHANGED <<graph, snapshot, durable_seq, epoch>>
      \/ /\ dir' \in Interrupted(dir, d, {}) /\ HandleGone
         /\ UNCHANGED <<acked, attempt>>
  <2>1. UNCHANGED writer => /\ UNCHANGED <<graph, snapshot, durable_seq, epoch>>
                            /\ poisoned' = poisoned
    BY DEF writer
  <2> HIDE DEF d
  <2> QED
    BY <2>1 DEF OpenManifest, AtomicErr, Ack, history, d
<1> HIDE DEF d, m
<1>5. LogsWithin
  BY <1>1, Shapes, WithinPrefix DEF LogsWithin
<1>6. CASE /\ dir' \in Interrupted(dir, d, {}) /\ HandleGone
           /\ UNCHANGED <<acked, attempt>>
  <2>1. ManPut(m)
    BY <1>3, <1>6, DirStep
  <2>2. m.snap \in Snaps
    BY <1>1, <1>3 DEF Snaps
  <2>3. NoManifest \in Mans => m.snap = NoSnapshot
    BY <1>2, <1>3, SnapsShape DEF CreatedEmpty, RecoveringWriter
  <2>4. /\ \A c \in commit'.crash : Len(acked) <= c
        /\ SameBatches(wal.crash, dir.vis.man.snap.seq, commit'.vis)
        /\ SameBatches(wal.crash, m.snap.seq, commit'.vis)
    BY <1>1, <1>2, <1>3 DEF AckedIsKept, LogsAgree
  <2> QED
    BY <1>1, <1>2, <1>3, <1>5, <1>6, <2>1, <2>2, <2>3, <2>4, GoneStep
<1>7. CASE /\ \E gone : dir' = Written(Durable(d), [d EXCEPT !.snaps = @ \ gone], {})
           /\ pc' = "idle" /\ acked' = graph /\ attempt' = graph /\ poisoned' = poisoned
           /\ UNCHANGED <<graph, snapshot, durable_seq, epoch>>
  <2>1. /\ pc' \notin NoHandle /\ pc' \notin Recovering
        /\ pc' \notin NoHandle \ {"closed"}
    BY <1>7 DEF NoHandle, Recovering
  <2>2. /\ dir'.vis.man = m /\ Mans' = {m}
    <3>1. PICK gone : dir' = Written(Durable(d), [d EXCEPT !.snaps = @ \ gone], {})
      BY <1>7
    <3>2. [d EXCEPT !.snaps = @ \ gone].man = m
      BY <1>3
    <3>3. dir'.vis = [d EXCEPT !.snaps = @ \ gone]
          /\ dir'.crash = {d, [d EXCEPT !.snaps = @ \ gone]}
      BY <3>1 DEF Written, Durable
    <3> QED
      BY <1>3, <3>2, <3>3 DEF Mans
  <2>3. Snaps' = {snapshot}
    BY <1>3, <1>7, <2>1, <2>2 DEF Snaps
  <2>4. /\ durable_seq = Len(graph) /\ commit = Durable(durable_seq)
        /\ snapshot.seq <= Len(graph) /\ Extends(graph, snapshot.data)
        /\ \A v \in wal.crash : LogAgrees(v, snapshot.seq, graph)
        /\ NoStray(wal.vis, graph) /\ Len(graph) \in Nat /\ wal.vis \in wal.crash
        /\ commit.vis = Len(graph) /\ commit.crash = {Len(graph)}
    BY <1>1, <1>2, Shapes DEF RecoveringWriter, Durable
  <2>5. AckedIsKept'
    <3>1. SnapAgrees(snapshot, graph)
      <4>1. DOMAIN snapshot.data = 1..snapshot.seq /\ snapshot.seq \in Nat
        BY Shapes, SnapsShape
      <4> QED
        BY <2>4, <4>1 DEF Extends, SnapAgrees
    <3> QED
      BY <1>1, <1>7, <2>3, <2>4, <3>1 DEF AckedIsKept
  <2>6. LogsAgree'
    BY <1>1, <1>2, <1>3, <1>7, <2>2 DEF LogsAgree
  <2>7. CreatedEmpty'
    <3>1. NoManifest.epoch = 0
      BY DEF NoManifest, ManifestRecord
    <3>2. NoManifest \notin Mans' /\ epoch' > 0 /\ \A x \in Mans' : x.epoch > 0
      BY <1>2, <1>3, <1>7, <2>2, <3>1
    <3>3. ~ poisoned'
      BY <1>2, <1>7, Zenon
    <3> QED
      BY <2>1, <3>2, <3>3, Zenon DEF CreatedEmpty
  <2>8. LiveWriter'
    <3>1. Extends(graph, graph)
      <4>1. DOMAIN graph = 1..Len(graph)
        BY Shapes
      <4> QED
        BY <2>4, <4>1 DEF Extends
    <3>2. \A s \in Snaps' : /\ s.seq <= Len(graph') /\ Extends(graph', s.data)
                            /\ LogAgrees(wal'.vis, s.seq, attempt')
      BY <1>1, <1>7, <2>3, <2>4
    <3>3. /\ Extends(graph', acked') /\ durable_seq' <= Len(graph')
          /\ commit'.vis <= Len(graph') /\ attempt' = graph'
          /\ NoStray(wal'.vis, attempt')
      BY <1>1, <1>7, <2>4, <3>1
    <3>4. snapshot'.seq <= dir'.vis.man.snap.seq
      <4>1. snapshot.seq \in Nat
        BY Shapes, SnapsShape
      <4> QED
        BY <1>3, <1>7, <2>2, <4>1
    <3> QED
      BY <1>7, <3>2, <3>3, <3>4 DEF LiveWriter
  <2> QED
    BY <2>1, <2>5, <2>6, <2>7, <2>8, Zenon DEF DurabilityInv
<1> QED
  BY <1>4, <1>6, <1>7

(***************************************************************************)
(* The theorem.                                                            *)
(***************************************************************************)
\* Before the first create() there is nothing to lose.
LEMMA InitDurabilityInv == Init => DurabilityInv
<1> SUFFICES ASSUME Init PROVE DurabilityInv
  OBVIOUS
<1>1. /\ wal = Durable(<< >>) /\ commit = Durable(0) /\ dir = Durable(EmptyDir)
      /\ pc = "closed" /\ graph = << >> /\ durable_seq = 0
      /\ acked = << >> /\ attempt = << >>
  BY DEF Init
<1>2. ~ poisoned
  BY Zenon DEF Init
<1>3. /\ pc \in NoHandle /\ pc \notin Recovering /\ ~ HandleOpen
      /\ pc \notin NoHandle \ {"closed"} /\ pc \in NoHandle \ {"create_manifest"}
  BY <1>1 DEF NoHandle, Recovering, HandleOpen, Opening
<1>4. /\ Mans = {NoManifest} /\ Snaps = {NoSnapshot}
      /\ \A m \in Mans : m.snap = NoSnapshot
  <2>1. NoManifest.snap = NoSnapshot
    BY DEF NoManifest, ManifestRecord
  <2>2. dir.crash = {EmptyDir} /\ EmptyDir.man = NoManifest
    BY <1>1 DEF Durable, EmptyDir
  <2>3. Mans = {NoManifest}
    BY <2>2 DEF Mans
  <2> QED
    BY <1>3, <2>1, <2>3 DEF Snaps
<1>5. Scanned(<< >>) = {} /\ Len(<< >>) = 0
  BY EmptySeq DEF Scanned
<1>l. wal.crash = {<< >>} /\ commit.crash = {0}
  BY <1>1 DEF Durable
<1>6. AckedIsKept
  <2>1. SnapAgrees(NoSnapshot, << >>) /\ \A n : LogAgrees(<< >>, n, << >>)
    BY <1>5 DEF SnapAgrees, LogAgrees
  <2> QED
    BY <1>1, <1>4, <1>5, <1>l, <2>1 DEF AckedIsKept
<1>7. LogsAgree
  BY <1>1, <1>3, <1>5 DEF LogsAgree, Durable, InOrder, SameBatches
<1>8. CreatedEmpty
  <2>1. dir.vis.man = NoManifest /\ \A m \in Mans : m # NoManifest => m.epoch > 0
    BY <1>1, <1>4 DEF Durable, EmptyDir
  <2> QED
    BY <1>1, <1>2, <1>3, <1>4, <2>1, Zenon DEF CreatedEmpty
<1> QED
  BY <1>3, <1>6, <1>7, <1>8, Zenon DEF DurabilityInv

\* Every step of the store, its client and its environment.
LEMMA NextDurabilityInv == TypeInv /\ DurabilityInv /\ [Next]_vars => DurabilityInv'
<1> SUFFICES ASSUME TypeInv, DurabilityInv, [Next]_vars PROVE DurabilityInv'
  OBVIOUS
<1>1. TypeOK
  BY DEF TypeInv
<1>2. CASE Create
  BY <1>1, <1>2, CreateKeeps
<1>3. CASE OpenScan
  BY <1>1, <1>3, OpenScanKeeps
<1>4. CASE OpenTruncate \/ OpenCommit
  BY <1>1, <1>4, OpenStepsKeep
<1>5. CASE OpenManifest
  BY <1>1, <1>5, OpenManifestKeeps
<1>6. CASE ApplyCommit \/ FlushCommit \/ CloseCommit
  BY <1>6, MarkerActions
<1>7. CASE CloseManifest \/ Kill
  BY <1>1, <1>7, GoneActions
<1>8. CASE CompactManifest
  BY <1>1, <1>8, CompactManifestKeeps
<1>9. CASE CompactCommit
  BY <1>1, <1>9, CompactCommitKeeps
<1>10. CASE \/ SetPolicy \/ Compact \/ Flush \/ Close
            \/ CompactSnapshot \/ CompactTruncate \/ CompactReopen
  BY <1>1, <1>10, QuietActions
<1>11. ASSUME NEW b \in Batches, Apply(b) PROVE DurabilityInv'
  BY <1>1, <1>11, ApplyKeeps
<1>12. CASE PowerLoss
  BY <1>1, <1>12, PowerLossKeeps
<1>13. CASE UNCHANGED vars
  <2>1. /\ UNCHANGED <<wal, commit, dir, pc, graph, snapshot, durable_seq, epoch, acked>>
        /\ UNCHANGED attempt /\ UNCHANGED poisoned
    BY <1>13 DEF vars, disk, writer, history
  <2>2. Mans' = Mans /\ Snaps' = Snaps /\ (HandleOpen' <=> HandleOpen)
    BY <2>1 DEF Mans, Snaps, HandleOpen
  <2>3. (AckedIsKept' <=> AckedIsKept) /\ (LogsAgree' <=> LogsAgree)
    BY <2>1, <2>2 DEF AckedIsKept, LogsAgree
  <2>4. LiveWriter' <=> LiveWriter
    BY <2>1, <2>2 DEF LiveWriter
  <2>5. RecoveringWriter' <=> RecoveringWriter
    BY <2>1 DEF RecoveringWriter
  <2>6. CreatedEmpty' <=> CreatedEmpty
    BY <2>1, <2>2, Zenon DEF CreatedEmpty
  <2> QED
    BY <2>1, <2>2, <2>3, <2>4, <2>5, <2>6, Zenon DEF DurabilityInv
<1> QED
  BY <1>2, <1>3, <1>4, <1>5, <1>6, <1>7, <1>8, <1>9, <1>10, <1>11, <1>12, <1>13
  DEF Next, Open, Running, Client, Crash

\* Every marker a power cut may leave covers what was acknowledged, and the
\* snapshots and logs it may leave agree with it, pairwise and at any time.
LEMMA DurabilityInvariant == Spec => [](TypeInv /\ DurabilityInv)
<1>1. Init => TypeInv /\ DurabilityInv
  BY InitTypeInv, InitDurabilityInv
<1>2. TypeInv /\ DurabilityInv /\ [Next]_vars => (TypeInv /\ DurabilityInv)'
  BY NextTypeInv, NextDurabilityInv
<1> QED
  BY <1>1, <1>2, PTL DEF Spec

\* No crash image recovery accepts is without an acknowledged batch: at any
\* time, after any number of crashes and of failed writes and syncs
\* (apply, flush, compact, close and open_with_vfs).
THEOREM NothingAcknowledgedIsLost == Spec => []NoSilentLoss
<1>1. TypeInv /\ DurabilityInv => NoSilentLoss
  BY NothingLost DEF TypeInv, DurabilityInv
<1> QED
  BY <1>1, DurabilityInvariant, PTL

(***************************************************************************)
(* Nothing is resurrected, as long as one write or sync fails at most: the *)
(* inductive invariant of NoResurrection and its proof, for any batches,   *)
(* policies, thresholds and crash kinds.  Two faults are enough to break   *)
(* it (the run store_resurrects).                                          *)
(*                                                                         *)
(* A frame beyond the attempted graph is left in some crash image of the   *)
(* log when the truncation of open() failed and the next open found        *)
(* nothing to truncate.  A power cut could bring it back only with a       *)
(* marker that covers it, and the marker gets there only with the log      *)
(* synced; or with an older snapshot, which takes a second fault.          *)
(***************************************************************************)
(* Every MANIFEST a power cut may leave selects the visible snapshot, or   *)
(* at least none newer.                                                    *)
OneSnapshot     == \A s \in Snaps : s = dir.vis.man.snap
VisibleIsNewest == \A s \in Snaps : s.seq <= dir.vis.man.snap.seq

(* Every log holds, beyond the snapshots, batches of g only; or does so up *)
(* to seq c, whatever it has beyond.                                       *)
LogsFollow(g) ==
  \A w \in wal.crash : NoStray(w, g) /\ \A s \in Snaps : LogAgrees(w, s.seq, g)
LogsAgreeUpTo(c) ==
  \A w \in wal.crash, s \in Snaps : \A i \in Scanned(w) :
    s.seq < w[i].seq /\ w[i].seq <= c => w[i].batch = attempt[w[i].seq]

(* No log has a frame the visible one has not, so the next open sees all.  *)
NothingHidden ==
  \A w \in wal.crash, s \in Snaps : \A i \in Scanned(w) :
    s.seq < w[i].seq => \E j \in Scanned(wal.vis) : wal.vis[j].seq = w[i].seq

(* The logs as long as no fault matters, and as a fault may leave them.    *)
CleanLogs == NothingHidden /\ LogsFollow(attempt)
StaleLogs == faults = 0 /\ OneSnapshot /\ \A c \in commit.crash : LogsAgreeUpTo(c)

AttemptInv ==
  /\ \A c \in commit.crash : c <= Len(attempt)
  /\ \A s \in Snaps : s.seq <= Len(attempt) /\ Extends(attempt, s.data)
  /\ pc \in Recovering => Extends(attempt, graph)
  /\ faults <= 1 /\ VisibleIsNewest /\ (faults > 0 => OneSnapshot)
  /\ CleanLogs \/ StaleLogs

\* The attempted graph and the faults left, taken apart.
LEMMA AttemptShapes ==
  ASSUME TypeOK
  PROVE  /\ attempt \in Graphs /\ Len(attempt) \in Nat /\ DOMAIN attempt = 1..Len(attempt)
         /\ faults \in Nat
BY ConstantsAssumption DEF TypeOK, Graphs

\* Logs that follow the attempted graph agree with it up to any marker.
LEMMA CleanLogsAgree ==
  ASSUME TypeOK, CleanLogs, NEW c \in Nat, c <= Len(attempt)
  PROVE  LogsAgreeUpTo(c)
<1> SUFFICES ASSUME NEW w \in wal.crash, NEW s \in Snaps, NEW i \in Scanned(w),
                    s.seq < w[i].seq, w[i].seq <= c
             PROVE  w[i].batch = attempt[w[i].seq]
  BY DEF LogsAgreeUpTo
<1>1. w[i].seq \in Nat /\ Len(attempt) \in Nat
  BY Shapes, ScannedFrame, AttemptShapes
<1> QED
  BY <1>1 DEF CleanLogs, LogsFollow, LogAgrees

\* What a crash image recovers was attempted.
LEMMA NothingResurrected ==
  ASSUME TypeOK, AttemptInv
  PROVE  NoResurrection
<1> SUFFICES ASSUME NEW w \in wal.crash, NEW c \in commit.crash, NEW d \in dir.crash,
                    Recoverable(w, c, d)
             PROVE  Extends(attempt, RecoveredGraph(w, c, d))
  BY DEF NoResurrection
<1> DEFINE r  == RecoveredGraph(w, c, d)
           hw == HighWater(c, d)
           n  == d.man.snap.seq
<1>1. w \in Seq(Frames) /\ c \in Nat /\ d \in Dirs /\ d.man.snap \in Snaps
  BY Shapes DEF Snaps, Mans
<1>2. /\ hw \in Nat /\ hw \in {c, n} /\ n \in Nat /\ Len(r) = hw /\ r \in Graphs
      /\ d.man.snap.data \in Graphs /\ Len(d.man.snap.data) = n
  BY <1>1, HighWaterType, RecoveredGraphType
<1>3. /\ c <= Len(attempt) /\ n <= Len(attempt) /\ Len(attempt) \in Nat
      /\ Extends(attempt, d.man.snap.data)
  BY <1>1, AttemptShapes DEF AttemptInv
<1>4. LogsAgreeUpTo(c)
  BY <1>1, <1>3, CleanLogsAgree DEF AttemptInv, StaleLogs
<1>5. ASSUME NEW k \in 1..hw PROVE attempt[k] = r[k]
  <2>1. CASE k <= n
    <3>1. r[k] = d.man.snap.data[k]
      BY <2>1 DEF RecoveredGraph
    <3>2. k \in DOMAIN d.man.snap.data
      BY <1>2, <2>1 DEF Graphs
    <3> QED
      BY <1>3, <3>1, <3>2 DEF Extends
  <2>2. CASE ~ (k <= n)
    <3> DEFINE i == FrameOf(w, hw, d, k)
    <3>1. k \in (n + 1)..hw /\ hw = c
      BY <1>2, <2>2
    <3>2. NoGap(w, hw, d)
      BY DEF Recoverable
    <3>3. i \in Replayed(w, hw, d) /\ w[i].seq = k
      <4> HIDE DEF hw
      <4> QED
        BY <1>1, <1>2, <3>1, <3>2, ReplayedFrame
    <3>4. r[k] = w[i].batch
      BY <2>2 DEF RecoveredGraph
    <3> HIDE DEF i
    <3>5. i \in Scanned(w) /\ n < w[i].seq /\ w[i].seq <= c
      BY <1>2, <3>1, <3>3 DEF Replayed, Committed
    <3>6. w[i].batch = attempt[w[i].seq]
      BY <1>1, <1>4, <3>5 DEF LogsAgreeUpTo
    <3> QED
      BY <3>3, <3>4, <3>6
  <2> QED
    BY <2>1, <2>2
<1> HIDE DEF r, hw
<1>6. DOMAIN r = 1..hw /\ hw <= Len(attempt)
  BY <1>2, <1>3 DEF Graphs
<1> QED
  BY <1>2, <1>5, <1>6 DEF Extends, r

(***************************************************************************)
(* The steps that leave the attempted graph as it is.                      *)
(***************************************************************************)
(* No snapshot is new, and the visible one stays or is the only one.       *)
SnapsStay ==
  /\ Snaps' \subseteq Snaps
  /\ \/ dir'.vis.man.snap = dir.vis.man.snap
     \/ \A s \in Snaps' : s = dir'.vis.man.snap

(* The visible log keeps every frame, or is the only one.                  *)
VisibleStays ==
  \/ wal'.crash = {wal'.vis}
  \/ Within(wal.vis, wal'.vis)

\* No frame, no snapshot and no marker that is not of the attempted graph:
\* a fault on the way may hide a frame, but spends the only one there is.
LEMMA AttemptStays ==
  ASSUME TypeOK, TypeOK', AttemptInv, attempt' = attempt, LogsWithin, SnapsStay,
         \/ faults' = faults /\ VisibleStays
         \/ faults > 0 /\ faults' = faults - 1,
         \A c \in commit'.crash :
           \/ c \in commit.crash
           \/ c \in Nat /\ c <= Len(attempt) /\ (OneSnapshot => LogsAgreeUpTo(c)),
         pc' \in Recovering => Extends(attempt, graph')
  PROVE  AttemptInv'
<1>1. /\ \A w \in wal.crash : w \in Seq(Frames)
      /\ wal.vis \in wal.crash /\ \A c \in commit.crash : c \in Nat
      /\ Len(attempt) \in Nat /\ faults \in Nat
      /\ dir.vis.man.snap \in Snaps /\ \A s \in Snaps : s.seq \in Nat
  BY Shapes, SnapsShape, AttemptShapes
<1>v. dir'.vis.man.snap \in Snaps'
  <2>1. dir'.vis \in dir'.crash
    BY DEF TypeOK, File
  <2> QED
    BY <2>1 DEF Snaps, Mans
<1>2. /\ \A c \in commit'.crash : c <= Len(attempt')
      /\ \A s \in Snaps' : s.seq <= Len(attempt') /\ Extends(attempt', s.data)
  <2>1. \A c \in commit'.crash : c <= Len(attempt')
    BY DEF AttemptInv
  <2>2. \A s \in Snaps' : s.seq <= Len(attempt') /\ Extends(attempt', s.data)
    BY DEF AttemptInv, SnapsStay
  <2> QED
    BY <2>1, <2>2
<1>3. /\ OneSnapshot => OneSnapshot'
      /\ VisibleIsNewest'
  BY <1>1, <1>v DEF AttemptInv, SnapsStay, OneSnapshot, VisibleIsNewest
<1>4. faults' <= 1 /\ (faults' > 0 => OneSnapshot')
  BY <1>1, <1>3 DEF AttemptInv
<1>5. ASSUME OneSnapshot, faults' = 0,
             \A c \in commit'.crash : LogsAgreeUpTo(c)
      PROVE  StaleLogs'
  <2>1. ASSUME NEW c \in commit'.crash, NEW v \in wal'.crash, NEW s \in Snaps',
               NEW i \in Scanned(v), s.seq < v[i].seq, v[i].seq <= c
        PROVE  v[i].batch = attempt'[v[i].seq]
    <3>1. PICK w \in wal.crash : Within(v, w)
      BY DEF LogsWithin
    <3>2. i \in Scanned(w) /\ v[i] = w[i] /\ s \in Snaps
      BY <3>1 DEF Within, SnapsStay
    <3> QED
      BY <1>5, <2>1, <3>2 DEF LogsAgreeUpTo
  <2> QED
    BY <1>3, <1>5, <2>1 DEF StaleLogs, LogsAgreeUpTo
<1>6. CASE StaleLogs
  <2>1. OneSnapshot /\ faults' = 0
    BY <1>1, <1>6 DEF StaleLogs
  <2>2. \A c \in commit'.crash : LogsAgreeUpTo(c)
    BY <1>6, <2>1 DEF StaleLogs
  <2> QED
    BY <1>2, <1>3, <1>4, <1>5, <2>1, <2>2 DEF AttemptInv
<1>7. CASE CleanLogs /\ faults > 0 /\ faults' = faults - 1
  <2>1. OneSnapshot /\ faults' = 0
    BY <1>1, <1>7 DEF AttemptInv
  <2>2. \A c \in commit'.crash : c \in Nat /\ c <= Len(attempt)
    BY <1>1 DEF AttemptInv
  <2>3. \A c \in commit'.crash : LogsAgreeUpTo(c)
    BY <1>7, <2>2, CleanLogsAgree
  <2> QED
    BY <1>2, <1>3, <1>4, <1>5, <2>1, <2>3 DEF AttemptInv
<1>8. CASE CleanLogs /\ VisibleStays
  <2>1. LogsFollow(attempt)'
    <3>1. ASSUME NEW v \in wal'.crash
          PROVE  NoStray(v, attempt) /\ \A s \in Snaps' : LogAgrees(v, s.seq, attempt)
      <4>1. PICK w \in wal.crash : Within(v, w)
        BY DEF LogsWithin
      <4>2. NoStray(w, attempt) /\ \A s \in Snaps' : LogAgrees(w, s.seq, attempt)
        BY <1>8 DEF CleanLogs, LogsFollow, SnapsStay
      <4> QED
        BY <4>1, <4>2, WithinKeeps
    <3> QED
      BY <3>1 DEF LogsFollow
  <2>2. NothingHidden'
    <3>1. SUFFICES ASSUME NEW v \in wal'.crash, NEW s \in Snaps', NEW i \in Scanned(v),
                          s.seq < v[i].seq
                   PROVE  \E j \in Scanned(wal'.vis) : wal'.vis[j].seq = v[i].seq
      BY DEF NothingHidden
    <3>2. CASE wal'.crash = {wal'.vis}
      BY <3>2
    <3>3. CASE Within(wal.vis, wal'.vis)
      <4>1. PICK w \in wal.crash : Within(v, w)
        BY DEF LogsWithin
      <4>2. i \in Scanned(w) /\ v[i] = w[i] /\ s \in Snaps
        BY <4>1 DEF Within, SnapsStay
      <4>3. PICK j \in Scanned(wal.vis) : wal.vis[j].seq = w[i].seq
        BY <1>8, <3>1, <4>2 DEF CleanLogs, NothingHidden
      <4> QED
        BY <3>3, <4>2, <4>3 DEF Within
    <3> QED
      BY <1>8, <3>2, <3>3 DEF VisibleStays
  <2> QED
    BY <1>2, <1>3, <1>4, <2>1, <2>2 DEF AttemptInv, CleanLogs
<1> QED
  BY <1>6, <1>7, <1>8 DEF AttemptInv

\* The same, of a step that leaves the MANIFEST alone.
LEMMA AttemptQuiet ==
  ASSUME TypeOK, TypeOK', AttemptInv, attempt' = attempt, LogsWithin, ManStays,
         pc' \in NoHandle \/ snapshot' \in Snaps,
         \/ faults' = faults /\ VisibleStays
         \/ faults > 0 /\ faults' = faults - 1,
         \A c \in commit'.crash :
           \/ c \in commit.crash
           \/ c \in Nat /\ c <= Len(attempt) /\ (OneSnapshot => LogsAgreeUpTo(c)),
         pc' \in Recovering => Extends(attempt, graph')
  PROVE  AttemptInv'
<1>1. SnapsStay
  BY DEF SnapsStay, Snaps, ManStays
<1> QED
  BY <1>1, AttemptStays

\* A log that stays is within itself.
LEMMA LogStays ==
  ASSUME TypeOK, wal' = wal
  PROVE  LogsWithin /\ VisibleStays
BY Shapes, WithinPrefix DEF LogsWithin, VisibleStays

\* create() up to its MANIFEST.
LEMMA CreateAttempt ==
  ASSUME TypeOK, TypeOK', DurabilityInv, AttemptInv, CreateSnapshot \/ CreateWal \/ CreateCommit
  PROVE  AttemptInv'
<1>w. wal.vis \in Seq(Frames) /\ dir.vis \in Dirs /\ Within(<< >>, wal.vis)
  BY Shapes, WithinPrefix
<1>1. CASE CreateSnapshot
  <2> DEFINE d == PutSnapshot(dir.vis, FirstSnapshot)
  <2>1. /\ pc' \in {"closed", "create_wal"} /\ wal' = wal /\ commit' = commit
        /\ attempt' = attempt /\ dir' \in {Durable(d)} \cup Interrupted(dir, d, {})
        /\ faults' = faults \/ (faults > 0 /\ faults' = faults - 1)
    BY <1>1 DEF CreateSnapshot, AtomicOk, AtomicErr, Fault, history
  <2>2. d.man = dir.vis.man
    BY <1>w DEF PutSnapshot, Dirs
  <2> HIDE DEF d
  <2>3. ManStays /\ pc' \in NoHandle /\ pc' \notin Recovering
    BY <2>1, <2>2, DirStep DEF NoHandle, Recovering
  <2> QED
    BY <2>1, <2>3, LogStays, AttemptQuiet
<1>2. CASE CreateWal
  <2> DEFINE d == [dir.vis EXCEPT !.has_wal = TRUE]
  <2>1. /\ pc' \in {"closed", "create_commit"} /\ commit' = commit /\ attempt' = attempt
        /\ dir' \in {Durable(d)} \cup Interrupted(dir, d, {})
        /\ wal' \in {Durable(<< >>)} \cup Interrupted(wal, << >>, {})
        /\ \/ faults' = faults /\ wal' = Durable(<< >>)
           \/ faults > 0 /\ faults' = faults - 1
    BY <1>2 DEF CreateWal, AtomicOk, AtomicErr, HandleGone, Fault, history
  <2>2. d.man = dir.vis.man
    BY <1>w DEF Dirs
  <2> HIDE DEF d
  <2>3. ManStays /\ pc' \in NoHandle /\ pc' \notin Recovering
    BY <2>1, <2>2, DirStep DEF NoHandle, Recovering
  <2>4. LogsWithin
    BY <1>w, <2>1, LogStep
  <2>5. wal' = Durable(<< >>) => VisibleStays
    BY DEF VisibleStays, Durable
  <2> QED
    BY <2>1, <2>3, <2>4, <2>5, AttemptQuiet
<1>3. CASE CreateCommit
  <2> DEFINE d == [dir.vis EXCEPT !.has_commit = TRUE]
  <2>1. /\ pc' \in {"closed", "create_manifest"} /\ wal' = wal /\ commit' = commit
        /\ attempt' = attempt /\ dir' \in {Durable(d)} \cup Interrupted(dir, d, {})
        /\ faults' = faults \/ (faults > 0 /\ faults' = faults - 1)
    BY <1>3 DEF CreateCommit, AtomicOk, AtomicErr, HandleGone, Fault, history
  <2>2. d.man = dir.vis.man
    BY <1>w DEF Dirs
  <2> HIDE DEF d
  <2>3. ManStays /\ pc' \in NoHandle /\ pc' \notin Recovering
    BY <2>1, <2>2, DirStep DEF NoHandle, Recovering
  <2> QED
    BY <2>1, <2>3, LogStays, AttemptQuiet
<1> QED
  BY <1>1, <1>2, <1>3

\* Every snapshot there is when create() writes its MANIFEST is the empty one.
LEMMA CreateManifestAttempt ==
  ASSUME TypeOK, TypeOK', DurabilityInv, AttemptInv, CreateManifest
  PROVE  AttemptInv'
<1> DEFINE m == ManifestRecord(FirstSnapshot, epoch, 0, FALSE)
           d == PutManifest(dir.vis, m)
<1>1. /\ pc = "create_manifest" /\ pc \in NoHandle /\ pc \in NoHandle \ {"closed"}
      /\ wal' = wal /\ commit' = commit /\ attempt' = attempt
      /\ dir' \in {Durable(d)} \cup Interrupted(dir, d, {})
      /\ faults' = faults \/ (faults > 0 /\ faults' = faults - 1)
      /\ pc' \in {"idle", "closed"} /\ (pc' # "closed" => snapshot' = FirstSnapshot)
  BY DEF CreateManifest, NoHandle, AtomicOk, AtomicErr, HandleGone, Fault
<1>2. d.man = m /\ m.snap = NoSnapshot /\ FirstSnapshot = NoSnapshot
  BY Shapes DEF PutManifest, Dirs, ManifestRecord, FirstSnapshot
<1> HIDE DEF d, m
<1>3. dir.vis.man = NoManifest
  BY <1>1 DEF DurabilityInv, CreatedEmpty
<1>4. NoSnapshot \in Snaps /\ (\A x \in Mans : x.snap = NoSnapshot) /\ NoManifest \in Mans
  BY <1>1, <1>3, NothingStored
<1>5. ManPut(m)
  BY <1>1, <1>2, DirStep
<1>6. SnapsStay
  <2>0. \A x \in Mans' : x.snap = NoSnapshot
    BY <1>2, <1>4, <1>5 DEF ManPut
  <2>1. Snaps' \subseteq {NoSnapshot}
    BY <1>1, <1>2, <2>0 DEF Snaps, NoHandle
  <2>2. dir'.vis.man.snap = dir.vis.man.snap
    BY <1>2, <1>3, <1>4, <1>5 DEF ManPut
  <2> QED
    BY <1>4, <2>1, <2>2 DEF SnapsStay
<1>7. pc' \notin Recovering
  BY <1>1 DEF Recovering
<1> QED
  BY <1>1, <1>6, <1>7, LogStays, AttemptStays

\* open() up to its MANIFEST: what it recovers was attempted, and what it
\* drops from the log, or fails to, does not come back.
LEMMA OpenAttempt ==
  ASSUME TypeOK, TypeOK', DurabilityInv, AttemptInv, OpenScan \/ OpenTruncate \/ OpenCommit
  PROVE  AttemptInv'
<1>w. wal.vis \in Seq(Frames) /\ wal.vis \in wal.crash /\ dir.vis.man.snap \in Snaps
  BY Shapes, SnapsShape
<1>1. CASE OpenScan
  <2>1. /\ wal' = wal /\ commit' = commit /\ dir' = dir /\ attempt' = attempt
        /\ faults' = faults /\ snapshot' = dir.vis.man.snap
        /\ Recoverable(wal.vis, commit.vis, dir.vis)
        /\ graph' = RecoveredGraph(wal.vis, commit.vis, dir.vis)
    BY <1>1 DEF OpenScan, disk, history
  <2>2. Extends(attempt, graph')
    BY <2>1, Shapes, NothingResurrected DEF NoResurrection
  <2>3. ManStays
    BY <2>1 DEF ManStays, Mans
  <2> QED
    BY <1>w, <2>1, <2>2, <2>3, LogStays, AttemptQuiet
<1>2. CASE OpenTruncate
  <2> DEFINE kept == CommittedPart(wal.vis, durable_seq)
  <2>1. InOrder(wal.vis) /\ durable_seq \in Nat
    BY <1>w, Shapes DEF DurabilityInv, LogsAgree
  <2>2. Within(kept, wal.vis)
    BY <1>w, <2>1, KeptIsCommitted
  <2>3. /\ pc = "open_truncate" /\ commit' = commit /\ attempt' = attempt
        /\ \/ /\ wal' = Durable(kept) /\ dir' = Synced(dir) /\ faults' = faults
              /\ graph' = graph /\ snapshot' = snapshot
           \/ /\ wal' \in Interrupted(wal, kept, {}) /\ dir' = dir /\ pc' = "closed"
              /\ faults > 0 /\ faults' = faults - 1
    BY <1>2 DEF OpenTruncate, Fault, HandleGone, writer, history
  <2> HIDE DEF kept
  <2>4. LogsWithin
    BY <2>2, <2>3, LogStep
  <2>5. ManStays
    BY <2>3, DirStep
  <2>6. wal' = Durable(kept) => VisibleStays
    BY DEF VisibleStays, Durable
  <2>7. snapshot \in Snaps /\ Extends(attempt, graph)
    BY <2>3 DEF Snaps, NoHandle, Recovering, AttemptInv
  <2>8. "closed" \in NoHandle /\ "closed" \notin Recovering
    BY DEF NoHandle, Recovering
  <2> QED
    BY <2>3, <2>4, <2>5, <2>6, <2>7, <2>8, AttemptQuiet
<1>3. CASE OpenCommit
  <2>1. /\ pc = "open_commit" /\ wal' = wal /\ dir' = dir /\ attempt' = attempt
        /\ commit' = Durable(durable_seq) \/ commit' \in Interrupted(commit, durable_seq, {})
        /\ \/ faults' = faults /\ graph' = graph /\ snapshot' = snapshot
           \/ faults > 0 /\ faults' = faults - 1 /\ pc' = "closed"
    BY <1>3 DEF OpenCommit, AdvanceOk, Fault, HandleGone, history
  <2>2. commit'.crash \subseteq commit.crash \cup {durable_seq}
    BY <2>1, MarkerStep
  <2>3. ManStays
    BY <2>1 DEF ManStays, Mans
  <2>4. RecoveringWriter /\ pc \in Recovering /\ pc \notin NoHandle
    BY <2>1, Zenon DEF DurabilityInv, Recovering, NoHandle
  <2>5. Extends(attempt, graph) /\ snapshot \in Snaps
    BY <2>4 DEF AttemptInv, Snaps
  <2>6. /\ durable_seq = Len(graph) /\ Len(graph) \in Nat /\ DOMAIN graph = 1..Len(graph)
        /\ snapshot = dir.vis.man.snap /\ snapshot.seq \in Nat
        /\ \A w \in wal.crash : LogAgrees(w, snapshot.seq, graph)
    BY <2>4, Shapes, SnapsShape DEF RecoveringWriter
  <2>7. durable_seq <= Len(attempt)
    BY <2>5, <2>6 DEF Extends
  <2>8. ASSUME OneSnapshot PROVE LogsAgreeUpTo(durable_seq)
    <3> SUFFICES ASSUME NEW w \in wal.crash, NEW s \in Snaps, NEW i \in Scanned(w),
                        s.seq < w[i].seq, w[i].seq <= durable_seq
                 PROVE  w[i].batch = attempt[w[i].seq]
      BY DEF LogsAgreeUpTo
    <3>1. s = snapshot /\ w[i].seq \in Nat
      BY <2>6, <2>8, Shapes, ScannedFrame DEF OneSnapshot
    <3>2. w[i].batch = graph[w[i].seq]
      BY <2>6, <3>1 DEF LogAgrees
    <3>3. w[i].seq \in DOMAIN graph
      BY <2>6, <3>1
    <3> QED
      BY <2>5, <3>2, <3>3 DEF Extends
  <2>9. "closed" \in NoHandle /\ "closed" \notin Recovering
    BY DEF NoHandle, Recovering
  <2> QED
    BY <2>1, <2>2, <2>3, <2>5, <2>6, <2>7, <2>8, <2>9, LogStays, AttemptQuiet
<1> QED
  BY <1>1, <1>2, <1>3

\* The MANIFEST that ends a recovery, and with it the timeline that holds more.
LEMMA OpenManifestAttempt ==
  ASSUME TypeOK, TypeOK', DurabilityInv, AttemptInv, OpenManifest
  PROVE  AttemptInv'
<1> DEFINE m == ManifestRecord(snapshot, epoch, durable_seq, FALSE)
           d == PutManifest(dir.vis, m)
<1>1. /\ pc = "open_manifest" /\ pc \in Recovering /\ pc \notin NoHandle
      /\ wal' = wal /\ commit' = commit
  BY DEF OpenManifest, Recovering, NoHandle
<1>2. /\ RecoveringWriter /\ snapshot \in Snaps
      /\ snapshot = dir.vis.man.snap
  BY <1>1 DEF DurabilityInv, RecoveringWriter, Snaps
<1>3. d.man = m /\ m.snap = snapshot /\ d \in Dirs
  <2>1. m \in Manifests
    BY Shapes, ManifestType
  <2>2. m.snap = snapshot
    BY DEF ManifestRecord
  <2>3. dir.vis \in Dirs
    BY Shapes
  <2> HIDE DEF m
  <2> QED
    BY <2>1, <2>2, <2>3 DEF PutManifest, Dirs
<1>4. \/ /\ \E gone : dir' = Written(Durable(d), [d EXCEPT !.snaps = @ \ gone], {})
         /\ pc' = "idle" /\ attempt' = graph /\ snapshot' = snapshot /\ faults' = faults
      \/ /\ dir' \in Interrupted(dir, d, {}) /\ pc' = "closed" /\ attempt' = attempt
         /\ faults > 0 /\ faults' = faults - 1
  <2> HIDE DEF d
  <2> QED
    BY DEF OpenManifest, AtomicErr, Fault, HandleGone, history, writer, d
<1> HIDE DEF d, m
<1>5. CASE /\ dir' \in Interrupted(dir, d, {}) /\ pc' = "closed" /\ attempt' = attempt
           /\ faults > 0 /\ faults' = faults - 1
  <2>1. ManPut(m)
    BY <1>3, <1>5, DirStep
  <2>2. pc' \in NoHandle /\ pc' \notin Recovering
    BY <1>5 DEF NoHandle, Recovering
  <2>3. SnapsStay
    <3>1. \A x \in Mans' : x.snap \in Snaps
      BY <1>2, <1>3, <2>1 DEF ManPut, Snaps
    <3>2. Snaps' \subseteq Snaps
      BY <2>2, <3>1 DEF Snaps
    <3>3. dir'.vis.man.snap = dir.vis.man.snap
      BY <1>2, <1>3, <2>1 DEF ManPut
    <3> QED
      BY <3>2, <3>3 DEF SnapsStay
  <2> QED
    BY <1>1, <1>5, <2>2, <2>3, LogStays, AttemptStays
<1>6. CASE /\ \E gone : dir' = Written(Durable(d), [d EXCEPT !.snaps = @ \ gone], {})
           /\ pc' = "idle" /\ attempt' = graph /\ snapshot' = snapshot /\ faults' = faults
  <2>1. dir'.vis.man = m /\ Mans' = {m}
    <3> HIDE DEF d, m
    <3>1. \A gone : [d EXCEPT !.snaps = @ \ gone].man = m
      BY <1>3 DEF Dirs
    <3>2. PICK e : dir' = Written(Durable(d), e, {}) /\ e.man = m
      BY <1>6, <3>1
    <3>3. dir'.vis = e /\ dir'.crash = {d, e}
      BY <3>2 DEF Written, Durable
    <3> QED
      BY <1>3, <3>2, <3>3 DEF Mans
  <2>2. Snaps' = {snapshot} /\ pc' \notin Recovering
    BY <1>3, <1>6, <2>1 DEF Snaps, NoHandle, Recovering
  <2>3. /\ snapshot.seq <= Len(graph) /\ Extends(graph, snapshot.data)
        /\ \A w \in wal.crash : LogAgrees(w, snapshot.seq, graph)
        /\ NoStray(wal.vis, graph) /\ Len(graph) \in Nat /\ snapshot.seq \in Nat
        /\ commit.crash = {Len(graph)}
    BY <1>1, <1>2, Shapes, SnapsShape DEF RecoveringWriter, Durable
  <2>4. OneSnapshot' /\ VisibleIsNewest'
    BY <1>3, <2>1, <2>2, <2>3 DEF OneSnapshot, VisibleIsNewest
  <2>5. /\ \A c \in commit'.crash : c <= Len(attempt')
        /\ \A s \in Snaps' : s.seq <= Len(attempt') /\ Extends(attempt', s.data)
        /\ faults' <= 1
    BY <1>1, <1>6, <2>2, <2>3 DEF AttemptInv
  <2>6. ASSUME CleanLogs PROVE CleanLogs'
    <3>1. ASSUME NEW w \in wal.crash, NEW i \in Scanned(w) PROVE w[i].seq <= Len(graph)
      <4>1. w[i].seq \in Nat
        BY Shapes, ScannedFrame
      <4>2. CASE w[i].seq <= snapshot.seq
        BY <2>3, <4>1, <4>2
      <4>3. CASE snapshot.seq < w[i].seq
        <5>1. PICK j \in Scanned(wal.vis) : wal.vis[j].seq = w[i].seq
          BY <1>2, <2>6, <4>3 DEF CleanLogs, NothingHidden
        <5> QED
          BY <2>3, <5>1 DEF NoStray
      <4> QED
        BY <2>3, <4>1, <4>2, <4>3
    <3>2. LogsFollow(attempt)'
      BY <1>1, <1>6, <2>2, <2>3, <3>1 DEF LogsFollow, NoStray
    <3>3. NothingHidden'
      BY <1>1, <1>2, <2>2, <2>6 DEF CleanLogs, NothingHidden
    <3> QED
      BY <3>2, <3>3 DEF CleanLogs
  <2>7. ASSUME StaleLogs PROVE StaleLogs'
    <3>1. \A c \in commit'.crash : c = Len(graph)
      BY <1>1, <2>3
    <3>2. \A c \in commit'.crash, w \in wal'.crash, s \in Snaps' : \A i \in Scanned(w) :
            s.seq < w[i].seq /\ w[i].seq <= c => w[i].batch = graph[w[i].seq]
      BY <1>1, <2>2, <2>3, <3>1 DEF LogAgrees
    <3> QED
      BY <1>6, <2>4, <2>7, <3>2 DEF StaleLogs, LogsAgreeUpTo
  <2> QED
    BY <2>2, <2>4, <2>5, <2>6, <2>7 DEF AttemptInv
<1> QED
  BY <1>4, <1>5, <1>6

\* The steps of an open handle that put no frame into the log and write
\* neither MANIFEST nor marker.
LEMMA QuietAttempt ==
  ASSUME TypeOK, TypeOK', AttemptInv,
         \/ SetPolicy \/ Compact \/ Flush \/ Close
         \/ CompactSnapshot \/ CompactTruncate \/ CompactReopen
  PROVE  AttemptInv'
<1> DEFINE Same == UNCHANGED <<commit, attempt, snapshot>>
<1>1. /\ wal.vis \in Seq(Frames) /\ dir.vis \in Dirs
      /\ Within(wal.vis, wal.vis) /\ Within(<< >>, wal.vis)
  BY Shapes, WithinPrefix
<1>2. /\ wal' = wal => LogsWithin /\ VisibleStays
      /\ dir' = dir => ManStays
      /\ wal' \in {Synced(wal), Durable(<< >>)} => VisibleStays
  BY LogStays DEF ManStays, Mans, VisibleStays, Synced, Durable
<1>3. /\ pc = "idle" \/ pc = "compact_snapshot" \/ pc = "compact_truncate"
         \/ pc = "compact_reopen"
      /\ pc' \notin Recovering
  BY DEF SetPolicy, Compact, Flush, Close, CompactSnapshot, CompactTruncate, CompactReopen,
         CompactReturns, Recovering
<1>4. snapshot \in Snaps
  BY <1>3 DEF Snaps, NoHandle
<1>5. CASE SetPolicy \/ Compact
  <2>1. Same /\ wal' = wal /\ dir' = dir /\ faults' = faults
    BY <1>5 DEF SetPolicy, Compact, disk, history, writer
  <2> QED
    BY <1>2, <1>3, <1>4, <2>1, AttemptQuiet
<1>6. CASE Flush \/ Close
  <2>1. /\ Same /\ dir' = dir
        /\ \/ faults' = faults /\ wal' \in {wal, Synced(wal)}
           \/ faults > 0 /\ faults' = faults - 1 /\ wal' \in FailedSync(wal, wal.vis, {})
    BY <1>6 DEF Flush, Close, Poison, Fault, history
  <2>2. LogsWithin
    BY <1>1, <2>1, LogStep DEF Interrupted
  <2> QED
    BY <1>2, <1>3, <1>4, <2>1, <2>2, AttemptQuiet
<1>7. CASE CompactSnapshot
  <2> DEFINE d == PutSnapshot(dir.vis, NewSnapshot)
  <2>1. /\ Same /\ wal' = wal /\ dir' \in {dir, Durable(d)} \cup Interrupted(dir, d, {})
        /\ faults' = faults \/ (faults > 0 /\ faults' = faults - 1)
    BY <1>7 DEF CompactSnapshot, AtomicOk, AtomicErr, Fault, history
  <2>2. d.man = dir.vis.man
    BY <1>1 DEF PutSnapshot, Dirs
  <2> HIDE DEF d
  <2>3. ManStays
    BY <2>1, <2>2, DirStep
  <2> QED
    BY <1>2, <1>3, <1>4, <2>1, <2>3, AttemptQuiet
<1>8. CASE CompactTruncate
  <2>1. /\ Same /\ dir' = dir
        /\ \/ faults' = faults /\ wal' = Durable(<< >>)
           \/ faults > 0 /\ faults' = faults - 1 /\ wal' \in Interrupted(wal, << >>, {})
    BY <1>8 DEF CompactTruncate, Poison, Fault, history
  <2>2. LogsWithin
    BY <1>1, <2>1, LogStep
  <2> QED
    BY <1>2, <1>3, <1>4, <2>1, <2>2, AttemptQuiet
<1>9. CASE CompactReopen
  <2>1. /\ Same /\ wal' = wal
        /\ faults' = faults \/ (faults > 0 /\ faults' = faults - 1)
        /\ \/ dir' = dir
           \/ \E gone : dir' = Written(dir, [dir.vis EXCEPT !.snaps = @ \ gone], {})
    BY <1>9 DEF CompactReopen, Fault
  <2>2. ManStays
    <3>1. ASSUME NEW gone, dir' = Written(dir, [dir.vis EXCEPT !.snaps = @ \ gone], {})
          PROVE  ManStays
      <4> DEFINE d == [dir.vis EXCEPT !.snaps = @ \ gone]
      <4>1. d.man = dir.vis.man
        BY <1>1 DEF Dirs
      <4>2. dir' \in Interrupted(dir, d, {})
        BY <3>1 DEF Interrupted, FailedSync
      <4> HIDE DEF d
      <4> QED
        BY <4>1, <4>2, DirStep
    <3> QED
      BY <1>2, <2>1, <3>1
  <2> QED
    BY <1>2, <1>3, <1>4, <2>1, <2>2, AttemptQuiet
<1> QED
  BY <1>5, <1>6, <1>7, <1>8, <1>9

\* The marker steps of an open handle: what they cover is what was attempted.
LEMMA MarkerAttempt ==
  ASSUME TypeOK, TypeOK', DurabilityInv, AttemptInv,
         ApplyCommit \/ FlushCommit \/ CloseCommit \/ CompactCommit
  PROVE  AttemptInv'
<1>1. /\ pc \in {"apply_commit", "flush_commit", "close_commit", "compact_commit"}
      /\ HandleOpen /\ pc \notin {"idle", "close_manifest"} /\ pc \notin NoHandle
      /\ wal' = wal /\ dir' = dir /\ snapshot' = snapshot
  BY DEF ApplyCommit, FlushCommit, CloseCommit, CompactCommit, HandleOpen, Opening, NoHandle
<1>2. LiveWriter
  <2>1. ~ poisoned
    BY <1>1, Zenon DEF DurabilityInv, CreatedEmpty
  <2> QED
    BY <1>1, <2>1, Zenon DEF DurabilityInv
<1>3. /\ ManStays /\ snapshot \in Snaps
      /\ Len(attempt) \in Nat /\ Len(graph) \in Nat
      /\ \A s \in Snaps : s.seq \in Nat /\ s \in Snapshots
      /\ durable_seq \in Nat
  BY <1>1, Shapes, SnapsShape, AttemptShapes DEF ManStays, Mans, Snaps
<1>4. CASE pc # "compact_commit"
  <2> DEFINE seq == Len(attempt)
  <2>1. /\ attempt = IF pc = "apply_commit"
                     THEN Append(graph, wal.vis[Len(wal.vis)].batch) ELSE graph
        /\ wal.crash = {wal.vis}
        /\ \A s \in Snaps : LogAgrees(wal.vis, s.seq, attempt)
    BY <1>1, <1>2, <1>4 DEF LiveWriter
  <2>2. LogsAgreeUpTo(seq)
    BY <2>1 DEF LogsAgreeUpTo, LogAgrees
  <2>3. /\ AdvanceOk(seq) \/ AdvanceErr(seq)
        /\ attempt' = attempt /\ pc' \notin Recovering
    <3>1. CASE ApplyCommit
      BY <2>1, <3>1 DEF ApplyCommit, Published, history, Recovering
    <3>2. CASE FlushCommit \/ CloseCommit
      BY <2>1, <3>2 DEF FlushCommit, CloseCommit, Recovering
    <3> QED
      BY <1>1, <1>4, <3>1, <3>2 DEF CompactCommit
  <2>4. /\ commit' = Durable(seq) \/ commit' \in Interrupted(commit, seq, {})
        /\ faults' = faults \/ (faults > 0 /\ faults' = faults - 1)
    BY <2>3 DEF AdvanceOk, AdvanceErr, Poison, Fault
  <2>5. commit'.crash \subseteq commit.crash \cup {seq}
    BY <2>4, MarkerStep
  <2> QED
    BY <1>1, <1>3, <2>2, <2>3, <2>4, <2>5, LogStays, AttemptQuiet
<1>5. CASE pc = "compact_commit"
  <2> DEFINE seq == IF durable_seq >= snapshot.seq THEN durable_seq ELSE snapshot.seq
  <2>1. /\ attempt = graph /\ durable_seq <= Len(graph) /\ snapshot.seq = Len(graph)
        /\ \A m \in Mans : m.snap = snapshot
    BY <1>2, <1>5 DEF LiveWriter
  <2>2. \A s \in Snaps : s.seq = Len(attempt)
    BY <1>1, <2>1 DEF Snaps
  <2>3. seq = Len(attempt)
    BY <1>3, <2>1
  <2>4. /\ AdvanceOk(seq) \/ AdvanceErr(seq)
        /\ attempt' = attempt /\ pc' \notin Recovering
    BY <1>5 DEF ApplyCommit, FlushCommit, CloseCommit, CompactCommit, CompactReturns,
                Recovering
  <2> HIDE DEF seq
  <2>5. LogsAgreeUpTo(seq)
    <3> SUFFICES ASSUME NEW w \in wal.crash, NEW s \in Snaps, NEW i \in Scanned(w),
                        s.seq < w[i].seq, w[i].seq <= seq
                 PROVE  FALSE
      BY DEF LogsAgreeUpTo
    <3>1. w[i].seq \in Nat
      BY Shapes, ScannedFrame
    <3> QED
      BY <1>3, <2>2, <2>3, <3>1
  <2>6. /\ commit' = Durable(seq) \/ commit' \in Interrupted(commit, seq, {})
        /\ faults' = faults \/ (faults > 0 /\ faults' = faults - 1)
    BY <2>4 DEF AdvanceOk, AdvanceErr, Poison, Fault
  <2>7. commit'.crash \subseteq commit.crash \cup {seq}
    BY <2>6, MarkerStep
  <2>8. seq \in Nat /\ seq <= Len(attempt)
    BY <1>3, <2>3
  <2> QED
    BY <1>1, <1>3, <2>4, <2>5, <2>6, <2>7, <2>8, LogStays, AttemptQuiet
<1> QED
  BY <1>4, <1>5

\* Closing, and the crashes.
LEMMA GoneAttempt ==
  ASSUME TypeOK, TypeOK', AttemptInv, CloseManifest \/ Kill \/ PowerLoss
  PROVE  AttemptInv'
<1>1. /\ pc' \in NoHandle /\ pc' \notin Recovering /\ attempt' = attempt
  BY DEF CloseManifest, Kill, PowerLoss, HandleGone, NoHandle, Recovering, history
<1>2. CASE Kill
  <2>1. wal' = wal /\ commit' = commit /\ dir' = dir /\ faults' = faults
    BY <1>2 DEF Kill, disk
  <2>2. ManStays
    BY <2>1 DEF ManStays, Mans
  <2> QED
    BY <1>1, <2>1, <2>2, LogStays, AttemptQuiet
<1>3. CASE PowerLoss
  <2>1. PICK w \in wal.crash, c \in commit.crash, d \in dir.crash :
          wal' = Durable(w) /\ commit' = Durable(c) /\ dir' = Durable(d)
    BY <1>3 DEF PowerLoss
  <2>2. faults' = faults
    BY <1>3 DEF PowerLoss
  <2>3. LogsWithin /\ VisibleStays /\ commit'.crash \subseteq commit.crash
    BY <2>1, Shapes, WithinPrefix DEF LogsWithin, VisibleStays, Durable
  <2>4. Snaps' = {d.man.snap} /\ d.man.snap \in Snaps /\ dir'.vis = d
    <3>1. dir'.crash = {d} /\ dir'.vis = d
      BY <2>1 DEF Durable
    <3> QED
      BY <1>1, <3>1 DEF Snaps, Mans
  <2>5. SnapsStay
    BY <2>4 DEF SnapsStay
  <2> QED
    BY <1>1, <2>2, <2>3, <2>5, AttemptStays
<1>4. CASE CloseManifest
  <2> DEFINE m == ManifestRecord(snapshot, epoch, durable_seq, ~ poisoned)
             d == PutManifest(dir.vis, m)
  <2>1. /\ wal' = wal /\ commit' = commit /\ pc = "close_manifest"
        /\ \/ dir' = Durable(d) /\ faults' = faults
           \/ dir' \in Interrupted(dir, d, {}) /\ faults > 0 /\ faults' = faults - 1
    BY <1>4 DEF CloseManifest, AtomicOk, AtomicErr, Fault
  <2>2. d.man = m /\ m.snap = snapshot
    BY Shapes DEF PutManifest, Dirs, ManifestRecord
  <2> HIDE DEF d, m
  <2>3. snapshot \in Snaps
    BY <2>1 DEF Snaps, NoHandle
  <2>4. CASE dir' = Durable(d) /\ faults' = faults
    <3>1. dir'.crash = {d} /\ dir'.vis = d
      BY <2>4 DEF Durable
    <3>2. Snaps' = {snapshot} /\ dir'.vis.man.snap = snapshot
      BY <1>1, <2>2, <3>1 DEF Snaps, Mans
    <3>3. SnapsStay
      BY <2>3, <3>2 DEF SnapsStay
    <3> QED
      BY <1>1, <2>1, <2>4, <3>3, LogStays, AttemptStays
  <2>5. CASE dir' \in Interrupted(dir, d, {}) /\ faults > 0 /\ faults' = faults - 1
    <3>1. snapshot = dir.vis.man.snap
      BY <2>3, <2>5 DEF AttemptInv, OneSnapshot
    <3>2. ManPut(m)
      BY <2>2, <2>5, DirStep
    <3>3. \A x \in Mans' : x.snap \in Snaps
      BY <2>2, <2>3, <3>2 DEF ManPut, Snaps
    <3>4. Snaps' \subseteq Snaps
      BY <1>1, <3>3 DEF Snaps
    <3>5. dir'.vis.man.snap = dir.vis.man.snap
      BY <2>2, <3>1, <3>2 DEF ManPut
    <3>6. SnapsStay
      BY <3>4, <3>5 DEF SnapsStay
    <3> QED
      BY <1>1, <2>1, <2>5, <3>6, LogStays, AttemptStays
  <2> QED
    BY <2>1, <2>4, <2>5
<1> QED
  BY <1>2, <1>3, <1>4

\* The MANIFEST of a compaction: the snapshot of all that was attempted is
\* the newest one, and no log has a frame beyond it.
LEMMA CompactManifestAttempt ==
  ASSUME TypeOK, TypeOK', DurabilityInv, AttemptInv, CompactManifest
  PROVE  AttemptInv'
<1> DEFINE m == ManifestRecord(NewSnapshot, epoch, Len(graph), FALSE)
           d == PutManifest(dir.vis, m)
           S == NewSnapshot
<1>1. /\ pc = "compact_manifest" /\ HandleOpen /\ pc \notin NoHandle
      /\ pc' \notin NoHandle /\ pc' \notin Recovering
      /\ wal' = wal /\ commit' = commit /\ attempt' = attempt
  BY DEF CompactManifest, CompactReturns, HandleOpen, Opening, NoHandle, Recovering, history
<1>2. \/ dir' = Durable(d) /\ snapshot' = S /\ faults' = faults
      \/ /\ dir' \in Interrupted(dir, d, {}) /\ snapshot' = snapshot
         /\ faults > 0 /\ faults' = faults - 1
  BY DEF CompactManifest, AtomicOk, AtomicErr, Fault
<1>3. LiveWriter /\ attempt = graph
  <2>1. ~ poisoned
    BY <1>1, Zenon DEF DurabilityInv, CreatedEmpty
  <2>2. LiveWriter
    BY <1>1, <2>1, Zenon DEF DurabilityInv
  <2> QED
    BY <1>1, <2>2 DEF LiveWriter
<1>4. d.man = m /\ m.snap = S /\ S.seq = Len(graph) /\ S.data = graph
  BY Shapes DEF PutManifest, Dirs, ManifestRecord, NewSnapshot
<1> HIDE DEF d, m, S
<1>5. /\ Len(graph) \in Nat /\ Extends(graph, graph) /\ faults \in Nat
      /\ \A s \in Snaps : s.seq \in Nat /\ s.seq <= Len(graph)
      /\ \A c \in commit.crash : c \in Nat /\ c <= Len(graph)
  <2>1. /\ Len(graph) \in Nat /\ DOMAIN graph = 1..Len(graph)
        /\ (\A s \in Snaps : s.seq \in Nat) /\ (\A c \in commit.crash : c \in Nat)
    BY Shapes, SnapsShape
  <2>2. /\ \A s \in Snaps : s.seq <= Len(graph)
        /\ \A c \in commit.crash : c <= Len(graph)
    BY <1>3 DEF AttemptInv
  <2> QED
    BY <2>1, <2>2, AttemptShapes DEF Extends
<1>6. Snaps' \subseteq Snaps \cup {S}
  <2>1. dir'.crash \subseteq dir.crash \cup {d}
    BY <1>2, Shapes DEF Durable, Interrupted, FailedWrite, FailedSync, Written
  <2>2. \A x \in Mans' : x \in Mans \/ x = m
    BY <1>4, <2>1 DEF Mans
  <2>3. snapshot \in Snaps /\ \A x \in Mans : x.snap \in Snaps
    BY <1>1 DEF Snaps
  <2>4. \A x \in Mans' : x.snap \in Snaps \/ x.snap = S
    BY <1>4, <2>2, <2>3
  <2>5. snapshot' \in Snaps \/ snapshot' = S
    BY <1>2, <2>3
  <2>6. \A s \in Snaps' : s = snapshot' \/ \E x \in Mans' : s = x.snap
    BY DEF Snaps
  <2> QED
    BY <2>4, <2>5, <2>6
<1>7. /\ \A c \in commit'.crash : c <= Len(attempt')
      /\ \A s \in Snaps' : s.seq <= Len(attempt') /\ Extends(attempt', s.data)
  BY <1>1, <1>3, <1>4, <1>5, <1>6 DEF AttemptInv
<1>8. ASSUME dir' = Durable(d), snapshot' = S
      PROVE  Snaps' = {S} /\ dir'.vis.man.snap = S
  <2>1. dir'.crash = {d} /\ dir'.vis = d
    BY <1>8 DEF Durable
  <2> QED
    BY <1>1, <1>4, <1>8, <2>1 DEF Snaps, Mans
<1>9. VisibleIsNewest'
  <2>1. CASE dir' = Durable(d) /\ snapshot' = S
    BY <1>4, <1>5, <1>8, <2>1 DEF VisibleIsNewest
  <2>2. CASE dir' = dir /\ snapshot' = snapshot
    <3>1. Snaps' \subseteq Snaps
      BY <1>1, <2>2 DEF Snaps, Mans
    <3> QED
      BY <2>2, <3>1 DEF AttemptInv, VisibleIsNewest
  <2>3. CASE dir'.vis = d
    BY <1>4, <1>5, <1>6, <2>3 DEF VisibleIsNewest
  <2>4. dir' \in Interrupted(dir, d, {}) => dir' = dir \/ dir'.vis = d
    BY DEF Durable, Interrupted, FailedWrite, FailedSync, Written
  <2> QED
    BY <1>2, <2>1, <2>2, <2>3, <2>4
<1>10. faults' <= 1 /\ (faults' > 0 => OneSnapshot')
  BY <1>2, <1>5, <1>8 DEF AttemptInv, OneSnapshot
<1>11. ASSUME CleanLogs PROVE CleanLogs'
  <2>1. \A w \in wal.crash : \A i \in Scanned(w) : w[i].seq \in Nat /\ w[i].seq <= Len(graph)
    BY <1>3, <1>11, Shapes, ScannedFrame DEF CleanLogs, LogsFollow, NoStray
  <2>2. ASSUME NEW w \in wal.crash, NEW s \in Snaps' PROVE LogAgrees(w, s.seq, graph)
    <3>1. CASE s \in Snaps
      BY <1>3, <1>11, <3>1 DEF CleanLogs, LogsFollow
    <3>2. CASE s = S
      BY <1>4, <1>5, <2>1, <3>2 DEF LogAgrees
    <3> QED
      BY <1>6, <3>1, <3>2
  <2>3. LogsFollow(attempt)'
    BY <1>1, <1>3, <2>1, <2>2 DEF LogsFollow, NoStray
  <2>4. NothingHidden'
    <3>1. ASSUME NEW w \in wal.crash, NEW s \in Snaps', NEW i \in Scanned(w),
                 s.seq < w[i].seq
          PROVE  \E j \in Scanned(wal.vis) : wal.vis[j].seq = w[i].seq
      <4>1. s \in Snaps
        BY <1>4, <1>5, <1>6, <2>1, <3>1
      <4> QED
        BY <1>11, <3>1, <4>1 DEF CleanLogs, NothingHidden
    <3> QED
      BY <1>1, <3>1 DEF NothingHidden
  <2> QED
    BY <2>3, <2>4 DEF CleanLogs
<1>12. ASSUME StaleLogs PROVE StaleLogs'
  <2>1. Snaps' = {S} /\ dir'.vis.man.snap = S /\ faults' = 0
    BY <1>2, <1>5, <1>8, <1>12 DEF StaleLogs
  <2>2. ASSUME NEW c \in commit.crash, NEW w \in wal.crash, NEW i \in Scanned(w),
               S.seq < w[i].seq, w[i].seq <= c
        PROVE  FALSE
    <3>1. w[i].seq \in Nat
      BY Shapes, ScannedFrame
    <3> QED
      BY <1>4, <1>5, <2>2, <3>1
  <2>3. \A c \in commit'.crash : LogsAgreeUpTo(c)'
    BY <1>1, <2>1, <2>2 DEF LogsAgreeUpTo
  <2> QED
    BY <2>1, <2>3 DEF StaleLogs, OneSnapshot
<1> QED
  BY <1>1, <1>7, <1>9, <1>10, <1>11, <1>12 DEF AttemptInv

\* A log grows by a frame without losing one.
LEMMA WithinGrown ==
  ASSUME NEW w \in Seq(Frames), NEW f \in Frames, NEW v, Grown(v, w, f)
  PROVE  Within(w, v)
<1>1. /\ v \in Seq(Frames) /\ Len(v) = Len(w) + 1 /\ Len(w) \in Nat
      /\ \A k \in 1..Len(w) : v[k] = w[k]
  BY Appended DEF Grown
<1>2. DOMAIN v = 1..(Len(w) + 1) /\ DOMAIN w = 1..Len(w)
  BY <1>1
<1>3. ASSUME NEW i \in Scanned(w) PROVE i \in Scanned(v) /\ w[i] = v[i]
  <2>1. i \in 1..Len(w) /\ \A j \in 1..i : w[j].ok
    BY <1>2 DEF Scanned
  <2>2. i \in 1..(Len(w) + 1) /\ \A j \in 1..i : v[j] = w[j]
    BY <1>1, <2>1
  <2>3. \A j \in 1..i : v[j].ok
    BY <2>1, <2>2
  <2> QED
    BY <1>1, <1>2, <2>1, <2>2, <2>3 DEF Scanned
<1> QED
  BY <1>3 DEF Within

\* The batch of an apply reaches the log: it is the one frame beyond what was
\* attempted before, and no marker covers it yet.
LEMMA AttemptGrows ==
  ASSUME TypeOK, TypeOK', AttemptInv, LiveWriter, InOrder(wal.vis), attempt = graph,
         NEW b \in Batches, NEW h, Grown(h, graph, b), attempt' = h,
         NEW f \in Frames, f.seq = Len(graph) + 1, f.batch = b,
         NEW img, Grown(img, wal.vis, f),
         \A v \in wal'.crash : v = img \/ \E w \in wal.crash : Within(v, w),
         \/ faults' = faults /\ wal'.vis = img
         \/ faults > 0 /\ faults' = faults - 1,
         UNCHANGED <<commit, dir, snapshot>>,
         pc \notin NoHandle, pc' \notin NoHandle, pc' \notin Recovering
  PROVE  AttemptInv'
<1> DEFINE w == wal.vis
           g == graph
<1>1. /\ w \in Seq(Frames) /\ w \in wal.crash /\ NoStray(w, g)
      /\ g \in Graphs /\ Len(g) \in Nat /\ faults \in Nat
      /\ \A s \in Snaps : s.seq \in Nat /\ s \in Snapshots
  BY Shapes, SnapsShape, AttemptShapes DEF LiveWriter
<1>2. /\ \A c \in commit.crash : c \in Nat /\ c <= Len(g)
      /\ \A s \in Snaps : s.seq <= Len(g) /\ Extends(g, s.data) /\ LogAgrees(w, s.seq, g)
  BY Shapes DEF AttemptInv, LiveWriter
<1>3. f \in Frames /\ f.seq = Len(g) + 1 /\ f.batch = b
  OBVIOUS
<1>4. /\ NoStray(img, h) /\ WithinUpTo(img, w, Len(g)) /\ img \in Seq(Frames)
      /\ \A s \in Snaps : LogAgrees(img, s.seq, h)
  <2> HIDE DEF w, g
  <2>1. Grown(h, g, b) /\ Grown(img, w, f) /\ InOrder(w)
    BY DEF w, g
  <2>2. /\ InOrder(img) /\ NoStray(img, h) /\ WithinUpTo(img, w, Len(g))
        /\ \A n \in Nat : LogAgrees(w, n, g) => LogAgrees(img, n, h)
        /\ img \in Seq(Frames) /\ img[Len(img)].batch = b
    BY <1>1, <1>3, <2>1, NextFrame
  <2> QED
    BY <1>1, <1>2, <2>2
<1>5. Within(w, img)
  BY <1>1, <1>3, WithinGrown
<1>6. /\ h \in Graphs /\ Len(h) = Len(g) + 1 /\ \A k \in 1..Len(g) : h[k] = g[k]
  BY <1>1, Appended DEF Grown, Graphs
<1>7. Snaps' = Snaps /\ dir' = dir /\ commit' = commit
  BY DEF Snaps, Mans
<1>8. \A s \in Snaps : s.seq <= Len(h) /\ Extends(h, s.data)
  <2>1. ASSUME NEW s \in Snaps PROVE Extends(h, s.data)
    <3>1. DOMAIN s.data = 1..s.seq /\ Len(s.data) = s.seq
      BY <1>1, SnapsShape
    <3>2. \A k \in 1..s.seq : k \in 1..Len(g) /\ g[k] = s.data[k]
      BY <1>1, <1>2, <3>1 DEF Extends
    <3> QED
      BY <1>1, <1>2, <1>6, <3>1, <3>2 DEF Extends
  <2> QED
    BY <1>1, <1>2, <1>6, <2>1
<1>9. /\ \A c \in commit'.crash : c <= Len(h)
      /\ VisibleIsNewest' /\ (OneSnapshot => OneSnapshot')
  BY <1>1, <1>2, <1>6, <1>7 DEF AttemptInv, VisibleIsNewest, OneSnapshot
<1>10. ASSUME OneSnapshot, faults' = 0, \A c \in commit.crash : LogsAgreeUpTo(c)
       PROVE  StaleLogs'
  <2>1. ASSUME NEW c \in commit.crash, NEW v \in wal'.crash, NEW s \in Snaps,
               NEW i \in Scanned(v), s.seq < v[i].seq, v[i].seq <= c
        PROVE  v[i].batch = h[v[i].seq]
    <3>1. CASE v = img
      <4>1. v[i].seq \in Nat
        BY <1>4, <3>1, ScannedFrame
      <4>2. v[i].seq <= Len(h)
        BY <1>1, <1>2, <1>6, <2>1, <4>1
      <4> QED
        BY <1>4, <2>1, <3>1, <4>2 DEF LogAgrees
    <3>2. CASE \E u \in wal.crash : Within(v, u)
      <4>1. PICK u \in wal.crash : i \in Scanned(u) /\ v[i] = u[i]
        BY <3>2 DEF Within
      <4>2. u[i].seq \in Nat
        BY <4>1, Shapes, ScannedFrame
      <4>3. u[i].batch = g[u[i].seq]
        BY <1>10, <2>1, <4>1 DEF LogsAgreeUpTo
      <4>4. u[i].seq \in 1..Len(g)
        BY <1>1, <1>2, <2>1, <4>1, <4>2
      <4> QED
        BY <1>6, <4>1, <4>3, <4>4
    <3> QED
      BY <3>1, <3>2
  <2>2. \A c \in commit'.crash : LogsAgreeUpTo(c)'
    BY <1>7, <2>1 DEF LogsAgreeUpTo
  <2> QED
    BY <1>9, <1>10, <2>2 DEF StaleLogs
<1>11. ASSUME CleanLogs, wal'.vis = img PROVE CleanLogs'
  <2>1. ASSUME NEW u \in wal.crash, NEW v, Within(v, u)
        PROVE  NoStray(v, h) /\ \A s \in Snaps : LogAgrees(v, s.seq, h)
    <3>1. NoStray(u, g) /\ \A s \in Snaps : LogAgrees(u, s.seq, g)
      BY <1>11 DEF CleanLogs, LogsFollow
    <3>2. NoStray(v, g) /\ \A s \in Snaps : LogAgrees(v, s.seq, g)
      BY <2>1, <3>1, WithinKeeps
    <3>3. \A i \in Scanned(v) : v[i].seq \in Nat
      BY <2>1, Shapes, ScannedFrame DEF Within
    <3>4. NoStray(v, h)
      BY <1>1, <1>6, <3>2, <3>3 DEF NoStray
    <3>5. ASSUME NEW s \in Snaps, NEW i \in Scanned(v), s.seq < v[i].seq
          PROVE  v[i].batch = h[v[i].seq]
      <4>1. v[i].seq \in 1..Len(g) /\ v[i].seq <= Len(g)
        BY <1>1, <3>2, <3>3, <3>5 DEF NoStray
      <4>2. v[i].batch = g[v[i].seq]
        BY <3>2, <3>5, <4>1 DEF LogAgrees
      <4> QED
        BY <1>6, <4>1, <4>2
    <3> QED
      BY <3>4, <3>5 DEF LogAgrees
  <2>2. LogsFollow(attempt)'
    BY <1>4, <1>7, <2>1 DEF LogsFollow
  <2>3. NothingHidden'
    <3>1. ASSUME NEW v \in wal'.crash, NEW s \in Snaps, NEW i \in Scanned(v),
                 s.seq < v[i].seq
          PROVE  \E j \in Scanned(img) : img[j].seq = v[i].seq
      <4>1. CASE v = img
        BY <4>1
      <4>2. CASE \E u \in wal.crash : Within(v, u)
        <5>1. PICK u \in wal.crash : i \in Scanned(u) /\ v[i] = u[i]
          BY <4>2 DEF Within
        <5>2. PICK j \in Scanned(w) : w[j].seq = u[i].seq
          BY <1>11, <3>1, <5>1 DEF CleanLogs, NothingHidden
        <5> QED
          BY <1>5, <5>1, <5>2 DEF Within
      <4> QED
        BY <4>1, <4>2
    <3> QED
      BY <1>7, <1>11, <3>1 DEF NothingHidden
  <2> QED
    BY <2>2, <2>3 DEF CleanLogs
<1>12. CleanLogs' \/ StaleLogs'
  <2>1. CASE StaleLogs
    <3>1. OneSnapshot /\ faults' = 0 /\ \A c \in commit.crash : LogsAgreeUpTo(c)
      BY <1>1, <2>1 DEF StaleLogs
    <3> QED
      BY <1>10, <3>1
  <2>2. CASE CleanLogs /\ faults > 0 /\ faults' = faults - 1
    <3>1. OneSnapshot /\ faults' = 0
      BY <1>1, <2>2 DEF AttemptInv
    <3>2. \A c \in commit.crash : LogsAgreeUpTo(c)
      BY <1>2, <2>2, CleanLogsAgree
    <3> QED
      BY <1>10, <3>1, <3>2
  <2>3. CASE CleanLogs /\ wal'.vis = img
    BY <1>11, <2>3
  <2> QED
    BY <2>1, <2>2, <2>3 DEF AttemptInv
<1>13. faults' <= 1 /\ (faults' > 0 => OneSnapshot')
  BY <1>1, <1>9 DEF AttemptInv
<1> QED
  BY <1>7, <1>8, <1>9, <1>12, <1>13 DEF AttemptInv

\* apply() up to the sync of its frame, however that ends.
LEMMA ApplyAttempt ==
  ASSUME TypeOK, TypeOK', DurabilityInv, AttemptInv, NEW b \in Batches, Apply(b)
  PROVE  AttemptInv'
<1> DEFINE w   == wal.vis
           f   == Frame(Len(graph) + 1, b, TRUE)
           img == Append(w, f)
           cut == Append(w, Frame(Len(graph) + 1, b, FALSE))
<1>1. /\ pc = "idle" /\ pc' \in {"idle", "compact_snapshot", "apply_commit"}
      /\ UNCHANGED <<commit, dir, snapshot>> /\ ~ poisoned
  BY DEF Apply, Published
<1>2. \/ /\ attempt' = Append(graph, b) /\ faults' = faults
         /\ wal' = Written(wal, img, {cut}) \/ wal' = Durable(img)
      \/ /\ attempt' = Append(graph, b) /\ faults > 0 /\ faults' = faults - 1
         /\ wal' \in FailedSync(wal, img, {cut})
      \/ /\ attempt' = attempt /\ faults > 0 /\ faults' = faults - 1
         /\ wal' \in FailedWrite(wal, {cut})
  BY DEF Apply, Published, Poison, Fault, history
<1>3. /\ pc \notin NoHandle /\ pc' \notin NoHandle /\ pc' \notin Recovering /\ HandleOpen
  BY <1>1 DEF HandleOpen, Opening, NoHandle, Recovering
<1>4. /\ LiveWriter /\ attempt = graph /\ InOrder(w)
      /\ w \in Seq(Frames) /\ w \in wal.crash /\ Len(graph) \in Nat
  <2>1. LiveWriter /\ LogsAgree
    BY <1>1, <1>3, Zenon DEF DurabilityInv
  <2> QED
    BY <1>1, <2>1, Shapes DEF LiveWriter, LogsAgree
<1>5. Within(cut, w)
  BY <1>4, WithinTorn
<1>6. Grown(img, w, f) /\ \A u \in wal.crash : Within(u, u)
  BY Shapes, WithinPrefix DEF Grown
<1>7. f \in Frames /\ f.seq = Len(graph) + 1 /\ f.batch = b
  BY <1>4 DEF Frame, Frames
<1> HIDE DEF f, img, cut
<1>8. ASSUME attempt' = Append(graph, b),
             \/ faults' = faults /\ (wal' = Written(wal, img, {cut}) \/ wal' = Durable(img))
             \/ /\ faults > 0 /\ faults' = faults - 1
                /\ wal' \in FailedSync(wal, img, {cut})
      PROVE  AttemptInv'
  <2>1. wal'.crash \subseteq wal.crash \cup {cut, img} /\ wal'.vis = img
    BY <1>8 DEF Written, Durable, FailedSync
  <2>2. \A v \in wal'.crash : v = img \/ \E u \in wal.crash : Within(v, u)
    BY <1>4, <1>5, <1>6, <2>1
  <2>3. Grown(attempt', graph, b)
    BY <1>8 DEF Grown
  <2> QED
    BY <1>1, <1>3, <1>4, <1>6, <1>8, <1>7, <2>1, <2>2, <2>3, AttemptGrows
<1>9. ASSUME attempt' = attempt, faults > 0, faults' = faults - 1,
             wal' \in FailedWrite(wal, {cut})
      PROVE  AttemptInv'
  <2>1. LogsWithin
    BY <1>5, <1>9, LogStep
  <2>2. ManStays /\ snapshot \in Snaps /\ snapshot' = snapshot
    BY <1>1, <1>3 DEF ManStays, Mans, Snaps
  <2> QED
    BY <1>1, <1>3, <1>9, <2>1, <2>2, AttemptQuiet
<1> QED
  BY <1>2, <1>8, <1>9

(***************************************************************************)
(* The theorem.                                                            *)
(***************************************************************************)
\* Nothing was attempted before the first create().
LEMMA InitAttemptInv == MaxFaults <= 1 /\ Init => AttemptInv
<1> SUFFICES ASSUME MaxFaults <= 1, Init PROVE AttemptInv
  OBVIOUS
<1>1. /\ wal.crash = {<< >>} /\ wal.vis = << >> /\ commit.crash = {0}
      /\ dir.crash = {EmptyDir} /\ dir.vis = EmptyDir
      /\ pc = "closed" /\ attempt = << >> /\ faults <= 1
  BY DEF Init, Durable
<1>2. Snaps = {NoSnapshot} /\ dir.vis.man.snap = NoSnapshot
  <2>1. EmptyDir.man.snap = NoSnapshot
    BY DEF EmptyDir, NoManifest, ManifestRecord
  <2> QED
    BY <1>1, <2>1 DEF Snaps, Mans, NoHandle
<1>3. /\ NoSnapshot.seq = 0 /\ NoSnapshot.data = << >>
      /\ Len(<< >>) = 0 /\ Extends(<< >>, << >>) /\ Scanned(<< >>) = {}
  BY EmptySeq DEF NoSnapshot, Extends, Scanned
<1>4. pc \notin Recovering
  BY <1>1 DEF Recovering
<1>5. OneSnapshot /\ VisibleIsNewest
  BY <1>2, <1>3 DEF OneSnapshot, VisibleIsNewest
<1>6. CleanLogs
  BY <1>1, <1>3 DEF CleanLogs, NothingHidden, LogsFollow, NoStray, LogAgrees
<1> QED
  BY <1>1, <1>2, <1>3, <1>4, <1>5, <1>6 DEF AttemptInv

\* Every step keeps it: one step of the proof for each action.
LEMMA NextAttemptInv ==
  TypeInv /\ TypeInv' /\ DurabilityInv /\ AttemptInv /\ [Next]_vars => AttemptInv'
<1> SUFFICES ASSUME TypeInv, TypeInv', DurabilityInv, AttemptInv, [Next]_vars
             PROVE  AttemptInv'
  OBVIOUS
<1>1. TypeOK /\ TypeOK'
  BY DEF TypeInv
<1>2. CASE Create
  BY <1>1, <1>2, CreateAttempt, CreateManifestAttempt DEF Create
<1>3. CASE Open
  BY <1>1, <1>3, OpenAttempt, OpenManifestAttempt DEF Open
<1>4. CASE Running
  BY <1>1, <1>4, MarkerAttempt, QuietAttempt, GoneAttempt, CompactManifestAttempt DEF Running
<1>5. CASE Client
  BY <1>1, <1>5, ApplyAttempt, QuietAttempt DEF Client
<1>6. CASE Crash
  BY <1>1, <1>6, GoneAttempt DEF Crash
<1>7. CASE UNCHANGED vars
  <2>1. /\ wal' = wal /\ commit' = commit /\ dir' = dir /\ attempt' = attempt
        /\ faults' = faults /\ pc' = pc /\ graph' = graph /\ snapshot' = snapshot
    BY <1>7 DEF vars, disk, writer, history
  <2>2. ManStays /\ (pc' \in NoHandle \/ snapshot' \in Snaps)
    BY <2>1 DEF ManStays, Mans, Snaps
  <2>3. pc' \in Recovering => Extends(attempt, graph')
    BY <2>1 DEF AttemptInv
  <2> QED
    BY <1>1, <2>1, <2>2, <2>3, LogStays, AttemptQuiet
<1> QED
  BY <1>2, <1>3, <1>4, <1>5, <1>6, <1>7 DEF Next

\* So the invariant holds in every state, if one write or sync fails at most.
LEMMA AttemptInvariant ==
  MaxFaults <= 1 => (Spec => [](TypeInv /\ DurabilityInv /\ AttemptInv))
<1> SUFFICES ASSUME MaxFaults <= 1
             PROVE  Spec => [](TypeInv /\ DurabilityInv /\ AttemptInv)
  OBVIOUS
<1>1. Init => AttemptInv
  BY InitAttemptInv
<1> QED
  BY <1>1, NextAttemptInv, DurabilityInvariant, PTL DEF Spec

\* Recovery brings back nothing that no apply asked for, whatever a power cut
\* leaves of each file, if one write or sync fails at most.
THEOREM NothingIsResurrected == MaxFaults <= 1 => (Spec => []NoResurrection)
<1> SUFFICES ASSUME MaxFaults <= 1 PROVE Spec => []NoResurrection
  OBVIOUS
<1>1. TypeInv /\ DurabilityInv /\ AttemptInv => NoResurrection
  BY NothingResurrected DEF TypeInv
<1> QED
  BY <1>1, AttemptInvariant, PTL

(***************************************************************************)
(* The promise to the client.                                              *)
(***************************************************************************)
PromiseStep == [Promise!Next]_(Promise!vars)

\* A step that leaves the handle, the graph it shows and the history alone.
LEMMA PromiseStutters ==
  ASSUME HandleOpen' <=> HandleOpen, HandleOpen => graph' = graph,
         acked' = acked, attempt' = attempt
  PROVE  PromiseStep
<1> DEFINE G == IF HandleOpen THEN graph ELSE << >>
<1>1. G' = G
  OBVIOUS
<1> QED
  BY <1>1 DEF PromiseStep, Promise!vars

\* The handle is closed or dies; without one there is nothing to lose.
LEMMA PromiseDown ==
  ASSUME HandleGone, acked' = acked, attempt' = attempt
  PROVE  PromiseStep
<1>1. ~ HandleOpen'
  BY DEF HandleGone, HandleOpen, Opening
<1>2. CASE HandleOpen
  <2>1. Promise!Down
    BY <1>1, <1>2 DEF Promise!Down
  <2> QED
    BY <2>1 DEF PromiseStep, Promise!Next
<1>3. CASE ~ HandleOpen
  BY <1>1, <1>3, PromiseStutters
<1> QED
  BY <1>2, <1>3

\* A graph that another one extends is a prefix of it.
LEMMA ExtendsIsPrefix ==
  ASSUME NEW g \in Graphs, NEW h \in Graphs, Extends(g, h)
  PROVE  h \in Promise!Prefixes(g)
<1>1. /\ Len(h) \in 0..Len(g) /\ DOMAIN h = 1..Len(h) /\ Len(g) \in Nat
      /\ \A k \in 1..Len(g) : g[k] \in Batches
  BY DEF Extends, Graphs
<1> DEFINE p == SubSeq(g, 1, Len(h))
<1>2. p \in Seq(Batches) /\ Len(p) = Len(h) /\ \A i \in 1..Len(h) : p[i] = g[i]
  BY <1>1, SubSeqProperties DEF Graphs
<1>3. \A i \in 1..Len(h) : p[i] = h[i]
  BY <1>1, <1>2 DEF Extends
<1>4. p = h
  <2> HIDE DEF p
  <2> QED
    BY <1>2, <1>3, SeqEqual DEF Graphs
<1> QED
  BY <1>1, <1>4 DEF Promise!Prefixes

\* create() and open() return a handle on what was attempted, and it is
\* acknowledged.
LEMMA PromiseOpen ==
  ASSUME graph \in Graphs, acked \in Graphs, attempt \in Graphs,
         Extends(attempt, graph), Extends(graph, acked),
         pc \in Opening, pc' = "idle", graph' = graph, acked' = graph, attempt' = graph
  PROVE  PromiseStep
<1>1. ~ HandleOpen /\ HandleOpen'
  BY DEF HandleOpen, Opening
<1>2. graph \in Promise!Prefixes(attempt) /\ acked \in Promise!Prefixes(graph)
  BY ExtendsIsPrefix
<1>3. Promise!Open
  BY <1>1, <1>2 DEF Promise!Open
<1> QED
  BY <1>3 DEF PromiseStep, Promise!Next

\* All that is published is acknowledged.
LEMMA PromiseCommit ==
  ASSUME HandleOpen, HandleOpen', acked' = graph, graph' = graph, attempt' = attempt
  PROVE  PromiseStep
<1>1. Promise!Commit
  BY DEF Promise!Commit
<1> QED
  BY <1>1 DEF PromiseStep, Promise!Next

\* A batch is on its way.
LEMMA PromiseBegin ==
  ASSUME HandleOpen, HandleOpen', NEW b \in Batches, attempt = graph,
         attempt' = Append(graph, b), graph' = graph, acked' = acked
  PROVE  PromiseStep
<1>1. Promise!Begin(b)
  BY DEF Promise!Begin
<1> QED
  BY <1>1 DEF PromiseStep, Promise!Next

\* A batch is published, and acknowledged or not.
LEMMA PromiseFinish ==
  ASSUME HandleOpen, HandleOpen', NEW b \in Batches, attempt \in {graph, Append(graph, b)},
         graph' = Append(graph, b), attempt' = Append(graph, b),
         acked' \in {acked, Append(graph, b)}
  PROVE  PromiseStep
<1>1. Promise!Finish(b)
  BY DEF Promise!Finish
<1> QED
  BY <1>1 DEF PromiseStep, Promise!Next

\* The steps of create() and open().
LEMMA PromiseOpening ==
  ASSUME TypeOK, DurabilityInv, AttemptInv, Create \/ Open
  PROVE  PromiseStep
<1>1. /\ graph \in Graphs /\ acked \in Graphs /\ attempt \in Graphs
      /\ acked' = acked /\ attempt' = attempt /\ HandleGone => PromiseStep
  BY Shapes, AttemptShapes, PromiseDown
<1>2. ASSUME pc \in Opening, pc' \in Opening, acked' = acked, attempt' = attempt
      PROVE  PromiseStep
  BY <1>2, PromiseStutters DEF HandleOpen
<1>3. CASE CreateSnapshot
  <2>1. /\ pc = "closed" /\ pc' \in {"closed", "create_wal"}
        /\ acked' = acked /\ attempt' = attempt
    BY <1>3, Zenon DEF CreateSnapshot, history
  <2> QED
    BY <1>2, <2>1 DEF Opening
<1>4. CASE CreateWal
  <2>1. /\ acked' = acked /\ attempt' = attempt
        /\ pc = "create_wal" /\ (pc' = "create_commit" \/ HandleGone)
    BY <1>4, Zenon DEF CreateWal, history
  <2> QED
    BY <1>1, <1>2, <2>1 DEF Opening
<1>5. CASE CreateCommit
  <2>1. /\ acked' = acked /\ attempt' = attempt
        /\ pc = "create_commit" /\ (pc' = "create_manifest" \/ HandleGone)
    BY <1>5, Zenon DEF CreateCommit, history
  <2> QED
    BY <1>1, <1>2, <2>1 DEF Opening
<1>6. CASE CreateManifest
  <2>1. /\ acked' = acked /\ attempt' = attempt /\ pc = "create_manifest"
        /\ (pc' = "idle" /\ graph' = graph) \/ HandleGone
    BY <1>6, Zenon DEF CreateManifest
  <2>2. /\ acked = << >> /\ attempt = << >> /\ graph = << >>
    <3>1. pc \in NoHandle /\ dir.vis.man = NoManifest
      BY <2>1, Zenon DEF NoHandle, DurabilityInv, CreatedEmpty
    <3> QED
      BY <3>1, NothingStored
  <2>3. Extends(<< >>, << >>) /\ pc \in Opening
    BY <2>1 DEF Extends, Opening
  <2> QED
    BY <1>1, <2>1, <2>2, <2>3, PromiseOpen
<1>7. CASE OpenScan
  <2>1. /\ acked' = acked /\ attempt' = attempt
        /\ pc = "closed" /\ pc' \in {"open_truncate", "open_commit"}
    BY <1>7, Zenon DEF OpenScan, history
  <2> QED
    BY <1>2, <2>1 DEF Opening
<1>8. CASE OpenTruncate
  <2>1. /\ acked' = acked /\ attempt' = attempt
        /\ pc = "open_truncate" /\ (pc' = "open_commit" \/ HandleGone)
    BY <1>8, Zenon DEF OpenTruncate, history
  <2> QED
    BY <1>1, <1>2, <2>1 DEF Opening
<1>9. CASE OpenCommit
  <2>1. /\ acked' = acked /\ attempt' = attempt
        /\ pc = "open_commit" /\ (pc' = "open_manifest" \/ HandleGone)
    BY <1>9, Zenon DEF OpenCommit, history
  <2> QED
    BY <1>1, <1>2, <2>1 DEF Opening
<1>10. CASE OpenManifest
  <2>1. /\ pc = "open_manifest"
        /\ \/ /\ pc' = "idle" /\ graph' = graph
              /\ acked' = graph /\ attempt' = graph
           \/ HandleGone /\ acked' = acked /\ attempt' = attempt
    BY <1>10, Zenon DEF OpenManifest, Ack, history, writer
  <2>2. pc \in Recovering /\ pc \in Opening
    BY <2>1 DEF Recovering, Opening
  <2>3. Extends(attempt, graph) /\ Extends(graph, acked)
    <3>1. RecoveringWriter
      BY <2>2, Zenon DEF DurabilityInv
    <3> QED
      BY <2>2, <3>1 DEF AttemptInv, RecoveringWriter
  <2> QED
    BY <1>1, <2>1, <2>2, <2>3, PromiseOpen
<1> QED
  BY <1>3, <1>4, <1>5, <1>6, <1>7, <1>8, <1>9, <1>10 DEF Create, Open


\* The steps of an open handle that are not apply's.
LEMMA PromiseRunning ==
  ASSUME TypeInv, DurabilityInv, Running
  PROVE  PromiseStep
<1> DEFINE Open1 == {"idle", "compact_snapshot", "compact_manifest", "compact_commit",
                     "compact_truncate", "compact_reopen", "apply_commit",
                     "flush_commit", "close_commit", "close_manifest"}
<1>1. ASSUME pc \in Open1, pc' \in Open1 PROVE HandleOpen /\ HandleOpen'
  BY <1>1 DEF HandleOpen, Opening
<1>2. ASSUME HandleOpen /\ HandleOpen', graph' = graph, attempt' = attempt,
             acked' = acked \/ acked' = graph
      PROVE  PromiseStep
  BY <1>2, PromiseStutters, PromiseCommit
<1>3. CASE FlushCommit
  <2>1. /\ pc = "flush_commit" /\ pc' = "idle" /\ graph' = graph /\ attempt' = attempt
        /\ acked' = acked \/ acked' = graph
    BY <1>3, Zenon DEF FlushCommit, Ack
  <2> QED
    BY <1>1, <1>2, <2>1
<1>4. CASE CloseCommit
  <2>1. /\ pc = "close_commit" /\ pc' = "close_manifest"
        /\ graph' = graph /\ attempt' = attempt
        /\ acked' = acked \/ acked' = graph
    BY <1>4, Zenon DEF CloseCommit, Ack
  <2> QED
    BY <1>1, <1>2, <2>1
<1>5. CASE CompactCommit
  <2>1. /\ pc = "compact_commit" /\ pc' \in {"compact_truncate", "idle"}
        /\ graph' = graph /\ attempt' = attempt
        /\ acked' = acked \/ acked' = graph
    BY <1>5, Zenon DEF CompactCommit, CompactReturns, Ack
  <2> QED
    BY <1>1, <1>2, <2>1
<1>6. CASE CompactSnapshot
  <2>1. /\ pc = "compact_snapshot" /\ pc' \in {"idle", "compact_manifest"}
        /\ graph' = graph /\ attempt' = attempt /\ acked' = acked
    BY <1>6, Zenon DEF CompactSnapshot, CompactReturns, history
  <2> QED
    BY <1>1, <1>2, <2>1
<1>7. CASE CompactManifest
  <2>1. /\ pc = "compact_manifest" /\ pc' \in {"idle", "compact_commit"}
        /\ graph' = graph /\ attempt' = attempt /\ acked' = acked
    BY <1>7, Zenon DEF CompactManifest, CompactReturns, history
  <2> QED
    BY <1>1, <1>2, <2>1
<1>8. CASE CompactTruncate
  <2>1. /\ pc = "compact_truncate" /\ pc' \in {"idle", "compact_reopen"}
        /\ graph' = graph /\ attempt' = attempt /\ acked' = acked
    BY <1>8, Zenon DEF CompactTruncate, CompactReturns, history
  <2> QED
    BY <1>1, <1>2, <2>1
<1>9. CASE CompactReopen
  <2>1. /\ pc = "compact_reopen" /\ pc' = "idle"
        /\ graph' = graph /\ attempt' = attempt /\ acked' = acked
    BY <1>9, Zenon DEF CompactReopen, CompactReturns
  <2> QED
    BY <1>1, <1>2, <2>1
<1>10. CASE CloseManifest
  <2>1. HandleGone /\ acked' = acked /\ attempt' = attempt
    BY <1>10, Zenon DEF CloseManifest, history
  <2> QED
    BY <2>1, PromiseDown
<1>11. CASE ApplyCommit
  <2> DEFINE b == wal.vis[Len(wal.vis)].batch
             g == Append(graph, b)
  <2>1. /\ pc = "apply_commit" /\ pc' \in {"idle", "compact_snapshot"}
        /\ \/ graph' = g /\ attempt' = g /\ acked' = g
           \/ graph' = graph /\ attempt' = attempt /\ acked' = acked
    BY <1>11 DEF ApplyCommit, Published, Ack, history
  <2>2. HandleOpen /\ HandleOpen'
    BY <1>1, <2>1
  <2>3. b \in Batches
    <3>1. wal.vis # << >> /\ wal.vis \in Seq(Frames)
      BY <2>1, Shapes DEF TypeInv
    <3>2. wal.vis[Len(wal.vis)] \in Frames
      BY <3>1, EmptySeq, ElementOfSeq, LenProperties
    <3> QED
      BY <3>2 DEF Frames
  <2>4. attempt = g
    <3>1. ~ poisoned
      BY <2>1, Zenon DEF DurabilityInv, CreatedEmpty
    <3>2. LiveWriter
      BY <2>2, <3>1, Zenon DEF DurabilityInv
    <3> QED
      BY <2>1, <3>2 DEF LiveWriter
  <2> HIDE DEF b
  <2>5. CASE graph' = g /\ attempt' = g /\ acked' = g
    BY <2>2, <2>3, <2>4, <2>5, PromiseFinish
  <2> QED
    BY <1>2, <2>1, <2>2, <2>5
<1> QED
  BY <1>3, <1>4, <1>5, <1>6, <1>7, <1>8, <1>9, <1>10, <1>11 DEF Running

\* An apply begins or finishes its batch, or leaves everything as it was.
LEMMA PromiseApply ==
  ASSUME DurabilityInv, NEW b \in Batches, Apply(b)
  PROVE  PromiseStep
<1>1. /\ pc = "idle" /\ pc' \in {"idle", "compact_snapshot", "apply_commit"}
      /\ ~ poisoned /\ acked' = acked
      /\ \/ graph' = Append(graph, b) /\ attempt' = Append(graph, b)
         \/ graph' = graph /\ attempt' = Append(graph, b)
         \/ graph' = graph /\ attempt' = attempt
  BY DEF Apply, Published, history
<1>2. HandleOpen /\ HandleOpen'
  BY <1>1 DEF HandleOpen, Opening
<1>3. attempt = graph
  <2>1. LiveWriter
    BY <1>1, <1>2, Zenon DEF DurabilityInv
  <2> QED
    BY <1>1, <2>1 DEF LiveWriter
<1> QED
  BY <1>1, <1>2, <1>3, PromiseFinish, PromiseBegin, PromiseStutters

\* Every step of the store is a step of the promise, or leaves it alone.
LEMMA NextPromise ==
  TypeInv /\ DurabilityInv /\ AttemptInv /\ [Next]_vars => PromiseStep
<1> SUFFICES ASSUME TypeInv, DurabilityInv, AttemptInv, [Next]_vars PROVE PromiseStep
  OBVIOUS
<1>1. CASE Create \/ Open
  BY <1>1, PromiseOpening DEF TypeInv
<1>2. CASE Running
  BY <1>2, PromiseRunning
<1>3. CASE Client
  <2>1. CASE SetPolicy \/ Flush \/ Compact \/ Close
    <3>1. /\ pc = "idle" /\ pc' \in {"idle", "flush_commit", "compact_snapshot",
                                     "close_commit", "close_manifest"}
          /\ graph' = graph /\ acked' = acked /\ attempt' = attempt
      BY <2>1, Zenon DEF SetPolicy, Flush, Compact, Close, history, writer
    <3>2. HandleOpen /\ HandleOpen'
      BY <3>1 DEF HandleOpen, Opening
    <3> QED
      BY <3>1, <3>2, PromiseStutters
  <2> QED
    BY <1>3, <2>1, PromiseApply DEF Client
<1>4. CASE Crash
  <2>1. HandleGone /\ acked' = acked /\ attempt' = attempt
    BY <1>4, Zenon DEF Crash, Kill, PowerLoss, history
  <2> QED
    BY <2>1, PromiseDown
<1>5. CASE UNCHANGED vars
  <2>1. pc' = pc /\ graph' = graph /\ acked' = acked /\ attempt' = attempt
    BY <1>5 DEF vars, writer, history
  <2>2. HandleOpen' <=> HandleOpen
    BY <2>1 DEF HandleOpen
  <2> QED
    BY <2>1, <2>2, PromiseStutters
<1> QED
  BY <1>1, <1>2, <1>3, <1>4, <1>5 DEF Next

\* The store implements DurableStore, for any constants, if one write or sync
\* fails at most: an open handle is on a graph between what was acknowledged
\* and what was attempted, and a batch whose apply returned Err blocks every
\* other one until the next open.
THEOREM PromiseRefinement == MaxFaults <= 1 => (Spec => KeepsItsPromise)
<1> SUFFICES ASSUME MaxFaults <= 1 PROVE Spec => KeepsItsPromise
  OBVIOUS
<1>1. Init => Promise!Init
  <2> SUFFICES ASSUME Init PROVE Promise!Init
    OBVIOUS
  <2>1. ~ HandleOpen /\ acked = << >> /\ attempt = << >>
    BY DEF Init, HandleOpen, Opening
  <2> QED
    BY <2>1 DEF Promise!Init
<1>2. TypeInv /\ DurabilityInv /\ AttemptInv /\ [Next]_vars
      => [Promise!Next]_(Promise!vars)
  BY NextPromise DEF PromiseStep
<1> QED
  BY <1>1, <1>2, AttemptInvariant, PTL DEF KeepsItsPromise, Promise!Spec, Spec


(***************************************************************************)
(* Recovery accepts what it finds, for any constants and any number of     *)
(* failing writes and syncs: after a power cut while a handle is open,     *)
(* after every death of the process if the machine stays up, and the state *)
(* readers see can be rebuilt from the files.                              *)
(*                                                                         *)
(* What a crash image holds agrees with the graph by DurabilityInv; here   *)
(* it is shown that every crash image holds enough of it: each log all the *)
(* batches between any snapshot and any marker, and each directory the     *)
(* files its MANIFEST names.  The last part is about what recovery names:  *)
(* the epoch it mints or takes over.                                       *)
(***************************************************************************)

(***************************************************************************)
(* The inductive invariant.                                                *)
(***************************************************************************)
(* The log w has every batch after seq n up to c; every frame checks out.  *)
Holds(w, n, c) == \A k \in (n + 1)..c : \E i \in Scanned(w) : w[i].seq = k
AllOk(w)       == Scanned(w) = DOMAIN w

(* A directory with all the files its MANIFEST needs.                      *)
Complete(d) == d.has_wal /\ d.has_commit /\ d.man.snap \in d.snaps

(* The MANIFEST m does not ask for more than the marker c, or its own      *)
(* snapshot, gives.                                                        *)
Covers(c, m) == c >= m.high \/ m.snap.seq >= m.high

(* What create() has written so far.                                       *)
Creating ==
  pc \in NoHandle \ {"closed"} =>
    /\ NoSnapshot \in dir.vis.snaps
    /\ pc # "create_wal" => dir.vis.has_wal
    /\ pc = "create_manifest" => dir.vis.has_commit

(* An open handle, poisoned or not: every log, marker and directory go     *)
(* together, and no step of a compaction removes a snapshot in use.        *)
EveryImageOpens ==
  /\ \A d \in dir.crash : Complete(d)
  /\ \A c \in commit.crash : durable_seq <= c /\ \A m \in Mans : Covers(c, m)
  /\ \A w \in wal.crash, c \in commit.crash, s \in Snaps : Holds(w, s.seq, c)
  /\ snapshot \in dir.vis.snaps
  /\ pc = "compact_manifest" => NewSnapshot \in dir.vis.snaps /\ superseded = {snapshot}
  /\ pc \in {"compact_commit", "compact_truncate", "compact_reopen"} =>
       /\ snapshot \notin superseded /\ snapshot.seq = Len(graph)
       /\ \A m \in Mans : m.snap = snapshot

(* A live writer: the log in the cache has all there is to have.           *)
LiveLog ==
  /\ AllOk(wal.vis)
  /\ \A s \in Snaps : Holds(wal.vis, s.seq, Len(attempt))
  /\ \A c \in commit.crash : c <= Len(graph)

(* Between the scan of a recovery and the handle it returns.               *)
RecoveringLog ==
  /\ Recoverable(wal.vis, commit.vis, dir.vis)
  /\ durable_seq = HighWater(commit.vis, dir.vis)
  /\ \A w \in wal.crash : Holds(w, snapshot.seq, durable_seq)
  /\ pc # "open_truncate" => AllOk(wal.vis)

(* Without a handle, and with a MANIFEST: the files open, unless the power *)
(* was cut, and if they do then so would every other image of the log.     *)
ClosedStore ==
  dir.vis.man # NoManifest =>
    /\ "power" \notin CrashKinds => Recoverable(wal.vis, commit.vis, dir.vis)
    /\ Recoverable(wal.vis, commit.vis, dir.vis) =>
         \A w \in wal.crash : Holds(w, dir.vis.man.snap.seq, commit.vis)

RecoveryInv ==
  /\ Creating
  /\ HandleOpen => EveryImageOpens
  /\ HandleOpen /\ ~ poisoned => LiveLog
  /\ pc \in Recovering => RecoveringLog
  /\ pc \in NoHandle => ClosedStore

(***************************************************************************)
(* Logs: what they hold.                                                   *)
(***************************************************************************)
\* A log holds what a log within it holds, fewer batches of what it holds,
\* and nothing when nothing is asked for.
LEMMA HoldsKeeps ==
  ASSUME NEW w \in Seq(Frames), NEW n \in Nat, NEW c \in Nat
  PROVE  /\ c <= n => Holds(w, n, c)
         /\ \A v : Within(w, v) /\ Holds(w, n, c) => Holds(v, n, c)
         /\ \A m, b \in Nat : n <= m /\ b <= c /\ Holds(w, n, c) => Holds(w, m, b)
<1>1. c <= n => Holds(w, n, c)
  BY DEF Holds
<1>2. ASSUME NEW v, Within(w, v), Holds(w, n, c) PROVE Holds(v, n, c)
  <2>1. SUFFICES ASSUME NEW k \in (n + 1)..c
                 PROVE  \E i \in Scanned(v) : v[i].seq = k
    BY DEF Holds
  <2>2. PICK i \in Scanned(w) : w[i].seq = k
    BY <1>2 DEF Holds
  <2> QED
    BY <1>2, <2>2 DEF Within
<1>3. ASSUME NEW m \in Nat, NEW b \in Nat, n <= m, b <= c, Holds(w, n, c)
      PROVE  Holds(w, m, b)
  <2>1. \A k \in (m + 1)..b : k \in (n + 1)..c
    BY <1>3
  <2> QED
    BY <1>3, <2>1 DEF Holds
<1> QED
  BY <1>1, <1>2, <1>3

\* One more frame leaves what was scanned, is scanned itself if the log was
\* whole and it checks out, and then adds its batch.
LEMMA GrownHolds ==
  ASSUME NEW w \in Seq(Frames), NEW f \in Frames, NEW v, Grown(v, w, f)
  PROVE  /\ Within(w, v)
         /\ AllOk(w) /\ f.ok => AllOk(v)
         /\ \A n \in Nat : AllOk(w) /\ f.ok /\ Holds(w, n, f.seq - 1)
                           => Holds(v, n, f.seq)
<1>1. v \in Seq(Frames) /\ Len(v) = Len(w) + 1 /\ Len(w) \in Nat /\ v[Len(w) + 1] = f
      /\ \A k \in 1..Len(w) : v[k] = w[k]
  BY Appended DEF Grown
<1>2. DOMAIN v = 1..(Len(w) + 1) /\ DOMAIN w = 1..Len(w)
  BY <1>1
<1>3. Within(w, v)
  <2>1. ASSUME NEW i \in Scanned(w) PROVE i \in Scanned(v) /\ w[i] = v[i]
    <3>1. i \in 1..Len(w) /\ \A j \in 1..i : w[j].ok
      BY <1>2 DEF Scanned
    <3>2. \A j \in 1..i : j \in 1..Len(w)
      BY <1>1, <3>1
    <3>3. i \in 1..(Len(w) + 1) /\ v[i] = w[i] /\ \A j \in 1..i : v[j].ok
      BY <1>1, <3>1, <3>2
    <3> QED
      BY <1>2, <3>3 DEF Scanned
  <2> QED
    BY <2>1 DEF Within
<1>4. ASSUME AllOk(w), f.ok PROVE AllOk(v) /\ Len(w) + 1 \in Scanned(v)
  <2>1. \A j \in 1..Len(w) : w[j].ok
    <3>1. ASSUME NEW j \in 1..Len(w) PROVE w[j].ok
      <4>1. j \in Scanned(w) /\ j \in 1..j
        BY <1>1, <1>2, <1>4 DEF AllOk
      <4> QED
        BY <4>1 DEF Scanned
    <3> QED
      BY <3>1
  <2>2. \A j \in 1..(Len(w) + 1) : v[j].ok
    <3>1. ASSUME NEW j \in 1..(Len(w) + 1) PROVE v[j].ok
      <4>1. CASE j = Len(w) + 1
        BY <1>1, <1>4, <4>1
      <4>2. CASE j # Len(w) + 1
        <5>1. j \in 1..Len(w)
          BY <1>1, <4>2
        <5> QED
          BY <1>1, <2>1, <5>1
      <4> QED
        BY <4>1, <4>2
    <3> QED
      BY <3>1
  <2>3. \A i \in 1..(Len(w) + 1) : \A j \in 1..i : j \in 1..(Len(w) + 1)
    BY <1>1
  <2>4. Scanned(v) = 1..(Len(w) + 1)
    BY <1>2, <2>2, <2>3 DEF Scanned
  <2> QED
    BY <1>1, <1>2, <2>4 DEF AllOk
<1>5. ASSUME NEW n \in Nat, AllOk(w), f.ok, Holds(w, n, f.seq - 1) PROVE Holds(v, n, f.seq)
  <2>1. SUFFICES ASSUME NEW k \in (n + 1)..f.seq
                 PROVE  \E i \in Scanned(v) : v[i].seq = k
    BY DEF Holds
  <2>2. f.seq \in Nat
    BY DEF Frames
  <2>3. CASE k = f.seq
    BY <1>1, <1>4, <1>5, <2>3
  <2>4. CASE k # f.seq
    <3>1. k \in (n + 1)..(f.seq - 1)
      BY <2>2, <2>4
    <3>2. PICK i \in Scanned(w) : w[i].seq = k
      BY <1>5, <3>1 DEF Holds
    <3> QED
      BY <1>3, <3>2 DEF Within
  <2> QED
    BY <2>3, <2>4
<1> QED
  BY <1>3, <1>4, <1>5

\* A set of positions with every smaller one is all of them up to its size.
LEMMA Initial ==
  ASSUME NEW n \in Nat, NEW S \in SUBSET (1..n), \A i \in S : \A j \in 1..i : j \in S
  PROVE  S = 1..Cardinality(S)
<1>1. IsFiniteSet(1..n) /\ \A m \in Nat : IsFiniteSet(1..m) /\ Cardinality(1..m) = m
  <2>1. ASSUME NEW m \in Nat PROVE IsFiniteSet(1..m) /\ Cardinality(1..m) = m
    <3>1. 1 \in Int /\ m \in Int /\ (1 > m => m = 0)
      OBVIOUS
    <3>2. IsFiniteSet(1..m) /\ Cardinality(1..m) = IF 1 > m THEN 0 ELSE m - 1 + 1
      BY <3>1, FS_Interval
    <3> QED
      BY <3>1, <3>2
  <2> QED
    BY <2>1
<1>2. IsFiniteSet(S) /\ Cardinality(S) \in Nat
  BY <1>1, FS_Subset, FS_CardinalityType
<1>3. ASSUME NEW i \in S PROVE i \in 1..Cardinality(S)
  <2>1. i \in Nat /\ i >= 1 /\ 1..i \subseteq S
    OBVIOUS
  <2>2. Cardinality(1..i) <= Cardinality(S)
    BY <1>2, <2>1, FS_Subset
  <2> QED
    BY <1>1, <1>2, <2>1, <2>2
<1>4. S \subseteq 1..Cardinality(S) /\ IsFiniteSet(1..Cardinality(S))
      /\ Cardinality(1..Cardinality(S)) = Cardinality(S)
  BY <1>1, <1>2, <1>3
<1> QED
  BY <1>4, FS_Subset

\* In a log in order the committed frames come first, so that what open()
\* keeps is those, whole: it holds what the log held up to the high water.
LEMMA KeptHolds ==
  ASSUME NEW w \in Seq(Frames), InOrder(w), NEW hw \in Nat
  PROVE  /\ CommittedPart(w, hw) \in Seq(Frames) /\ AllOk(CommittedPart(w, hw))
         /\ \A n \in Nat : Holds(w, n, hw) => Holds(CommittedPart(w, hw), n, hw)
<1> DEFINE C == Committed(w, hw)
           m == Cardinality(C)
           v == CommittedPart(w, hw)
<1>1. /\ m \in 0..Len(w) /\ Len(w) \in Nat /\ v = SubSeq(w, 1, m) /\ v \in Seq(Frames)
  BY CommittedPartType DEF CommittedPart
<1>2. C \in SUBSET (1..Len(w)) /\ \A i \in C : \A j \in 1..i : j \in C
  <2>1. C \in SUBSET (1..Len(w))
    BY DEF Committed, Scanned
  <2>2. ASSUME NEW i \in C, NEW j \in 1..i PROVE j \in C
    <3>1. i \in Scanned(w) /\ w[i].seq <= hw /\ i \in 1..Len(w) /\ w[i].seq \in Nat
      BY ScannedFrame DEF Committed
    <3>2. j \in 1..Len(w) /\ \A k \in 1..j : k \in 1..i
      BY <3>1
    <3>3. j \in Scanned(w)
      BY <3>1, <3>2 DEF Scanned
    <3>4. j = i \/ w[j].seq < w[i].seq
      BY <3>1, <3>2, <3>3 DEF InOrder
    <3>5. w[j].seq \in Nat
      BY <3>3, ScannedFrame
    <3> QED
      BY <3>1, <3>3, <3>4, <3>5 DEF Committed
  <2> QED
    BY <2>1, <2>2
<1>3. C = 1..m
  <2> HIDE DEF C
  <2> QED
    BY <1>1, <1>2, Initial
<1>4. Len(v) = m /\ DOMAIN v = 1..m /\ \A i \in 1..m : v[i] = w[i]
  <2>1. \A i \in 1..m : w[i] \in Frames
    BY <1>1, ElementOfSeq
  <2>2. Len(v) = m /\ \A i \in 1..m : v[i] = w[i]
    BY <1>1, <2>1, SubSeqProperties
  <2> QED
    BY <1>1, <2>2
<1> HIDE DEF v, m
<1>5. ASSUME NEW i \in 1..m PROVE i \in Scanned(v)
  <2>1. i \in Scanned(w)
    BY <1>3 DEF Committed
  <2>2. \A j \in 1..i : j \in 1..m /\ w[j].ok
    BY <1>1, <2>1 DEF Scanned
  <2> QED
    BY <1>4, <2>2 DEF Scanned
<1>6. AllOk(v)
  BY <1>4, <1>5 DEF AllOk, Scanned
<1>7. ASSUME NEW n \in Nat, Holds(w, n, hw) PROVE Holds(v, n, hw)
  <2>1. SUFFICES ASSUME NEW k \in (n + 1)..hw
                 PROVE  \E i \in Scanned(v) : v[i].seq = k
    BY DEF Holds
  <2>2. PICK i \in Scanned(w) : w[i].seq = k
    BY <1>7 DEF Holds
  <2>3. i \in C
    BY <2>2 DEF Committed
  <2> QED
    BY <1>3, <1>4, <1>5, <2>2, <2>3
<1> QED
  BY <1>1, <1>6, <1>7 DEF v

\* A log without a tail is whole.
LEMMA NoTailAllOk ==
  ASSUME NEW w \in Seq(Frames), NEW hw \in Nat, ~ HasTail(w, hw), InOrder(w)
  PROVE  AllOk(w)
<1>1. /\ Cardinality(Committed(w, hw)) = Len(w) /\ Len(w) \in Nat
      /\ CommittedPart(w, hw) = w
  <2>1. Cardinality(Committed(w, hw)) = Len(w) /\ Len(w) \in Nat
    BY CommittedPartType DEF HasTail
  <2>2. SubSeq(w, 1, Len(w)) = w
    OBVIOUS
  <2> QED
    BY <2>1, <2>2 DEF CommittedPart
<1> QED
  BY <1>1, KeptHolds

\* What open() demands of a log in order, taken apart.
LEMMA WhatOpens ==
  ASSUME NEW w \in Seq(Frames), NEW c \in Nat, NEW d \in Dirs, InOrder(w)
  PROVE  Recoverable(w, c, d) <=>
           /\ d.man # NoManifest /\ Complete(d) /\ Covers(c, d.man)
           /\ Holds(w, d.man.snap.seq, c)
<1> DEFINE hw == HighWater(c, d)
           n  == d.man.snap.seq
<1>1. hw \in Nat /\ n \in Nat /\ hw = (IF c >= n THEN c ELSE n) /\ d.man.high \in Nat
  <2>1. hw \in Nat /\ n \in Nat /\ d.man.high \in Nat
    BY HighWaterType DEF Dirs, Manifests
  <2> QED
    BY <2>1 DEF HighWater
<1>2. hw >= d.man.high <=> Covers(c, d.man)
  BY <1>1 DEF Covers
<1>3. Holds(w, n, hw) <=> Holds(w, n, c)
  <2>1. CASE c >= n
    BY <1>1, <2>1
  <2>2. CASE ~ (c >= n)
    BY <1>1, <2>2, HoldsKeeps
  <2> QED
    BY <2>1, <2>2
<1> HIDE DEF hw
<1>4. NoGap(w, hw, d) <=> Holds(w, n, hw)
  <2>1. \A i \in Scanned(w) : w[i].seq \in Nat
    BY ScannedFrame
  <2>2. ASSUME NoGap(w, hw, d) PROVE Holds(w, n, hw)
    <3>1. SUFFICES ASSUME NEW k \in (n + 1)..hw
                   PROVE  \E i \in Scanned(w) : w[i].seq = k
      BY DEF Holds
    <3>2. k \in {w[i].seq : i \in Replayed(w, hw, d)}
      BY <2>2, <3>1 DEF NoGap
    <3>3. PICK i \in Replayed(w, hw, d) : w[i].seq = k
      BY <3>2
    <3> QED
      BY <3>3 DEF Replayed, Committed
  <2>3. ASSUME Holds(w, n, hw) PROVE NoGap(w, hw, d)
    <3>1. \A i, j \in Replayed(w, hw, d) : i < j => w[i].seq < w[j].seq
      BY DEF Replayed, Committed, InOrder
    <3>2. \A i \in Replayed(w, hw, d) : w[i].seq \in (n + 1)..hw
      BY <1>1, <2>1 DEF Replayed, Committed
    <3>3. ASSUME NEW k \in (n + 1)..hw PROVE \E i \in Replayed(w, hw, d) : w[i].seq = k
      <4>1. PICK i \in Scanned(w) : w[i].seq = k
        BY <2>3 DEF Holds
      <4>2. w[i].seq \in Nat /\ w[i].seq <= hw /\ w[i].seq > n
        BY <1>1, <2>1, <4>1
      <4>3. i \in Replayed(w, hw, d)
        BY <4>1, <4>2 DEF Replayed, Committed
      <4> QED
        BY <4>1, <4>3
    <3>4. {w[i].seq : i \in Replayed(w, hw, d)} = (n + 1)..hw
      BY <3>2, <3>3
    <3> QED
      BY <3>1, <3>4 DEF NoGap
  <2> QED
    BY <2>2, <2>3
<1> QED
  BY <1>2, <1>3, <1>4 DEF Recoverable, Complete, hw

(***************************************************************************)
(* An open handle.                                                         *)
(***************************************************************************)
\* The markers and the lengths are numbers.
LEMMA Numbers ==
  ASSUME TypeOK
  PROVE  /\ \A w \in wal.crash : w \in Seq(Frames)
         /\ \A c \in commit.crash : c \in Nat
         /\ \A s \in Snaps : s.seq \in Nat
         /\ \A m \in Mans : m.high \in Nat /\ m.snap.seq \in Nat /\ m.snap \in Snaps
         /\ Len(graph) \in Nat /\ Len(attempt) \in Nat /\ durable_seq \in Nat
         /\ wal.vis \in Seq(Frames) /\ wal.vis \in wal.crash
         /\ commit.vis \in Nat /\ commit.vis \in commit.crash
         /\ dir.vis \in Dirs /\ dir.vis \in dir.crash /\ dir.vis.man \in Mans
<1>1. /\ Mans \subseteq Manifests /\ Snaps \subseteq Snapshots /\ dir.vis.man \in Mans
      /\ \A s \in Snapshots : s.seq \in Nat
  BY SnapsShape
<1>2. \A m \in Mans : m.high \in Nat /\ m.snap \in Snaps
  BY <1>1 DEF Manifests, Snaps
<1>3. Len(attempt) \in Nat
  BY DEF TypeOK, Graphs
<1> QED
  BY <1>1, <1>2, <1>3, Shapes

\* A live handle knows its graph: nothing is pending but at the marker of an
\* apply, and only a poisoned writer idles or closes with an error.
LEMMA LiveFacts ==
  ASSUME TypeOK, DurabilityInv, HandleOpen, ~ poisoned
  PROVE  /\ LiveWriter /\ (pc # "apply_commit" => attempt = graph)
         /\ \A s \in Snaps : s.seq <= Len(graph)
         /\ Len(graph) <= Len(attempt) /\ Len(attempt) <= Len(graph) + 1
         /\ durable_seq <= Len(graph) /\ commit.vis <= Len(graph)
<1>1. LiveWriter
  BY Zenon DEF DurabilityInv
<1>2. Len(graph) <= Len(attempt) /\ Len(attempt) <= Len(graph) + 1
  <2>1. attempt = graph \/ attempt = Append(graph, wal.vis[Len(wal.vis)].batch)
    BY <1>1 DEF LiveWriter
  <2>2. graph \in Seq(Batches) /\ Len(graph) \in Nat
    BY Shapes DEF Graphs
  <2>3. \A x : Len(Append(graph, x)) = Len(graph) + 1
    BY <2>2
  <2>4. CASE attempt = graph
    BY <2>2, <2>4
  <2>5. CASE attempt = Append(graph, wal.vis[Len(wal.vis)].batch)
    BY <2>2, <2>3, <2>5
  <2> QED
    BY <2>1, <2>4, <2>5
<1> QED
  BY <1>1, <1>2 DEF LiveWriter

\* A step of an open handle that moves neither marker, memory nor MANIFEST:
\* every log is one that was there and perhaps more, or is empty when the
\* snapshots hold everything.
LEMMA QuietImages ==
  ASSUME TypeOK, RecoveryInv, HandleOpen, pc' \notin Opening,
         UNCHANGED <<commit, graph, snapshot, durable_seq, attempt>>,
         Mans' \subseteq Mans,
         \A v \in wal'.crash :
           \/ \E w \in wal.crash : Within(w, v)
           \/ v = << >> /\ \A s \in Snaps, c \in commit.crash : c <= s.seq,
         \A d \in dir'.crash : Complete(d), snapshot \in dir'.vis.snaps,
         pc' = "compact_manifest" => /\ NewSnapshot \in dir'.vis.snaps
                                     /\ superseded' = {snapshot},
         pc' \in {"compact_commit", "compact_truncate", "compact_reopen"} =>
           /\ superseded' = superseded
           /\ pc \in {"compact_commit", "compact_truncate", "compact_reopen"},
         \/ poisoned'
         \/ /\ ~ poisoned
            /\ \/ wal'.vis = wal.vis
               \/ wal'.vis = << >> /\ \A s \in Snaps : Len(attempt) <= s.seq
  PROVE  RecoveryInv'
<1>1. /\ pc \notin NoHandle /\ pc' \notin NoHandle /\ pc' \notin Recovering /\ HandleOpen'
      /\ pc' \notin NoHandle \ {"closed"}
  BY DEF HandleOpen, Opening, NoHandle, Recovering
<1>2. EveryImageOpens /\ (~ poisoned => LiveLog)
  BY Zenon DEF RecoveryInv
<1>3. Snaps' \subseteq Snaps
  BY <1>1 DEF Snaps
<1>4. << >> \in Seq(Frames) /\ AllOk(<< >>)
  BY EmptySeq DEF AllOk, Scanned
<1>5. ASSUME NEW v \in wal'.crash, NEW c \in commit.crash, NEW s \in Snaps
      PROVE  Holds(v, s.seq, c)
  <2>1. s.seq \in Nat /\ c \in Nat /\ \A w \in wal.crash : w \in Seq(Frames)
    BY Numbers
  <2>2. ASSUME NEW w \in wal.crash, Within(w, v) PROVE Holds(v, s.seq, c)
    <3>1. Holds(w, s.seq, c)
      BY <1>2 DEF EveryImageOpens
    <3> QED
      BY <2>1, <2>2, <3>1, HoldsKeeps
  <2>3. ASSUME v = << >>, c <= s.seq PROVE Holds(v, s.seq, c)
    BY <1>4, <2>1, <2>3, HoldsKeeps
  <2> QED
    BY <2>2, <2>3
<1>6. EveryImageOpens'
  <2>1. NewSnapshot' = NewSnapshot
    BY DEF NewSnapshot
  <2>2. \A c \in commit'.crash : durable_seq' <= c /\ \A m \in Mans' : Covers(c, m)
    BY <1>2 DEF EveryImageOpens
  <2>3. \A w \in wal'.crash, c \in commit'.crash, s \in Snaps' : Holds(w, s.seq, c)
    BY <1>3, <1>5
  <2>4. pc' \in {"compact_commit", "compact_truncate", "compact_reopen"} =>
          /\ snapshot' \notin superseded' /\ snapshot'.seq = Len(graph')
          /\ \A m \in Mans' : m.snap = snapshot'
    BY <1>2 DEF EveryImageOpens
  <2> QED
    BY <2>1, <2>2, <2>3, <2>4 DEF EveryImageOpens
<1>7. ASSUME ~ poisoned' PROVE LiveLog'
  <2>1. /\ ~ poisoned
        /\ \/ wal'.vis = wal.vis
           \/ wal'.vis = << >> /\ \A s \in Snaps : Len(attempt) <= s.seq
    BY <1>7, Zenon
  <2>2. LiveLog
    BY <1>2, <2>1, Zenon
  <2>3. \A c \in commit'.crash : c <= Len(graph')
    BY <2>2 DEF LiveLog
  <2>4. CASE wal'.vis = wal.vis
    BY <1>3, <2>2, <2>3, <2>4 DEF LiveLog
  <2>5. CASE wal'.vis = << >> /\ \A s \in Snaps : Len(attempt) <= s.seq
    <3>1. \A s \in Snaps' : Holds(<< >>, s.seq, Len(attempt))
      BY <1>3, <1>4, <2>5, HoldsKeeps, Numbers
    <3> QED
      BY <1>4, <2>3, <2>5, <3>1 DEF LiveLog
  <2> QED
    BY <2>1, <2>4, <2>5
<1>8. Creating'
  BY <1>1 DEF Creating
<1> QED
  BY <1>1, <1>6, <1>7, <1>8, Zenon DEF RecoveryInv

\* A directory written over with d, or not at all.
LEMMA DirImages ==
  ASSUME TypeOK, NEW d,
         dir' \in {dir, Durable(d), Synced(dir)} \cup Interrupted(dir, d, {})
  PROVE  /\ dir'.crash \subseteq dir.crash \cup {d} /\ dir'.vis \in {dir.vis, d}
         /\ dir' = Durable(d) => dir'.vis = d /\ dir'.crash = {d}
<1>1. dir.vis \in dir.crash
  BY Numbers
<1> QED
  BY <1>1 DEF Durable, Synced, Interrupted, FailedWrite, FailedSync, Written

\* A snapshot file put in place replaces the one of its name.
LEMMA PutSnapshotShape ==
  ASSUME NEW d \in Dirs, NEW s
  PROVE  /\ PutSnapshot(d, s).man = d.man /\ PutSnapshot(d, s).has_wal = d.has_wal
         /\ PutSnapshot(d, s).has_commit = d.has_commit
         /\ PutSnapshot(d, s).snaps = {t \in d.snaps : ~ SameName(s, t)} \cup {s}
<1> DEFINE S == {t \in d.snaps : ~ SameName(s, t)} \cup {s}
<1>1. PutSnapshot(d, s) = [d EXCEPT !.snaps = S]
  BY DEF PutSnapshot
<1> HIDE DEF S
<1>2. /\ PutSnapshot(d, s).man = d.man /\ PutSnapshot(d, s).has_wal = d.has_wal
      /\ PutSnapshot(d, s).has_commit = d.has_commit /\ PutSnapshot(d, s).snaps = S
  BY <1>1 DEF Dirs
<1> QED
  BY <1>2, Zenon DEF S

\* The new snapshot of a compaction has a name of its own: of those in use
\* only one of the very same graph can share it.
LEMMA NewName ==
  ASSUME TypeOK, DurabilityInv, HandleOpen, ~ poisoned, NEW s \in Snaps
  PROVE  SameName(NewSnapshot, s) => s = NewSnapshot /\ s # snapshot
<1>1. SUFFICES ASSUME SameName(NewSnapshot, s)
               PROVE  s = NewSnapshot /\ s # snapshot
  OBVIOUS
<1>2. s.seq = Len(graph) /\ s.cid = snapshot.cid + 1
  BY <1>1 DEF SameName, NewSnapshot
<1>3. s \in Snapshots /\ snapshot \in Snapshots /\ snapshot.cid \in Nat
      /\ s \in [seq : Nat, cid : Nat, data : Graphs] /\ Len(s.data) = s.seq
      /\ graph \in Graphs
  BY SnapsShape, Shapes DEF Snapshots
<1>4. Extends(graph, s.data)
  BY LiveFacts DEF LiveWriter
<1>5. s.data = graph
  BY <1>2, <1>3, <1>4 DEF Extends, Graphs
<1>6. s = NewSnapshot
  BY <1>2, <1>3, <1>5 DEF NewSnapshot
<1> QED
  BY <1>2, <1>3, <1>6

\* Choosing a policy, starting an operation, and the steps of a compaction
\* before its MANIFEST and after its marker.
LEMMA QuietActionsOpen ==
  ASSUME TypeOK, DurabilityInv, RecoveryInv,
         \/ SetPolicy \/ Compact \/ Flush \/ Close
         \/ CompactSnapshot \/ CompactTruncate \/ CompactReopen
  PROVE  RecoveryInv'
<1> DEFINE Same == UNCHANGED <<commit, graph, snapshot, durable_seq, attempt>>
           Compacting == {"compact_commit", "compact_truncate", "compact_reopen"}
<1>1. /\ wal.vis \in Seq(Frames) /\ wal.vis \in wal.crash /\ dir.vis \in Dirs
      /\ dir.vis \in dir.crash /\ \A w \in wal.crash : Within(w, w)
  BY Numbers, WithinPrefix
<1>2. HandleOpen /\ pc \notin NoHandle
  BY DEF SetPolicy, Compact, Flush, Close, CompactSnapshot, CompactTruncate, CompactReopen,
         HandleOpen, Opening, NoHandle
<1>3. EveryImageOpens /\ CreatedEmpty
  BY <1>2, Zenon DEF RecoveryInv, DurabilityInv
<1>4. /\ \A d \in dir.crash : Complete(d)
      /\ snapshot \in dir.vis.snaps /\ dir.vis.man.snap \in dir.vis.snaps
      /\ dir.vis.has_wal /\ dir.vis.has_commit
  BY <1>1, <1>3 DEF EveryImageOpens, Complete
<1>w. wal' = wal => /\ \A v \in wal'.crash : \E w \in wal.crash : Within(w, v)
                    /\ wal'.vis = wal.vis
  BY <1>1
<1>d. dir' = dir => /\ Mans' \subseteq Mans /\ \A d \in dir'.crash : Complete(d)
                    /\ snapshot \in dir'.vis.snaps
  BY <1>4 DEF Mans
<1>s. \A v : v \in {Synced(wal)} \cup FailedSync(wal, wal.vis, {}) =>
        /\ \A x \in v.crash : x \in wal.crash
        /\ v.vis = wal.vis
  BY <1>1 DEF Synced, Durable, FailedSync, Written
<1>5. CASE SetPolicy
  <2>1. Same /\ wal' = wal /\ dir' = dir /\ pc = "idle" /\ pc' = "idle"
    BY <1>5 DEF SetPolicy, disk, history
  <2>2. poisoned' \/ ~ poisoned
    <3>1. poisoned' = poisoned
      BY <1>5 DEF SetPolicy
    <3> QED
      BY <3>1, Zenon
  <2> QED
    BY <1>2, <1>w, <1>d, <2>1, <2>2, QuietImages DEF Opening
<1>6. CASE Compact
  <2>1. /\ Same /\ wal' = wal /\ dir' = dir /\ pc' = "compact_snapshot" /\ ~ poisoned
    BY <1>6 DEF Compact, disk, history, writer
  <2> QED
    BY <1>2, <1>w, <1>d, <2>1, QuietImages DEF Opening
<1>7. CASE Flush
  <2>1. /\ Same /\ dir' = dir /\ ~ poisoned /\ pc' \in {"idle", "flush_commit"}
        /\ wal' \in {Synced(wal)} \cup FailedSync(wal, wal.vis, {})
    BY <1>7 DEF Flush, history
  <2>2. wal'.vis = wal.vis /\ \A v \in wal'.crash : \E w \in wal.crash : Within(w, v)
    BY <1>1, <1>s, <2>1
  <2> QED
    BY <1>2, <1>d, <2>1, <2>2, QuietImages DEF Opening
<1>8. CASE Close
  <2>1. /\ Same /\ dir' = dir /\ pc' \in {"close_commit", "close_manifest"}
        /\ wal' \in {wal, Synced(wal)} \cup FailedSync(wal, wal.vis, {})
    BY <1>8 DEF Close, history
  <2>2. wal'.vis = wal.vis /\ \A v \in wal'.crash : \E w \in wal.crash : Within(w, v)
    BY <1>1, <1>s, <2>1
  <2>3. poisoned' \/ ~ poisoned
    <3>1. ~ poisoned \/ poisoned' = poisoned
      BY <1>8, Zenon DEF Close
    <3> QED
      BY <3>1, Zenon
  <2> QED
    BY <1>2, <1>d, <2>1, <2>2, <2>3, QuietImages DEF Opening
<1>9. ASSUME pc \notin {"idle", "close_manifest"}
      PROVE  ~ poisoned /\ LiveLog
  <2>1. ~ poisoned
    BY <1>3, <1>9, Zenon DEF CreatedEmpty
  <2> QED
    BY <1>2, <2>1, Zenon DEF RecoveryInv
<1>10. CASE CompactSnapshot
  <2> DEFINE d == PutSnapshot(dir.vis, NewSnapshot)
  <2>1. /\ Same /\ wal' = wal /\ pc = "compact_snapshot"
        /\ \/ pc' = "idle" /\ dir' \in {dir} \cup Interrupted(dir, d, {})
           \/ pc' = "compact_manifest" /\ dir' = Durable(d) /\ superseded' = {snapshot}
    BY <1>10 DEF CompactSnapshot, CompactReturns, AtomicOk, AtomicErr, history
  <2>0. pc \notin {"idle", "close_manifest"}
    BY <1>10 DEF CompactSnapshot
  <2>2. ~ poisoned
    BY <1>9, <2>0, Zenon
  <2>3. /\ d.man = dir.vis.man /\ d.has_wal = dir.vis.has_wal
        /\ d.has_commit = dir.vis.has_commit
        /\ d.snaps = {t \in dir.vis.snaps : ~ SameName(NewSnapshot, t)} \cup {NewSnapshot}
    BY <1>1, PutSnapshotShape
  <2>4. dir.vis.man.snap \in Snaps /\ snapshot \in Snaps
    BY <1>2, SnapsShape DEF Snaps
  <2>5. Complete(d) /\ snapshot \in d.snaps /\ NewSnapshot \in d.snaps
    <3>1. dir.vis.man.snap \in d.snaps
      BY <1>2, <1>4, <2>2, <2>3, <2>4, NewName
    <3>2. snapshot \in d.snaps
      BY <1>2, <1>4, <2>2, <2>3, <2>4, NewName
    <3> QED
      BY <1>4, <2>3, <3>1, <3>2 DEF Complete
  <2> HIDE DEF d
  <2>6. Mans' \subseteq Mans
    BY <2>1, <2>3, DirStep DEF ManStays
  <2>7. /\ \A x \in dir'.crash : Complete(x)
        /\ snapshot \in dir'.vis.snaps
        /\ pc' = "compact_manifest" => /\ NewSnapshot \in dir'.vis.snaps
                                       /\ superseded' = {snapshot}
    <3>1. dir'.crash \subseteq dir.crash \cup {d} /\ dir'.vis \in {dir.vis, d}
      BY <2>1, DirImages
    <3>2. pc' = "compact_manifest" => dir'.vis = d /\ superseded' = {snapshot}
      BY <2>1 DEF Durable
    <3> QED
      BY <1>4, <2>5, <3>1, <3>2
  <2> QED
    BY <1>2, <1>w, <2>1, <2>2, <2>6, <2>7, QuietImages DEF Opening
<1>11. CASE CompactTruncate
  <2>1. /\ Same /\ dir' = dir /\ pc = "compact_truncate"
        /\ wal' \in {Durable(<< >>)} \cup Interrupted(wal, << >>, {})
        /\ pc' \in {"idle", "compact_reopen"}
    BY <1>11 DEF CompactTruncate, CompactReturns, history
  <2>0. pc \notin {"idle", "close_manifest"}
    BY <1>11 DEF CompactTruncate
  <2>2. ~ poisoned /\ LiveLog
    BY <1>9, <2>0, Zenon
  <2>3. /\ \A s \in Snaps : s.seq = Len(graph)
        /\ attempt = graph /\ \A c \in commit.crash : c <= Len(graph)
    <3>1. snapshot.seq = Len(graph) /\ \A m \in Mans : m.snap = snapshot
      BY <1>3, <2>1 DEF EveryImageOpens
    <3>2. attempt = graph
      BY <1>2, <2>1, <2>2, LiveFacts
    <3> QED
      BY <2>2, <3>1, <3>2 DEF LiveLog, Snaps
  <2>4. /\ wal'.crash \subseteq wal.crash \cup {<< >>}
        /\ wal' = Durable(<< >>) => wal'.vis = << >>
    BY <1>1, <2>1 DEF Durable, Interrupted, FailedWrite, FailedSync, Written
  <2>5. \A v \in wal'.crash :
           \/ \E w \in wal.crash : Within(w, v)
           \/ v = << >> /\ \A s \in Snaps, c \in commit.crash : c <= s.seq
    BY <1>1, <2>3, <2>4
  <2>6. \/ poisoned' /\ pc' = "idle"
        \/ wal' = Durable(<< >>) /\ superseded' = superseded
    BY <1>11, Zenon DEF CompactTruncate, CompactReturns, Poison
  <2>7. \/ poisoned'
        \/ /\ ~ poisoned
           /\ wal'.vis = << >> /\ \A s \in Snaps : Len(attempt) <= s.seq
    <3>1. \A s \in Snaps : Len(attempt) <= s.seq
      BY <2>3, Numbers
    <3>2. poisoned' \/ wal' = Durable(<< >>)
      BY <2>6, Zenon
    <3> QED
      BY <2>2, <2>4, <3>1, <3>2, Zenon
  <2>8. pc' \in Compacting => superseded' = superseded /\ pc \in Compacting
    BY <2>1, <2>6
  <2> QED
    BY <1>2, <1>d, <2>1, <2>5, <2>7, <2>8, QuietImages DEF Opening
<1>12. CASE CompactReopen
  <2>1. /\ Same /\ wal' = wal /\ pc = "compact_reopen" /\ pc' = "idle"
        /\ \/ dir' = dir
           \/ \E gone \in SUBSET superseded :
                dir' = Written(dir, [dir.vis EXCEPT !.snaps = @ \ gone], {})
    BY <1>12 DEF CompactReopen, CompactReturns, history
  <2>0. pc \notin {"idle", "close_manifest"}
    BY <1>12 DEF CompactReopen
  <2>2. ~ poisoned
    BY <1>9, <2>0, Zenon
  <2>3. /\ Mans' \subseteq Mans /\ \A d \in dir'.crash : Complete(d)
        /\ snapshot \in dir'.vis.snaps
    <3>1. ASSUME NEW gone \in SUBSET superseded,
                 dir' = Written(dir, [dir.vis EXCEPT !.snaps = @ \ gone], {})
          PROVE  /\ Mans' \subseteq Mans /\ \A d \in dir'.crash : Complete(d)
                 /\ snapshot \in dir'.vis.snaps
      <4> DEFINE d == [dir.vis EXCEPT !.snaps = @ \ gone]
      <4>1. /\ d.man = dir.vis.man /\ d.has_wal = dir.vis.has_wal
            /\ d.has_commit = dir.vis.has_commit /\ d.snaps = dir.vis.snaps \ gone
        BY <1>1 DEF Dirs
      <4>2. snapshot \notin superseded /\ dir.vis.man.snap = snapshot
        BY <1>3, <2>1, Numbers DEF EveryImageOpens
      <4>3. Complete(d) /\ snapshot \in d.snaps
        BY <1>4, <4>1, <4>2 DEF Complete
      <4>4. dir' \in Interrupted(dir, d, {}) /\ dir'.vis = d
        BY <3>1 DEF Interrupted, FailedSync, Written
      <4> HIDE DEF d
      <4>5. ManStays
        BY <4>1, <4>4, DirStep
      <4>6. dir'.crash \subseteq dir.crash \cup {d}
        BY <4>4, DirImages
      <4> QED
        BY <1>4, <4>3, <4>4, <4>5, <4>6 DEF ManStays
    <3> QED
      BY <1>d, <2>1, <3>1
  <2> QED
    BY <1>2, <1>w, <2>1, <2>2, <2>3, QuietImages DEF Opening
<1> QED
  BY <1>5, <1>6, <1>7, <1>8, <1>10, <1>11, <1>12

(***************************************************************************)
(* The marker.                                                             *)
(***************************************************************************)
\* An advance to seq, finished or not, from a live writer whose logs hold
\* everything up to seq: nothing that was covered is uncovered.
LEMMA AdvanceImages ==
  ASSUME TypeOK, DurabilityInv, RecoveryInv, HandleOpen, ~ poisoned, pc' \notin Opening,
         NEW seq \in Nat, AdvanceOk(seq) \/ AdvanceErr(seq),
         commit.vis <= seq, durable_seq <= seq,
         \A w \in wal.crash, s \in Snaps : Holds(w, s.seq, seq),
         UNCHANGED <<wal, dir, snapshot>>,
         pc' # "compact_manifest",
         pc' \in {"compact_commit", "compact_truncate", "compact_reopen"} =>
           /\ superseded' = superseded /\ graph' = graph
           /\ pc \in {"compact_commit", "compact_truncate", "compact_reopen"},
         \/ poisoned'
         \/ AdvanceOk(seq) /\ seq <= Len(graph') /\ Len(attempt') <= Len(attempt)
  PROVE  RecoveryInv'
<1>1. /\ pc \notin NoHandle /\ pc' \notin NoHandle /\ pc' \notin Recovering /\ HandleOpen'
      /\ pc' \notin NoHandle \ {"closed"}
  BY DEF HandleOpen, Opening, NoHandle, Recovering
<1>2. EveryImageOpens /\ LiveLog
  BY Zenon DEF RecoveryInv
<1>3. Snaps' = Snaps /\ Mans' = Mans
  BY <1>1 DEF Snaps, Mans
<1>4. /\ commit'.crash \subseteq commit.crash \cup {seq}
      /\ AdvanceOk(seq) => commit'.crash = {seq} /\ durable_seq' = seq
      /\ durable_seq' \in {durable_seq, seq}
      /\ AdvanceErr(seq) => durable_seq' = durable_seq
  BY MarkerStep DEF AdvanceOk, AdvanceErr, Durable
<1>5. \A c \in commit'.crash : durable_seq' <= c
  BY <1>2, <1>4 DEF EveryImageOpens
<1>6. \A c \in commit'.crash, m \in Mans' : Covers(c, m)
  <2>1. \A m \in Mans : Covers(seq, m)
    <3>1. ASSUME NEW m \in Mans PROVE Covers(seq, m)
      <4>1. Covers(commit.vis, m)
        BY <1>2, Numbers DEF EveryImageOpens
      <4>2. commit.vis \in Nat /\ m.high \in Nat
        BY Numbers
      <4> QED
        BY <4>1, <4>2 DEF Covers
    <3> QED
      BY <3>1
  <2> QED
    BY <1>2, <1>3, <1>4, <2>1 DEF EveryImageOpens
<1>7. \A w \in wal'.crash, c \in commit'.crash, s \in Snaps' : Holds(w, s.seq, c)
  BY <1>2, <1>3, <1>4 DEF EveryImageOpens
<1>8. EveryImageOpens'
  <2>1. pc' \in {"compact_commit", "compact_truncate", "compact_reopen"} =>
          /\ snapshot' \notin superseded' /\ snapshot'.seq = Len(graph')
          /\ \A m \in Mans' : m.snap = snapshot'
    BY <1>2, <1>3 DEF EveryImageOpens
  <2>2. (\A d \in dir'.crash : Complete(d)) /\ snapshot' \in dir'.vis.snaps
    BY <1>2 DEF EveryImageOpens
  <2> QED
    BY <1>5, <1>6, <1>7, <2>1, <2>2 DEF EveryImageOpens
<1>9. ASSUME ~ poisoned' PROVE LiveLog'
  <2>1. AdvanceOk(seq) /\ seq <= Len(graph') /\ Len(attempt') <= Len(attempt)
    BY <1>9, Zenon
  <2>2. \A s \in Snaps' : Holds(wal'.vis, s.seq, Len(attempt'))
    <3>1. ASSUME NEW s \in Snaps PROVE Holds(wal.vis, s.seq, Len(attempt'))
      <4>1. Holds(wal.vis, s.seq, Len(attempt))
        BY <1>2 DEF LiveLog
      <4>2. \A k \in (s.seq + 1)..Len(attempt') : k \in (s.seq + 1)..Len(attempt)
        BY <2>1, Numbers
      <4> QED
        BY <4>1, <4>2 DEF Holds
    <3> QED
      BY <1>3, <3>1
  <2> QED
    BY <1>2, <1>4, <2>1, <2>2 DEF LiveLog
<1>10. Creating'
  BY <1>1 DEF Creating
<1> QED
  BY <1>1, <1>8, <1>9, <1>10, Zenon DEF RecoveryInv

\* The marker steps of apply, flush, close and compact.
LEMMA MarkerActionsOpen ==
  ASSUME TypeInv, DurabilityInv, DurabilityInv', TypeInv', RecoveryInv,
         ApplyCommit \/ FlushCommit \/ CloseCommit \/ CompactCommit
  PROVE  RecoveryInv'
<1>0. TypeOK
  BY DEF TypeInv
<1>1. /\ HandleOpen /\ pc \notin NoHandle /\ pc \notin {"idle", "close_manifest"}
      /\ UNCHANGED <<wal, dir, snapshot>>
  BY DEF ApplyCommit, FlushCommit, CloseCommit, CompactCommit, HandleOpen, Opening, NoHandle
<1>2. ~ poisoned
  BY <1>1, Zenon DEF DurabilityInv, CreatedEmpty
<1>3. EveryImageOpens /\ LiveLog /\ LiveWriter
  BY <1>1, <1>2, Zenon DEF RecoveryInv, DurabilityInv
<1>4. /\ Len(graph) <= Len(attempt) /\ durable_seq <= Len(graph) /\ commit.vis <= Len(graph)
      /\ (pc # "apply_commit" => attempt = graph)
      /\ Len(graph) \in Nat /\ Len(attempt) \in Nat /\ durable_seq \in Nat /\ commit.vis \in Nat
  BY <1>0, <1>1, <1>2, LiveFacts, Numbers
<1>5. CASE ApplyCommit \/ FlushCommit \/ CloseCommit
  <2>1. /\ wal.crash = {wal.vis}
        /\ attempt = IF pc = "apply_commit"
                     THEN Append(graph, wal.vis[Len(wal.vis)].batch) ELSE graph
    BY <1>3, <1>5 DEF ApplyCommit, FlushCommit, CloseCommit, LiveWriter
  <2>2. \/ /\ AdvanceOk(Len(attempt)) /\ graph' = attempt /\ attempt' = attempt
        \/ AdvanceErr(Len(attempt))
    <3>1. CASE ApplyCommit
      <4>1. pc = "apply_commit" /\ attempt = Append(graph, wal.vis[Len(wal.vis)].batch)
        BY <2>1, <3>1 DEF ApplyCommit
      <4> QED
        BY <3>1, <4>1 DEF ApplyCommit, Published
    <3>2. CASE FlushCommit \/ CloseCommit
      <4>1. attempt = graph
        BY <2>1, <3>2 DEF FlushCommit, CloseCommit
      <4> QED
        BY <3>2, <4>1 DEF FlushCommit, CloseCommit
    <3> QED
      BY <1>5, <3>1, <3>2
  <2>3. pc' \in {"idle", "compact_snapshot", "close_manifest"}
    BY <1>5 DEF ApplyCommit, FlushCommit, CloseCommit, Published
  <2>4. \A w \in wal.crash, s \in Snaps : Holds(w, s.seq, Len(attempt))
    BY <1>3, <2>1 DEF LiveLog
  <2>5. commit.vis <= Len(attempt) /\ durable_seq <= Len(attempt)
    BY <1>4
  <2>6. AdvanceErr(Len(attempt)) => poisoned'
    BY Zenon DEF AdvanceErr, Poison
  <2>7. \/ poisoned'
        \/ /\ AdvanceOk(Len(attempt)) /\ Len(attempt) <= Len(graph')
           /\ Len(attempt') <= Len(attempt)
    BY <1>4, <2>2, <2>6
  <2>8. /\ pc' \notin Opening /\ pc' # "compact_manifest"
        /\ pc' \notin {"compact_commit", "compact_truncate", "compact_reopen"}
    BY <2>3 DEF Opening
  <2>9. AdvanceOk(Len(attempt)) \/ AdvanceErr(Len(attempt))
    BY <2>2
  <2> QED
    BY <1>0, <1>1, <1>2, <1>4, <2>4, <2>5, <2>7, <2>8, <2>9, AdvanceImages, Zenon
<1>6. CASE CompactCommit
  <2>1. snapshot.seq = Len(graph) /\ pc = "compact_commit" /\ \A m \in Mans : m.snap = snapshot
    BY <1>3, <1>6 DEF CompactCommit, EveryImageOpens
  <2>2. (IF durable_seq >= snapshot.seq THEN durable_seq ELSE snapshot.seq) = Len(graph)
    BY <1>4, <2>1
  <2>3. \/ AdvanceOk(Len(graph)) /\ pc' = "compact_truncate" /\ superseded' = superseded
        \/ AdvanceErr(Len(graph)) /\ pc' = "idle"
    BY <1>6, <2>2 DEF CompactCommit, CompactReturns
  <2>4. graph' = graph /\ attempt' = attempt
    BY <1>6 DEF CompactCommit
  <2>5. \A w \in wal.crash, s \in Snaps : Holds(w, s.seq, Len(graph))
    <3>1. \A s \in Snaps : s.seq = Len(graph)
      BY <2>1 DEF Snaps
    <3> QED
      BY <1>0, <1>4, <3>1, HoldsKeeps, Numbers
  <2>6. AdvanceErr(Len(graph)) => poisoned'
    BY Zenon DEF AdvanceErr, Poison
  <2>7. \/ poisoned'
        \/ /\ AdvanceOk(Len(graph)) /\ Len(graph) <= Len(graph')
           /\ Len(attempt') <= Len(attempt)
    BY <1>4, <2>3, <2>4, <2>6
  <2>8. /\ pc' # "compact_manifest"
        /\ pc' \in {"compact_commit", "compact_truncate", "compact_reopen"} =>
             /\ superseded' = superseded /\ graph' = graph
             /\ pc \in {"compact_commit", "compact_truncate", "compact_reopen"}
    BY <2>1, <2>3, <2>4
  <2>9. AdvanceOk(Len(graph)) \/ AdvanceErr(Len(graph))
    BY <2>3
  <2>10. pc' \notin Opening
    BY <2>3 DEF Opening
  <2> QED
    BY <1>0, <1>1, <1>2, <1>4, <2>5, <2>7, <2>8, <2>9, <2>10, AdvanceImages, Zenon
<1> QED
  BY <1>5, <1>6

\* The MANIFEST step of a compaction: the new snapshot is in the directory and
\* leaves nothing to be replayed.
LEMMA CompactManifestOpen ==
  ASSUME TypeOK, DurabilityInv, RecoveryInv, CompactManifest
  PROVE  RecoveryInv'
<1> DEFINE m == ManifestRecord(NewSnapshot, epoch, Len(graph), FALSE)
           d == PutManifest(dir.vis, m)
<1>1. /\ pc = "compact_manifest" /\ pc' \in {"idle", "compact_commit"} /\ HandleOpen
      /\ pc \notin NoHandle /\ pc' \notin NoHandle /\ pc' \notin Recovering /\ HandleOpen'
      /\ pc' \notin NoHandle \ {"closed"} /\ pc \notin {"idle", "close_manifest"}
  BY DEF CompactManifest, CompactReturns, HandleOpen, Opening, NoHandle, Recovering
<1>2. /\ UNCHANGED <<wal, commit, graph, durable_seq, attempt>>
      /\ poisoned' = poisoned
      /\ \/ /\ dir' = Durable(d) /\ snapshot' = NewSnapshot /\ pc' = "compact_commit"
            /\ superseded' = superseded
         \/ dir' \in Interrupted(dir, d, {}) /\ snapshot' = snapshot /\ pc' = "idle"
  BY DEF CompactManifest, CompactReturns, AtomicOk, AtomicErr, history
<1>3. ~ poisoned
  BY <1>1, Zenon DEF DurabilityInv, CreatedEmpty
<1>4. EveryImageOpens /\ LiveLog
  BY <1>1, <1>3, Zenon DEF RecoveryInv
<1>5. /\ d.man = m /\ m.snap = NewSnapshot /\ m.high = Len(graph)
      /\ d.snaps = dir.vis.snaps /\ d.has_wal = dir.vis.has_wal
      /\ d.has_commit = dir.vis.has_commit
  BY Numbers DEF PutManifest, Dirs, ManifestRecord
<1>6. /\ NewSnapshot.seq = Len(graph) /\ NewSnapshot.cid = snapshot.cid + 1
      /\ NewSnapshot # snapshot
  <2>1. snapshot.cid \in Nat
    BY DEF TypeOK, Snapshots
  <2> QED
    BY <2>1 DEF NewSnapshot
<1> HIDE DEF d, m
<1>7. Complete(d) /\ snapshot \in d.snaps /\ NewSnapshot \in d.snaps
  BY <1>1, <1>4, <1>5, Numbers DEF EveryImageOpens, Complete
<1>8. ManPut(m)
  BY <1>2, <1>5, DirStep
<1>9. Snaps' \subseteq Snaps \cup {NewSnapshot}
  BY <1>1, <1>2, <1>5, <1>8 DEF Snaps, ManPut
<1>10. dir'.crash \subseteq dir.crash \cup {d} /\ dir'.vis \in {dir.vis, d}
  BY <1>2, DirImages
<1>11. \A c \in commit.crash : c <= Len(graph)
  BY <1>4 DEF LiveLog
<1>12. EveryImageOpens'
  <2>1. \A x \in dir'.crash : Complete(x)
    BY <1>4, <1>7, <1>10 DEF EveryImageOpens
  <2>2. \A c \in commit'.crash : durable_seq' <= c /\ \A x \in Mans' : Covers(c, x)
    <3>1. \A c : Covers(c, m)
      <4>1. Len(graph) \in Nat
        BY Numbers
      <4> QED
        BY <1>5, <1>6, <4>1 DEF Covers
    <3> QED
      BY <1>2, <1>4, <1>8, <3>1 DEF EveryImageOpens, ManPut
  <2>3. \A w \in wal'.crash, c \in commit'.crash, s \in Snaps' : Holds(w, s.seq, c)
    <3>1. \A w \in wal.crash, c \in commit.crash : Holds(w, NewSnapshot.seq, c)
      BY <1>6, <1>11, HoldsKeeps, Numbers
    <3> QED
      BY <1>2, <1>4, <1>9, <3>1 DEF EveryImageOpens
  <2>4. snapshot' \in dir'.vis.snaps
    BY <1>2, <1>4, <1>7, <1>10 DEF EveryImageOpens, Durable
  <2>5. pc' \in {"compact_commit", "compact_truncate", "compact_reopen"} =>
          /\ snapshot' \notin superseded' /\ snapshot'.seq = Len(graph')
          /\ \A x \in Mans' : x.snap = snapshot'
    <3>1. SUFFICES ASSUME pc' = "compact_commit"
                   PROVE  /\ snapshot' \notin superseded' /\ snapshot'.seq = Len(graph')
                          /\ \A x \in Mans' : x.snap = snapshot'
      BY <1>1
    <3>2. /\ dir' = Durable(d) /\ snapshot' = NewSnapshot
          /\ superseded' = superseded
      BY <1>2, <3>1
    <3>3. Mans' = {m}
      BY <1>5, <3>2 DEF Durable, Mans
    <3> QED
      BY <1>1, <1>2, <1>4, <1>5, <1>6, <3>2, <3>3 DEF EveryImageOpens
  <2> QED
    BY <1>1, <2>1, <2>2, <2>3, <2>4, <2>5 DEF EveryImageOpens
<1>13. LiveLog'
  <2>1. Holds(wal.vis, NewSnapshot.seq, Len(attempt))
    <3>1. attempt = graph
      BY <1>1, <1>3, LiveFacts
    <3> QED
      BY <1>6, <3>1, HoldsKeeps, Numbers
  <2> QED
    BY <1>2, <1>4, <1>9, <1>11, <2>1 DEF LiveLog
<1>14. Creating'
  BY <1>1 DEF Creating
<1> QED
  BY <1>1, <1>12, <1>13, <1>14, Zenon DEF RecoveryInv

\* apply() up to the sync of its frame: what a log held it holds still, and a
\* frame written whole adds its batch.
LEMMA ApplyOpen ==
  ASSUME TypeOK, DurabilityInv, RecoveryInv, NEW b \in Batches, Apply(b)
  PROVE  RecoveryInv'
<1> DEFINE w   == wal.vis
           g   == Append(graph, b)
           f   == Frame(Len(graph) + 1, b, TRUE)
           e   == Frame(Len(graph) + 1, b, FALSE)
           img == Append(w, f)
           cut == Append(w, e)
<1>1. /\ pc = "idle" /\ pc' \in {"idle", "compact_snapshot", "apply_commit"}
      /\ UNCHANGED <<commit, dir, snapshot, durable_seq>>
      /\ ~ poisoned
  BY DEF Apply, Published, history
<1>2. \/ /\ wal' = Written(wal, img, {cut}) /\ graph' = g /\ attempt' = g
      \/ /\ wal' = Durable(img) /\ graph' = graph /\ attempt' = g
      \/ /\ wal' \in FailedWrite(wal, {cut}) \cup FailedSync(wal, img, {cut})
         /\ poisoned' = TRUE
  BY DEF Apply, Published, Poison
<1>3. /\ pc \notin NoHandle /\ pc' \notin NoHandle /\ pc' \notin Recovering
      /\ HandleOpen /\ HandleOpen' /\ pc' \notin NoHandle \ {"closed"}
  BY <1>1 DEF HandleOpen, Opening, NoHandle, Recovering
<1>4. EveryImageOpens /\ LiveLog
  BY <1>1, <1>3, Zenon DEF RecoveryInv
<1>5. /\ w \in Seq(Frames) /\ w \in wal.crash /\ \A v \in wal.crash : v \in Seq(Frames)
      /\ Len(graph) \in Nat /\ graph \in Seq(Batches) /\ attempt = graph
      /\ \A s \in Snaps : s.seq \in Nat
      /\ \A c \in commit.crash : c \in Nat /\ c <= Len(graph)
  <2>1. attempt = graph
    BY <1>1, <1>3, LiveFacts
  <2>2. graph \in Seq(Batches)
    BY Shapes DEF Graphs
  <2> QED
    BY <1>4, <2>1, <2>2, Numbers DEF LiveLog
<1>6. /\ f \in Frames /\ f.ok /\ f.seq = Len(graph) + 1 /\ e \in Frames
  BY <1>5 DEF Frame, Frames
<1>7. Len(g) = Len(graph) + 1
  BY <1>5, Appended
<1> HIDE DEF f, e, g
<1>8. Grown(img, w, f) /\ Grown(cut, w, e)
  BY DEF Grown
<1> HIDE DEF img, cut
<1>9. /\ Within(w, img) /\ Within(w, cut) /\ AllOk(img)
      /\ \A s \in Snaps : Holds(img, s.seq, Len(graph) + 1)
  <2>1. Within(w, img) /\ Within(w, cut) /\ AllOk(img)
    BY <1>4, <1>5, <1>6, <1>8, GrownHolds DEF LiveLog
  <2>2. \A s \in Snaps : Holds(w, s.seq, f.seq - 1)
    <3>1. f.seq - 1 = Len(graph)
      BY <1>5, <1>6
    <3> QED
      BY <1>4, <1>5, <3>1 DEF LiveLog
  <2>3. \A s \in Snaps : Holds(img, s.seq, f.seq)
    BY <1>4, <1>5, <1>6, <1>8, <2>2, GrownHolds DEF LiveLog
  <2> QED
    BY <1>6, <2>1, <2>3
<1>10. Snaps' = Snaps /\ Mans' = Mans
  BY <1>1, <1>3 DEF Snaps, Mans
<1>11. wal'.crash \subseteq wal.crash \cup {img, cut}
  BY <1>2, <1>5 DEF Written, Durable, FailedWrite, FailedSync
<1>12. ASSUME NEW v \in wal'.crash, NEW c \in commit.crash, NEW s \in Snaps
       PROVE  Holds(v, s.seq, c)
  <2>1. Holds(w, s.seq, c) /\ (v \in wal.crash => Holds(v, s.seq, c))
    BY <1>4, <1>5 DEF EveryImageOpens
  <2>2. v = img \/ v = cut => Holds(v, s.seq, c)
    BY <1>5, <1>9, <2>1, HoldsKeeps
  <2> QED
    BY <1>11, <2>1, <2>2
<1>13. EveryImageOpens'
  <2>1. /\ (\A d \in dir'.crash : Complete(d)) /\ snapshot' \in dir'.vis.snaps
        /\ \A c \in commit'.crash : durable_seq' <= c /\ \A m \in Mans' : Covers(c, m)
    BY <1>1, <1>4, <1>10 DEF EveryImageOpens
  <2>2. \A v \in wal'.crash, c \in commit'.crash, s \in Snaps' : Holds(v, s.seq, c)
    BY <1>1, <1>10, <1>12
  <2>3. pc' \notin {"compact_manifest", "compact_commit", "compact_truncate", "compact_reopen"}
    BY <1>1
  <2> QED
    BY <2>1, <2>2, <2>3 DEF EveryImageOpens
<1>14. ASSUME ~ poisoned' PROVE LiveLog'
  <2>1. /\ attempt' = g /\ graph' \in {graph, g}
        /\ wal' = Written(wal, img, {cut}) \/ wal' = Durable(img)
    BY <1>2, <1>14, Zenon
  <2>2. wal'.vis = img
    BY <2>1 DEF Written, Durable
  <2>3. \A c \in commit'.crash : c <= Len(graph')
    BY <1>1, <1>5, <1>7, <2>1
  <2> QED
    BY <1>7, <1>9, <1>10, <2>1, <2>2, <2>3 DEF LiveLog
<1>15. Creating'
  BY <1>3 DEF Creating
<1> QED
  BY <1>3, <1>13, <1>14, <1>15, Zenon DEF RecoveryInv

(***************************************************************************)
(* The handle goes.                                                        *)
(***************************************************************************)
\* What the next open() will read opens, if there is a MANIFEST at all.
LEMMA GoneOpens ==
  ASSUME TypeOK', DurabilityInv', HandleGone,
         \/ dir'.vis.man = NoManifest
         \/ /\ Complete(dir'.vis) /\ Covers(commit'.vis, dir'.vis.man)
            /\ \A w \in wal'.crash : Holds(w, dir'.vis.man.snap.seq, commit'.vis)
  PROVE  RecoveryInv'
<1>1. /\ pc' = "closed" /\ pc' \in NoHandle /\ pc' \notin Recovering /\ ~ HandleOpen'
      /\ pc' \notin NoHandle \ {"closed"}
  BY DEF HandleGone, NoHandle, Recovering, HandleOpen, Opening
<1>2. /\ wal'.vis \in Seq(Frames) /\ wal'.vis \in wal'.crash /\ commit'.vis \in Nat
      /\ dir'.vis \in Dirs
  BY DEF TypeOK, File
<1>3. InOrder(wal'.vis)
  <2>1. LogsAgree'
    BY Zenon DEF DurabilityInv
  <2> QED
    BY <1>2, <2>1 DEF LogsAgree
<1>4. ClosedStore'
  <2>1. SUFFICES ASSUME dir'.vis.man # NoManifest
                 PROVE  /\ Recoverable(wal'.vis, commit'.vis, dir'.vis)
                        /\ \A w \in wal'.crash : Holds(w, dir'.vis.man.snap.seq, commit'.vis)
    BY DEF ClosedStore
  <2>2. /\ Complete(dir'.vis) /\ Covers(commit'.vis, dir'.vis.man)
        /\ \A w \in wal'.crash : Holds(w, dir'.vis.man.snap.seq, commit'.vis)
    BY <2>1
  <2> QED
    BY <1>2, <1>3, <2>1, <2>2, WhatOpens
<1>5. Creating'
  BY <1>1 DEF Creating
<1> QED
  BY <1>1, <1>4, <1>5, Zenon DEF RecoveryInv

\* Between the scan and the handle, what was scanned opens and every log holds
\* what the MANIFEST and the marker say.
LEMMA RecoveringOpens ==
  ASSUME TypeOK, DurabilityInv, RecoveryInv, pc \in Recovering
  PROVE  /\ RecoveringLog /\ RecoveringWriter /\ InOrder(wal.vis)
         /\ Complete(dir.vis) /\ Covers(commit.vis, dir.vis.man)
         /\ dir.vis.man # NoManifest /\ snapshot = dir.vis.man.snap
         /\ commit.vis <= durable_seq /\ snapshot.seq <= durable_seq
         /\ durable_seq \in {commit.vis, snapshot.seq}
         /\ \A w \in wal.crash, c \in Nat : c <= durable_seq => Holds(w, snapshot.seq, c)
<1>1. RecoveringLog /\ RecoveringWriter /\ LogsAgree
  BY Zenon DEF RecoveryInv, DurabilityInv
<1>2. /\ wal.vis \in Seq(Frames) /\ commit.vis \in Nat /\ dir.vis \in Dirs
      /\ wal.vis \in wal.crash /\ \A w \in wal.crash : w \in Seq(Frames)
      /\ durable_seq \in Nat /\ snapshot.seq \in Nat
  <2>1. snapshot.seq \in Nat
    BY Shapes, SnapsShape
  <2> QED
    BY <2>1, Numbers
<1>3. InOrder(wal.vis)
  BY <1>1, <1>2 DEF LogsAgree
<1>4. snapshot = dir.vis.man.snap
  BY <1>1 DEF RecoveringWriter
<1>5. /\ Complete(dir.vis) /\ Covers(commit.vis, dir.vis.man) /\ dir.vis.man # NoManifest
  BY <1>1, <1>2, <1>3, WhatOpens DEF RecoveringLog
<1>6. /\ commit.vis <= durable_seq /\ snapshot.seq <= durable_seq
      /\ durable_seq \in {commit.vis, snapshot.seq}
  <2>1. durable_seq = HighWater(commit.vis, dir.vis)
    BY <1>1 DEF RecoveringLog
  <2> QED
    BY <1>2, <1>4, <2>1, HighWaterType
<1>7. ASSUME NEW w \in wal.crash, NEW c \in Nat, c <= durable_seq
      PROVE  Holds(w, snapshot.seq, c)
  <2>1. Holds(w, snapshot.seq, durable_seq)
    BY <1>1 DEF RecoveringLog
  <2> QED
    BY <1>2, <1>7, <2>1, HoldsKeeps
<1> QED
  BY <1>1, <1>3, <1>4, <1>5, <1>6, <1>7

\* Closing, and the death of the process at any step.
LEMMA GoneActionsOpen ==
  ASSUME TypeOK, TypeOK', DurabilityInv, DurabilityInv', RecoveryInv, CloseManifest \/ Kill
  PROVE  RecoveryInv'
<1>1. CASE Kill
  <2>1. UNCHANGED <<wal, commit, dir>> /\ HandleGone /\ pc # "closed"
    BY <1>1 DEF Kill, disk
  <2>2. CASE HandleOpen
    <3>1. EveryImageOpens /\ pc \notin NoHandle
      BY <2>2, Zenon DEF RecoveryInv, HandleOpen, Opening, NoHandle
    <3>2. /\ Complete(dir.vis) /\ Covers(commit.vis, dir.vis.man)
          /\ \A w \in wal.crash : Holds(w, dir.vis.man.snap.seq, commit.vis)
      BY <3>1, Numbers DEF EveryImageOpens
    <3> QED
      BY <2>1, <3>2, GoneOpens
  <2>3. CASE pc \in Recovering
    <3>1. /\ Complete(dir.vis) /\ Covers(commit.vis, dir.vis.man)
          /\ \A w \in wal.crash : Holds(w, dir.vis.man.snap.seq, commit.vis)
      BY <2>3, RecoveringOpens, Numbers
    <3> QED
      BY <2>1, <3>1, GoneOpens
  <2>4. CASE pc \in NoHandle
    <3>1. dir.vis.man = NoManifest
      BY <2>1, <2>4, Zenon DEF DurabilityInv, CreatedEmpty
    <3> QED
      BY <2>1, <3>1, GoneOpens
  <2>5. HandleOpen \/ pc \in Recovering \/ pc \in NoHandle
    BY DEF HandleOpen, Opening, Recovering, NoHandle
  <2> QED
    BY <2>2, <2>3, <2>4, <2>5
<1>2. CASE CloseManifest
  <2> DEFINE m == ManifestRecord(snapshot, epoch, durable_seq, ~ poisoned)
             d == PutManifest(dir.vis, m)
  <2>1. /\ HandleGone /\ UNCHANGED <<wal, commit>> /\ HandleOpen /\ pc \notin NoHandle
        /\ dir' \in {Durable(d)} \cup Interrupted(dir, d, {})
    BY <1>2 DEF CloseManifest, AtomicOk, AtomicErr, HandleOpen, Opening, NoHandle
  <2>2. EveryImageOpens
    BY <2>1, Zenon DEF RecoveryInv
  <2>3. /\ d.man = m /\ m.snap = snapshot /\ m.high = durable_seq
        /\ d.snaps = dir.vis.snaps /\ d.has_wal = dir.vis.has_wal
        /\ d.has_commit = dir.vis.has_commit
    BY Numbers DEF PutManifest, Dirs, ManifestRecord
  <2> HIDE DEF d, m
  <2>4. dir'.vis \in {dir.vis, d}
    BY <2>1, DirImages
  <2>5. Complete(d) /\ Complete(dir.vis)
    BY <2>2, <2>3, Numbers DEF EveryImageOpens, Complete
  <2>6. Covers(commit.vis, d.man) /\ Covers(commit.vis, dir.vis.man)
    BY <2>2, <2>3, Numbers DEF EveryImageOpens, Covers
  <2>7. \A w \in wal.crash : /\ Holds(w, dir.vis.man.snap.seq, commit.vis)
                             /\ Holds(w, d.man.snap.seq, commit.vis)
    <3>1. snapshot \in Snaps /\ dir.vis.man.snap \in Snaps
      BY <2>1, SnapsShape DEF Snaps
    <3> QED
      BY <2>2, <2>3, <3>1, Numbers DEF EveryImageOpens
  <2> QED
    BY <2>1, <2>4, <2>5, <2>6, <2>7, GoneOpens
<1> QED
  BY <1>1, <1>2

\* A power cut: the store may be lost for good, but if it opens then from the
\* one log there is now.
LEMMA PowerLossOpen ==
  ASSUME TypeOK, DurabilityInv, PowerLoss
  PROVE  RecoveryInv'
<1>1. PICK w \in wal.crash, c \in commit.crash, d \in dir.crash :
        wal' = Durable(w) /\ commit' = Durable(c) /\ dir' = Durable(d)
  BY DEF PowerLoss
<1>2. /\ pc' = "closed" /\ pc' \in NoHandle /\ pc' \notin Recovering /\ ~ HandleOpen'
      /\ pc' \notin NoHandle \ {"closed"}
  BY DEF PowerLoss, HandleGone, NoHandle, Recovering, HandleOpen, Opening
<1>3. w \in Seq(Frames) /\ c \in Nat /\ d \in Dirs /\ InOrder(w)
  <2>1. LogsAgree
    BY Zenon DEF DurabilityInv
  <2> QED
    BY <2>1, Shapes DEF LogsAgree
<1>4. ClosedStore'
  <2>1. Recoverable(w, c, d) => Holds(w, d.man.snap.seq, c)
    BY <1>3, WhatOpens
  <2>2. "power" \in CrashKinds
    BY DEF PowerLoss
  <2> QED
    BY <1>1, <2>1, <2>2 DEF ClosedStore, Durable
<1>5. Creating'
  BY <1>2 DEF Creating
<1> QED
  BY <1>2, <1>4, <1>5, Zenon DEF RecoveryInv
(***************************************************************************)
(* create().                                                               *)
(***************************************************************************)
\* create() up to its MANIFEST puts one file after the other in place.
LEMMA CreateStepsOpen ==
  ASSUME TypeOK, DurabilityInv, RecoveryInv, CreateSnapshot \/ CreateWal \/ CreateCommit
  PROVE  RecoveryInv'
<1>1. CreatedEmpty /\ Creating /\ dir.vis \in Dirs
  BY Numbers, Zenon DEF DurabilityInv, RecoveryInv
<1>2. ASSUME pc \in NoHandle, pc' \in NoHandle, dir.vis.man = NoManifest,
             NEW d, d.man = NoManifest,
             dir' \in {Durable(d)} \cup Interrupted(dir, d, {}),
             pc' # "closed" => /\ dir' = Durable(d)
                               /\ NoSnapshot \in d.snaps /\ (pc' # "create_wal" => d.has_wal)
                               /\ (pc' = "create_manifest" => d.has_commit)
      PROVE  RecoveryInv'
  <2>1. pc' \notin Recovering /\ ~ HandleOpen'
    BY <1>2 DEF NoHandle, Recovering, HandleOpen, Opening
  <2>2. dir'.vis \in {dir.vis, d} /\ (dir' = Durable(d) => dir'.vis = d)
    BY <1>2, DirImages
  <2>3. ClosedStore'
    BY <1>2, <2>2 DEF ClosedStore
  <2>4. Creating'
    BY <1>2, <2>2 DEF Creating
  <2> QED
    BY <2>1, <2>3, <2>4, Zenon DEF RecoveryInv
<1>3. CASE CreateSnapshot
  <2> DEFINE d == PutSnapshot(dir.vis, FirstSnapshot)
  <2>1. /\ pc = "closed" /\ pc' \in {"closed", "create_wal"} /\ dir.vis.man = NoManifest
        /\ dir' \in {Durable(d)} \cup Interrupted(dir, d, {})
        /\ (pc' # "closed" => dir' = Durable(d))
    BY <1>3 DEF CreateSnapshot, AtomicOk, AtomicErr
  <2>2. d.man = dir.vis.man /\ NoSnapshot \in d.snaps
    BY <1>1, PutSnapshotShape DEF FirstSnapshot
  <2> HIDE DEF d
  <2>3. pc \in NoHandle /\ pc' \in NoHandle
    BY <2>1 DEF NoHandle
  <2> QED
    BY <1>2, <2>1, <2>2, <2>3
<1>4. CASE CreateWal
  <2> DEFINE d == [dir.vis EXCEPT !.has_wal = TRUE]
  <2>1. /\ pc = "create_wal" /\ pc' \in {"closed", "create_commit"}
        /\ dir' \in {Durable(d)} \cup Interrupted(dir, d, {})
        /\ (pc' # "closed" => dir' = Durable(d))
    BY <1>4 DEF CreateWal, AtomicOk, AtomicErr, HandleGone
  <2>2. d.man = dir.vis.man /\ d.snaps = dir.vis.snaps /\ d.has_wal
    BY <1>1 DEF Dirs
  <2> HIDE DEF d
  <2>3. pc \in NoHandle /\ pc' \in NoHandle /\ pc \in NoHandle \ {"closed"}
    BY <2>1 DEF NoHandle
  <2>4. dir.vis.man = NoManifest /\ NoSnapshot \in dir.vis.snaps
    BY <1>1, <2>3 DEF CreatedEmpty, Creating
  <2> QED
    BY <1>2, <2>1, <2>2, <2>3, <2>4
<1>5. CASE CreateCommit
  <2> DEFINE d == [dir.vis EXCEPT !.has_commit = TRUE]
  <2>1. /\ pc = "create_commit" /\ pc' \in {"closed", "create_manifest"}
        /\ dir' \in {Durable(d)} \cup Interrupted(dir, d, {})
        /\ (pc' # "closed" => dir' = Durable(d))
    BY <1>5 DEF CreateCommit, AtomicOk, AtomicErr, HandleGone
  <2>2. /\ d.man = dir.vis.man /\ d.snaps = dir.vis.snaps /\ d.has_commit
        /\ d.has_wal = dir.vis.has_wal
    BY <1>1 DEF Dirs
  <2> HIDE DEF d
  <2>3. pc \in NoHandle /\ pc' \in NoHandle /\ pc \in NoHandle \ {"closed"}
    BY <2>1 DEF NoHandle
  <2>4. dir.vis.man = NoManifest /\ NoSnapshot \in dir.vis.snaps /\ dir.vis.has_wal
    BY <1>1, <2>1, <2>3 DEF CreatedEmpty, Creating
  <2> QED
    BY <1>2, <2>1, <2>2, <2>3, <2>4
<1> QED
  BY <1>3, <1>4, <1>5

\* The MANIFEST that ends create(): the files it names are all there.
LEMMA CreateManifestOpen ==
  ASSUME TypeOK, TypeOK', DurabilityInv, DurabilityInv', RecoveryInv, CreateManifest
  PROVE  RecoveryInv'
<1> DEFINE m == ManifestRecord(FirstSnapshot, epoch, 0, FALSE)
           d == PutManifest(dir.vis, m)
<1>1. /\ pc = "create_manifest" /\ pc \in NoHandle /\ pc \in NoHandle \ {"closed"}
      /\ UNCHANGED <<wal, commit, attempt>>
  BY DEF CreateManifest, NoHandle
<1>2. /\ dir.vis.man = NoManifest /\ NoSnapshot \in dir.vis.snaps
      /\ dir.vis.has_wal /\ dir.vis.has_commit
  <2>1. CreatedEmpty /\ Creating
    BY Zenon DEF DurabilityInv, RecoveryInv
  <2> QED
    BY <1>1, <2>1 DEF CreatedEmpty, Creating
<1>3. /\ wal = Durable(<< >>) /\ commit = Durable(0) /\ attempt = << >> /\ graph = << >>
      /\ durable_seq = 0 /\ << >> \in Seq(Frames) /\ Scanned(<< >>) = {}
  BY <1>1, <1>2, NothingStored
<1>4. /\ d.man = m /\ m.snap = NoSnapshot /\ m.high = 0
      /\ d.snaps = dir.vis.snaps /\ d.has_wal = dir.vis.has_wal
      /\ d.has_commit = dir.vis.has_commit
  BY Numbers DEF PutManifest, Dirs, ManifestRecord, FirstSnapshot
<1>5. \/ dir' = Durable(d) /\ pc' = "idle" /\ snapshot' = NoSnapshot
         /\ UNCHANGED <<graph, durable_seq>>
      \/ dir' \in Interrupted(dir, d, {}) /\ HandleGone
  BY DEF CreateManifest, AtomicOk, AtomicErr, FirstSnapshot
<1> HIDE DEF d, m
<1>6. Complete(d) /\ NoSnapshot \in d.snaps /\ NoSnapshot.seq = 0
  BY <1>2, <1>4 DEF Complete, NoSnapshot
<1>7. ASSUME NEW n \in Nat PROVE Holds(<< >>, n, 0)
  BY DEF Holds
<1>8. /\ wal'.vis = << >> /\ wal'.crash = {<< >>} /\ commit'.vis = 0 /\ commit'.crash = {0}
      /\ Covers(0, m)
  <2>1. wal' = Durable(<< >>) /\ commit' = Durable(0)
    BY <1>1, <1>3
  <2>2. Covers(0, m)
    BY <1>4 DEF Covers
  <2> QED
    BY <2>1, <2>2 DEF Durable
<1>9. CASE dir' \in Interrupted(dir, d, {}) /\ HandleGone
  <2>1. dir'.vis \in {dir.vis, d}
    BY <1>9, DirImages
  <2> QED
    BY <1>2, <1>4, <1>6, <1>7, <1>8, <1>9, <2>1, GoneOpens
<1>10. CASE dir' = Durable(d) /\ pc' = "idle" /\ snapshot' = NoSnapshot
            /\ UNCHANGED <<graph, durable_seq>>
  <2>1. /\ pc' \notin NoHandle /\ pc' \notin Recovering /\ pc' \notin NoHandle \ {"closed"}
    BY <1>10 DEF NoHandle, Recovering
  <2>2. dir'.vis = d /\ dir'.crash = {d} /\ Mans' = {m} /\ Snaps' = {NoSnapshot}
    BY <1>4, <1>10, <2>1 DEF Durable, Mans, Snaps
  <2>3. EveryImageOpens'
    BY <1>3, <1>6, <1>7, <1>8, <1>10, <2>2 DEF EveryImageOpens
  <2>4. LiveLog'
    <3>1. AllOk(<< >>)
      BY <1>3, EmptySeq DEF AllOk
    <3>2. Len(attempt') = 0 /\ Len(graph') = 0
      BY <1>1, <1>3, <1>10, EmptySeq
    <3> QED
      BY <1>6, <1>7, <1>8, <2>2, <3>1, <3>2 DEF LiveLog
  <2>5. Creating'
    BY <2>1 DEF Creating
  <2> QED
    BY <2>1, <2>3, <2>4, <2>5, Zenon DEF RecoveryInv
<1> QED
  BY <1>5, <1>9, <1>10

(***************************************************************************)
(* open(): recovery.                                                       *)
(***************************************************************************)
\* The scan: what opens from one log would open from every other.
LEMMA OpenScanOpens ==
  ASSUME TypeOK, DurabilityInv, RecoveryInv, OpenScan
  PROVE  RecoveryInv'
<1> DEFINE hw == HighWater(commit.vis, dir.vis)
           n  == dir.vis.man.snap.seq
<1>1. /\ pc = "closed" /\ Recoverable(wal.vis, commit.vis, dir.vis)
      /\ UNCHANGED <<wal, commit, dir>> /\ snapshot' = dir.vis.man.snap
      /\ durable_seq' = hw
      /\ pc' = IF HasTail(wal.vis, hw) THEN "open_truncate" ELSE "open_commit"
  BY DEF OpenScan, disk
<1>2. /\ pc \in NoHandle /\ pc' \notin NoHandle /\ pc' \in Recovering /\ ~ HandleOpen'
      /\ pc' \notin NoHandle \ {"closed"}
  BY <1>1 DEF NoHandle, Recovering, HandleOpen, Opening
<1>3. ClosedStore /\ LogsAgree
  BY <1>2, Zenon DEF RecoveryInv, DurabilityInv
<1>4. /\ hw \in Nat /\ n \in Nat /\ hw \in {commit.vis, n}
      /\ \A w \in wal.crash : w \in Seq(Frames)
      /\ wal.vis \in Seq(Frames) /\ InOrder(wal.vis)
  BY <1>3, Numbers, HighWaterType DEF LogsAgree
<1>5. ASSUME NEW w \in wal.crash PROVE Holds(w, n, hw)
  <2>1. Holds(w, n, commit.vis)
    BY <1>1, <1>3 DEF ClosedStore, Recoverable
  <2>2. Holds(w, n, n)
    BY <1>4, HoldsKeeps
  <2> QED
    BY <1>4, <2>1, <2>2
<1> HIDE DEF hw
<1>6. pc' # "open_truncate" => AllOk(wal.vis)
  BY <1>1, <1>4, NoTailAllOk
<1>7. RecoveringLog'
  BY <1>1, <1>5, <1>6 DEF RecoveringLog, hw
<1>8. Creating'
  BY <1>2 DEF Creating
<1> QED
  BY <1>2, <1>7, <1>8, Zenon DEF RecoveryInv

\* The truncation keeps every batch the marker covers.
LEMMA OpenTruncateOpens ==
  ASSUME TypeOK, TypeOK', DurabilityInv, DurabilityInv', RecoveryInv, OpenTruncate
  PROVE  RecoveryInv'
<1> DEFINE kept == CommittedPart(wal.vis, durable_seq)
<1>1. /\ pc = "open_truncate" /\ pc \in Recovering
      /\ commit' = commit /\ dir'.vis = dir.vis
      /\ \/ /\ wal' = Durable(kept) /\ pc' = "open_commit"
            /\ UNCHANGED <<snapshot, durable_seq>>
         \/ /\ wal' \in Interrupted(wal, kept, {}) /\ HandleGone
  BY DEF OpenTruncate, Recovering, writer, Synced, Durable
<1>2. /\ RecoveringLog /\ InOrder(wal.vis)
      /\ Complete(dir.vis) /\ Covers(commit.vis, dir.vis.man)
      /\ dir.vis.man # NoManifest /\ snapshot = dir.vis.man.snap
      /\ commit.vis <= durable_seq
      /\ \A w \in wal.crash, c \in Nat : c <= durable_seq => Holds(w, snapshot.seq, c)
  BY <1>1, RecoveringOpens
<1>3. /\ wal.vis \in Seq(Frames) /\ wal.vis \in wal.crash /\ commit.vis \in Nat
      /\ dir.vis \in Dirs /\ durable_seq \in Nat /\ snapshot.seq \in Nat
  BY <1>2, Numbers
<1>4. /\ kept \in Seq(Frames) /\ AllOk(kept) /\ Holds(kept, snapshot.seq, durable_seq)
  <2>1. Holds(wal.vis, snapshot.seq, durable_seq)
    BY <1>2, <1>3
  <2> QED
    BY <1>2, <1>3, <2>1, KeptHolds
<1>5. InOrder(kept)
  <2>1. Within(kept, wal.vis)
    BY <1>2, <1>3, KeptIsCommitted
  <2> QED
    BY <1>2, <2>1, WithinKeeps
<1> HIDE DEF kept
<1>6. Holds(kept, snapshot.seq, commit.vis)
  <2>1. snapshot.seq <= snapshot.seq
    BY <1>3
  <2> QED
    BY <1>2, <1>3, <1>4, <2>1, HoldsKeeps
<1>7. CASE wal' \in Interrupted(wal, kept, {}) /\ HandleGone
  <2>1. wal'.crash \subseteq wal.crash \cup {kept}
    BY <1>7 DEF Interrupted, FailedWrite, FailedSync, Written, Durable
  <2>2. \A w \in wal'.crash : Holds(w, dir.vis.man.snap.seq, commit.vis)
    BY <1>2, <1>3, <1>6, <2>1
  <2> QED
    BY <1>1, <1>2, <1>7, <2>2, GoneOpens
<1>8. CASE /\ wal' = Durable(kept) /\ pc' = "open_commit"
           /\ UNCHANGED <<snapshot, durable_seq>>
  <2>1. /\ pc' \notin NoHandle /\ pc' \in Recovering /\ ~ HandleOpen'
        /\ pc' \notin NoHandle \ {"closed"}
    BY <1>8 DEF NoHandle, Recovering, HandleOpen, Opening
  <2>2. Recoverable(kept, commit.vis, dir.vis)
    BY <1>2, <1>3, <1>4, <1>5, <1>6, WhatOpens
  <2>3. wal'.vis = kept /\ wal'.crash = {kept}
    BY <1>8 DEF Durable
  <2>4. RecoveringLog'
    BY <1>1, <1>2, <1>4, <1>8, <2>2, <2>3 DEF RecoveringLog
  <2>5. Creating'
    BY <2>1 DEF Creating
  <2> QED
    BY <2>1, <2>4, <2>5, Zenon DEF RecoveryInv
<1> QED
  BY <1>1, <1>7, <1>8

\* The marker that recovery seals: every log reaches it.
LEMMA OpenCommitOpens ==
  ASSUME TypeOK, TypeOK', DurabilityInv, DurabilityInv', RecoveryInv, OpenCommit
  PROVE  RecoveryInv'
<1>1. /\ pc = "open_commit" /\ pc \in Recovering /\ UNCHANGED <<wal, dir>>
      /\ \/ /\ commit' = Durable(durable_seq) /\ pc' = "open_manifest"
            /\ UNCHANGED <<snapshot, durable_seq>>
         \/ commit' \in Interrupted(commit, durable_seq, {}) /\ HandleGone
  BY DEF OpenCommit, AdvanceOk, Recovering
<1>2. /\ RecoveringLog /\ InOrder(wal.vis)
      /\ Complete(dir.vis) /\ Covers(commit.vis, dir.vis.man)
      /\ dir.vis.man # NoManifest /\ snapshot = dir.vis.man.snap
      /\ commit.vis <= durable_seq /\ snapshot.seq <= durable_seq
      /\ \A w \in wal.crash, c \in Nat : c <= durable_seq => Holds(w, snapshot.seq, c)
  BY <1>1, RecoveringOpens
<1>3. /\ wal.vis \in Seq(Frames) /\ wal.vis \in wal.crash /\ commit.vis \in Nat
      /\ dir.vis \in Dirs /\ durable_seq \in Nat /\ snapshot.seq \in Nat
      /\ dir.vis.man.high \in Nat
  BY <1>2, Numbers
<1>4. Covers(durable_seq, dir.vis.man)
  BY <1>2, <1>3 DEF Covers
<1>5. CASE commit' \in Interrupted(commit, durable_seq, {}) /\ HandleGone
  <2>1. commit'.vis \in {commit.vis, durable_seq}
    BY <1>5, MarkerStep
  <2>2. Covers(commit'.vis, dir.vis.man)
    BY <1>2, <1>4, <2>1
  <2>3. \A w \in wal.crash : Holds(w, dir.vis.man.snap.seq, commit'.vis)
    BY <1>2, <1>3, <2>1
  <2> QED
    BY <1>1, <1>2, <1>5, <2>2, <2>3, GoneOpens
<1>6. CASE /\ commit' = Durable(durable_seq) /\ pc' = "open_manifest"
           /\ UNCHANGED <<snapshot, durable_seq>>
  <2>1. /\ pc' \notin NoHandle /\ pc' \in Recovering /\ ~ HandleOpen'
        /\ pc' \notin NoHandle \ {"closed"}
    BY <1>6 DEF NoHandle, Recovering, HandleOpen, Opening
  <2>2. Holds(wal.vis, dir.vis.man.snap.seq, durable_seq)
    BY <1>2, <1>3
  <2>3. Recoverable(wal.vis, durable_seq, dir.vis)
    BY <1>2, <1>3, <1>4, <2>2, WhatOpens
  <2>4. commit'.vis = durable_seq
    BY <1>6 DEF Durable
  <2>5. HighWater(durable_seq, dir.vis) = durable_seq
    BY <1>2, <1>3 DEF HighWater
  <2>6. RecoveringLog'
    <3>1. AllOk(wal.vis) /\ \A w \in wal.crash : Holds(w, snapshot.seq, durable_seq)
      BY <1>1, <1>2 DEF RecoveringLog
    <3> QED
      BY <1>1, <1>6, <2>3, <2>4, <2>5, <3>1 DEF RecoveringLog
  <2>7. Creating'
    BY <2>1 DEF Creating
  <2> QED
    BY <2>1, <2>6, <2>7, Zenon DEF RecoveryInv
<1> QED
  BY <1>1, <1>5, <1>6

\* The MANIFEST that ends a recovery: it selects the snapshot recovery read,
\* which no removal of orphans touches.
LEMMA OpenManifestOpens ==
  ASSUME TypeOK, TypeOK', DurabilityInv, DurabilityInv', RecoveryInv, OpenManifest
  PROVE  RecoveryInv'
<1> DEFINE m == ManifestRecord(snapshot, epoch, durable_seq, FALSE)
           d == PutManifest(dir.vis, m)
<1>1. pc = "open_manifest" /\ pc \in Recovering /\ UNCHANGED <<wal, commit>>
  BY DEF OpenManifest, Recovering
<1>2. /\ RecoveringLog /\ RecoveringWriter
      /\ Complete(dir.vis) /\ Covers(commit.vis, dir.vis.man)
      /\ snapshot = dir.vis.man.snap
      /\ \A w \in wal.crash, c \in Nat : c <= durable_seq => Holds(w, snapshot.seq, c)
  BY <1>1, RecoveringOpens
<1>3. /\ commit = Durable(durable_seq) /\ durable_seq = Len(graph) /\ durable_seq \in Nat
      /\ commit.vis = durable_seq /\ commit.crash = {durable_seq}
      /\ AllOk(wal.vis) /\ wal.vis \in wal.crash
  <2>1. commit = Durable(durable_seq) /\ durable_seq = Len(graph)
    BY <1>1, <1>2 DEF RecoveringWriter
  <2>2. AllOk(wal.vis)
    BY <1>1, <1>2 DEF RecoveringLog
  <2> QED
    BY <2>1, <2>2, Numbers DEF Durable
<1>4. /\ d \in Dirs /\ d.man = m /\ m.snap = snapshot /\ m.high = durable_seq
      /\ d.snaps = dir.vis.snaps /\ d.has_wal = dir.vis.has_wal
      /\ d.has_commit = dir.vis.has_commit
  <2>1. snapshot \in Snapshots /\ epoch \in 0..MaxEpoch
    BY Shapes
  <2>2. d \in Dirs
    BY <1>3, <2>1, Numbers, ManifestType, DirTypes
  <2> QED
    BY <2>2, Numbers DEF PutManifest, Dirs, ManifestRecord
<1>5. Complete(d) /\ snapshot \in d.snaps /\ Covers(durable_seq, m)
  <2> HIDE DEF d, m
  <2>1. Complete(d) /\ snapshot \in d.snaps
    BY <1>2, <1>4 DEF Complete
  <2> QED
    BY <1>3, <1>4, <2>1 DEF Covers
<1>6. \/ /\ \E gone \in SUBSET {t \in d.snaps : ~ SameName(t, snapshot)} :
              dir' = Written(Durable(d), [d EXCEPT !.snaps = @ \ gone], {})
         /\ pc' = "idle" /\ attempt' = graph /\ UNCHANGED <<graph, snapshot, durable_seq>>
      \/ dir' \in Interrupted(dir, d, {}) /\ HandleGone
  <2>1. UNCHANGED writer => UNCHANGED <<graph, snapshot, durable_seq>>
    BY DEF writer
  <2> HIDE DEF d
  <2> QED
    BY <2>1 DEF OpenManifest, AtomicErr, d
<1> HIDE DEF d, m
<1>7. CASE dir' \in Interrupted(dir, d, {}) /\ HandleGone
  <2>1. dir'.vis \in {dir.vis, d}
    BY <1>7, DirImages
  <2>2. Complete(dir'.vis) /\ Covers(commit'.vis, dir'.vis.man) /\ dir'.vis.man.snap = snapshot
    BY <1>1, <1>2, <1>3, <1>4, <1>5, <2>1
  <2>3. \A w \in wal'.crash : Holds(w, dir'.vis.man.snap.seq, commit'.vis)
    BY <1>1, <1>2, <1>3, <2>2
  <2> QED
    BY <1>7, <2>2, <2>3, GoneOpens
<1>8. CASE /\ \E gone \in SUBSET {t \in d.snaps : ~ SameName(t, snapshot)} :
                dir' = Written(Durable(d), [d EXCEPT !.snaps = @ \ gone], {})
           /\ pc' = "idle" /\ attempt' = graph /\ UNCHANGED <<graph, snapshot, durable_seq>>
  <2>1. /\ pc' \notin NoHandle /\ pc' \notin Recovering /\ pc' \notin NoHandle \ {"closed"}
    BY <1>8 DEF NoHandle, Recovering
  <2>2. PICK gone \in SUBSET {t \in d.snaps : ~ SameName(t, snapshot)} :
          dir' = Written(Durable(d), [d EXCEPT !.snaps = @ \ gone], {})
    BY <1>8
  <2> DEFINE e == [d EXCEPT !.snaps = @ \ gone]
  <2>3. /\ e.man = m /\ e.snaps = d.snaps \ gone /\ e.has_wal = d.has_wal
        /\ e.has_commit = d.has_commit
    BY <1>4 DEF Dirs
  <2>4. snapshot \notin gone
    BY <2>2 DEF SameName
  <2> HIDE DEF e
  <2>5. dir'.vis = e /\ dir'.crash = {d, e} /\ Complete(e) /\ snapshot \in e.snaps
    <3>1. dir' = Written(Durable(d), e, {})
      BY <2>2 DEF e
    <3> QED
      BY <1>4, <1>5, <2>3, <2>4, <3>1 DEF Written, Durable, Complete
  <2>6. Mans' = {m} /\ Snaps' = {snapshot}
    <3>1. Mans' = {m}
      <4>1. dir'.crash = {d, e} /\ d.man = m /\ e.man = m
        BY <1>4, <2>3, <2>5
      <4> HIDE DEF d, m
      <4> QED
        BY <4>1 DEF Mans
    <3>2. Snaps' = {m.snap} \cup {snapshot}
      <4>1. pc' \notin NoHandle /\ snapshot' = snapshot
        BY <1>8, <2>1
      <4> HIDE DEF m
      <4> QED
        BY <3>1, <4>1 DEF Snaps
    <3>3. m.snap = snapshot
      BY <1>4, <1>5
    <3> QED
      BY <3>1, <3>2, <3>3
  <2>7. EveryImageOpens'
    <3>1. \A x \in dir'.crash : Complete(x)
      BY <1>5, <2>5
    <3>2. \A c \in commit'.crash : durable_seq' <= c /\ \A x \in Mans' : Covers(c, x)
      BY <1>1, <1>3, <1>5, <1>8, <2>6
    <3>3. \A w \in wal'.crash, c \in commit'.crash, s \in Snaps' : Holds(w, s.seq, c)
      BY <1>1, <1>2, <1>3, <2>6
    <3> QED
      BY <1>8, <2>5, <3>1, <3>2, <3>3 DEF EveryImageOpens
  <2>8. LiveLog'
    BY <1>1, <1>2, <1>3, <1>8, <2>6 DEF LiveLog
  <2>9. Creating'
    BY <2>1 DEF Creating
  <2> QED
    BY <2>1, <2>7, <2>8, <2>9, Zenon DEF RecoveryInv
<1> QED
  BY <1>6, <1>7, <1>8

(***************************************************************************)
(* The theorems.                                                           *)
(***************************************************************************)
\* Before the first create() there is no MANIFEST.
LEMMA InitRecoveryInv == Init => RecoveryInv
<1> SUFFICES ASSUME Init PROVE RecoveryInv
  OBVIOUS
<1>1. pc = "closed" /\ dir.vis.man = NoManifest
  BY DEF Init, Durable, EmptyDir
<1>2. pc \notin Recovering /\ ~ HandleOpen /\ pc \notin NoHandle \ {"closed"}
  BY <1>1 DEF Recovering, HandleOpen, Opening
<1>3. Creating /\ ClosedStore
  BY <1>1, <1>2 DEF Creating, ClosedStore
<1> QED
  BY <1>2, <1>3, Zenon DEF RecoveryInv

\* Every step of the store, its client and its environment.
LEMMA NextRecoveryInv ==
  TypeInv /\ DurabilityInv /\ RecoveryInv /\ [Next]_vars => RecoveryInv'
<1> SUFFICES ASSUME TypeInv, DurabilityInv, RecoveryInv, [Next]_vars PROVE RecoveryInv'
  OBVIOUS
<1>1. TypeOK /\ TypeInv' /\ TypeOK' /\ DurabilityInv'
  <2>1. TypeInv' /\ DurabilityInv'
    BY NextTypeInv, NextDurabilityInv
  <2> QED
    BY <2>1 DEF TypeInv
<1>2. CASE CreateSnapshot \/ CreateWal \/ CreateCommit
  BY <1>1, <1>2, CreateStepsOpen
<1>3. CASE CreateManifest
  BY <1>1, <1>3, CreateManifestOpen
<1>4. CASE OpenScan
  BY <1>1, <1>4, OpenScanOpens
<1>5. CASE OpenTruncate
  BY <1>1, <1>5, OpenTruncateOpens
<1>6. CASE OpenCommit
  BY <1>1, <1>6, OpenCommitOpens
<1>7. CASE OpenManifest
  BY <1>1, <1>7, OpenManifestOpens
<1>8. CASE ApplyCommit \/ FlushCommit \/ CloseCommit \/ CompactCommit
  BY <1>1, <1>8, MarkerActionsOpen
<1>9. CASE CloseManifest \/ Kill
  BY <1>1, <1>9, GoneActionsOpen
<1>10. CASE CompactManifest
  BY <1>1, <1>10, CompactManifestOpen
<1>11. CASE \/ SetPolicy \/ Compact \/ Flush \/ Close
            \/ CompactSnapshot \/ CompactTruncate \/ CompactReopen
  BY <1>1, <1>11, QuietActionsOpen
<1>12. ASSUME NEW b \in Batches, Apply(b) PROVE RecoveryInv'
  BY <1>1, <1>12, ApplyOpen
<1>13. CASE PowerLoss
  BY <1>1, <1>13, PowerLossOpen
<1>14. CASE UNCHANGED vars
  <2>1. /\ UNCHANGED <<wal, commit, dir, pc, superseded, graph, snapshot, durable_seq>>
        /\ UNCHANGED attempt /\ UNCHANGED poisoned
    BY <1>14 DEF vars, disk, writer, history
  <2>2. Mans' = Mans /\ Snaps' = Snaps /\ (HandleOpen' <=> HandleOpen)
        /\ NewSnapshot' = NewSnapshot
    BY <2>1 DEF Mans, Snaps, HandleOpen, NewSnapshot
  <2>3. (Creating' <=> Creating) /\ (ClosedStore' <=> ClosedStore)
    BY <2>1 DEF Creating, ClosedStore
  <2>4. EveryImageOpens' <=> EveryImageOpens
    BY <2>1, <2>2 DEF EveryImageOpens
  <2>5. LiveLog' <=> LiveLog
    BY <2>1, <2>2 DEF LiveLog
  <2>6. RecoveringLog' <=> RecoveringLog
    BY <2>1 DEF RecoveringLog
  <2> QED
    BY <2>1, <2>2, <2>3, <2>4, <2>5, <2>6, Zenon DEF RecoveryInv
<1> QED
  BY <1>2, <1>3, <1>4, <1>5, <1>6, <1>7, <1>8, <1>9, <1>10, <1>11, <1>12, <1>13, <1>14
  DEF Next, Create, Open, Running, Client, Crash

\* Every log has what lies between any snapshot and any marker, and every
\* directory the files its MANIFEST names.
LEMMA RecoveryInvariant == Spec => [](TypeInv /\ DurabilityInv /\ RecoveryInv)
<1>1. Init => TypeInv /\ DurabilityInv /\ RecoveryInv
  BY InitTypeInv, InitDurabilityInv, InitRecoveryInv
<1>2. TypeInv /\ DurabilityInv /\ RecoveryInv /\ [Next]_vars
        => (TypeInv /\ DurabilityInv /\ RecoveryInv)'
  BY NextTypeInv, NextDurabilityInv, NextRecoveryInv
<1> QED
  BY <1>1, <1>2, PTL DEF Spec

\* While a handle is open every triple of a log, a marker and a directory a
\* power cut may leave is accepted by the next open, which rebuilds at least
\* what was acknowledged (open_with_vfs after any apply, flush, compact and
\* close, failed ones included).
THEOREM OpenHandleSurvivesPowerLoss == Spec => []SurvivesPowerLoss
<1>1. ASSUME TypeInv, DurabilityInv, RecoveryInv, HandleOpen,
             NEW w \in wal.crash, NEW c \in commit.crash, NEW d \in dir.crash
      PROVE  Recoverable(w, c, d) /\ Extends(RecoveredGraph(w, c, d), acked)
  <2>1. TypeOK /\ AckedIsKept /\ LogsAgree /\ CreatedEmpty /\ EveryImageOpens
    BY <1>1, Zenon DEF TypeInv, DurabilityInv, RecoveryInv
  <2>2. w \in Seq(Frames) /\ c \in Nat /\ d \in Dirs /\ InOrder(w) /\ d.man \in Mans
        /\ d.man.snap \in Snaps
    BY <2>1, Shapes DEF LogsAgree, Mans, Snaps
  <2>3. d.man # NoManifest
    BY <1>1, <2>1, <2>2 DEF CreatedEmpty
  <2>4. Complete(d) /\ Covers(c, d.man) /\ Holds(w, d.man.snap.seq, c)
    BY <2>1, <2>2 DEF EveryImageOpens
  <2>5. Recoverable(w, c, d)
    BY <2>2, <2>3, <2>4, WhatOpens
  <2>6. NoSilentLoss
    BY <2>1, NothingLost
  <2> QED
    BY <2>5, <2>6 DEF NoSilentLoss
<1>2. TypeInv /\ DurabilityInv /\ RecoveryInv => SurvivesPowerLoss
  BY <1>1 DEF SurvivesPowerLoss
<1> QED
  BY <1>2, RecoveryInvariant, PTL

\* What readers of a live handle see, its files say too: replaying the whole
\* log in the cache over the snapshot rebuilds exactly the graph in memory
\* (apply and compact_locked, each of whose errors that does not poison the
\* writer included).
THEOREM MemoryIsOnDisk == Spec => []LiveStateIsOnDisk
<1>1. ASSUME TypeInv, DurabilityInv, RecoveryInv, HandleOpen, ~ poisoned, pc # "apply_commit"
      PROVE  /\ Recoverable(wal.vis, Len(graph), dir.vis)
             /\ RecoveredGraph(wal.vis, Len(graph), dir.vis) = graph
  <2> DEFINE w == wal.vis
             c == Len(graph)
             d == dir.vis
             r == RecoveredGraph(w, c, d)
  <2>1. TypeOK /\ LogsAgree /\ CreatedEmpty /\ EveryImageOpens /\ LiveLog
    BY <1>1, Zenon DEF TypeInv, DurabilityInv, RecoveryInv
  <2>2. /\ w \in Seq(Frames) /\ c \in Nat /\ d \in Dirs /\ InOrder(w) /\ d.man \in Mans
        /\ d.man.snap \in Snaps /\ d \in dir.crash /\ commit.vis \in commit.crash
        /\ commit.vis \in Nat /\ d.man.high \in Nat
    BY <2>1, Numbers DEF LogsAgree
  <2>3. /\ LiveWriter /\ attempt = graph /\ commit.vis <= c
        /\ d.man.snap.seq <= c
    BY <1>1, <2>1, <2>2, LiveFacts
  <2>4. d.man # NoManifest
    BY <1>1, <2>1, <2>2 DEF CreatedEmpty
  <2>5. Complete(d) /\ Covers(c, d.man) /\ Holds(w, d.man.snap.seq, c)
    <3>1. Complete(d) /\ Covers(commit.vis, d.man)
      BY <2>1, <2>2 DEF EveryImageOpens
    <3>2. Holds(w, d.man.snap.seq, c)
      BY <2>1, <2>2, <2>3 DEF LiveLog
    <3> QED
      BY <2>2, <2>3, <3>1, <3>2 DEF Covers
  <2> HIDE DEF w, c, d
  <2>6. Recoverable(w, c, d)
    BY <2>2, <2>4, <2>5, WhatOpens
  <2>7. HighWater(c, d) = c
    <3>1. d.man.snap.seq \in Nat
      BY <2>2, HighWaterType
    <3> QED
      BY <2>2, <2>3, <3>1 DEF HighWater
  <2>8. r \in Graphs /\ Len(r) = Len(graph)
    <3>1. r \in Graphs /\ Len(r) = HighWater(c, d)
      BY <2>2, <2>6, RecoveredGraphType
    <3> QED
      BY <2>7, <3>1 DEF c
  <2>9. Extends(r, graph)
    <3>1. LogAgrees(w, d.man.snap.seq, graph) /\ Extends(graph, d.man.snap.data)
      BY <2>2, <2>3 DEF LiveWriter, w
    <3>2. SnapAgrees(d.man.snap, graph)
      <4>1. /\ d.man.snap.seq \in Nat
            /\ DOMAIN d.man.snap.data = 1..d.man.snap.seq
        BY <2>1, <2>2, SnapsShape
      <4>2. \A k \in 1..Len(graph) : k <= d.man.snap.seq => k \in 1..d.man.snap.seq
        BY <4>1
      <4> QED
        BY <3>1, <4>1, <4>2 DEF Extends, SnapAgrees
    <3>3. graph \in Graphs /\ Len(graph) <= HighWater(c, d)
      BY <2>1, <2>2, <2>7, Shapes DEF c
    <3> QED
      BY <2>2, <2>6, <3>1, <3>2, <3>3, RecoveredHolds
  <2>10. r = graph
    <3>1. graph \in Seq(Batches) /\ r \in Seq(Batches)
      BY <2>1, <2>8, Shapes DEF Graphs
    <3>2. \A k \in 1..Len(graph) : r[k] = graph[k]
      BY <2>9, <3>1 DEF Extends
    <3> HIDE DEF r
    <3> QED
      BY <2>8, <3>1, <3>2
  <2> QED
    BY <2>6, <2>10 DEF w, c, d
<1>2. TypeInv /\ DurabilityInv /\ RecoveryInv => LiveStateIsOnDisk
  BY <1>1, Zenon DEF LiveStateIsOnDisk
<1> QED
  BY <1>2, RecoveryInvariant, PTL

\* If the machine stays up, open() accepts what it finds: after the death of
\* the process at any step, of the first create and of recovery itself too,
\* and after any failed writes and syncs.  With power cuts it need not
\* (NeverBricks).
THEOREM ProcessDeathLeavesItOpen ==
  "power" \notin CrashKinds => (Spec => []ProcessDeathNeverBricks)
<1> SUFFICES ASSUME "power" \notin CrashKinds PROVE Spec => []ProcessDeathNeverBricks
  OBVIOUS
<1>1. ASSUME TypeInv, DurabilityInv, RecoveryInv, dir.vis.man # NoManifest
      PROVE  Recoverable(wal.vis, commit.vis, dir.vis)
  <2>1. TypeOK /\ LogsAgree
    BY <1>1, Zenon DEF TypeInv, DurabilityInv
  <2>2. CASE HandleOpen
    <3>1. EveryImageOpens
      BY <1>1, <2>2, Zenon DEF RecoveryInv
    <3>2. /\ Complete(dir.vis) /\ Covers(commit.vis, dir.vis.man)
          /\ Holds(wal.vis, dir.vis.man.snap.seq, commit.vis)
      BY <2>1, <3>1, Numbers DEF EveryImageOpens
    <3>3. /\ wal.vis \in Seq(Frames) /\ commit.vis \in Nat /\ dir.vis \in Dirs
          /\ InOrder(wal.vis)
      BY <2>1, Numbers DEF LogsAgree
    <3> QED
      BY <1>1, <3>2, <3>3, WhatOpens
  <2>3. CASE pc \in Recovering
    <3>1. RecoveringLog
      BY <1>1, <2>3, Zenon DEF RecoveryInv
    <3> QED
      BY <3>1 DEF RecoveringLog
  <2>4. CASE pc \in NoHandle
    <3>1. ClosedStore
      BY <1>1, <2>4, Zenon DEF RecoveryInv
    <3> QED
      BY <1>1, <3>1 DEF ClosedStore
  <2> QED
    BY <2>2, <2>3, <2>4 DEF HandleOpen, Opening, Recovering, NoHandle
<1>2. TypeInv /\ DurabilityInv /\ RecoveryInv => ProcessDeathNeverBricks
  BY <1>1 DEF ProcessDeathNeverBricks
<1> QED
  BY <1>2, RecoveryInvariant, PTL

(***************************************************************************)
(* Epochs: (epoch, seq) names one state.                                   *)
(***************************************************************************)
(* An epoch not minted yet has no state.  A clean MANIFEST, the only one   *)
(* whose epoch a recovery takes over, says that all its epoch ever         *)
(* published was acknowledged; recovery keeps that.                        *)
EpochInv ==
  /\ \A e \in 1..MaxEpoch : e >= next_epoch => named[e] = << >>
  /\ epoch < next_epoch /\ \A m \in Mans : m.epoch < next_epoch
  /\ \A m \in Mans : m.clean => ~ HandleOpen /\ Extends(acked, named[m.epoch])
  /\ HandleOpen => named[epoch] = graph
  /\ pc = "create_manifest" => named[epoch] = << >>
  /\ pc \in Recovering => Extends(graph, named[epoch])
  /\ pc = "close_manifest" /\ ~ poisoned => acked = graph

\* A function from epochs to graphs, one of them published.
LEMMA PublishNames ==
  ASSUME TypeOK, NEW g \in Graphs, NEW e \in 1..MaxEpoch, Publish(g, e)
  PROVE  /\ Extends(g, named[e]) => named'[e] = g
         /\ \A x \in 1..MaxEpoch : x # e => named'[x] = named[x]
BY DEF TypeOK, Publish

\* What a handle, and a recovery, may count on.
LEMMA EpochShapes ==
  ASSUME TypeOK, DurabilityInv
  PROVE  /\ MaxEpoch \in Nat /\ epoch \in Nat /\ next_epoch \in Nat /\ 0 < next_epoch
         /\ next_epoch <= MaxEpoch + 1
         /\ \A e \in 1..MaxEpoch : named[e] \in Graphs
         /\ (pc \notin NoHandle \ {"create_manifest"} => epoch \in 1..MaxEpoch)
         /\ \A m \in Mans : m.clean => m.epoch \in 1..MaxEpoch
         /\ \A g \in Graphs : Extends(g, << >>) /\ Extends(g, g)
<1>1. MaxEpoch \in Nat
  BY ConstantsAssumption
<1>2. CreatedEmpty
  BY Zenon DEF DurabilityInv
<1>3. epoch \in 0..MaxEpoch /\ next_epoch \in 1..(MaxEpoch + 1)
  BY DEF TypeOK
<1>4. pc \notin NoHandle \ {"create_manifest"} => epoch \in 1..MaxEpoch
  <2>1. pc \notin NoHandle \ {"create_manifest"} => epoch > 0
    BY <1>2 DEF CreatedEmpty
  <2> QED
    BY <1>1, <1>3, <2>1
<1>5. ASSUME NEW m \in Mans, m.clean PROVE m.epoch \in 1..MaxEpoch
  <2>1. m # NoManifest
    BY <1>5 DEF NoManifest, ManifestRecord
  <2>2. m.epoch > 0 /\ m.epoch \in 0..MaxEpoch
    BY <1>2, <2>1, SnapsShape DEF CreatedEmpty, Manifests
  <2> QED
    BY <1>1, <2>2
<1>6. ASSUME NEW g \in Graphs PROVE Extends(g, << >>) /\ Extends(g, g)
  <2>1. Len(g) \in Nat /\ Len(<< >>) = 0 /\ DOMAIN << >> = {}
    BY EmptySeq DEF Graphs
  <2> QED
    BY <2>1 DEF Extends
<1>7. \A e \in 1..MaxEpoch : named[e] \in Graphs
  BY DEF TypeOK
<1> QED
  BY <1>1, <1>3, <1>4, <1>5, <1>6, <1>7

\* A step of an open handle: it publishes what extends its graph, or nothing,
\* and its MANIFESTs carry its epoch and say the shutdown was not clean.
LEMMA HandleStep ==
  ASSUME TypeOK, DurabilityInv, EpochInv, HandleOpen, pc' \notin Opening,
         UNCHANGED <<epoch, next_epoch>>, graph' \in Graphs,
         \A m \in Mans' : m \in Mans \/ (~ m.clean /\ m.epoch = epoch),
         \/ UNCHANGED <<graph, named>>
         \/ Extends(graph', graph) /\ Publish(graph', epoch),
         pc' # "close_manifest" \/ poisoned' \/ acked' = graph'
  PROVE  EpochInv'
<1>1. /\ HandleOpen' /\ pc \notin NoHandle \ {"create_manifest"} /\ pc' \notin Recovering
      /\ pc' # "create_manifest" /\ epoch \in 1..MaxEpoch /\ epoch < next_epoch
      /\ epoch \in Nat /\ next_epoch \in Nat /\ MaxEpoch \in Nat
  <2>1. /\ HandleOpen' /\ pc \notin NoHandle \ {"create_manifest"} /\ pc' \notin Recovering
        /\ pc' # "create_manifest"
    BY DEF HandleOpen, Opening, NoHandle, Recovering
  <2>2. epoch < next_epoch
    BY Zenon DEF EpochInv
  <2> QED
    BY <2>1, <2>2, EpochShapes
<1>2. /\ \A e \in 1..MaxEpoch : e >= next_epoch => named[e] = << >>
      /\ \A m \in Mans : m.epoch < next_epoch
      /\ \A m \in Mans : ~ m.clean
      /\ named[epoch] = graph
  BY Zenon DEF EpochInv
<1>3. /\ named'[epoch] = graph'
      /\ \A e \in 1..MaxEpoch : e # epoch => named'[e] = named[e]
  <2>1. CASE UNCHANGED <<graph, named>>
    BY <1>2, <2>1
  <2>2. CASE Extends(graph', graph) /\ Publish(graph', epoch)
    BY <1>1, <1>2, <2>2, PublishNames
  <2> QED
    BY <2>1, <2>2
<1>4. /\ \A e \in 1..MaxEpoch : e >= next_epoch' => named'[e] = << >>
      /\ epoch' < next_epoch' /\ \A m \in Mans' : m.epoch < next_epoch'
      /\ \A m \in Mans' : ~ m.clean
      /\ named'[epoch'] = graph'
  BY <1>1, <1>2, <1>3
<1>5. pc' = "close_manifest" /\ ~ poisoned' => acked' = graph'
  BY Zenon
<1> QED
  BY <1>1, <1>4, <1>5, Zenon DEF EpochInv

\* The handle goes, after a MANIFEST of its own or not.
LEMMA HandleGoneStep ==
  ASSUME TypeOK, DurabilityInv, EpochInv, HandleGone, UNCHANGED <<named, acked>>,
         next_epoch' \in {next_epoch, next_epoch + 1},
         \A m \in Mans' : \/ m \in Mans
                          \/ /\ m.epoch = epoch
                             /\ m.clean => Extends(acked, named[m.epoch])
  PROVE  EpochInv'
<1>1. /\ pc' \notin Recovering /\ pc' # "create_manifest" /\ pc' # "close_manifest"
      /\ ~ HandleOpen' /\ epoch' = 0
  BY DEF HandleGone, Recovering, HandleOpen, Opening
<1>2. /\ \A e \in 1..MaxEpoch : e >= next_epoch => named[e] = << >>
      /\ epoch < next_epoch /\ \A m \in Mans : m.epoch < next_epoch
      /\ \A m \in Mans : m.clean => Extends(acked, named[m.epoch])
  BY Zenon DEF EpochInv
<1>3. /\ next_epoch' \in Nat /\ next_epoch \in Nat /\ next_epoch' >= next_epoch
      /\ 0 < next_epoch' /\ epoch \in Nat /\ MaxEpoch \in Nat
      /\ \A m \in Mans : m.epoch \in Nat
  <2>1. \A m \in Mans : m.epoch \in 0..MaxEpoch
    BY SnapsShape DEF Manifests
  <2> QED
    BY <2>1, EpochShapes
<1>4. /\ \A e \in 1..MaxEpoch : e >= next_epoch' => named'[e] = << >>
      /\ epoch' < next_epoch' /\ \A m \in Mans' : m.epoch < next_epoch'
  BY <1>1, <1>2, <1>3
<1>5. \A m \in Mans' : m.clean => Extends(acked', named'[m.epoch])
  BY <1>2
<1> QED
  BY <1>1, <1>4, <1>5, Zenon DEF EpochInv

\* A step of create() or of a recovery that goes on.
LEMMA GoesOn ==
  ASSUME TypeOK, DurabilityInv, EpochInv, UNCHANGED <<epoch, next_epoch, named, acked, graph>>,
         Mans' \subseteq Mans, ~ HandleOpen', pc' # "create_manifest",
         pc' \in Recovering => pc \in Recovering
  PROVE  EpochInv'
<1>1. pc' # "close_manifest"
  BY DEF HandleOpen, Opening
<1>2. /\ \A e \in 1..MaxEpoch : e >= next_epoch => named[e] = << >>
      /\ epoch < next_epoch /\ \A m \in Mans : m.epoch < next_epoch
      /\ \A m \in Mans : m.clean => Extends(acked, named[m.epoch])
      /\ pc \in Recovering => Extends(graph, named[epoch])
  BY Zenon DEF EpochInv
<1>3. /\ \A e \in 1..MaxEpoch : e >= next_epoch' => named'[e] = << >>
      /\ epoch' < next_epoch' /\ \A m \in Mans' : m.epoch < next_epoch'
      /\ \A m \in Mans' : m.clean => Extends(acked', named'[m.epoch])
      /\ pc' \in Recovering => Extends(graph', named'[epoch'])
  BY <1>2
<1> QED
  BY <1>1, <1>3, Zenon DEF EpochInv

\* The steps of an open handle that keep it.
LEMMA HandleActionsName ==
  ASSUME TypeInv, DurabilityInv, EpochInv,
         \/ ApplyCommit \/ FlushCommit \/ CloseCommit
         \/ CompactSnapshot \/ CompactManifest \/ CompactCommit
         \/ CompactTruncate \/ CompactReopen
         \/ SetPolicy \/ Flush \/ Compact \/ Close \/ \E b \in Batches : Apply(b)
  PROVE  EpochInv'
<1>0. TypeOK
  BY DEF TypeInv
<1>1. graph \in Graphs /\ wal.vis \in Seq(Frames) /\ dir.vis \in Dirs
      /\ \A b \in Batches : Append(graph, b) \in Graphs /\ Extends(Append(graph, b), graph)
  <2>1. graph \in Seq(Batches) /\ DOMAIN graph = 1..Len(graph)
    BY <1>0, Shapes DEF Graphs
  <2>2. ASSUME NEW b \in Batches
        PROVE  Append(graph, b) \in Graphs /\ Extends(Append(graph, b), graph)
    <3> DEFINE g == Append(graph, b)
    <3>1. /\ g \in Seq(Batches) /\ Len(g) = Len(graph) + 1 /\ Len(graph) \in Nat
          /\ \A k \in 1..Len(graph) : g[k] = graph[k]
      BY <2>1, Appended
    <3> HIDE DEF g
    <3>2. g \in Graphs /\ Extends(g, graph)
      BY <2>1, <3>1 DEF Graphs, Extends
    <3> QED
      BY <3>2 DEF g
  <2> QED
    BY <2>1, <2>2, <1>0, Shapes DEF Graphs
<1>2. HandleOpen /\ pc' \notin Opening /\ UNCHANGED <<epoch, next_epoch>>
  BY DEF ApplyCommit, FlushCommit, CloseCommit, CompactSnapshot, CompactManifest,
         CompactCommit, CompactTruncate, CompactReopen, SetPolicy, Flush, Compact, Close,
         Apply, Published, CompactReturns, HandleOpen, Opening, writer
<1>3. CASE \/ FlushCommit \/ CompactCommit \/ CompactSnapshot \/ CompactTruncate
           \/ SetPolicy \/ Flush \/ Compact
  <2>1. /\ UNCHANGED <<graph, named>> /\ pc' # "close_manifest"
        /\ \/ dir' = dir \/ dir' = Durable(PutSnapshot(dir.vis, NewSnapshot))
           \/ dir' \in Interrupted(dir, PutSnapshot(dir.vis, NewSnapshot), {})
    BY <1>3 DEF FlushCommit, CompactCommit, CompactSnapshot, CompactTruncate,
         SetPolicy, Flush, Compact, CompactReturns, AtomicOk, AtomicErr, disk, writer, history
  <2>2. PutSnapshot(dir.vis, NewSnapshot).man = dir.vis.man
    BY <1>1, PutSnapshotShape
  <2>3. ManStays
    <3> DEFINE d == PutSnapshot(dir.vis, NewSnapshot)
    <3> HIDE DEF d
    <3>1. dir' \in {dir, Durable(d), Synced(dir)} \cup Interrupted(dir, d, {})
      BY <2>1 DEF d
    <3>2. d.man = dir.vis.man
      BY <2>2 DEF d
    <3> QED
      BY <3>1, <3>2, <1>0, DirStep
  <2>4. \A m \in Mans' : m \in Mans
    BY <2>3 DEF ManStays
  <2> QED
    BY <1>0, <1>1, <1>2, <2>1, <2>4, HandleStep, Zenon
<1>4. CASE CompactManifest
  <2> DEFINE m == ManifestRecord(NewSnapshot, epoch, Len(graph), FALSE)
             d == PutManifest(dir.vis, m)
  <2>1. /\ UNCHANGED <<graph, named>> /\ pc' # "close_manifest"
        /\ dir' \in {dir, Durable(d), Synced(dir)} \cup Interrupted(dir, d, {})
    BY <1>4 DEF CompactManifest, CompactReturns, AtomicOk, AtomicErr, history
  <2>2. d.man = m /\ ~ m.clean /\ m.epoch = epoch
    BY <1>1 DEF PutManifest, Dirs, ManifestRecord
  <2> HIDE DEF d, m
  <2>3. \A x \in Mans' : x \in Mans \/ (~ x.clean /\ x.epoch = epoch)
    BY <2>1, <2>2, <1>0, DirStep DEF ManPut
  <2> QED
    BY <1>0, <1>1, <1>2, <2>1, <2>3, HandleStep, Zenon
<1>5. CASE Close \/ CloseCommit
  <2>1. UNCHANGED <<graph, named, dir>>
    BY <1>5 DEF Close, CloseCommit, history
  <2>2. pc' # "close_manifest" \/ poisoned' \/ acked' = graph'
    <3>1. CASE Close
      <4>1. CASE ~ poisoned
        BY <3>1, <4>1, Zenon DEF Close, Poison
      <4>2. CASE poisoned
        <5>1. poisoned' = poisoned
          BY <3>1, <4>2 DEF Close
        <5> QED
          BY <4>2, <5>1, Zenon
      <4> QED
        BY <4>1, <4>2
    <3>2. CASE CloseCommit
      BY <3>2, Zenon DEF CloseCommit, AdvanceErr, Poison, Ack
    <3> QED
      BY <1>5, <3>1, <3>2
  <2>3. \A m \in Mans' : m \in Mans
    BY <2>1 DEF Mans
  <2> QED
    BY <1>0, <1>1, <1>2, <2>1, <2>2, <2>3, HandleStep, Zenon
<1>6. CASE CompactReopen
  <2>1. /\ graph' = graph /\ (named' = named \/ Publish(graph', epoch))
        /\ pc' # "close_manifest"
    BY <1>6 DEF CompactReopen, CompactReturns, Publish
  <2>2. \/ dir' = dir
        \/ \E gone : dir' = Written(dir, [dir.vis EXCEPT !.snaps = @ \ gone], {})
    BY <1>6 DEF CompactReopen
  <2>3. \A m \in Mans' : m \in Mans
    <3>1. CASE dir' = dir
      BY <3>1 DEF Mans
    <3>2. CASE \E gone : dir' = Written(dir, [dir.vis EXCEPT !.snaps = @ \ gone], {})
      <4>1. PICK gone : dir' = Written(dir, [dir.vis EXCEPT !.snaps = @ \ gone], {})
        BY <3>2
      <4> DEFINE d == [dir.vis EXCEPT !.snaps = @ \ gone]
      <4>2. d.man = dir.vis.man
        BY <1>1 DEF Dirs
      <4> HIDE DEF d
      <4>3. dir'.crash = dir.crash \cup {d}
        <5>1. dir' = Written(dir, d, {})
          BY <4>1 DEF d
        <5> QED
          BY <5>1 DEF Written
      <4> QED
        BY <4>2, <4>3, <1>0, Shapes DEF Mans
    <3> QED
      BY <2>2, <3>1, <3>2
  <2>4. Extends(graph', graph)
    BY <1>0, <1>1, <2>1, EpochShapes
  <2> QED
    BY <1>0, <1>1, <1>2, <2>1, <2>3, <2>4, HandleStep, Zenon
<1>7. CASE ApplyCommit \/ \E b \in Batches : Apply(b)
  <2>1. dir' = dir /\ pc' # "close_manifest"
    BY <1>7 DEF ApplyCommit, Apply, Published
  <2>2. \/ UNCHANGED <<graph, named>>
        \/ \E b \in Batches : graph' = Append(graph, b) /\ Publish(graph', epoch)
    <3>1. CASE ApplyCommit
      <4>1. \/ UNCHANGED <<graph, named>>
            \/ /\ graph' = Append(graph, wal.vis[Len(wal.vis)].batch)
               /\ Publish(graph', epoch)
        BY <3>1 DEF ApplyCommit, Published, history
      <4>2. wal.vis[Len(wal.vis)].batch \in Batches
        <5>1. wal.vis # << >>
          BY <3>1 DEF TypeInv, ApplyCommit
        <5>2. Len(wal.vis) \in 1..Len(wal.vis)
          BY <1>1, <5>1, EmptySeq
        <5>3. wal.vis[Len(wal.vis)] \in Frames
          BY <1>1, <5>2, ElementOfSeq
        <5> QED
          BY <5>3 DEF Frames
      <4> QED
        BY <4>1, <4>2
    <3>2. CASE \E b \in Batches : Apply(b)
      <4>1. PICK b \in Batches : Apply(b)
        BY <3>2
      <4>2. \/ UNCHANGED <<graph, named>>
            \/ graph' = Append(graph, b) /\ Publish(graph', epoch)
        BY <4>1 DEF Apply, Published, Poison, history
      <4> QED
        BY <4>2
    <3> QED
      BY <1>7, <3>1, <3>2
  <2>3. graph' \in Graphs /\ (UNCHANGED <<graph, named>>
                              \/ (Extends(graph', graph) /\ Publish(graph', epoch)))
    BY <1>1, <2>2
  <2>4. \A m \in Mans' : m \in Mans
    BY <2>1 DEF Mans
  <2> QED
    BY <1>0, <1>2, <2>1, <2>3, <2>4, HandleStep, Zenon
<1> QED
  BY <1>3, <1>4, <1>5, <1>6, <1>7

\* The steps that end a handle, or the attempt to get one.
LEMMA GoneActionsName ==
  ASSUME TypeOK, DurabilityInv, EpochInv, CloseManifest \/ Kill \/ PowerLoss
  PROVE  EpochInv'
<1>1. CASE Kill
  <2>1. HandleGone /\ UNCHANGED <<named, acked, next_epoch>> /\ dir' = dir
    BY <1>1 DEF Kill, disk, history
  <2>2. \A m \in Mans' : m \in Mans
    BY <2>1 DEF Mans
  <2> QED
    BY <2>1, <2>2, HandleGoneStep
<1>2. CASE PowerLoss
  <2>1. HandleGone /\ UNCHANGED <<named, acked, next_epoch>>
    BY <1>2 DEF PowerLoss, history
  <2>2. PICK d \in dir.crash : dir' = Durable(d)
    BY <1>2 DEF PowerLoss
  <2>3. \A m \in Mans' : m \in Mans
    BY <2>2 DEF Mans, Durable
  <2> QED
    BY <2>1, <2>3, HandleGoneStep
<1>3. CASE CloseManifest
  <2> DEFINE m == ManifestRecord(snapshot, epoch, durable_seq, ~ poisoned)
             d == PutManifest(dir.vis, m)
  <2>1. /\ HandleGone /\ UNCHANGED <<named, acked, next_epoch>> /\ pc = "close_manifest"
        /\ dir' \in {dir, Durable(d), Synced(dir)} \cup Interrupted(dir, d, {})
    BY <1>3 DEF CloseManifest, AtomicOk, AtomicErr, history
  <2>2. d.man = m /\ m.epoch = epoch /\ dir.vis \in Dirs
    BY Shapes DEF PutManifest, Dirs, ManifestRecord
  <2>3. m.clean => ~ poisoned
    BY Zenon DEF ManifestRecord
  <2> HIDE DEF d, m
  <2>4. ~ poisoned => Extends(acked, named[epoch])
    <3>1. HandleOpen
      BY <2>1 DEF HandleOpen, Opening
    <3>2. ~ poisoned => acked = graph /\ named[epoch] = graph
      BY <2>1, <3>1, Zenon DEF EpochInv
    <3>3. Extends(graph, graph)
      BY EpochShapes, Shapes
    <3> QED
      BY <3>2, <3>3
  <2>5. \A x \in Mans' : x \in Mans \/ x = m
    BY <2>1, <2>2, DirStep DEF ManPut
  <2>6. m.clean => Extends(acked, named[m.epoch])
    BY <2>2, <2>3, <2>4
  <2> QED
    BY <2>1, <2>2, <2>5, <2>6, HandleGoneStep
<1> QED
  BY <1>1, <1>2, <1>3

\* create() mints an epoch that names nothing yet.
LEMMA CreateNames ==
  ASSUME TypeOK, DurabilityInv, EpochInv, Create
  PROVE  EpochInv'
<1>1. dir.vis \in Dirs /\ dir.vis.man \in Mans /\ << >> \in Graphs
  BY Numbers, EmptySeq DEF Graphs
<1>2. CASE CreateSnapshot
  <2> DEFINE d == PutSnapshot(dir.vis, FirstSnapshot)
  <2>1. /\ UNCHANGED <<epoch, next_epoch, named, acked, graph>>
        /\ pc' \in {"closed", "create_wal"}
        /\ dir' \in {dir, Durable(d), Synced(dir)} \cup Interrupted(dir, d, {})
    BY <1>2 DEF CreateSnapshot, AtomicOk, AtomicErr, writer, history
  <2>2. d.man = dir.vis.man
    BY <1>1, PutSnapshotShape
  <2> HIDE DEF d
  <2>3. Mans' \subseteq Mans
    BY <2>1, <2>2, DirStep DEF ManStays
  <2>4. ~ HandleOpen' /\ pc' # "create_manifest" /\ pc' \notin Recovering
    BY <2>1 DEF HandleOpen, Opening, Recovering
  <2> QED
    BY <2>1, <2>3, <2>4, GoesOn
<1>3. CASE CreateWal
  <2> DEFINE d == [dir.vis EXCEPT !.has_wal = TRUE]
  <2>1. /\ UNCHANGED <<next_epoch, named, acked>>
        /\ \/ pc' = "create_commit" /\ UNCHANGED <<epoch, graph>>
           \/ HandleGone
        /\ dir' \in {dir, Durable(d), Synced(dir)} \cup Interrupted(dir, d, {})
    BY <1>3 DEF CreateWal, AtomicOk, AtomicErr, writer, history
  <2>2. d.man = dir.vis.man
    BY <1>1 DEF Dirs
  <2> HIDE DEF d
  <2>3. Mans' \subseteq Mans
    BY <2>1, <2>2, DirStep DEF ManStays
  <2>4. pc' = "create_commit" =>
          ~ HandleOpen' /\ pc' # "create_manifest" /\ pc' \notin Recovering
    BY DEF HandleOpen, Opening, Recovering
  <2>5. CASE HandleGone
    BY <2>1, <2>3, <2>5, HandleGoneStep
  <2>6. CASE pc' = "create_commit" /\ UNCHANGED <<epoch, graph>>
    BY <2>1, <2>3, <2>4, <2>6, GoesOn
  <2> QED
    BY <2>1, <2>5, <2>6
<1>4. CASE CreateCommit
  <2> DEFINE d == [dir.vis EXCEPT !.has_commit = TRUE]
  <2>1. /\ UNCHANGED <<named, acked>> /\ next_epoch' = next_epoch + 1
        /\ next_epoch <= MaxEpoch
        /\ \/ pc' = "create_manifest" /\ epoch' = next_epoch /\ graph' = graph
           \/ HandleGone
        /\ dir' \in {dir, Durable(d), Synced(dir)} \cup Interrupted(dir, d, {})
    BY <1>4 DEF CreateCommit, AtomicOk, AtomicErr, history
  <2>2. d.man = dir.vis.man
    BY <1>1 DEF Dirs
  <2> HIDE DEF d
  <2>3. Mans' \subseteq Mans
    BY <2>1, <2>2, DirStep DEF ManStays
  <2>4. CASE HandleGone
    BY <2>1, <2>3, <2>4, HandleGoneStep
  <2>5. CASE pc' = "create_manifest" /\ epoch' = next_epoch /\ graph' = graph
    <3>1. ~ HandleOpen' /\ pc' \notin Recovering /\ pc' # "close_manifest"
      BY <2>5 DEF HandleOpen, Opening, Recovering
    <3>2. /\ \A e \in 1..MaxEpoch : e >= next_epoch => named[e] = << >>
          /\ \A m \in Mans : m.epoch < next_epoch
          /\ \A m \in Mans : m.clean => Extends(acked, named[m.epoch])
      BY Zenon DEF EpochInv
    <3>3. /\ next_epoch \in Nat /\ next_epoch > 0 /\ MaxEpoch \in Nat
          /\ \A m \in Mans : m.epoch \in Nat
      <4>1. \A m \in Mans : m.epoch \in 0..MaxEpoch
        BY SnapsShape DEF Manifests
      <4> QED
        BY <4>1, EpochShapes
    <3>4. /\ \A e \in 1..MaxEpoch : e >= next_epoch' => named'[e] = << >>
          /\ epoch' < next_epoch' /\ \A m \in Mans' : m.epoch < next_epoch'
          /\ \A m \in Mans' : m.clean => Extends(acked', named'[m.epoch])
          /\ named'[epoch'] = << >>
      BY <2>1, <2>3, <2>5, <3>2, <3>3
    <3> QED
      BY <3>1, <3>4, Zenon DEF EpochInv
  <2> QED
    BY <2>1, <2>4, <2>5
<1>5. CASE CreateManifest
  <2> DEFINE m == ManifestRecord(FirstSnapshot, epoch, 0, FALSE)
             d == PutManifest(dir.vis, m)
  <2>1. /\ pc = "create_manifest" /\ UNCHANGED <<next_epoch, acked>>
        /\ \/ /\ dir' = Durable(d) /\ pc' = "idle" /\ Publish(graph, epoch)
              /\ UNCHANGED <<epoch, graph>>
           \/ dir' \in Interrupted(dir, d, {}) /\ HandleGone /\ named' = named
    BY <1>5 DEF CreateManifest, AtomicOk, AtomicErr
  <2>2. d.man = m /\ m.epoch = epoch /\ ~ m.clean
    BY <1>1 DEF PutManifest, Dirs, ManifestRecord
  <2> HIDE DEF d, m
  <2>3. CASE dir' \in Interrupted(dir, d, {}) /\ HandleGone /\ named' = named
    <3>1. \A x \in Mans' : x \in Mans \/ x = m
      BY <2>2, <2>3, DirStep DEF ManPut
    <3> QED
      BY <2>1, <2>2, <2>3, <3>1, HandleGoneStep
  <2>4. CASE /\ dir' = Durable(d) /\ pc' = "idle" /\ Publish(graph, epoch)
             /\ UNCHANGED <<epoch, graph>>
    <3>1. HandleOpen' /\ pc' \notin Recovering /\ pc' # "create_manifest"
          /\ pc' # "close_manifest" /\ Mans' = {m}
      BY <2>2, <2>4 DEF HandleOpen, Opening, Recovering, Mans, Durable
    <3>2. /\ \A e \in 1..MaxEpoch : e >= next_epoch => named[e] = << >>
          /\ epoch < next_epoch /\ named[epoch] = << >>
      BY <2>1, Zenon DEF EpochInv
    <3>3. /\ next_epoch \in Nat /\ epoch \in 1..MaxEpoch /\ MaxEpoch \in Nat
      BY <2>1, EpochShapes
    <3>4. named'[epoch] = graph /\ \A e \in 1..MaxEpoch : e # epoch => named'[e] = named[e]
      <4>1. Extends(graph, named[epoch]) /\ graph \in Graphs
        BY <3>2, EpochShapes, Shapes
      <4> QED
        BY <2>4, <3>3, <4>1, PublishNames
    <3>5. /\ \A e \in 1..MaxEpoch : e >= next_epoch' => named'[e] = << >>
          /\ epoch' < next_epoch' /\ \A x \in Mans' : x.epoch < next_epoch' /\ ~ x.clean
          /\ named'[epoch'] = graph'
      BY <2>1, <2>2, <2>4, <3>1, <3>2, <3>3, <3>4
    <3> QED
      BY <3>1, <3>5, Zenon DEF EpochInv
  <2> QED
    BY <2>1, <2>3, <2>4
<1> QED
  BY <1>2, <1>3, <1>4, <1>5 DEF Create

\* What extends an extension extends.
LEMMA ExtendsFurther ==
  ASSUME NEW f \in Graphs, NEW g \in Graphs, NEW h \in Graphs, Extends(f, g), Extends(g, h)
  PROVE  Extends(f, h)
<1>1. /\ Len(f) \in Nat /\ Len(g) \in Nat /\ Len(h) \in Nat
      /\ DOMAIN g = 1..Len(g) /\ DOMAIN h = 1..Len(h)
  BY DEF Graphs
<1>2. \A k \in 1..Len(h) : k \in 1..Len(g)
  BY <1>1 DEF Extends
<1> QED
  BY <1>1, <1>2 DEF Extends

\* open() takes an epoch over only from a clean MANIFEST, and what that epoch
\* named it has recovered.
LEMMA OpenNames ==
  ASSUME TypeOK, TypeOK', DurabilityInv, DurabilityInv', EpochInv, Open
  PROVE  EpochInv'
<1>1. dir.vis \in Dirs /\ dir.vis.man \in Mans
  BY Numbers
<1>2. CASE OpenScan
  <2> DEFINE man  == dir.vis.man
             mint == Mints(HasTail(wal.vis, HighWater(commit.vis, dir.vis)), man)
  <2>1. /\ UNCHANGED <<named, acked, dir>>
        /\ \/ epoch' = next_epoch /\ next_epoch' = next_epoch + 1 /\ next_epoch <= MaxEpoch
           \/ epoch' = man.epoch /\ next_epoch' = next_epoch /\ man.clean
        /\ pc' \in {"open_truncate", "open_commit"}
    <3>1. mint \/ man.clean
      BY Zenon DEF Mints
    <3> HIDE DEF mint
    <3>2. CASE mint
      BY <1>2, <3>2 DEF OpenScan, history, disk, mint
    <3>3. CASE ~ mint
      BY <1>2, <3>1, <3>3 DEF OpenScan, history, disk, mint
    <3> QED
      BY <3>2, <3>3
  <2>2. /\ pc' \in Recovering /\ ~ HandleOpen' /\ pc' # "create_manifest"
        /\ pc' # "close_manifest"
    BY <2>1 DEF Recovering, HandleOpen, Opening
  <2>3. Extends(graph', acked')
    BY <2>2, Zenon DEF DurabilityInv, RecoveringWriter
  <2>4. graph' \in Graphs /\ acked' \in Graphs
    BY DEF TypeOK
  <2>5. Mans' = Mans
    BY <2>1 DEF Mans
  <2>6. /\ \A e \in 1..MaxEpoch : e >= next_epoch => named[e] = << >>
        /\ \A m \in Mans : m.epoch < next_epoch
        /\ \A m \in Mans : m.clean => Extends(acked, named[m.epoch])
    BY Zenon DEF EpochInv
  <2>7. /\ next_epoch \in Nat /\ 0 < next_epoch /\ MaxEpoch \in Nat
        /\ \A e \in 1..MaxEpoch : named[e] \in Graphs
        /\ \A m \in Mans : m.epoch \in Nat
        /\ \A m \in Mans : m.clean => m.epoch \in 1..MaxEpoch
        /\ Extends(graph', << >>)
    <3>1. \A m \in Mans : m.epoch \in 0..MaxEpoch
      BY SnapsShape DEF Manifests
    <3> QED
      BY <2>4, <3>1, EpochShapes
  <2>8. Extends(graph', named'[epoch'])
    <3>1. CASE epoch' = next_epoch /\ next_epoch <= MaxEpoch
      BY <2>1, <2>6, <2>7, <3>1
    <3>2. CASE epoch' = man.epoch /\ man.clean
      <4>1. named[man.epoch] \in Graphs /\ Extends(acked, named[man.epoch])
        BY <1>1, <2>6, <2>7, <3>2
      <4> QED
        BY <2>1, <2>3, <2>4, <3>2, <4>1, ExtendsFurther
    <3> QED
      BY <2>1, <3>1, <3>2
  <2>9. /\ \A e \in 1..MaxEpoch : e >= next_epoch' => named'[e] = << >>
        /\ epoch' < next_epoch' /\ \A m \in Mans' : m.epoch < next_epoch'
        /\ \A m \in Mans' : m.clean => Extends(acked', named'[m.epoch])
    BY <1>1, <2>1, <2>5, <2>6, <2>7
  <2> QED
    BY <2>2, <2>8, <2>9, Zenon DEF EpochInv
<1>3. CASE OpenTruncate \/ OpenCommit
  <2>1. /\ UNCHANGED <<named, acked, next_epoch>> /\ dir' \in {dir, Synced(dir)}
        /\ pc \in Recovering
        /\ \/ pc' \in {"open_commit", "open_manifest"} /\ UNCHANGED <<epoch, graph>>
           \/ HandleGone
    BY <1>3 DEF OpenTruncate, OpenCommit, writer, history, Recovering
  <2>2. Mans' \subseteq Mans
    BY <1>1, <2>1, Numbers DEF Mans, Synced, Durable
  <2>3. CASE HandleGone
    BY <2>1, <2>2, <2>3, HandleGoneStep
  <2>4. CASE pc' \in {"open_commit", "open_manifest"} /\ UNCHANGED <<epoch, graph>>
    <3>1. ~ HandleOpen' /\ pc' # "create_manifest"
      BY <2>4 DEF HandleOpen, Opening
    <3> QED
      BY <2>1, <2>2, <2>4, <3>1, GoesOn
  <2> QED
    BY <2>1, <2>3, <2>4
<1>4. CASE OpenManifest
  <2> DEFINE m == ManifestRecord(snapshot, epoch, durable_seq, FALSE)
             d == PutManifest(dir.vis, m)
  <2>1. d.man = m /\ m.epoch = epoch /\ ~ m.clean
    BY <1>1 DEF PutManifest, Dirs, ManifestRecord
  <2>2. \A gone : [d EXCEPT !.snaps = @ \ gone].man = m
    BY <1>1 DEF PutManifest, Dirs
  <2>3. /\ pc = "open_manifest" /\ next_epoch' = next_epoch
        /\ \/ /\ \E gone : dir' = Written(Durable(d), [d EXCEPT !.snaps = @ \ gone], {})
              /\ pc' = "idle" /\ Publish(graph, epoch) /\ UNCHANGED <<epoch, graph>>
           \/ dir' \in Interrupted(dir, d, {}) /\ HandleGone /\ UNCHANGED <<named, acked>>
    <3>1. UNCHANGED writer => UNCHANGED <<epoch, graph>>
      BY DEF writer
    <3> HIDE DEF d, m
    <3> QED
      BY <1>4, <3>1 DEF OpenManifest, AtomicErr, history, d, m
  <2> HIDE DEF d, m
  <2>4. CASE dir' \in Interrupted(dir, d, {}) /\ HandleGone /\ UNCHANGED <<named, acked>>
    <3>1. \A x \in Mans' : x \in Mans \/ x = m
      BY <2>1, <2>4, DirStep DEF ManPut
    <3> QED
      BY <2>1, <2>3, <2>4, <3>1, HandleGoneStep
  <2>5. CASE /\ \E gone : dir' = Written(Durable(d), [d EXCEPT !.snaps = @ \ gone], {})
             /\ pc' = "idle" /\ Publish(graph, epoch) /\ UNCHANGED <<epoch, graph>>
    <3>1. HandleOpen' /\ pc' \notin Recovering /\ pc' # "create_manifest"
          /\ pc' # "close_manifest"
      BY <2>5 DEF HandleOpen, Opening, Recovering
    <3>2. Mans' = {m}
      <4>1. PICK gone : dir' = Written(Durable(d), [d EXCEPT !.snaps = @ \ gone], {})
        BY <2>5
      <4> DEFINE e == [d EXCEPT !.snaps = @ \ gone]
      <4>2. e.man = m
        BY <2>2
      <4> HIDE DEF e
      <4>3. dir' = Written(Durable(d), e, {})
        BY <4>1 DEF e
      <4>4. dir'.crash = {d, e}
        BY <4>3 DEF Written, Durable
      <4> QED
        BY <2>1, <4>2, <4>4 DEF Mans
    <3>3. /\ \A e \in 1..MaxEpoch : e >= next_epoch => named[e] = << >>
          /\ epoch < next_epoch
      BY Zenon DEF EpochInv
    <3>4. Extends(graph, named[epoch])
      BY <2>3, Zenon DEF EpochInv, Recovering
    <3>5. /\ next_epoch \in Nat /\ epoch \in 1..MaxEpoch /\ MaxEpoch \in Nat
      BY <2>3, EpochShapes DEF NoHandle
    <3>6. named'[epoch] = graph /\ \A e \in 1..MaxEpoch : e # epoch => named'[e] = named[e]
      BY <2>5, <3>4, <3>5, Shapes, PublishNames
    <3>7. /\ \A e \in 1..MaxEpoch : e >= next_epoch' => named'[e] = << >>
          /\ epoch' < next_epoch' /\ \A x \in Mans' : x.epoch < next_epoch' /\ ~ x.clean
          /\ named'[epoch'] = graph'
      BY <2>1, <2>3, <2>5, <3>2, <3>3, <3>5, <3>6
    <3> QED
      BY <3>1, <3>7, Zenon DEF EpochInv
  <2> QED
    BY <2>3, <2>4, <2>5
<1> QED
  BY <1>2, <1>3, <1>4 DEF Open

\* No epoch is minted before the first create().
LEMMA InitEpochInv == Init => EpochInv
<1> SUFFICES ASSUME Init PROVE EpochInv
  OBVIOUS
<1>1. pc = "closed" /\ epoch = 0 /\ next_epoch = 1 /\ dir = Durable(EmptyDir)
      /\ named = [e \in 1..MaxEpoch |-> << >>]
  BY DEF Init
<1>2. Mans = {NoManifest} /\ NoManifest.epoch = 0 /\ ~ NoManifest.clean
  <2>1. dir.crash = {EmptyDir} /\ EmptyDir.man = NoManifest
    BY <1>1 DEF Durable, EmptyDir
  <2>2. Mans = {NoManifest}
    BY <2>1 DEF Mans
  <2> QED
    BY <2>2 DEF NoManifest, ManifestRecord
<1>3. ~ HandleOpen /\ pc \notin Recovering /\ pc # "create_manifest" /\ pc # "close_manifest"
  BY <1>1 DEF HandleOpen, Opening, Recovering
<1>4. /\ \A e \in 1..MaxEpoch : e >= next_epoch => named[e] = << >>
      /\ epoch < next_epoch /\ \A m \in Mans : m.epoch < next_epoch /\ ~ m.clean
  BY <1>1, <1>2
<1> QED
  BY <1>3, <1>4, Zenon DEF EpochInv

\* Every step of the store, its client and its environment.
LEMMA NextEpochInv == TypeInv /\ DurabilityInv /\ EpochInv /\ [Next]_vars => EpochInv'
<1> SUFFICES ASSUME TypeInv, DurabilityInv, EpochInv, [Next]_vars PROVE EpochInv'
  OBVIOUS
<1>1. TypeOK /\ TypeOK' /\ DurabilityInv'
  <2>1. TypeInv' /\ DurabilityInv'
    BY NextTypeInv, NextDurabilityInv
  <2> QED
    BY <2>1 DEF TypeInv
<1>2. CASE Create
  BY <1>1, <1>2, CreateNames
<1>3. CASE Open
  BY <1>1, <1>3, OpenNames
<1>4. CASE \/ ApplyCommit \/ FlushCommit \/ CloseCommit
           \/ CompactSnapshot \/ CompactManifest \/ CompactCommit
           \/ CompactTruncate \/ CompactReopen
           \/ SetPolicy \/ Flush \/ Compact \/ Close \/ \E b \in Batches : Apply(b)
  BY <1>4, HandleActionsName
<1>5. CASE CloseManifest \/ Kill \/ PowerLoss
  BY <1>1, <1>5, GoneActionsName
<1>6. CASE UNCHANGED vars
  <2>1. UNCHANGED <<pc, dir, graph, epoch, next_epoch, named, acked>> /\ poisoned' = poisoned
    BY <1>6 DEF vars, disk, writer, history
  <2>2. Mans' = Mans /\ (HandleOpen' <=> HandleOpen)
    BY <2>1 DEF Mans, HandleOpen
  <2> QED
    BY <2>1, <2>2, Zenon DEF EpochInv
<1> QED
  BY <1>2, <1>3, <1>4, <1>5, <1>6 DEF Next, Running, Client, Crash

\* (epoch, seq) names one state: every graph published in an epoch is a
\* prefix of the longest one (Writer.epoch and its re-minting in
\* open_with_vfs), whatever was truncated, lost or reopened in between.
THEOREM EpochNamesOneState == Spec => []EpochSeqNamesOneState
<1>1. Init => TypeInv /\ DurabilityInv /\ EpochInv
  BY InitTypeInv, InitDurabilityInv, InitEpochInv
<1>2. TypeInv /\ DurabilityInv /\ EpochInv /\ [Next]_vars
        => (TypeInv /\ DurabilityInv /\ EpochInv)'
  BY NextTypeInv, NextDurabilityInv, NextEpochInv
<1>3. TypeInv /\ DurabilityInv /\ EpochInv => EpochSeqNamesOneState
  <2>1. ASSUME TypeInv, DurabilityInv, EpochInv, HandleOpen PROVE Extends(named[epoch], graph)
    <3>1. TypeOK /\ named[epoch] = graph
      BY <2>1, Zenon DEF TypeInv, EpochInv
    <3>2. Extends(graph, graph)
      BY <2>1, <3>1, EpochShapes, Shapes
    <3> QED
      BY <3>1, <3>2
  <2> QED
    BY <2>1 DEF EpochSeqNamesOneState
<1> QED
  BY <1>1, <1>2, <1>3, PTL DEF Spec
==============================================================================

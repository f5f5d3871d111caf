------------------------------ MODULE Sessions ------------------------------
(***************************************************************************)
(* The threads and processes that share one store directory: Python        *)
(* threads calling one PersistentGraph object of pybridge.rs, the locks    *)
(* those calls meet on the way to the store of persist/mod.rs, and the     *)
(* LOCK file that keeps a second handle out.                               *)
(*                                                                         *)
(* Four locks are at work. The GIL of a process is held from the start of  *)
(* a call to its end, save inside allow_threads; a step that runs between  *)
(* two blocking points with the GIL is one action. PyO3 counts a shared    *)
(* borrow of the object for each method that takes &self and an exclusive  *)
(* one for close(&mut self); a borrow that is refused is an error, nobody  *)
(* waits. The writer mutex guards the Writer of a handle. The flock on     *)
(* dir/LOCK is tried once, without waiting.                                *)
(*                                                                         *)
(* A graph is the sequence of the batches applied to it. What recovery     *)
(* makes of the files is in PersistentGraph; here it is the sequence the   *)
(* COMMIT marker covers.                                                   *)
(***************************************************************************)
EXTENDS Naturals, Sequences, FiniteSets

CONSTANTS
  Threads, Processes,
  ProcessOf,      \* the process of each thread
  None,           \* no thread: a lock that is free
  Policies,       \* fsync policies the callers select
  AutoThreshold,  \* batches in the delta beyond which apply compacts
  Handles,        \* bound: the handles made, 1 to their number
  Calls,          \* bound: calls of each thread
  MaxKills        \* bound: processes killed

ASSUME SessionsAssumption ==
  /\ ProcessOf \in [Threads -> Processes]
  /\ None \notin Threads
  /\ Policies \subseteq {"on_flush", "every_batch"}
  /\ AutoThreshold \in Nat /\ MaxKills \in Nat
  /\ Handles \subseteq Nat \ {0}
  /\ Calls \in [Threads -> Nat]

NoHandle == 0

VARIABLES
  disk,     \* the files of the directory
  flock,    \* the handle that holds dir/LOCK, or NoHandle
  handle,   \* the PersistentGraph objects and the stores they own
  gil,      \* the thread of a process that blocks with the GIL, or None
  frame,    \* the call each thread is in
  token,    \* the handle and seq a thread has last asked for
  calls,    \* calls a thread may still make
  kills,    \* processes that may still be killed
  accepted  \* history: the applies that returned a seq, on stores still there

vars == <<disk, flock, handle, gil, frame, token, calls, kills, accepted>>

Batches == [by : Threads, expected : SUBSET Nat]
Graphs == Seq(Batches)

(* What a reader loads: base and delta of one moment. seq is the number of *)
(* batches in the two.                                                     *)
GraphStates == [base : Graphs, delta : Graphs]
GraphState(g, n) ==
  [base |-> SubSeq(g, 1, n), delta |-> SubSeq(g, n + 1, Len(g))]
SeqOf(s) == Len(s.base) + Len(s.delta)
EmptyState == GraphState(<< >>, 0)

(* stored: the batches the COMMIT marker covers; folded: how many of them  *)
(* the snapshot file holds.                                                *)
Disks == [manifest : BOOLEAN, stored : Graphs, folded : Nat]

(* unused: no object yet; building: from the call of open or create to its *)
(* return; open: pg is Some; closing: close has taken pg and works on the  *)
(* store; gone: the store is dropped, or its process dead.                 *)
(* log is Writer.base with Writer.delta on top, mutex the thread that      *)
(* holds the writer mutex.                                                 *)
HandleRecords ==
  [status : {"unused", "building", "open", "closing", "gone"},
   owner : Processes \cup {None}, log : Graphs, policy : Policies \cup {"on_flush"},
   state : GraphStates, mutex : Threads \cup {None}]
NoStore(status) ==
  [status |-> status, owner |-> None, log |-> << >>, policy |-> "on_flush",
   state |-> EmptyState, mutex |-> None]

Steps == {"idle", "open", "create", "recover", "check", "build", "knob",
          "wait", "held", "publish", "fold", "unlock", "manifest",
          "base", "delta", "return"}
Ops == {"none", "open", "knob", "apply", "flush", "compact", "close", "read"}

(* draft is apply's clone of the delta with the batch on it; view the      *)
(* GraphState a read holds on to, seen what its traversal has read of it,  *)
(* floor the last seq an apply had returned when the read was called.      *)
Frames ==
  [pc : Steps, op : Ops, on : Handles \cup {NoHandle}, expected : SUBSET Nat,
   draft : Graphs, view : GraphStates, seen : Graphs, floor : Nat]
NoCall ==
  [pc |-> "idle", op |-> "none", on |-> NoHandle, expected |-> {},
   draft |-> << >>, view |-> EmptyState, seen |-> << >>, floor |-> 0]

Init ==
  /\ disk = [manifest |-> FALSE, stored |-> << >>, folded |-> 0]
  /\ flock = NoHandle
  /\ handle = [h \in Handles |-> NoStore("unused")]
  /\ gil = [p \in Processes |-> None]
  /\ frame = [t \in Threads |-> NoCall]
  /\ token = [t \in Threads |-> <<NoHandle, 0>>]
  /\ calls = Calls /\ kills = MaxKills /\ accepted = {}

(***************************************************************************)
(* Calls.                                                                  *)
(***************************************************************************)
At(t, op, pc) == frame[t].op = op /\ frame[t].pc = pc
GilFree(t) == gil[ProcessOf[t]] = None
KeepGil(t) == gil' = [gil EXCEPT ![ProcessOf[t]] = t]
DropGil(t) == gil' = [gil EXCEPT ![ProcessOf[t]] = None]

(* A thread between two calls makes another one.                           *)
Calling(t) ==
  /\ frame[t].pc = "idle" /\ GilFree(t)
  /\ calls[t] > 0
  /\ calls' = [calls EXCEPT ![t] = @ - 1]

Goto(t, pc) == frame' = [frame EXCEPT ![t].pc = pc]
Finish(t) == frame' = [frame EXCEPT ![t] = NoCall]

(* The threads in a method of the object, which its borrow flag counts.    *)
Borrowers(h) == {t \in Threads : frame[t].on = h}

(* require_pg, on an object that no close(&mut self) has borrowed.         *)
Callable(t, h) ==
  /\ handle[h].status = "open" /\ handle[h].owner = ProcessOf[t]
  /\ \A u \in Borrowers(h) : frame[u].op # "close"

(* seq(): the published one, the CAS token.                                *)
ReadSeq(t, h) ==
  /\ Calling(t) /\ Callable(t, h)
  /\ token' = [token EXCEPT ![t] = <<h, SeqOf(handle[h].state)>>]
  /\ UNCHANGED <<disk, flock, handle, gil, frame, kills, accepted>>

(* apply, flush and compact leave the GIL for the writer mutex.            *)
Write(t, h, name, e) ==
  /\ Calling(t) /\ Callable(t, h)
  /\ frame' = [frame EXCEPT ![t] = [NoCall EXCEPT !.op = name, !.pc = "wait",
                                                  !.on = h, !.expected = e]]
  /\ UNCHANGED <<disk, flock, handle, gil, token, kills, accepted>>

CallApply(t, h) ==
  \/ Write(t, h, "apply", {})
  \/ token[t][1] = h /\ Write(t, h, "apply", {token[t][2]})
CallFlush(t, h) == Write(t, h, "flush", {})
CallCompact(t, h) == Write(t, h, "compact", {})

ReturnedOn(h) == {r.seq : r \in {a \in accepted : a.on = h}}
LastReturned(h) ==
  IF ReturnedOn(h) = {} THEN 0
  ELSE CHOOSE n \in ReturnedOn(h) : \A m \in ReturnedOn(h) : m <= n

(* snapshot(), and the GIL is left for the traversal.                      *)
CallRead(t, h) ==
  /\ Calling(t) /\ Callable(t, h)
  /\ frame' = [frame EXCEPT ![t] = [NoCall EXCEPT !.op = "read", !.pc = "base",
                 !.on = h, !.view = handle[h].state, !.floor = LastReturned(h)]]
  /\ UNCHANGED <<disk, flock, handle, gil, token, kills, accepted>>

(* set_fsync_policy takes the mutex with the GIL in its hand.              *)
CallKnob(t, h) ==
  /\ Calling(t) /\ Callable(t, h)
  /\ KeepGil(t)
  /\ frame' = [frame EXCEPT ![t] = [NoCall EXCEPT !.op = "knob", !.pc = "knob",
                                                  !.on = h]]
  /\ UNCHANGED <<disk, flock, handle, token, kills, accepted>>

(* Mutant of Unborrowed: close takes &self.                                *)
SharedBorrow(h) == \A u \in Borrowers(h) : frame[u].op # "close"

(* close(&mut self) needs the object for itself.                           *)
Unborrowed(h) == Borrowers(h) = {}

(* close takes the store out of the object first.                          *)
CallClose(t, h) ==
  /\ Calling(t)
  /\ handle[h].status = "open" /\ handle[h].owner = ProcessOf[t]
  /\ Unborrowed(h)
  /\ handle' = [handle EXCEPT ![h].status = "closing"]
  /\ frame' = [frame EXCEPT ![t] = [NoCall EXCEPT !.op = "close",
                                                  !.pc = "wait", !.on = h]]
  /\ UNCHANGED <<disk, flock, gil, token, kills, accepted>>

(***************************************************************************)
(* Under the writer mutex, without the GIL.                                *)
(***************************************************************************)
(* Mutants of MutexFree and Unlock: no mutex; the guard goes out of scope  *)
(* where the GIL is held again.                                            *)
NoMutex(h) == TRUE
UnlockUnderGil(t) ==
  /\ GilFree(t)
  /\ handle' = [handle EXCEPT ![frame[t].on].mutex = None]

MutexFree(h) == handle[h].mutex = None
Unlock(t) == handle' = [handle EXCEPT ![frame[t].on].mutex = None]

Lock(t) ==
  /\ frame[t].pc = "wait"
  /\ MutexFree(frame[t].on)
  /\ handle' = [handle EXCEPT ![frame[t].on].mutex = t]
  /\ Goto(t, "held")
  /\ UNCHANGED <<disk, flock, gil, token, calls, kills, accepted>>

(* The knob is set and both locks are let go of.                           *)
SetPolicy(t) ==
  /\ frame[t].pc = "knob"
  /\ MutexFree(frame[t].on)
  /\ \E p \in Policies : handle' = [handle EXCEPT ![frame[t].on].policy = p]
  /\ DropGil(t)
  /\ Finish(t)
  /\ UNCHANGED <<disk, flock, token, calls, kills, accepted>>

(* Mutant of Conflicts: the token is not compared under the lock.          *)
NeverConflicts(t) == FALSE

Conflicts(t) ==
  frame[t].expected \notin {{}, {Len(handle[frame[t].on].log)}}

(* A conflict, or a batch that GraphDelta::apply refuses on the clone.     *)
RefuseBatch(t) ==
  /\ At(t, "apply", "held")
  /\ Goto(t, "unlock")
  /\ UNCHANGED <<disk, flock, handle, gil, token, calls, kills, accepted>>

(* The frame is in the log; under every_batch the marker covers it too.    *)
AppendBatch(t) ==
  LET h == frame[t].on
      g == Append(handle[h].log, [by |-> t, expected |-> frame[t].expected])
  IN
  /\ At(t, "apply", "held")
  /\ ~ Conflicts(t)
  /\ frame' = [frame EXCEPT ![t].draft = g, ![t].pc = "publish"]
  /\ disk' = IF handle[h].policy = "every_batch"
             THEN [disk EXCEPT !.stored = g] ELSE disk
  /\ UNCHANGED <<flock, handle, gil, token, calls, kills, accepted>>

(* Writer and readers move on to the new delta; a long one is folded next, *)
(* under the same lock.                                                    *)
Publish(t) ==
  LET h == frame[t].on
      s == GraphState(frame[t].draft, Len(handle[h].state.base))
  IN
  /\ At(t, "apply", "publish")
  /\ handle' = [handle EXCEPT ![h].log = frame[t].draft, ![h].state = s]
  /\ Goto(t, IF Len(s.delta) > AutoThreshold THEN "fold" ELSE "unlock")
  /\ UNCHANGED <<disk, flock, gil, token, calls, kills, accepted>>

(* compact_locked: nothing to do for an empty delta; else a snapshot of    *)
(* everything and an empty delta.                                          *)
Fold(t) ==
  LET h == frame[t].on g == handle[h].log IN
  /\ At(t, "apply", "fold") \/ At(t, "compact", "held")
  /\ IF handle[h].state.delta = << >> THEN UNCHANGED <<disk, handle>>
     ELSE /\ disk' = [disk EXCEPT !.stored = g, !.folded = Len(g)]
          /\ handle' = [handle EXCEPT ![h].state = GraphState(g, Len(g))]
  /\ Goto(t, "unlock")
  /\ UNCHANGED <<flock, gil, token, calls, kills, accepted>>

(* flush, and the first half of close: the marker covers everything.       *)
Commit(t) ==
  /\ At(t, "flush", "held") \/ At(t, "close", "held")
  /\ disk' = [disk EXCEPT !.stored = handle[frame[t].on].log]
  /\ Goto(t, "unlock")
  /\ UNCHANGED <<flock, handle, gil, token, calls, kills, accepted>>

(* The mutex guard is dropped; close goes on to its MANIFEST.              *)
Release(t) ==
  /\ frame[t].pc = "unlock"
  /\ Unlock(t)
  /\ Goto(t, IF frame[t].op = "close" THEN "manifest" ELSE "return")
  /\ UNCHANGED <<disk, flock, gil, token, calls, kills, accepted>>

(* The stores of the handles hs are dropped, and with them their flock.    *)
DropStores(hs) ==
  /\ handle' = [h \in Handles |-> IF h \in hs THEN NoStore("gone") ELSE handle[h]]
  /\ flock' = IF flock \in hs THEN NoHandle ELSE flock
  /\ accepted' = {r \in accepted : r.on \notin hs}

(* The clean MANIFEST is written and the store dropped.                    *)
LeaveStore(t) ==
  /\ At(t, "close", "manifest")
  /\ DropStores({frame[t].on})
  /\ Goto(t, "return")
  /\ UNCHANGED <<disk, gil, token, calls, kills>>

(***************************************************************************)
(* A traversal reads the two halves of its view one after the other.       *)
(***************************************************************************)
(* Mutant of View: the state is loaded again for every access.             *)
LoadedAgain(t) == handle[frame[t].on].state

View(t) == frame[t].view

ReadBase(t) ==
  /\ At(t, "read", "base")
  /\ frame' = [frame EXCEPT ![t].seen = View(t).base, ![t].pc = "delta"]
  /\ UNCHANGED <<disk, flock, handle, gil, token, calls, kills, accepted>>

ReadDelta(t) ==
  /\ At(t, "read", "delta")
  /\ frame' = [frame EXCEPT ![t].seen = @ \o View(t).delta, ![t].pc = "return"]
  /\ UNCHANGED <<disk, flock, handle, gil, token, calls, kills, accepted>>

(* allow_threads takes the GIL back and the call returns.                  *)
Return(t) ==
  LET f == frame[t] IN
  /\ f.pc = "return" /\ GilFree(t)
  /\ accepted' = IF f.draft = << >> THEN accepted
                 ELSE accepted \cup {[on |-> f.on, seq |-> Len(f.draft),
                                      by |-> t, expected |-> f.expected]}
  /\ Finish(t)
  /\ UNCHANGED <<disk, flock, handle, gil, token, calls, kills>>

(***************************************************************************)
(* open and create, which keep the GIL throughout.                         *)
(***************************************************************************)
FreshHandles == {h \in Handles : handle[h].status = "unused"}

Begin(t, pc) ==
  \E h \in FreshHandles :
    /\ \A g \in FreshHandles : h <= g
    /\ handle' = [handle EXCEPT ![h].status = "building",
                                ![h].owner = ProcessOf[t]]
    /\ frame' = [frame EXCEPT ![t] = [NoCall EXCEPT !.op = "open", !.pc = pc,
                                                    !.on = h]]

(* The MANIFEST is looked for before the lock is taken.                    *)
CallOpen(t, create) ==
  /\ Calling(t)
  /\ disk.manifest \/ create
  /\ Begin(t, IF disk.manifest THEN "open" ELSE "create")
  /\ KeepGil(t)
  /\ UNCHANGED <<disk, flock, token, kills, accepted>>

CallCreate(t) ==
  /\ Calling(t)
  /\ Begin(t, "create")
  /\ KeepGil(t)
  /\ UNCHANGED <<disk, flock, token, kills, accepted>>

(* Mutant of LockFree: nobody asks for the flock.                          *)
LockIgnored == TRUE

LockFree == flock = NoHandle

(* DirLock::acquire.                                                       *)
TakeLock(t) ==
  /\ frame[t].pc \in {"open", "create"}
  /\ LockFree
  /\ flock' = frame[t].on
  /\ Goto(t, IF frame[t].pc = "open" THEN "recover" ELSE "check")
  /\ UNCHANGED <<disk, handle, gil, token, calls, kills, accepted>>

(* The call returns an error, and with it goes what it has built.          *)
Fail(t) ==
  /\ handle' = [handle EXCEPT ![frame[t].on] = NoStore("unused")]
  /\ DropGil(t)
  /\ Finish(t)

LockHeld(t) ==
  /\ frame[t].pc \in {"open", "create"}
  /\ ~ LockFree
  /\ Fail(t)
  /\ UNCHANGED <<disk, flock, token, calls, kills, accepted>>

(* The handle of a store with graph g, n batches of it in the base.        *)
Opened(t, g, n) ==
  /\ handle' = [handle EXCEPT ![frame[t].on] =
       [@ EXCEPT !.status = "open", !.log = g, !.state = GraphState(g, n)]]
  /\ DropGil(t)
  /\ Finish(t)

(* open: recovery, of which PersistentGraph has the steps.                 *)
Recover(t) ==
  /\ frame[t].pc = "recover"
  /\ Opened(t, disk.stored, disk.folded)
  /\ UNCHANGED <<disk, flock, token, calls, kills, accepted>>

(* Mutant of Occupied: create trusts what open has seen before the lock.   *)
SeenBefore == FALSE

Occupied == disk.manifest

(* create looks again under the lock, and refuses to clobber a store.      *)
RefuseToClobber(t) ==
  /\ frame[t].pc = "check"
  /\ Occupied
  /\ flock' = NoHandle
  /\ Fail(t)
  /\ UNCHANGED <<disk, token, calls, kills, accepted>>

(* The snapshot, wal.log and COMMIT, none of which a reopen looks at yet.  *)
BuildFiles(t) ==
  /\ frame[t].pc = "check"
  /\ ~ Occupied
  /\ Goto(t, "build")
  /\ UNCHANGED <<disk, flock, handle, gil, token, calls, kills, accepted>>

WriteManifest(t) ==
  /\ frame[t].pc = "build"
  /\ disk' = [manifest |-> TRUE, stored |-> << >>, folded |-> 0]
  /\ Opened(t, << >>, 0)
  /\ UNCHANGED <<flock, token, calls, kills, accepted>>

(***************************************************************************)
(* The environment.                                                        *)
(***************************************************************************)
(* An object nobody refers to any more is dropped without close.           *)
DropObject(h) ==
  /\ handle[h].status = "open"
  /\ gil[handle[h].owner] = None /\ Unborrowed(h)
  /\ DropStores({h})
  /\ UNCHANGED <<disk, gil, frame, token, calls, kills>>

Alive(p) == {h \in Handles : handle[h].owner = p}

(* A process with a store is killed, the kernel frees its flock, and it is *)
(* started again.                                                          *)
Kill(p) ==
  /\ kills > 0 /\ kills' = kills - 1
  /\ Alive(p) # {}
  /\ DropStores(Alive(p))
  /\ gil' = [gil EXCEPT ![p] = None]
  /\ frame' = [t \in Threads |-> IF ProcessOf[t] = p THEN NoCall ELSE frame[t]]
  /\ token' = [t \in Threads |->
                IF ProcessOf[t] = p THEN <<NoHandle, 0>> ELSE token[t]]
  /\ UNCHANGED <<disk, calls>>

(***************************************************************************)
(* The specification.                                                      *)
(***************************************************************************)
Call(t) ==
  \/ \E create \in BOOLEAN : CallOpen(t, create)
  \/ CallCreate(t)
  \/ \E h \in Handles :
       \/ ReadSeq(t, h) \/ CallApply(t, h) \/ CallFlush(t, h)
       \/ CallCompact(t, h) \/ CallRead(t, h) \/ CallKnob(t, h)
       \/ CallClose(t, h)

(* What a thread does once it is in a call.                                *)
Continue(t) ==
  \/ Lock(t) \/ SetPolicy(t) \/ RefuseBatch(t) \/ AppendBatch(t)
  \/ Publish(t) \/ Fold(t) \/ Commit(t) \/ Release(t) \/ LeaveStore(t)
  \/ ReadBase(t) \/ ReadDelta(t) \/ Return(t)
  \/ TakeLock(t) \/ LockHeld(t) \/ Recover(t) \/ RefuseToClobber(t)
  \/ BuildFiles(t) \/ WriteManifest(t)

Next ==
  \/ \E t \in Threads : Call(t) \/ Continue(t)
  \/ \E h \in Handles : DropObject(h)
  \/ \E p \in Processes : Kill(p)

Spec == Init /\ [][Next]_vars

(* A thread in a call is scheduled again and again; locks change hands a   *)
(* bounded number of times, so no lock has to be fair.                     *)
FairSpec == Spec /\ \A t \in Threads : WF_vars(Continue(t))

(***************************************************************************)
(* Properties.                                                             *)
(***************************************************************************)
TypeOK ==
  /\ disk \in Disks
  /\ flock \in Handles \cup {NoHandle}
  /\ handle \in [Handles -> HandleRecords]
  /\ gil \in [Processes -> Threads \cup {None}]
  /\ frame \in [Threads -> Frames]
  /\ token \in [Threads -> (Handles \cup {NoHandle}) \X Nat]
  /\ calls \in [Threads -> Nat]
  /\ kills \in Nat
  /\ accepted \subseteq [on : Handles, seq : Nat, by : Threads,
                         expected : SUBSET Nat]

(* Past the lock: the thread works on the store or its files.              *)
Works(t) == frame[t].pc \notin {"idle", "open", "create", "return"}

(* One writer per directory: whoever works on a store or on its files --   *)
(* recovery, create, any method, a close to its last step -- does so with  *)
(* the flock of its own handle, and only a close works on a store that has *)
(* been taken out of its object.                                           *)
OneStore ==
  \A t \in Threads : Works(t) =>
    /\ flock = frame[t].on
    /\ frame[t].op # "open" =>
         handle[frame[t].on].status = IF frame[t].op = "close" THEN "closing"
                                                                ELSE "open"

(* A seq that apply has returned names the caller's batch for as long as   *)
(* the handle is open, and a batch with expected_seq is the one right      *)
(* after it, whoever applied, compacted or flushed in between.             *)
CompareAndSet ==
  \A r \in accepted :
    LET g == handle[r.on].log IN
    /\ r.seq \in DOMAIN g
    /\ g[r.seq] = [by |-> r.by, expected |-> r.expected]
    /\ r.expected \subseteq {r.seq - 1}

(* A read that returns has seen the graph of one moment, base and delta    *)
(* alike, and every batch whose apply had returned before it was called.   *)
ReadsSeeOneMoment ==
  \A t \in Threads : At(t, "read", "return") =>
    LET g == frame[t].seen IN
    /\ Len(g) >= frame[t].floor
    /\ \E n \in 0..Len(handle[frame[t].on].log) :
         g = SubSeq(handle[frame[t].on].log, 1, n)

(* What the marker covers is never taken back: no second create, open,     *)
(* close or kill, in whatever order, replaces a committed batch.           *)
NeverClobbered ==
  [][/\ disk.manifest => disk'.manifest
     /\ \E n \in 0..Len(disk'.stored) : disk.stored = SubSeq(disk'.stored, 1, n)
    ]_vars

(* No call waits forever: not for the mutex with the GIL in hand, nor for  *)
(* the GIL with the mutex.                                                 *)
CallsReturn == \A t \in Threads : frame[t].pc # "idle" ~> frame[t].pc = "idle"
=============================================================================

--------------------------- MODULE SessionsProofs ---------------------------
(***************************************************************************)
(* One store per directory, for any threads, processes, handles, policies  *)
(* and numbers of calls. First who holds the flock and the handle (Inv),   *)
(* then, on top of it, what a thread may rely on of the data: the types,   *)
(* what a seq stands for, what a read sees, and that no committed batch is *)
(* replaced.                                                               *)
(***************************************************************************)
EXTENDS Sessions, SequenceTheorems, WellFoundedInduction, TLAPS

Fields ==
  /\ DOMAIN frame = Threads /\ DOMAIN handle = Handles
  /\ \A t \in Threads : {"pc", "op", "on"} \subseteq DOMAIN frame[t]
  /\ \A h \in Handles : {"status", "owner"} \subseteq DOMAIN handle[h]

OpenSteps == {"open", "create", "recover", "check", "build"}

(* What a thread in a call may rely on of the handle it is on.             *)
Relies(t) ==
  LET f == frame[t] IN
  /\ f.pc \in OpenSteps <=> f.op = "open"
  /\ f.pc = "idle" <=> f.op = "none"
  /\ f.op # "none" => f.on \in Handles
  /\ f.op = "none" => f.on = NoHandle
  /\ f.op = "open" =>
       /\ handle[f.on].status = "building" /\ handle[f.on].owner = ProcessOf[t]
       /\ f.pc \in {"recover", "check", "build"} => flock = f.on
  /\ f.op = "close" =>
       IF f.pc = "return" THEN handle[f.on].status = "gone"
       ELSE handle[f.on].status = "closing" /\ handle[f.on].owner = ProcessOf[t]
  /\ f.op \notin {"none", "open", "close"} =>
       handle[f.on].status = "open" /\ handle[f.on].owner = ProcessOf[t]

(* An open and a close have their handle for themselves.                   *)
Alone(t) ==
  frame[t].op \in {"open", "close"} =>
    \A u \in Threads : frame[u].on = frame[t].on => u = t

Holds(h) == handle[h].status \in {"open", "closing"} => flock = h

Inv ==
  /\ Fields
  /\ \A t \in Threads : Relies(t) /\ Alone(t)
  /\ \A h \in Handles : Holds(h)

(* NoHandle, the handle of an idle thread, is none.                        *)
LEMMA NoHandleIsNone == NoHandle \notin Handles
  BY SessionsAssumption DEF NoHandle

(* No thread is in a call, and no handle has a store.                      *)
LEMMA InitInv == Init => Inv
<1> SUFFICES ASSUME Init PROVE Inv
  OBVIOUS
<1>1. Fields
  BY DEF Init, Fields, NoCall, NoStore
<1>2. ASSUME NEW t \in Threads PROVE Relies(t) /\ Alone(t)
  BY DEF Init, Relies, Alone, NoCall, OpenSteps
<1>3. ASSUME NEW h \in Handles PROVE Holds(h)
  BY DEF Init, Holds, NoStore
<1> QED
  BY <1>1, <1>2, <1>3 DEF Inv

(* Whoever works on a store relies on its handle, which holds the flock.   *)
LEMMA InvGivesOneStore == Inv => OneStore
<1> SUFFICES ASSUME Inv, NEW t \in Threads, Works(t)
             PROVE  /\ flock = frame[t].on
                    /\ frame[t].op # "open" =>
                         handle[frame[t].on].status =
                           IF frame[t].op = "close" THEN "closing" ELSE "open"
  BY DEF OneStore
<1>1. Relies(t) /\ \A h \in Handles : Holds(h)
  BY DEF Inv
<1>2. frame[t].op # "none" /\ frame[t].pc # "return"
  BY <1>1 DEF Relies, Works
<1> QED
  BY <1>1, <1>2 DEF Relies, Works, Holds, OpenSteps

(***************************************************************************)
(* The ways in which a step can move a thread along.                       *)
(***************************************************************************)
(* Status and owner of no handle change, nor the flock.                    *)
SameHandles ==
  /\ flock' = flock
  /\ DOMAIN handle' = Handles
  /\ \A h \in Handles :
       /\ {"status", "owner"} \subseteq DOMAIN handle'[h]
       /\ handle'[h].status = handle[h].status
       /\ handle'[h].owner = handle[h].owner

(* The frame of a thread other than t is as it was.                        *)
OthersStay(t) ==
  /\ DOMAIN frame' = Threads
  /\ {"pc", "op", "on"} \subseteq DOMAIN frame'[t]
  /\ \A u \in Threads \ {t} : frame'[u] = frame[u]

(* A thread that starts a step changes its own frame only.                 *)
LEMMA SetFrame ==
  ASSUME Fields, NEW t \in Threads, NEW f, {"pc", "op", "on"} \subseteq DOMAIN f,
         frame' = [frame EXCEPT ![t] = f]
  PROVE  OthersStay(t) /\ frame'[t] = f
  BY DEF Fields, OthersStay

(* One that goes on keeps its call and its handle.                         *)
LEMMA GotoKeeps ==
  ASSUME Fields, NEW t \in Threads, NEW pc, Goto(t, pc)
  PROVE  /\ OthersStay(t)
         /\ frame'[t].pc = pc /\ frame'[t].op = frame[t].op
         /\ frame'[t].on = frame[t].on
  BY DEF Fields, OthersStay, Goto

(* A call goes on, on the same handle.                                     *)
LEMMA MovesOn ==
  ASSUME Inv, NEW t \in Threads, SameHandles, OthersStay(t),
         frame'[t].op = frame[t].op, frame'[t].on = frame[t].on,
         frame[t].op \notin {"none", "open"},
         frame'[t].pc \notin OpenSteps \cup {"idle"},
         frame[t].op = "close" => frame[t].pc # "return" /\ frame'[t].pc # "return"
  PROVE  Inv'
<1>1. Fields'
  BY DEF Inv, Fields, SameHandles, OthersStay
<1>2. ASSUME NEW u \in Threads PROVE Relies(u)'
  BY DEF Inv, Relies, SameHandles, OthersStay
<1>3. ASSUME NEW u \in Threads PROVE Alone(u)'
  BY DEF Inv, Alone, OthersStay
<1>4. ASSUME NEW h \in Handles PROVE Holds(h)'
  BY DEF Inv, Holds, SameHandles
<1> QED
  BY <1>1, <1>2, <1>3, <1>4 DEF Inv

(* A thread that leaves its handle disturbs nobody.                        *)
LEMMA LeavesAlone ==
  ASSUME Inv, NEW t \in Threads, OthersStay(t), frame'[t] = NoCall,
         NEW u \in Threads
  PROVE  Alone(u)'
<1> SUFFICES ASSUME frame'[u].op \in {"open", "close"}, NEW v \in Threads,
                    frame'[v].on = frame'[u].on
             PROVE  v = u
  BY DEF Alone
<1>1. u # t
  BY DEF NoCall
<1>2. frame'[u] = frame[u] /\ frame[u].on \in Handles
  BY <1>1 DEF Inv, Relies, OthersStay
<1>3. v # t
  BY <1>2, NoHandleIsNone DEF NoCall
<1> QED
  BY <1>2, <1>3 DEF Inv, Alone, OthersStay

(* A call is over.                                                         *)
LEMMA Ends ==
  ASSUME Inv, NEW t \in Threads, SameHandles, OthersStay(t), frame'[t] = NoCall
  PROVE  Inv'
<1>1. Fields'
  BY DEF Inv, Fields, SameHandles, OthersStay
<1>2. ASSUME NEW u \in Threads PROVE Relies(u)'
  <2>1. CASE u = t
    BY <2>1 DEF Relies, NoCall, OpenSteps
  <2>2. CASE u # t
    BY <2>2 DEF Inv, Relies, SameHandles, OthersStay
  <2> QED
    BY <2>1, <2>2
<1>3. ASSUME NEW u \in Threads PROVE Alone(u)'
  BY LeavesAlone
<1>4. ASSUME NEW h \in Handles PROVE Holds(h)'
  BY DEF Inv, Holds, SameHandles
<1> QED
  BY <1>1, <1>2, <1>3, <1>4 DEF Inv

(* A call on an open store begins.                                         *)
LEMMA Begins ==
  ASSUME Inv, NEW t \in Threads, NEW h \in Handles, SameHandles, OthersStay(t),
         frame[t].pc = "idle", Callable(t, h), frame'[t].on = h,
         frame'[t].op \notin {"none", "open", "close"},
         frame'[t].pc \notin OpenSteps \cup {"idle"}
  PROVE  Inv'
<1>1. Fields'
  BY DEF Inv, Fields, SameHandles, OthersStay
<1>2. ASSUME NEW u \in Threads PROVE Relies(u)'
  <2>1. CASE u = t
    BY <2>1 DEF Relies, SameHandles, Callable
  <2>2. CASE u # t
    BY <2>2 DEF Inv, Relies, SameHandles, OthersStay
  <2> QED
    BY <2>1, <2>2
<1>3. ASSUME NEW u \in Threads PROVE Alone(u)'
  <2> SUFFICES ASSUME frame'[u].op \in {"open", "close"}, NEW v \in Threads,
                      frame'[v].on = frame'[u].on
               PROVE  v = u
    BY DEF Alone
  <2>1. u # t /\ frame'[u] = frame[u]
    BY DEF OthersStay
  <2>2. handle[frame[u].on].status # "open"
    BY <2>1 DEF Inv, Relies
  <2>3. v # t
    BY <2>1, <2>2 DEF Callable
  <2> QED
    BY <2>1, <2>3 DEF Inv, Alone, OthersStay
<1>4. ASSUME NEW g \in Handles PROVE Holds(g)'
  BY DEF Inv, Holds, SameHandles
<1> QED
  BY <1>1, <1>2, <1>3, <1>4 DEF Inv

(***************************************************************************)
(* The steps that make a handle, change its status or let it go.           *)
(***************************************************************************)
(* A handle other than h keeps its status and owner.                       *)
OtherHandlesStay(h) ==
  /\ DOMAIN handle' = Handles
  /\ {"status", "owner"} \subseteq DOMAIN handle'[h]
  /\ \A g \in Handles \ {h} : handle'[g] = handle[g]

(* A thread is on no handle that has yet to be made.                       *)
LEMMA NobodyIsOnUnused ==
  ASSUME Inv, NEW h \in Handles, handle[h].status = "unused", NEW u \in Threads
  PROVE  frame[u].on # h
<1>1. Relies(u)
  BY DEF Inv
<1> QED
  BY <1>1, NoHandleIsNone DEF Relies

(* A thread that is the first on its handle disturbs nobody.               *)
LEMMA FirstOnHandle ==
  ASSUME Inv, NEW t \in Threads, NEW h, OthersStay(t), frame'[t].on = h,
         \A v \in Threads : frame[v].on # h, NEW u \in Threads
  PROVE  Alone(u)'
<1> SUFFICES ASSUME frame'[u].op \in {"open", "close"}, NEW v \in Threads,
                    frame'[v].on = frame'[u].on
             PROVE  v = u
  BY DEF Alone
<1>1. CASE u = t
  BY <1>1 DEF OthersStay
<1>2. CASE u # t
  <2>1. frame'[u] = frame[u] /\ v # t
    BY <1>2 DEF OthersStay
  <2>2. frame'[v] = frame[v] /\ Alone(u)
    BY <2>1 DEF OthersStay, Inv
  <2> QED
    BY <2>1, <2>2 DEF Alone
<1> QED
  BY <1>1, <1>2

(* open and create begin on a fresh handle, which nobody else knows.       *)
LEMMA BeginKeepsInv ==
  ASSUME Inv, NEW t \in Threads, NEW pc \in {"open", "create"}, Begin(t, pc),
         frame[t].pc = "idle", flock' = flock
  PROVE  Inv'
<1>1. PICK h \in FreshHandles :
        /\ handle' = [handle EXCEPT ![h].status = "building",
                                    ![h].owner = ProcessOf[t]]
        /\ frame' = [frame EXCEPT ![t] = [NoCall EXCEPT !.op = "open",
                                                        !.pc = pc, !.on = h]]
  BY DEF Begin
<1>2. h \in Handles /\ handle[h].status = "unused"
  BY DEF FreshHandles
<1>3. OthersStay(t) /\ frame'[t] = [NoCall EXCEPT !.op = "open", !.pc = pc, !.on = h]
  BY <1>1, SetFrame DEF Inv, NoCall
<1>4. frame'[t].op = "open" /\ frame'[t].pc = pc /\ frame'[t].on = h
  BY <1>3 DEF NoCall
<1>5. OtherHandlesStay(h) /\ handle'[h].status = "building"
                          /\ handle'[h].owner = ProcessOf[t]
  BY <1>1, <1>2 DEF Inv, Fields, OtherHandlesStay
<1>6. Fields'
  BY <1>3, <1>5 DEF Inv, Fields, OthersStay, OtherHandlesStay
<1>7. ASSUME NEW u \in Threads PROVE Relies(u)'
  <2>1. CASE u = t
    BY <1>2, <1>4, <1>5, <2>1 DEF Relies, OpenSteps
  <2>2. CASE u # t
    <3>1. frame'[u] = frame[u] /\ frame[u].on # h
      BY <1>2, <1>3, <2>2, NobodyIsOnUnused DEF OthersStay
    <3> QED
      BY <1>5, <3>1 DEF Inv, Relies, OtherHandlesStay
  <2> QED
    BY <2>1, <2>2
<1>8. ASSUME NEW u \in Threads PROVE Alone(u)'
  BY <1>2, <1>3, <1>4, NobodyIsOnUnused, FirstOnHandle
<1>9. ASSUME NEW g \in Handles PROVE Holds(g)'
  BY <1>5 DEF Inv, Holds, OtherHandlesStay
<1> QED
  BY <1>6, <1>7, <1>8, <1>9 DEF Inv

(* close begins when nobody borrows the handle.                            *)
LEMMA CallCloseKeepsInv ==
  ASSUME Inv, NEW t \in Threads, NEW h \in Handles, CallClose(t, h)
  PROVE  Inv'
<1>1. OthersStay(t) /\ frame'[t] = [NoCall EXCEPT !.op = "close", !.pc = "wait", !.on = h]
  BY SetFrame DEF CallClose, Inv, NoCall
<1>2. frame'[t].op = "close" /\ frame'[t].pc = "wait" /\ frame'[t].on = h
  BY <1>1 DEF NoCall
<1>3. OtherHandlesStay(h) /\ handle'[h].status = "closing"
                          /\ handle'[h].owner = ProcessOf[t] /\ flock = h
  BY DEF CallClose, Inv, Fields, Holds, OtherHandlesStay
<1>4. \A u \in Threads : frame[u].on # h
  BY DEF CallClose, Unborrowed, Borrowers
<1>5. Fields'
  BY <1>1, <1>3 DEF Inv, Fields, OthersStay, OtherHandlesStay
<1>6. ASSUME NEW u \in Threads PROVE Relies(u)'
  <2>1. CASE u = t
    BY <1>2, <1>3, <2>1 DEF Relies, OpenSteps
  <2>2. CASE u # t
    BY <1>1, <1>3, <1>4, <2>2 DEF CallClose, Inv, Relies, OthersStay, OtherHandlesStay
  <2> QED
    BY <2>1, <2>2
<1>7. ASSUME NEW u \in Threads PROVE Alone(u)'
  BY <1>1, <1>2, <1>4, FirstOnHandle
<1>8. ASSUME NEW g \in Handles PROVE Holds(g)'
  BY <1>3 DEF CallClose, Inv, Holds, OtherHandlesStay
<1> QED
  BY <1>5, <1>6, <1>7, <1>8 DEF Inv

(* DirLock::acquire succeeds only while no handle holds the flock.         *)
LEMMA TakeLockKeepsInv ==
  ASSUME Inv, NEW t \in Threads, TakeLock(t)
  PROVE  Inv'
<1>1. Relies(t) /\ frame[t].op = "open" /\ frame[t].on \in Handles
  BY DEF Inv, Relies, TakeLock, OpenSteps
<1>2. OthersStay(t) /\ frame'[t].op = "open" /\ frame'[t].on = frame[t].on
                    /\ frame'[t].pc \in {"recover", "check"}
  BY <1>1, GotoKeeps DEF TakeLock, Inv
<1>3. handle' = handle /\ flock = NoHandle /\ flock' = frame[t].on
  BY DEF TakeLock, LockFree
<1>4. Fields'
  BY <1>2, <1>3 DEF Inv, Fields, OthersStay
<1>5. ASSUME NEW u \in Threads PROVE Relies(u)'
  <2>1. CASE u = t
    BY <1>1, <1>2, <1>3, <2>1 DEF Relies, OpenSteps
  <2>2. CASE u # t
    <3>1. Relies(u) /\ frame'[u] = frame[u]
      BY <1>2, <2>2 DEF Inv, OthersStay
    <3>2. frame[u].op = "open" => frame[u].pc \notin {"recover", "check", "build"}
      BY <1>3, <3>1, NoHandleIsNone DEF Relies
    <3> QED
      BY <1>3, <3>1, <3>2 DEF Relies
  <2> QED
    BY <2>1, <2>2
<1>6. ASSUME NEW u \in Threads PROVE Alone(u)'
  BY <1>1, <1>2 DEF Inv, Alone, OthersStay
<1>7. ASSUME NEW h \in Handles PROVE Holds(h)'
  BY <1>3, NoHandleIsNone DEF Inv, Holds
<1> QED
  BY <1>4, <1>5, <1>6, <1>7 DEF Inv

(* An open or a create fails: the handle it has made is no more.           *)
LEMMA FailKeepsInv ==
  ASSUME Inv, NEW t \in Threads, Fail(t), frame[t].op = "open",
         flock' = flock \/ (flock = frame[t].on /\ flock' = NoHandle)
  PROVE  Inv'
<1> DEFINE h == frame[t].on
<1>1. Relies(t) /\ Alone(t) /\ h \in Handles /\ handle[h].status = "building"
  BY DEF Inv, Relies
<1>2. OthersStay(t) /\ frame'[t] = NoCall
  BY SetFrame DEF Fail, Finish, Inv, NoCall
<1>3. OtherHandlesStay(h) /\ handle'[h].status = "unused"
  BY <1>1 DEF Fail, NoStore, Inv, Fields, OtherHandlesStay
<1>4. \A u \in Threads \ {t} : frame'[u] = frame[u] /\ frame[u].on # h
  BY <1>1, <1>2 DEF Alone, OthersStay
<1>5. Fields'
  BY <1>1, <1>2, <1>3 DEF Inv, Fields, OthersStay, OtherHandlesStay
<1>6. ASSUME NEW u \in Threads PROVE Relies(u)'
  <2>1. CASE u = t
    BY <1>2, <2>1 DEF Relies, NoCall, OpenSteps
  <2>2. CASE u # t
    BY <1>3, <1>4, <2>2 DEF Inv, Relies, OtherHandlesStay
  <2> QED
    BY <2>1, <2>2
<1>7. ASSUME NEW u \in Threads PROVE Alone(u)'
  BY <1>2, LeavesAlone
<1>8. ASSUME NEW g \in Handles PROVE Holds(g)'
  BY <1>1, <1>3 DEF Inv, Holds, OtherHandlesStay
<1> QED
  BY <1>5, <1>6, <1>7, <1>8 DEF Inv

(* An open or a create succeeds.                                           *)
LEMMA OpenedKeepsInv ==
  ASSUME Inv, NEW t \in Threads, NEW g, NEW n, Opened(t, g, n),
         frame[t].pc \in {"recover", "build"}, flock' = flock
  PROVE  Inv'
<1> DEFINE h == frame[t].on
<1>1. /\ Relies(t) /\ Alone(t) /\ frame[t].op = "open" /\ h \in Handles
      /\ handle[h].status = "building" /\ flock = h
  BY DEF Inv, Relies, OpenSteps
<1>2. OthersStay(t) /\ frame'[t] = NoCall
  BY SetFrame DEF Opened, Finish, Inv, NoCall
<1>3. OtherHandlesStay(h) /\ handle'[h].status = "open"
  BY <1>1 DEF Opened, Inv, Fields, OtherHandlesStay
<1>4. \A u \in Threads \ {t} : frame'[u] = frame[u] /\ frame[u].on # h
  BY <1>1, <1>2 DEF Alone, OthersStay
<1>5. Fields'
  BY <1>1, <1>2, <1>3 DEF Inv, Fields, OthersStay, OtherHandlesStay
<1>6. ASSUME NEW u \in Threads PROVE Relies(u)'
  <2>1. CASE u = t
    BY <1>2, <2>1 DEF Relies, NoCall, OpenSteps
  <2>2. CASE u # t
    BY <1>3, <1>4, <2>2 DEF Inv, Relies, OtherHandlesStay
  <2> QED
    BY <2>1, <2>2
<1>7. ASSUME NEW u \in Threads PROVE Alone(u)'
  BY <1>2, LeavesAlone
<1>8. ASSUME NEW k \in Handles PROVE Holds(k)'
  BY <1>1, <1>3 DEF Inv, Holds, OtherHandlesStay
<1> QED
  BY <1>5, <1>6, <1>7, <1>8 DEF Inv

(* Building the files leaves flock and handles alone.                      *)
LEMMA BuildFilesKeepsInv ==
  ASSUME Inv, NEW t \in Threads, BuildFiles(t)
  PROVE  Inv'
<1>1. /\ OthersStay(t) /\ frame'[t].op = frame[t].op
      /\ frame'[t].on = frame[t].on /\ frame'[t].pc = "build"
  BY GotoKeeps DEF BuildFiles, Inv
<1>2. handle' = handle /\ flock' = flock /\ frame[t].pc = "check"
  BY DEF BuildFiles
<1>3. Fields'
  BY <1>1, <1>2 DEF Inv, Fields, OthersStay
<1>4. ASSUME NEW u \in Threads PROVE Relies(u)'
  <2>1. CASE u = t
    BY <1>1, <1>2, <2>1 DEF Inv, Relies, OpenSteps
  <2>2. CASE u # t
    BY <1>1, <1>2, <2>2 DEF Inv, Relies, OthersStay
  <2> QED
    BY <2>1, <2>2
<1>5. ASSUME NEW u \in Threads PROVE Alone(u)'
  BY <1>1 DEF Inv, Alone, OthersStay
<1>6. ASSUME NEW g \in Handles PROVE Holds(g)'
  BY <1>2 DEF Inv, Holds
<1> QED
  BY <1>3, <1>4, <1>5, <1>6 DEF Inv

(* A dropped store leaves its handle, and nothing else, behind.            *)
LEMMA Dropped ==
  ASSUME NEW hs, DropStores(hs)
  PROVE  /\ DOMAIN handle' = Handles
         /\ \A h \in Handles \ hs : handle'[h] = handle[h]
         /\ \A h \in Handles \cap hs :
              /\ {"status", "owner"} \subseteq DOMAIN handle'[h]
              /\ handle'[h].status = "gone"
         /\ flock \notin hs => flock' = flock
  BY DEF DropStores, NoStore

(* The lock stays with the handles that are not dropped.                   *)
LEMMA DropKeepsHolds ==
  ASSUME Inv, NEW hs, DropStores(hs)
  PROVE  \A h \in Handles : Holds(h)'
<1> SUFFICES ASSUME NEW h \in Handles, handle'[h].status \in {"open", "closing"}
             PROVE  flock' = h
  BY DEF Holds
<1>1. h \notin hs /\ handle'[h] = handle[h]
  BY Dropped
<1>2. flock = h
  BY <1>1 DEF Inv, Holds
<1> QED
  BY <1>1, <1>2, Dropped

(* close drops the store of the handle it has to itself.                   *)
LEMMA LeaveStoreKeepsInv ==
  ASSUME Inv, NEW t \in Threads, LeaveStore(t)
  PROVE  Inv'
<1> DEFINE h == frame[t].on
<1>1. /\ Relies(t) /\ Alone(t) /\ h \in Handles
      /\ frame[t].op = "close" /\ frame[t].pc = "manifest"
  BY DEF LeaveStore, At, Inv, Relies
<1>2. /\ OthersStay(t) /\ frame'[t].op = "close"
      /\ frame'[t].on = h /\ frame'[t].pc = "return"
  BY <1>1, GotoKeeps DEF LeaveStore, Inv
<1>3. DropStores({h})
  BY DEF LeaveStore
<1>4. /\ DOMAIN handle' = Handles
      /\ \A g \in Handles \ {h} : handle'[g] = handle[g]
      /\ {"status", "owner"} \subseteq DOMAIN handle'[h]
      /\ handle'[h].status = "gone"
      /\ flock # h => flock' = flock
  BY <1>1, <1>3, Dropped
<1>5. Fields'
  BY <1>2, <1>4 DEF Inv, Fields, OthersStay
<1>6. ASSUME NEW u \in Threads PROVE Relies(u)'
  <2>1. CASE u = t
    BY <1>1, <1>2, <1>4, <2>1 DEF Relies, OpenSteps
  <2>2. CASE u # t
    <3>1. frame'[u] = frame[u] /\ frame[u].on # h /\ Relies(u)
      BY <1>1, <1>2, <2>2 DEF Alone, OthersStay, Inv
    <3> QED
      BY <1>4, <3>1 DEF Relies
  <2> QED
    BY <2>1, <2>2
<1>7. ASSUME NEW u \in Threads PROVE Alone(u)'
  BY <1>1, <1>2 DEF Inv, Alone, OthersStay
<1> QED
  BY <1>3, <1>5, <1>6, <1>7, DropKeepsHolds DEF Inv

(* An object is dropped when nobody is inside one of its methods.          *)
LEMMA DropObjectKeepsInv ==
  ASSUME Inv, NEW h \in Handles, DropObject(h)
  PROVE  Inv'
<1>1. DropStores({h}) /\ frame' = frame /\ \A u \in Threads : frame[u].on # h
  BY DEF DropObject, Unborrowed, Borrowers
<1>2. /\ DOMAIN handle' = Handles
      /\ \A g \in Handles \ {h} : handle'[g] = handle[g]
      /\ {"status", "owner"} \subseteq DOMAIN handle'[h]
      /\ flock # h => flock' = flock
  BY <1>1, Dropped
<1>3. Fields'
  BY <1>1, <1>2 DEF Inv, Fields
<1>4. ASSUME NEW u \in Threads PROVE Relies(u)'
  BY <1>1, <1>2 DEF Inv, Relies
<1>5. ASSUME NEW u \in Threads PROVE Alone(u)'
  BY <1>1 DEF Inv, Alone
<1> QED
  BY <1>1, <1>3, <1>4, <1>5, DropKeepsHolds DEF Inv

(* A dying process takes its threads and their stores with it.             *)
LEMMA KillKeepsInv ==
  ASSUME Inv, NEW p \in Processes, Kill(p)
  PROVE  Inv'
<1>1. /\ DropStores(Alive(p))
      /\ frame' = [t \in Threads |-> IF ProcessOf[t] = p THEN NoCall ELSE frame[t]]
  BY DEF Kill
<1>2. /\ DOMAIN handle' = Handles
      /\ \A g \in Handles \ Alive(p) : handle'[g] = handle[g]
      /\ \A g \in Handles \cap Alive(p) :
           /\ {"status", "owner"} \subseteq DOMAIN handle'[g]
           /\ handle'[g].status = "gone"
      /\ flock \notin Alive(p) => flock' = flock
  BY <1>1, Dropped
<1>3. Fields'
  BY <1>1, <1>2 DEF Inv, Fields, NoCall
<1>4. ASSUME NEW u \in Threads PROVE Relies(u)'
  <2>1. CASE ProcessOf[u] = p
    BY <1>1, <2>1 DEF Relies, NoCall, OpenSteps
  <2>2. CASE ProcessOf[u] # p
    <3>1. frame'[u] = frame[u] /\ Relies(u)
      BY <1>1, <2>2 DEF Inv
    <3>2. CASE frame[u].op = "close" /\ frame[u].pc = "return"
      BY <1>2, <3>1, <3>2 DEF Relies, OpenSteps
    <3>3. CASE ~ (frame[u].op = "close" /\ frame[u].pc = "return")
      <4>1. frame[u].op # "none" =>
              /\ frame[u].on \notin Alive(p)
              /\ handle'[frame[u].on] = handle[frame[u].on]
        BY <1>2, <2>2, <3>1, <3>3 DEF Relies, Alive
      <4> QED
        BY <1>2, <3>1, <3>3, <4>1 DEF Relies
    <3> QED
      BY <3>2, <3>3
  <2> QED
    BY <2>1, <2>2
<1>5. ASSUME NEW u \in Threads PROVE Alone(u)'
  <2> SUFFICES ASSUME frame'[u].op \in {"open", "close"}, NEW v \in Threads,
                      frame'[v].on = frame'[u].on
               PROVE  v = u
    BY DEF Alone
  <2>1. frame'[u] = frame[u] /\ frame[u].on \in Handles
    BY <1>1 DEF NoCall, Inv, Relies
  <2>2. frame'[v] = frame[v]
    BY <1>1, <2>1, NoHandleIsNone DEF NoCall
  <2> QED
    BY <2>1, <2>2 DEF Inv, Alone
<1> QED
  BY <1>1, <1>3, <1>4, <1>5, DropKeepsHolds DEF Inv

(***************************************************************************)
(* Every step.                                                             *)
(***************************************************************************)
LEMMA SameStatus ==
  ASSUME Inv, flock' = flock, handle' = handle
  PROVE  SameHandles
  BY DEF Inv, Fields, SameHandles

(* What changes neither flock, handles nor frames keeps the invariant.     *)
LEMMA StaysPut ==
  ASSUME Inv, flock' = flock, handle' = handle, frame' = frame
  PROVE  Inv'
<1>1. Fields'
  BY DEF Inv, Fields
<1>2. ASSUME NEW u \in Threads PROVE Relies(u)' /\ Alone(u)'
  BY DEF Inv, Relies, Alone
<1>3. ASSUME NEW h \in Handles PROVE Holds(h)'
  BY DEF Inv, Holds
<1> QED
  BY <1>1, <1>2, <1>3 DEF Inv

(* A call whose step is a Goto goes on.                                    *)
LEMMA GoesOn ==
  ASSUME Inv, NEW t \in Threads, NEW pc, Goto(t, pc), SameHandles,
         frame[t].op \notin {"none", "open"},
         pc \notin OpenSteps \cup {"idle"},
         frame[t].op = "close" => frame[t].pc # "return" /\ pc # "return"
  PROVE  Inv'
<1>1. /\ OthersStay(t)
      /\ frame'[t].pc = pc /\ frame'[t].op = frame[t].op
      /\ frame'[t].on = frame[t].on
  BY GotoKeeps DEF Inv
<1> QED
  BY <1>1, MovesOn

(* Calls on a store: Write, CallRead and CallKnob.                         *)
LEMMA CallKeepsInv ==
  ASSUME Inv, NEW t \in Threads, NEW h \in Handles, Calling(t), Callable(t, h),
         NEW f, {"pc", "op", "on"} \subseteq DOMAIN f, f.on = h,
         f.op \notin {"none", "open", "close"}, f.pc \notin OpenSteps \cup {"idle"},
         frame' = [frame EXCEPT ![t] = f], flock' = flock, handle' = handle
  PROVE  Inv'
<1>1. OthersStay(t) /\ frame'[t] = f
  BY SetFrame DEF Inv
<1>2. frame[t].pc = "idle"
  BY DEF Calling
<1> QED
  BY <1>1, <1>2, SameStatus, Begins

(* apply, flush and compact begin as borrowers of their handle.            *)
LEMMA WriteKeepsInv ==
  ASSUME Inv, NEW t \in Threads, NEW h \in Handles, NEW e,
         NEW name \in {"apply", "flush", "compact"}, Write(t, h, name, e)
  PROVE  Inv'
<1> DEFINE f == [NoCall EXCEPT !.op = name, !.pc = "wait", !.on = h, !.expected = e]
<1>1. /\ {"pc", "op", "on"} \subseteq DOMAIN f
      /\ f.on = h /\ f.op = name /\ f.pc = "wait"
  BY DEF NoCall
<1>2. frame' = [frame EXCEPT ![t] = f]
  BY DEF Write
<1> HIDE DEF f
<1>3. f.op \notin {"none", "open", "close"} /\ f.pc \notin OpenSteps \cup {"idle"}
  BY <1>1 DEF OpenSteps
<1>4. Calling(t) /\ Callable(t, h) /\ flock' = flock /\ handle' = handle
  BY DEF Write
<1> QED
  BY <1>1, <1>2, <1>3, <1>4, CallKeepsInv

(* Every call begins well.                                                 *)
LEMMA CallStep ==
  ASSUME Inv, NEW t \in Threads, Call(t)
  PROVE  Inv'
<1>1. ASSUME NEW create \in BOOLEAN, CallOpen(t, create) PROVE Inv'
  BY <1>1, BeginKeepsInv DEF CallOpen, Calling
<1>2. ASSUME CallCreate(t) PROVE Inv'
  BY <1>2, BeginKeepsInv DEF CallCreate, Calling
<1>3. ASSUME NEW h \in Handles, ReadSeq(t, h) PROVE Inv'
  BY <1>3, StaysPut DEF ReadSeq
<1>4. ASSUME NEW h \in Handles, CallApply(t, h) PROVE Inv'
  BY <1>4, WriteKeepsInv DEF CallApply
<1>5. ASSUME NEW h \in Handles, CallFlush(t, h) \/ CallCompact(t, h) PROVE Inv'
  BY <1>5, WriteKeepsInv DEF CallFlush, CallCompact
<1>6. ASSUME NEW h \in Handles, CallRead(t, h) PROVE Inv'
  <2> DEFINE f == [NoCall EXCEPT !.op = "read", !.pc = "base", !.on = h,
                     !.view = handle[h].state, !.floor = LastReturned(h)]
  <2>1. /\ {"pc", "op", "on"} \subseteq DOMAIN f
        /\ f.on = h /\ f.op = "read" /\ f.pc = "base"
    BY DEF NoCall
  <2>2. frame' = [frame EXCEPT ![t] = f]
    BY <1>6 DEF CallRead
  <2> HIDE DEF f
  <2>3. f.op \notin {"none", "open", "close"} /\ f.pc \notin OpenSteps \cup {"idle"}
    BY <2>1 DEF OpenSteps
  <2>4. Calling(t) /\ Callable(t, h) /\ flock' = flock /\ handle' = handle
    BY <1>6 DEF CallRead
  <2> QED
    BY <2>1, <2>2, <2>3, <2>4, CallKeepsInv
<1>7. ASSUME NEW h \in Handles, CallKnob(t, h) PROVE Inv'
  <2> DEFINE f == [NoCall EXCEPT !.op = "knob", !.pc = "knob", !.on = h]
  <2>1. /\ {"pc", "op", "on"} \subseteq DOMAIN f
        /\ f.on = h /\ f.op = "knob" /\ f.pc = "knob"
    BY DEF NoCall
  <2>2. frame' = [frame EXCEPT ![t] = f]
    BY <1>7 DEF CallKnob
  <2> HIDE DEF f
  <2>3. f.op \notin {"none", "open", "close"} /\ f.pc \notin OpenSteps \cup {"idle"}
    BY <2>1 DEF OpenSteps
  <2>4. Calling(t) /\ Callable(t, h) /\ flock' = flock /\ handle' = handle
    BY <1>7 DEF CallKnob
  <2> QED
    BY <2>1, <2>2, <2>3, <2>4, CallKeepsInv
<1>8. ASSUME NEW h \in Handles, CallClose(t, h) PROVE Inv'
  BY <1>8, CallCloseKeepsInv
<1> QED
  BY <1>1, <1>2, <1>3, <1>4, <1>5, <1>6, <1>7, <1>8 DEF Call

(* Every step inside a call keeps the invariant.                           *)
LEMMA ContinueStep ==
  ASSUME Inv, NEW t \in Threads, Continue(t)
  PROVE  Inv'
<1>1. Relies(t) /\ Fields
  BY DEF Inv
<1>2. ASSUME Lock(t) PROVE Inv'
  <2>1. SameHandles
    BY <1>1, <1>2 DEF Lock, Fields, SameHandles
  <2> QED
    BY <1>1, <1>2, <2>1, GoesOn DEF Lock, Relies, OpenSteps
<1>3. ASSUME SetPolicy(t) PROVE Inv'
  <2>1. SameHandles
    BY <1>1, <1>3 DEF SetPolicy, Fields, SameHandles
  <2>2. OthersStay(t) /\ frame'[t] = NoCall
    BY <1>1, <1>3, SetFrame DEF SetPolicy, Finish, NoCall
  <2> QED
    BY <2>1, <2>2, Ends
<1>4. ASSUME RefuseBatch(t) PROVE Inv'
  BY <1>4, SameStatus, GoesOn DEF RefuseBatch, At, OpenSteps
<1>5. ASSUME AppendBatch(t) PROVE Inv'
  <2>1. SameHandles
    BY <1>5, SameStatus DEF AppendBatch
  <2>2. /\ OthersStay(t) /\ frame'[t].op = "apply" /\ frame'[t].on = frame[t].on
        /\ frame'[t].pc = "publish"
    BY <1>1, <1>5 DEF AppendBatch, At, Fields, OthersStay
  <2> QED
    BY <1>5, <2>1, <2>2, MovesOn DEF AppendBatch, At, OpenSteps
<1>6. ASSUME Publish(t) PROVE Inv'
  <2>1. SameHandles
    BY <1>1, <1>6 DEF Publish, Fields, SameHandles
  <2>2. \/ Goto(t, "fold") \/ Goto(t, "unlock")
    BY <1>6 DEF Publish
  <2> QED
    BY <1>6, <2>1, <2>2, GoesOn DEF Publish, At, OpenSteps
<1>7. ASSUME Fold(t) PROVE Inv'
  <2>1. SameHandles
    BY <1>1, <1>7 DEF Fold, Fields, SameHandles
  <2> QED
    BY <1>7, <2>1, GoesOn DEF Fold, At, OpenSteps
<1>8. ASSUME Commit(t) PROVE Inv'
  BY <1>8, SameStatus, GoesOn DEF Commit, At, OpenSteps
<1>9. ASSUME Release(t) PROVE Inv'
  <2>1. SameHandles
    BY <1>1, <1>9 DEF Release, Unlock, Fields, SameHandles
  <2> QED
    BY <1>1, <1>9, <2>1, GoesOn DEF Release, Relies, OpenSteps
<1>10. ASSUME LeaveStore(t) PROVE Inv'
  BY <1>10, LeaveStoreKeepsInv
<1>11. ASSUME ReadBase(t) PROVE Inv'
  <2>1. SameHandles
    BY <1>11, SameStatus DEF ReadBase
  <2>2. /\ OthersStay(t) /\ frame'[t].op = "read" /\ frame'[t].on = frame[t].on
        /\ frame'[t].pc = "delta"
    BY <1>1, <1>11 DEF ReadBase, At, Fields, OthersStay
  <2> QED
    BY <1>11, <2>1, <2>2, MovesOn DEF ReadBase, At, OpenSteps
<1>12. ASSUME ReadDelta(t) PROVE Inv'
  <2>1. SameHandles
    BY <1>12, SameStatus DEF ReadDelta
  <2>2. /\ OthersStay(t) /\ frame'[t].op = "read" /\ frame'[t].on = frame[t].on
        /\ frame'[t].pc = "return"
    BY <1>1, <1>12 DEF ReadDelta, At, Fields, OthersStay
  <2> QED
    BY <1>12, <2>1, <2>2, MovesOn DEF ReadDelta, At, OpenSteps
<1>13. ASSUME Return(t) PROVE Inv'
  <2>1. OthersStay(t) /\ frame'[t] = NoCall
    BY <1>1, <1>13, SetFrame DEF Return, Finish, NoCall
  <2>2. SameHandles
    BY <1>13, SameStatus DEF Return
  <2> QED
    BY <2>1, <2>2, Ends
<1>14. ASSUME TakeLock(t) PROVE Inv'
  BY <1>14, TakeLockKeepsInv
<1>15. ASSUME LockHeld(t) PROVE Inv'
  BY <1>1, <1>15, FailKeepsInv DEF LockHeld, Relies, OpenSteps
<1>16. ASSUME Recover(t) PROVE Inv'
  BY <1>16, OpenedKeepsInv DEF Recover
<1>17. ASSUME RefuseToClobber(t) PROVE Inv'
  BY <1>1, <1>17, FailKeepsInv DEF RefuseToClobber, Relies, OpenSteps
<1>18. ASSUME BuildFiles(t) PROVE Inv'
  BY <1>18, BuildFilesKeepsInv
<1>19. ASSUME WriteManifest(t) PROVE Inv'
  BY <1>19, OpenedKeepsInv DEF WriteManifest
<1> QED
  BY <1>2, <1>3, <1>4, <1>5, <1>6, <1>7, <1>8, <1>9, <1>10, <1>11, <1>12, <1>13,
     <1>14, <1>15, <1>16, <1>17, <1>18, <1>19 DEF Continue

(* So does every step.                                                     *)
LEMMA NextInv == Inv /\ [Next]_vars => Inv'
<1> SUFFICES ASSUME Inv, [Next]_vars PROVE Inv'
  OBVIOUS
<1>1. CASE UNCHANGED vars
  BY <1>1, StaysPut DEF vars
<1>2. ASSUME NEW t \in Threads, Call(t) \/ Continue(t) PROVE Inv'
  BY <1>2, CallStep, ContinueStep
<1>3. ASSUME NEW h \in Handles, DropObject(h) PROVE Inv'
  BY <1>3, DropObjectKeepsInv
<1>4. ASSUME NEW p \in Processes, Kill(p) PROVE Inv'
  BY <1>4, KillKeepsInv
<1> QED
  BY <1>1, <1>2, <1>3, <1>4 DEF Next

(* Whoever works on a store or its files holds the flock of its own        *)
(* handle, which open_with and create_with have acquired before they touch *)
(* the directory and which only the drop of the store releases; and no     *)
(* method but close meets a store that a close has taken.                  *)
THEOREM OneStorePerDirectory == Spec => []OneStore
<1>1. Spec => []Inv
  BY InitInv, NextInv, PTL DEF Spec
<1> QED
  BY <1>1, InvGivesOneStore, PTL

(***************************************************************************)
(* The data, on top of Inv.                                                *)
(***************************************************************************)

Guarded == {"held", "publish", "fold", "unlock"}

(* Between lock and unlock the writer mutex is the thread's own.           *)
Guards(t) == frame[t].pc \in Guarded => handle[frame[t].on].mutex = t

BatchOf(t) == [by |-> t, expected |-> frame[t].expected]

(* The n-th batch of g is b, and b may be there.                           *)
Named(g, n, b) == n \in DOMAIN g /\ g[n] = b /\ b.expected \subseteq {n - 1}

(* The clone apply works on: the log and one batch more until it is        *)
(* published, from then on a graph that the log names its last batch of.   *)
Drafts(t) ==
  LET f == frame[t] g == handle[f.on].log IN
  /\ f.pc = "publish" => /\ f.op = "apply" /\ f.draft = Append(g, BatchOf(t))
                         /\ f.expected \subseteq {Len(g)}
  /\ f.draft # << >> => /\ f.op = "apply"
                        /\ f.pc \in {"publish", "fold", "unlock", "return"}
                        /\ f.pc # "publish" => Named(g, Len(f.draft), BatchOf(t))

(* What readers load is the log, cut in two.                               *)
Halves(h) ==
  LET r == handle[h] n == Len(r.state.base) IN
  n <= Len(r.log) /\ r.state = GraphState(r.log, n)

Data ==
  /\ TypeOK
  /\ \E b \in Nat : \A r \in accepted : r.seq <= b
  /\ disk.folded <= Len(disk.stored)
  /\ \A h \in Handles : Halves(h)
  /\ \A t \in Threads : Guards(t) /\ Drafts(t)

(* g is a first part of k.                                                 *)
FirstPart(g, k) == Len(g) <= Len(k) /\ \A i \in 1..Len(g) : g[i] = k[i]

Reads(t) ==
  LET f == frame[t] v == f.view IN
  f.op = "read" =>
    /\ f.pc \in {"base", "delta", "return"}
    /\ f.floor <= SeqOf(v) /\ FirstPart(v.base \o v.delta, handle[f.on].log)
    /\ f.pc = "delta" => f.seen = v.base
    /\ f.pc = "return" => f.seen = v.base \o v.delta

Opening(t) ==
  /\ frame[t].pc \in {"open", "recover"} => disk.manifest
  /\ frame[t].pc = "build" => ~ disk.manifest

Owned(h) == handle[h].status \in {"open", "closing"}

Accepted(r) ==
  /\ Owned(r.on)
  /\ Named(handle[r.on].log, r.seq, [by |-> r.by, expected |-> r.expected])

(* What the marker covers, the log has or is about to get.                 *)
Covered(h) ==
  Owned(h) =>
    \/ FirstPart(disk.stored, handle[h].log)
    \/ \E t \in Threads : /\ frame[t].pc = "publish" /\ frame[t].on = h
                          /\ FirstPart(disk.stored, frame[t].draft)

Safe ==
  /\ \A t \in Threads : Reads(t) /\ Opening(t)
  /\ \A r \in accepted : Accepted(r)
  /\ \A h \in Handles : Covered(h) /\ (Owned(h) => disk.manifest)
  /\ ~ disk.manifest => disk.stored = << >>

(***************************************************************************)
(* Graphs.                                                                 *)
(***************************************************************************)
(* A graph cut in two gives its two parts, of which it is the whole.       *)
LEMMA SplitType ==
  ASSUME NEW g \in Graphs, NEW n \in 0..Len(g)
  PROVE  /\ GraphState(g, n) \in GraphStates
         /\ Len(GraphState(g, n).base) = n
         /\ Len(GraphState(g, n).delta) = Len(g) - n
         /\ GraphState(g, n).base \o GraphState(g, n).delta = g
<1> DEFINE b == SubSeq(g, 1, n)
           d == SubSeq(g, n + 1, Len(g))
<1>1. Len(g) \in Nat /\ \A i \in 1..Len(g) : g[i] \in Batches
  BY LenProperties, ElementOfSeq DEF Graphs
<1>2. b \in Graphs /\ Len(b) = n /\ \A i \in 1..n : b[i] = g[i]
  <2>1. 1 \in Int /\ n \in Int /\ \A i \in 1..n : g[i] \in Batches
    BY <1>1
  <2>2. /\ b \in Graphs /\ Len(b) = IF 1 <= n THEN n - 1 + 1 ELSE 0
        /\ \A i \in 1..(n - 1 + 1) : b[i] = g[1 + i - 1]
    BY <2>1, SubSeqProperties DEF Graphs
  <2> HIDE DEF b
  <2> QED
    BY <2>2
<1>3. /\ d \in Graphs /\ Len(d) = Len(g) - n
      /\ \A i \in 1..(Len(g) - n) : d[i] = g[n + i]
  <2>1. \A i \in (n + 1)..Len(g) : g[i] \in Batches
    BY <1>1
  <2>2. n + 1 \in Int /\ Len(g) \in Int
    BY <1>1
  <2>3. /\ d \in Graphs
        /\ Len(d) = IF n + 1 <= Len(g) THEN Len(g) - (n + 1) + 1 ELSE 0
        /\ \A i \in 1..(Len(g) - (n + 1) + 1) : d[i] = g[(n + 1) + i - 1]
    BY <2>1, <2>2, SubSeqProperties DEF Graphs
  <2> HIDE DEF d
  <2> QED
    BY <1>1, <2>3
<1>4. b \o d = g
  <2> HIDE DEF b, d
  <2>1. /\ b \o d \in Graphs /\ Len(b \o d) = Len(b) + Len(d)
        /\ \A i \in 1..(Len(b) + Len(d)) :
             (b \o d)[i] = IF i <= Len(b) THEN b[i] ELSE d[i - Len(b)]
    BY <1>2, <1>3, ConcatProperties, Zenon DEF Graphs
  <2> DEFINE c == b \o d
  <2> HIDE DEF c
  <2>2. Len(c) = Len(g)
    BY <1>1, <1>2, <1>3, <2>1 DEF c
  <2>3. ASSUME NEW i \in 1..Len(g) PROVE c[i] = g[i]
    <3>1. c[i] = IF i <= Len(b) THEN b[i] ELSE d[i - Len(b)]
      BY <1>1, <1>2, <1>3, <2>1 DEF c
    <3>2. CASE i <= n
      BY <1>1, <1>2, <3>1, <3>2
    <3>3. CASE ~ i <= n
      <4>1. i - n \in 1..(Len(g) - n) /\ n + (i - n) = i
        BY <1>1, <3>3
      <4>2. d[i - n] = g[n + (i - n)]
        BY <1>3, <4>1
      <4> QED
        BY <1>2, <3>1, <3>3, <4>1, <4>2
    <3> QED
      BY <3>2, <3>3
  <2>4. c \in Graphs /\ Len(c) = Len(g) /\ \A i \in 1..Len(c) : c[i] = g[i]
    BY <2>1, <2>2, <2>3 DEF c
  <2>5. c = g
    BY <2>4, SeqEqual, Zenon DEF Graphs
  <2> QED
    BY <2>5 DEF c
<1>5. GraphState(g, n) = [base |-> b, delta |-> d]
  BY DEF GraphState
<1> HIDE DEF b, d
<1>6. GraphState(g, n) \in GraphStates
  BY <1>2, <1>3, <1>5 DEF GraphStates
<1>7. GraphState(g, n).base = b /\ GraphState(g, n).delta = d
  BY <1>5
<1> QED
  BY <1>2, <1>3, <1>4, <1>6, <1>7, Zenon

(* The state before the first batch.                                       *)
LEMMA EmptyStateType ==
  /\ << >> \in Graphs /\ EmptyState \in GraphStates
  /\ Len(EmptyState.base) = 0 /\ SeqOf(EmptyState) = 0
<1>1. << >> \in Graphs /\ Len(<< >>) = 0
  BY EmptySeq DEF Graphs
<1>2. /\ EmptyState \in GraphStates /\ Len(EmptyState.base) = 0
      /\ Len(EmptyState.delta) = 0
  <2> DEFINE g == << >>
  <2>1. g \in Graphs /\ 0 \in 0..Len(g) /\ Len(g) = 0
    BY <1>1
  <2>2. EmptyState = GraphState(g, 0)
    BY DEF EmptyState
  <2> HIDE DEF g
  <2>3. /\ GraphState(g, 0) \in GraphStates /\ Len(GraphState(g, 0).base) = 0
        /\ Len(GraphState(g, 0).delta) = Len(g) - 0
    BY <2>1, SplitType
  <2> QED
    BY <2>1, <2>2, <2>3
<1> QED
  BY <1>1, <1>2 DEF SeqOf

(* The seq of a state is the length of its two halves together.            *)
LEMMA SeqOfType ==
  ASSUME NEW s \in GraphStates
  PROVE  /\ SeqOf(s) \in Nat /\ s.base \in Graphs /\ s.delta \in Graphs
         /\ s.base \o s.delta \in Graphs /\ Len(s.base \o s.delta) = SeqOf(s)
<1>1. s.base \in Graphs /\ s.delta \in Graphs
  BY DEF GraphStates
<1>2. Len(s.base) \in Nat /\ Len(s.delta) \in Nat
  BY <1>1, LenProperties DEF Graphs
<1>3. /\ s.base \o s.delta \in Graphs
      /\ Len(s.base \o s.delta) = Len(s.base) + Len(s.delta)
  BY <1>1, ConcatProperties, Zenon DEF Graphs
<1>4. \A m, n \in Nat : m + n \in Nat
  OBVIOUS
<1>5. SeqOf(s) \in Nat /\ SeqOf(s) = Len(s.base) + Len(s.delta)
  BY <1>2, <1>4, Zenon DEF SeqOf
<1> QED
  BY <1>1, <1>3, <1>5, Zenon

(* A batch more: the graph before is a first part of the graph after.      *)
LEMMA AppendType ==
  ASSUME NEW g \in Graphs, NEW t \in Threads, NEW e \in SUBSET Nat
  PROVE  LET b == [by |-> t, expected |-> e] k == Append(g, b) IN
         /\ k \in Graphs /\ k # << >> /\ Len(k) = Len(g) + 1 /\ Len(g) \in Nat
         /\ k[Len(g) + 1] = b /\ DOMAIN k = 1..Len(k)
         /\ FirstPart(g, k)
<1> DEFINE b == [by |-> t, expected |-> e]
           k == Append(g, b)
<1>1. b \in Batches
  BY DEF Batches
<1>2. Len(g) \in Nat
  BY LenProperties DEF Graphs
<1> HIDE DEF b
<1>3. /\ k \in Graphs /\ k # << >> /\ Len(k) = Len(g) + 1
      /\ \A i \in 1..Len(g) : k[i] = g[i]
      /\ k[Len(g) + 1] = b
  BY <1>1, AppendProperties DEF Graphs
<1>4. DOMAIN k = 1..Len(k)
  BY <1>3, LenProperties DEF Graphs
<1> HIDE DEF k
<1>5. FirstPart(g, k)
  BY <1>2, <1>3 DEF FirstPart
<1> QED
  BY <1>2, <1>3, <1>4, <1>5 DEF k, b

(* First parts are ordered, and each is a SubSeq as the properties say.    *)
LEMMA FirstPartProperties ==
  ASSUME NEW g \in Graphs, NEW k \in Graphs, NEW l \in Graphs
  PROVE  /\ FirstPart(g, g)
         /\ FirstPart(<< >>, g)
         /\ FirstPart(g, k) /\ FirstPart(k, l) => FirstPart(g, l)
         /\ FirstPart(g, k) => \E n \in 0..Len(k) : g = SubSeq(k, 1, n)
<1>1. /\ Len(g) \in Nat /\ Len(k) \in Nat /\ Len(l) \in Nat /\ Len(<< >>) = 0
      /\ \A i \in 1..Len(k) : k[i] \in Batches
  BY LenProperties, ElementOfSeq DEF Graphs
<1>2. ASSUME FirstPart(g, k) PROVE \E n \in 0..Len(k) : g = SubSeq(k, 1, n)
  <2> DEFINE n == Len(g)
             s == SubSeq(k, 1, n)
  <2>1. n \in 0..Len(k) /\ \A i \in 1..n : k[i] \in Batches /\ g[i] = k[i]
    BY <1>1, <1>2 DEF FirstPart
  <2>2. /\ s \in Graphs /\ Len(s) = IF 1 <= n THEN n - 1 + 1 ELSE 0
        /\ \A i \in 1..(n - 1 + 1) : s[i] = k[1 + i - 1]
    <3>1. 1 \in Int /\ n \in Int /\ \A i \in 1..n : k[i] \in Batches
      BY <2>1
    <3> QED
      BY <3>1, SubSeqProperties DEF Graphs
  <2>3. Len(s) = Len(g) /\ \A i \in 1..Len(g) : g[i] = s[i]
    <3> HIDE DEF s
    <3> QED
      BY <1>1, <2>1, <2>2
  <2>4. g = s
    BY <2>2, <2>3, SeqEqual DEF Graphs
  <2> QED
    BY <2>1, <2>4
<1> QED
  BY <1>1, <1>2 DEF FirstPart

(* What the log names, it names for as long as it only grows.              *)
LEMMA NamedStays ==
  ASSUME NEW g \in Graphs, NEW k \in Graphs, FirstPart(g, k), NEW n, NEW b,
         Named(g, n, b)
  PROVE  Named(k, n, b)
  BY LenProperties DEF Graphs, Named, FirstPart

(* The batch appended to a graph is the last that the graph names.         *)
LEMMA AppendNames ==
  ASSUME NEW g \in Graphs, NEW t \in Threads, NEW e \in SUBSET Nat,
         e \subseteq {Len(g)}
  PROVE  LET b == [by |-> t, expected |-> e] IN
         Named(Append(g, b), Len(Append(g, b)), b)
  BY AppendType DEF Named

(* A set of numbers with a bound has a greatest one.                       *)
LEMMA GreatestExists ==
  ASSUME NEW S \in SUBSET Nat, S # {}, NEW b \in Nat, \A m \in S : m <= b
  PROVE  \E n \in S : \A m \in S : m <= n
<1> DEFINE Bounds == {n \in Nat : \A m \in S : m <= n}
<1>1. b \in Bounds /\ Bounds \subseteq Nat
  OBVIOUS
<1>2. PICK n \in Bounds : \A k \in Bounds : ~ (<<k, n>> \in OpToRel(<, Nat))
  <2> HIDE DEF Bounds
  <2> QED
    BY <1>1, NatLessThanWellFounded, WFMin, Zenon
<1>3. n \in Nat /\ (\A m \in S : m <= n) /\ \A k \in Bounds : ~ (k < n)
  BY <1>1, <1>2 DEF OpToRel
<1>4. CASE n \in S
  BY <1>3, <1>4
<1>5. CASE n \notin S
  <2>1. PICK m \in S : TRUE
    OBVIOUS
  <2>2. n # 0
    BY <1>3, <1>5, <2>1
  <2>3. n - 1 \in Nat /\ \A k \in S : k <= n - 1
    BY <1>3, <1>5, <2>2
  <2> QED
    BY <1>3, <2>3
<1> QED
  BY <1>4, <1>5

(***************************************************************************)
(* Types.                                                                  *)
(***************************************************************************)
Statuses == {"unused", "building", "open", "closing", "gone"}

(* The record of a handle without a store.                                 *)
LEMMA NoStoreType ==
  ASSUME NEW s \in Statuses
  PROVE  NoStore(s) \in HandleRecords
  BY EmptyStateType DEF NoStore, HandleRecords, Statuses

(* The frame of a thread that is in no call.                               *)
LEMMA NoCallType == NoCall \in Frames
  BY EmptyStateType DEF NoCall, Frames, Steps, Ops

(* A record in the place of another keeps the type of them all.            *)
LEMMA ModType ==
  ASSUME TypeOK, NEW h \in Handles, NEW r \in HandleRecords,
         handle' = [handle EXCEPT ![h] = r]
  PROVE  handle' \in [Handles -> HandleRecords]
  BY DEF TypeOK

(* A frame in the place of another keeps the type of them all.             *)
LEMMA FrameType ==
  ASSUME TypeOK, NEW t \in Threads, NEW f \in Frames,
         frame' = [frame EXCEPT ![t] = f]
  PROVE  frame' \in [Threads -> Frames]
  BY DEF TypeOK

(* The next step of a call is a frame.                                     *)
LEMMA GotoType ==
  ASSUME TypeOK, NEW t \in Threads, NEW pc \in Steps, Goto(t, pc)
  PROVE  frame' \in [Threads -> Frames]
<1>1. frame[t] \in Frames
  BY DEF TypeOK
<1>2. [frame[t] EXCEPT !.pc = pc] \in Frames
  BY <1>1 DEF Frames
<1> QED
  BY <1>2, FrameType DEF Goto

(* The end of a call is a frame.                                           *)
LEMMA FinishType ==
  ASSUME TypeOK, NEW t \in Threads, Finish(t)
  PROVE  frame' \in [Threads -> Frames]
  BY NoCallType, FrameType DEF Finish

(* The GIL is taken by a thread or let go of.                              *)
LEMMA GilType ==
  ASSUME TypeOK, NEW t \in Threads, KeepGil(t) \/ DropGil(t)
  PROVE  gil' \in [Processes -> Threads \cup {None}]
  BY SessionsAssumption DEF TypeOK, KeepGil, DropGil

(* A call uses up one of those a thread may make.                          *)
LEMMA CallingType ==
  ASSUME TypeOK, NEW t \in Threads, Calling(t)
  PROVE  calls' \in [Threads -> Nat]
  BY DEF TypeOK, Calling

(* Dropped stores leave records, and accepted batches of other stores.     *)
LEMMA DropTypes ==
  ASSUME TypeOK, NEW hs, DropStores(hs)
  PROVE  /\ handle' \in [Handles -> HandleRecords]
         /\ flock' \in Handles \cup {NoHandle}
         /\ accepted' \subseteq accepted
<1>1. NoStore("gone") \in HandleRecords
  BY NoStoreType DEF Statuses
<1> QED
  BY <1>1 DEF DropStores, TypeOK

(* The last seq returned on a handle is a number.                          *)
LEMMA LastReturnedType ==
  ASSUME TypeOK, NEW b \in Nat, \A r \in accepted : r.seq <= b,
         NEW h \in Handles
  PROVE  /\ LastReturned(h) \in Nat
         /\ \/ LastReturned(h) = 0
            \/ \E r \in accepted : r.on = h /\ r.seq = LastReturned(h)
<1> DEFINE S == ReturnedOn(h)
<1>1. S \in SUBSET Nat /\ \A m \in S : m <= b
  BY DEF TypeOK, ReturnedOn
<1>2. CASE S = {}
  BY <1>2 DEF LastReturned
<1>3. CASE S # {}
  <2>1. \E n \in S : \A m \in S : m <= n
    <3> HIDE DEF S
    <3> QED
      BY <1>1, <1>3, GreatestExists
  <2>2. LastReturned(h) = CHOOSE n \in S : \A m \in S : m <= n
    BY <1>3 DEF LastReturned
  <2>3. LastReturned(h) \in S
    <3> HIDE DEF S
    <3> QED
      BY <2>1, <2>2
  <2> QED
    BY <1>1, <2>3 DEF ReturnedOn
<1> QED
  BY <1>2, <1>3

(* What open and create begin with.                                        *)
LEMMA BeginTypes ==
  ASSUME TypeOK, NEW t \in Threads, NEW pc \in {"open", "create"}, Begin(t, pc)
  PROVE  handle' \in [Handles -> HandleRecords] /\ frame' \in [Threads -> Frames]
<1>1. PICK h \in FreshHandles :
        /\ handle' = [handle EXCEPT ![h].status = "building",
                                    ![h].owner = ProcessOf[t]]
        /\ frame' = [frame EXCEPT ![t] = [NoCall EXCEPT !.op = "open",
                                                        !.pc = pc, !.on = h]]
  BY DEF Begin
<1>2. h \in Handles /\ ProcessOf[t] \in Processes
  BY SessionsAssumption DEF FreshHandles
<1>3. [handle[h] EXCEPT !.status = "building", !.owner = ProcessOf[t]]
        \in HandleRecords
  <2>1. handle[h] \in HandleRecords
    BY <1>2 DEF TypeOK
  <2> DEFINE r == [handle[h] EXCEPT !.status = "building"]
  <2>2. r \in HandleRecords
    BY <2>1 DEF HandleRecords
  <2>3. [r EXCEPT !.owner = ProcessOf[t]] \in HandleRecords
    <3> HIDE DEF r
    <3> QED
      BY <1>2, <2>2 DEF HandleRecords
  <2> QED
    BY <2>3
<1>4. handle' \in [Handles -> HandleRecords]
  <2>1. handle' = [handle EXCEPT ![h] = [handle[h] EXCEPT !.status = "building",
                                                          !.owner = ProcessOf[t]]]
    BY <1>1, <1>2 DEF TypeOK
  <2> QED
    BY <1>2, <1>3, <2>1, ModType
<1>5. [NoCall EXCEPT !.op = "open", !.pc = pc, !.on = h] \in Frames
  BY <1>2, NoCallType DEF Frames, Steps, Ops
<1> QED
  BY <1>1, <1>4, <1>5, FrameType

(* What apply, flush and compact begin with.                               *)
LEMMA WriteTypes ==
  ASSUME TypeOK, NEW t \in Threads, NEW h \in Handles, NEW e \in SUBSET Nat,
         NEW name \in {"apply", "flush", "compact"}, Write(t, h, name, e)
  PROVE  TypeOK'
<1>1. [NoCall EXCEPT !.op = name, !.pc = "wait", !.on = h, !.expected = e] \in Frames
  BY NoCallType DEF Frames, Steps, Ops
<1>2. frame' \in [Threads -> Frames] /\ calls' \in [Threads -> Nat]
  BY <1>1, FrameType, CallingType DEF Write
<1> QED
  BY <1>2 DEF TypeOK, Write

(* The record of a store that close has taken.                             *)
LEMMA ClosingType ==
  ASSUME NEW r \in HandleRecords
  PROVE  [r EXCEPT !.status = "closing"] \in HandleRecords
  BY DEF HandleRecords

(* A call keeps the types.                                                 *)
LEMMA CallTypes ==
  ASSUME Data, NEW t \in Threads, Call(t)
  PROVE  TypeOK'
<1>1. TypeOK /\ (Calling(t) => calls' \in [Threads -> Nat])
  BY CallingType DEF Data
<1>2. ASSUME NEW create \in BOOLEAN, CallOpen(t, create) PROVE TypeOK'
  <2>1. handle' \in [Handles -> HandleRecords] /\ frame' \in [Threads -> Frames]
    BY <1>1, <1>2, BeginTypes DEF CallOpen
  <2>2. gil' \in [Processes -> Threads \cup {None}]
    BY <1>1, <1>2, GilType DEF CallOpen
  <2> QED
    BY <1>1, <1>2, <2>1, <2>2 DEF CallOpen, TypeOK
<1>3. ASSUME CallCreate(t) PROVE TypeOK'
  <2>1. handle' \in [Handles -> HandleRecords] /\ frame' \in [Threads -> Frames]
    BY <1>1, <1>3, BeginTypes DEF CallCreate
  <2>2. gil' \in [Processes -> Threads \cup {None}]
    BY <1>1, <1>3, GilType DEF CallCreate
  <2> QED
    BY <1>1, <1>3, <2>1, <2>2 DEF CallCreate, TypeOK
<1>4. ASSUME NEW h \in Handles, ReadSeq(t, h) PROVE TypeOK'
  <2>1. handle[h].state \in GraphStates
    BY <1>1 DEF TypeOK, HandleRecords
  <2>2. <<h, SeqOf(handle[h].state)>> \in (Handles \cup {NoHandle}) \X Nat
    BY <2>1, SeqOfType
  <2>3. token' \in [Threads -> (Handles \cup {NoHandle}) \X Nat]
    BY <1>1, <1>4, <2>2 DEF ReadSeq, TypeOK
  <2> QED
    BY <1>1, <1>4, <2>3 DEF ReadSeq, TypeOK
<1>5. ASSUME NEW h \in Handles, CallApply(t, h) PROVE TypeOK'
  <2>1. {token[t][2]} \in SUBSET Nat
    BY <1>1 DEF TypeOK
  <2> QED
    BY <1>1, <1>5, <2>1, WriteTypes DEF CallApply
<1>6. ASSUME NEW h \in Handles, CallFlush(t, h) \/ CallCompact(t, h) PROVE TypeOK'
  BY <1>1, <1>6, WriteTypes DEF CallFlush, CallCompact
<1>7. ASSUME NEW h \in Handles, CallRead(t, h) PROVE TypeOK'
  <2>1. handle[h].state \in GraphStates
    BY <1>1 DEF TypeOK, HandleRecords
  <2>2. LastReturned(h) \in Nat
    BY <1>1, LastReturnedType DEF Data
  <2>3. [NoCall EXCEPT !.op = "read", !.pc = "base", !.on = h,
           !.view = handle[h].state, !.floor = LastReturned(h)] \in Frames
    BY <2>1, <2>2, NoCallType DEF Frames, Steps, Ops
  <2>4. frame' \in [Threads -> Frames]
    BY <1>1, <1>7, <2>3, FrameType DEF CallRead
  <2> QED
    BY <1>1, <1>7, <2>4 DEF CallRead, TypeOK
<1>8. ASSUME NEW h \in Handles, CallKnob(t, h) PROVE TypeOK'
  <2>1. [NoCall EXCEPT !.op = "knob", !.pc = "knob", !.on = h] \in Frames
    BY NoCallType DEF Frames, Steps, Ops
  <2>2. frame' \in [Threads -> Frames]
    BY <1>1, <1>8, <2>1, FrameType DEF CallKnob
  <2>3. gil' \in [Processes -> Threads \cup {None}]
    BY <1>1, <1>8, GilType DEF CallKnob
  <2> QED
    BY <1>1, <1>8, <2>2, <2>3 DEF CallKnob, TypeOK
<1>9. ASSUME NEW h \in Handles, CallClose(t, h) PROVE TypeOK'
  <2>1. [NoCall EXCEPT !.op = "close", !.pc = "wait", !.on = h] \in Frames
    BY NoCallType DEF Frames, Steps, Ops
  <2>2. frame' \in [Threads -> Frames]
    BY <1>1, <1>9, <2>1, FrameType DEF CallClose
  <2>3. handle' \in [Handles -> HandleRecords]
    <3>1. handle[h] \in HandleRecords
      BY <1>1 DEF TypeOK
    <3>2. [handle[h] EXCEPT !.status = "closing"] \in HandleRecords
      BY <3>1, ClosingType
    <3> QED
      BY <1>1, <1>9, <3>2, ModType DEF CallClose
  <2> QED
    BY <1>1, <1>9, <2>2, <2>3 DEF CallClose, TypeOK
<1> QED
  BY <1>2, <1>3, <1>4, <1>5, <1>6, <1>7, <1>8, <1>9 DEF Call

(* The call a thread is in has a handle.                                   *)
LEMMA OnHandle ==
  ASSUME Inv, Data, NEW t \in Threads, frame[t].pc # "idle"
  PROVE  /\ frame[t].on \in Handles /\ frame[t] \in Frames
         /\ handle[frame[t].on] \in HandleRecords
         /\ handle[frame[t].on].log \in Graphs
         /\ handle[frame[t].on].state \in GraphStates
<1>1. frame[t].on \in Handles
  BY DEF Inv, Relies
<1> QED
  BY <1>1 DEF Data, TypeOK, HandleRecords

(* What Publish gives the readers.                                         *)
LEMMA PublishedState ==
  ASSUME Inv, Data, NEW t \in Threads, At(t, "apply", "publish")
  PROVE  LET h == frame[t].on g == frame[t].draft
             s == GraphState(g, Len(handle[h].state.base))
         IN  /\ g \in Graphs /\ s \in GraphStates
             /\ Len(s.base) <= Len(g) /\ s = GraphState(g, Len(s.base))
             /\ FirstPart(handle[h].log, g)
<1> DEFINE h == frame[t].on
           g == frame[t].draft
           n == Len(handle[h].state.base)
<1>1. /\ h \in Handles /\ frame[t] \in Frames /\ handle[h].log \in Graphs
      /\ handle[h].state \in GraphStates
  BY OnHandle DEF At
<1>2. frame[t].expected \in SUBSET Nat /\ g \in Graphs
  BY <1>1 DEF Frames
<1>3. g = Append(handle[h].log, BatchOf(t)) /\ n <= Len(handle[h].log)
  BY <1>1 DEF Data, Drafts, Halves, At
<1>4. Len(g) = Len(handle[h].log) + 1 /\ FirstPart(handle[h].log, g)
  BY <1>1, <1>2, <1>3, AppendType DEF BatchOf
<1>5. n \in Nat /\ Len(handle[h].log) \in Nat
  BY <1>1, LenProperties DEF GraphStates, Graphs
<1> HIDE DEF n, h, g
<1>6. n \in 0..Len(g)
  <2>1. n <= Len(handle[h].log) /\ Len(g) = Len(handle[h].log) + 1
    BY <1>3, <1>4
  <2> HIDE DEF n
  <2> QED
    BY <1>5, <2>1
<1>7. GraphState(g, n) \in GraphStates /\ Len(GraphState(g, n).base) = n
  BY <1>2, <1>6, SplitType
<1>8. n <= Len(g)
  BY <1>4, <1>6
<1>9. Len(GraphState(g, n).base) <= Len(g)
  BY <1>7, <1>8
<1>10. GraphState(g, n) = GraphState(g, Len(GraphState(g, n).base))
  BY <1>7
<1> QED
  BY <1>2, <1>4, <1>7, <1>9, <1>10, Zenon DEF n, h, g

(* The mutex is taken or let go of.                                        *)
LEMMA UnlockType ==
  ASSUME TypeOK, NEW t \in Threads, frame[t].on \in Handles,
         NEW m \in Threads \cup {None},
         handle' = [handle EXCEPT ![frame[t].on].mutex = m]
  PROVE  handle' \in [Handles -> HandleRecords]
<1>1. handle[frame[t].on] \in HandleRecords
  BY DEF TypeOK
<1>2. [handle[frame[t].on] EXCEPT !.mutex = m] \in HandleRecords
  BY <1>1 DEF HandleRecords
<1> QED
  BY <1>2, ModType

(* A failed open or create leaves a free handle.                           *)
LEMMA FailTypes ==
  ASSUME TypeOK, NEW t \in Threads, frame[t].on \in Handles, Fail(t)
  PROVE  /\ handle' \in [Handles -> HandleRecords]
         /\ frame' \in [Threads -> Frames]
         /\ gil' \in [Processes -> Threads \cup {None}]
<1>1. handle' \in [Handles -> HandleRecords]
  BY NoStoreType, ModType DEF Fail, Statuses
<1> QED
  BY <1>1, FinishType, GilType DEF Fail

(* An opened store has a log and its two halves.                           *)
LEMMA OpenedTypes ==
  ASSUME TypeOK, NEW t \in Threads, frame[t].on \in Handles,
         NEW g \in Graphs, NEW n \in 0..Len(g), Opened(t, g, n)
  PROVE  /\ handle' \in [Handles -> HandleRecords]
         /\ frame' \in [Threads -> Frames]
         /\ gil' \in [Processes -> Threads \cup {None}]
<1>1. GraphState(g, n) \in GraphStates /\ handle[frame[t].on] \in HandleRecords
  BY SplitType DEF TypeOK
<1> DEFINE s == GraphState(g, n)
<1> HIDE DEF s
<1>2. [handle[frame[t].on] EXCEPT !.status = "open", !.log = g, !.state = s]
        \in HandleRecords
  BY <1>1 DEF HandleRecords, s
<1>3. handle' \in [Handles -> HandleRecords]
  BY <1>2, ModType DEF Opened, s
<1> QED
  BY <1>3, FinishType, GilType DEF Opened

(* A step in a call keeps the types.                                       *)
LEMMA ContinueTypes ==
  ASSUME Inv, Data, NEW t \in Threads, Continue(t)
  PROVE  TypeOK'
<1>1. TypeOK /\ Relies(t)
  BY DEF Data, Inv
<1>2. frame[t].pc # "idle"
  BY DEF Continue, Lock, SetPolicy, RefuseBatch, AppendBatch, Publish, Fold, Commit,
         Release, LeaveStore, ReadBase, ReadDelta, Return, TakeLock, LockHeld,
         Recover, RefuseToClobber, BuildFiles, WriteManifest, At
<1> DEFINE h == frame[t].on
<1>3. /\ h \in Handles /\ frame[t] \in Frames /\ handle[h] \in HandleRecords
      /\ handle[h].log \in Graphs /\ handle[h].state \in GraphStates
  BY <1>2, OnHandle
<1>4. disk \in Disks /\ disk.stored \in Graphs /\ Len(disk.stored) \in Nat
      /\ disk.folded \in 0..Len(disk.stored) /\ Len(handle[h].log) \in Nat
  BY <1>1, <1>3, LenProperties DEF TypeOK, Data, Disks, Graphs
<1>5. << >> \in Graphs /\ Len(<< >>) = 0
  BY EmptySeq DEF Graphs
<1>6. ASSUME NEW pc \in Steps, Goto(t, pc) PROVE frame' \in [Threads -> Frames]
  BY <1>1, <1>6, GotoType
<1>7. ASSUME Lock(t) PROVE TypeOK'
  <2>1. handle' \in [Handles -> HandleRecords]
    BY <1>1, <1>3, <1>7, UnlockType DEF Lock
  <2> QED
    BY <1>1, <1>6, <1>7, <2>1 DEF Lock, TypeOK, Steps
<1>8. ASSUME SetPolicy(t) PROVE TypeOK'
  <2>1. PICK p \in Policies : handle' = [handle EXCEPT ![h].policy = p]
    BY <1>8 DEF SetPolicy
  <2>2. [handle[h] EXCEPT !.policy = p] \in HandleRecords
    BY <1>3 DEF HandleRecords
  <2>3. handle' \in [Handles -> HandleRecords]
    BY <1>1, <1>3, <2>1, <2>2, ModType
  <2> QED
    BY <1>1, <1>8, <2>3, FinishType, GilType DEF SetPolicy, TypeOK
<1>9. ASSUME RefuseBatch(t) PROVE TypeOK'
  BY <1>1, <1>6, <1>9 DEF RefuseBatch, TypeOK, Steps
<1>10. ASSUME AppendBatch(t) PROVE TypeOK'
  <2> DEFINE g == Append(handle[h].log, [by |-> t, expected |-> frame[t].expected])
  <2>1. g \in Graphs
    BY <1>3, AppendType DEF Frames
  <2> HIDE DEF g
  <2>2. [frame[t] EXCEPT !.draft = g, !.pc = "publish"] \in Frames
    BY <1>3, <2>1 DEF Frames, Steps
  <2>3. frame' = [frame EXCEPT ![t] = [frame[t] EXCEPT !.draft = g, !.pc = "publish"]]
    BY <1>1, <1>10 DEF AppendBatch, g, TypeOK
  <2>4. frame' \in [Threads -> Frames]
    BY <1>1, <2>2, <2>3, FrameType
  <2>5. disk' = [disk EXCEPT !.stored = g] \/ disk' = disk
    BY <1>10 DEF AppendBatch, g
  <2>6. disk' \in Disks
    BY <1>4, <2>1, <2>5 DEF Disks
  <2> QED
    BY <1>1, <1>10, <2>4, <2>6 DEF AppendBatch, TypeOK
<1>11. ASSUME Publish(t) PROVE TypeOK'
  <2> DEFINE s == GraphState(frame[t].draft, Len(handle[h].state.base))
  <2>1. frame[t].draft \in Graphs /\ s \in GraphStates
    BY <1>11, PublishedState DEF Publish
  <2>2. handle' = [handle EXCEPT ![h].log = frame[t].draft, ![h].state = s]
    BY <1>11 DEF Publish
  <2>3. Goto(t, "fold") \/ Goto(t, "unlock")
    BY <1>11 DEF Publish
  <2> HIDE DEF s
  <2>4. [handle[h] EXCEPT !.log = frame[t].draft, !.state = s] \in HandleRecords
    BY <1>3, <2>1 DEF HandleRecords
  <2>5. handle' = [handle EXCEPT ![h] =
                     [handle[h] EXCEPT !.log = frame[t].draft, !.state = s]]
    BY <1>1, <1>3, <2>2 DEF TypeOK
  <2>6. handle' \in [Handles -> HandleRecords]
    BY <1>1, <1>3, <2>4, <2>5, ModType
  <2>7. frame' \in [Threads -> Frames]
    BY <1>6, <2>3 DEF Steps
  <2>8. /\ disk' = disk /\ flock' = flock /\ gil' = gil /\ token' = token
        /\ calls' = calls /\ kills' = kills /\ accepted' = accepted
    BY <1>11 DEF Publish
  <2> QED
    BY <1>1, <2>6, <2>7, <2>8 DEF TypeOK
<1>12. ASSUME Fold(t) PROVE TypeOK'
  <2> DEFINE g == handle[h].log
             s == GraphState(g, Len(g))
  <2>1. s \in GraphStates
    <3>1. Len(g) \in 0..Len(g)
      BY <1>4
    <3> QED
      BY <1>3, <3>1, SplitType
  <2> HIDE DEF s
  <2>2. [handle[h] EXCEPT !.state = s] \in HandleRecords
    BY <1>3, <2>1 DEF HandleRecords
  <2>3. handle' = handle \/ handle' = [handle EXCEPT ![h].state = s]
    BY <1>12 DEF Fold, s
  <2>4. handle' \in [Handles -> HandleRecords]
    BY <1>1, <1>3, <2>2, <2>3, ModType DEF TypeOK
  <2>5. disk' = disk \/ disk' = [disk EXCEPT !.stored = g, !.folded = Len(g)]
    BY <1>12 DEF Fold
  <2>6. disk' \in Disks
    BY <1>3, <1>4, <2>5 DEF Disks
  <2>7. frame' \in [Threads -> Frames]
    BY <1>6, <1>12 DEF Fold, Steps
  <2> QED
    BY <1>1, <1>12, <2>4, <2>6, <2>7 DEF Fold, TypeOK
<1>13. ASSUME Commit(t) PROVE TypeOK'
  <2>1. disk' \in Disks
    BY <1>3, <1>4, <1>13 DEF Commit, Disks
  <2>2. frame' \in [Threads -> Frames]
    BY <1>6, <1>13 DEF Commit, Steps
  <2> QED
    BY <1>1, <1>13, <2>1, <2>2 DEF Commit, TypeOK
<1>14. ASSUME Release(t) PROVE TypeOK'
  <2>1. handle' \in [Handles -> HandleRecords]
    BY <1>1, <1>3, <1>14, UnlockType DEF Release, Unlock
  <2>2. Goto(t, "manifest") \/ Goto(t, "return")
    BY <1>14 DEF Release
  <2>3. frame' \in [Threads -> Frames]
    BY <1>6, <2>2 DEF Steps
  <2> QED
    BY <1>1, <1>14, <2>1, <2>3 DEF Release, TypeOK
<1>15. ASSUME LeaveStore(t) PROVE TypeOK'
  <2>1. DropStores({h}) /\ frame' \in [Threads -> Frames]
    BY <1>6, <1>15 DEF LeaveStore, Steps
  <2> QED
    BY <1>1, <1>15, <2>1, DropTypes DEF LeaveStore, TypeOK
<1>16. ASSUME ReadBase(t) PROVE TypeOK'
  <2> DEFINE f == [frame[t] EXCEPT !.seen = frame[t].view.base, !.pc = "delta"]
  <2>1. frame[t].view \in GraphStates
    BY <1>3 DEF Frames
  <2>2. frame[t].view.base \in Graphs
    BY <2>1, SeqOfType
  <2>3. f \in Frames
    BY <1>3, <2>2 DEF Frames, Steps
  <2>4. frame' = [frame EXCEPT ![t] = f]
    BY <1>1, <1>16 DEF ReadBase, View, TypeOK
  <2>5. frame' \in [Threads -> Frames]
    BY <1>1, <2>3, <2>4, FrameType
  <2> QED
    BY <1>1, <1>16, <2>5 DEF ReadBase, TypeOK
<1>17. ASSUME ReadDelta(t) PROVE TypeOK'
  <2> DEFINE k == frame[t].seen \o frame[t].view.delta
             f == [frame[t] EXCEPT !.seen = k, !.pc = "return"]
  <2>1. frame[t].view \in GraphStates /\ frame[t].seen \in Graphs
    BY <1>3 DEF Frames
  <2>2. frame[t].view.delta \in Graphs
    BY <2>1, SeqOfType
  <2>3. k \in Graphs
    BY <2>1, <2>2, ConcatProperties DEF Graphs
  <2>4. frame' = [frame EXCEPT ![t] = f]
    BY <1>1, <1>17 DEF ReadDelta, View, TypeOK
  <2> HIDE DEF k
  <2>5. f \in Frames
    BY <1>3, <2>3 DEF Frames, Steps
  <2>6. frame' \in [Threads -> Frames]
    BY <1>1, <2>4, <2>5, FrameType
  <2> QED
    BY <1>1, <1>17, <2>6 DEF ReadDelta, TypeOK
<1>18. ASSUME Return(t) PROVE TypeOK'
  <2> DEFINE f == frame[t]
             r == [on |-> h, seq |-> Len(f.draft), by |-> t, expected |-> f.expected]
  <2>1. f.draft \in Graphs /\ f.expected \in SUBSET Nat
    BY <1>3 DEF Frames
  <2>2. Len(f.draft) \in Nat
    BY <2>1, LenProperties DEF Graphs
  <2>3. r \in [on : Handles, seq : Nat, by : Threads, expected : SUBSET Nat]
    BY <1>3, <2>1, <2>2
  <2>4. accepted' = accepted \/ accepted' = accepted \cup {r}
    BY <1>18 DEF Return
  <2>5. frame' \in [Threads -> Frames]
    BY <1>1, <1>18, FinishType DEF Return
  <2> HIDE DEF r
  <2> QED
    BY <1>1, <1>18, <2>3, <2>4, <2>5 DEF Return, TypeOK
<1>19. ASSUME TakeLock(t) PROVE TypeOK'
  <2>1. Goto(t, "recover") \/ Goto(t, "check")
    BY <1>19 DEF TakeLock
  <2>2. frame' \in [Threads -> Frames]
    BY <1>6, <2>1 DEF Steps
  <2> QED
    BY <1>1, <1>3, <1>19, <2>2 DEF TakeLock, TypeOK
<1>20. ASSUME LockHeld(t) PROVE TypeOK'
  BY <1>1, <1>3, <1>20, FailTypes DEF LockHeld, TypeOK
<1>21. ASSUME Recover(t) PROVE TypeOK'
  BY <1>1, <1>3, <1>4, <1>21, OpenedTypes DEF Recover, TypeOK
<1>22. ASSUME RefuseToClobber(t) PROVE TypeOK'
  BY <1>1, <1>3, <1>22, FailTypes DEF RefuseToClobber, TypeOK
<1>23. ASSUME BuildFiles(t) PROVE TypeOK'
  BY <1>1, <1>6, <1>23 DEF BuildFiles, TypeOK, Steps
<1>24. ASSUME WriteManifest(t) PROVE TypeOK'
  <2>1. disk' \in Disks
    BY <1>5, <1>24 DEF WriteManifest, Disks
  <2>2. 0 \in 0..Len(<< >>)
    BY <1>5
  <2> QED
    BY <1>1, <1>3, <1>5, <1>24, <2>1, <2>2, OpenedTypes DEF WriteManifest, TypeOK
<1> QED
  BY <1>7, <1>8, <1>9, <1>10, <1>11, <1>12, <1>13, <1>14, <1>15, <1>16, <1>17, <1>18,
     <1>19, <1>20, <1>21, <1>22, <1>23, <1>24 DEF Continue

(* Every step keeps the types.                                             *)
LEMMA StepTypes ==
  ASSUME Inv, Data, [Next]_vars
  PROVE  TypeOK'
<1>1. CASE UNCHANGED vars
  BY <1>1 DEF vars, Data, TypeOK
<1>2. ASSUME NEW t \in Threads, Call(t) \/ Continue(t) PROVE TypeOK'
  BY <1>2, CallTypes, ContinueTypes
<1>3. ASSUME NEW h \in Handles, DropObject(h) PROVE TypeOK'
  <2>1. DropStores({h}) /\ TypeOK
    BY <1>3 DEF DropObject, Data
  <2> QED
    BY <1>3, <2>1, DropTypes DEF DropObject, TypeOK
<1>4. ASSUME NEW p \in Processes, Kill(p) PROVE TypeOK'
  <2>1. DropStores(Alive(p)) /\ TypeOK
    BY <1>4 DEF Kill, Data
  <2>2. frame' \in [Threads -> Frames]
    BY <1>4, <2>1, NoCallType DEF Kill, TypeOK
  <2>3. kills' \in Nat /\ gil' \in [Processes -> Threads \cup {None}]
    BY <1>4, <2>1 DEF Kill, TypeOK
  <2>4. token' \in [Threads -> (Handles \cup {NoHandle}) \X Nat]
    BY <1>4, <2>1 DEF Kill, TypeOK
  <2> QED
    BY <1>4, <2>1, <2>2, <2>3, <2>4, DropTypes DEF Kill, TypeOK
<1> QED
  BY <1>1, <1>2, <1>3, <1>4 DEF Next

(***************************************************************************)
(* What a step of one thread leaves to the others.                         *)
(***************************************************************************)
(* The thread is in a call on a store that nobody has dropped.             *)
Busy(u) ==
  /\ frame[u].op \notin {"none", "open"}
  /\ ~ (frame[u].op = "close" /\ frame[u].pc = "return")

SameLog(h) == handle'[h].log = handle[h].log
SameMutex(h) == handle'[h].mutex = handle[h].mutex

(* The log a busy thread works on stays, or is published to by another,    *)
(* and a mutex it holds stays its own.                                     *)
Undisturbed(t, u) ==
  /\ frame'[u] = frame[u]
  /\ Busy(u) =>
       /\ SameLog(frame[u].on) \/ (Publish(t) /\ frame[t].on = frame[u].on)
       /\ frame[u].pc \in Guarded => SameMutex(frame[u].on)

(* A thread moves no frame but its own.                                    *)
LEMMA FramesOfOthers ==
  ASSUME TypeOK, NEW t \in Threads, Call(t) \/ Continue(t), NEW u \in Threads \ {t}
  PROVE  frame'[u] = frame[u]
<1>1. ASSUME NEW pc, Goto(t, pc) PROVE frame'[u] = frame[u]
  BY <1>1 DEF Goto, TypeOK
<1>2. ASSUME Finish(t) PROVE frame'[u] = frame[u]
  BY <1>2 DEF Finish, TypeOK
<1>3. ASSUME NEW pc, Begin(t, pc) PROVE frame'[u] = frame[u]
  BY <1>3 DEF Begin, TypeOK
<1>4. ASSUME NEW h, NEW name, NEW e, Write(t, h, name, e) PROVE frame'[u] = frame[u]
  BY <1>4 DEF Write, TypeOK
<1>5. CASE Call(t)
  <2>1. ASSUME NEW c \in BOOLEAN, CallOpen(t, c) PROVE frame'[u] = frame[u]
    BY <1>3, <2>1 DEF CallOpen
  <2>2. ASSUME CallCreate(t) PROVE frame'[u] = frame[u]
    BY <1>3, <2>2 DEF CallCreate
  <2>3. ASSUME NEW h \in Handles, ReadSeq(t, h) PROVE frame'[u] = frame[u]
    BY <2>3 DEF ReadSeq
  <2>4. ASSUME NEW h \in Handles, CallApply(t, h) \/ CallFlush(t, h) \/ CallCompact(t, h)
        PROVE frame'[u] = frame[u]
    BY <1>4, <2>4 DEF CallApply, CallFlush, CallCompact
  <2>5. ASSUME NEW h \in Handles, CallRead(t, h) PROVE frame'[u] = frame[u]
    BY <2>5 DEF CallRead, TypeOK
  <2>6. ASSUME NEW h \in Handles, CallKnob(t, h) PROVE frame'[u] = frame[u]
    BY <2>6 DEF CallKnob, TypeOK
  <2>7. ASSUME NEW h \in Handles, CallClose(t, h) PROVE frame'[u] = frame[u]
    BY <2>7 DEF CallClose, TypeOK
  <2> QED
    BY <1>5, <2>1, <2>2, <2>3, <2>4, <2>5, <2>6, <2>7 DEF Call
<1>6. CASE Continue(t)
  <2>1. ASSUME Lock(t) \/ RefuseBatch(t) \/ Publish(t) \/ Fold(t) \/ Commit(t)
               \/ Release(t) \/ LeaveStore(t) \/ TakeLock(t) \/ BuildFiles(t)
        PROVE  frame'[u] = frame[u]
    BY <1>1, <2>1 DEF Lock, RefuseBatch, Publish, Fold, Commit, Release, LeaveStore,
       TakeLock, BuildFiles
  <2>2. ASSUME SetPolicy(t) \/ Return(t) \/ LockHeld(t) \/ Recover(t)
               \/ RefuseToClobber(t) \/ WriteManifest(t)
        PROVE  frame'[u] = frame[u]
    BY <1>2, <2>2 DEF SetPolicy, Return, LockHeld, Recover, RefuseToClobber,
       WriteManifest, Fail, Opened
  <2>3. ASSUME AppendBatch(t) PROVE frame'[u] = frame[u]
    BY <2>3 DEF AppendBatch, TypeOK
  <2>4. ASSUME ReadBase(t) \/ ReadDelta(t) PROVE frame'[u] = frame[u]
    BY <2>4 DEF ReadBase, ReadDelta, TypeOK
  <2> QED
    BY <1>6, <2>1, <2>2, <2>3, <2>4 DEF Continue
<1> QED
  BY <1>5, <1>6

(* A busy thread is on a handle that has its store.                        *)
LEMMA OwnHandle ==
  ASSUME Inv, NEW u \in Threads, Busy(u)
  PROVE  frame[u].on \in Handles /\ handle[frame[u].on].status \in {"open", "closing"}
  BY DEF Inv, Relies, Busy

(* Two threads past the lock are on two handles.                           *)
LEMMA MutexIsExclusive ==
  ASSUME Inv, Data, NEW t \in Threads, NEW u \in Threads, t # u,
         frame[t].pc \in Guarded, frame[u].pc \in Guarded
  PROVE  frame[t].on # frame[u].on
  BY DEF Data, Guards

(* A call leaves what other threads rely on of their handles.              *)
LEMMA CallsDisturbNobody ==
  ASSUME Inv, Data, NEW t \in Threads, Call(t), NEW u \in Threads \ {t}
  PROVE  Undisturbed(t, u)
<1>1. frame'[u] = frame[u] /\ TypeOK
  BY FramesOfOthers DEF Data
<1>2. ASSUME Busy(u), handle' = handle PROVE Undisturbed(t, u)
  BY <1>1, <1>2 DEF Undisturbed, SameLog, SameMutex
<1>3. ASSUME Busy(u), NEW pc, Begin(t, pc) PROVE Undisturbed(t, u)
  <2>1. PICK h \in FreshHandles :
          handle' = [handle EXCEPT ![h].status = "building", ![h].owner = ProcessOf[t]]
    BY <1>3 DEF Begin
  <2>2. frame[u].on # h /\ frame[u].on \in Handles
    BY <1>3, OwnHandle DEF FreshHandles
  <2> QED
    BY <1>1, <2>1, <2>2 DEF Undisturbed, SameLog, SameMutex, TypeOK
<1>4. ASSUME Busy(u), NEW h \in Handles, CallClose(t, h) PROVE Undisturbed(t, u)
  <2>1. handle' = [handle EXCEPT ![h].status = "closing"] /\ frame[u].on \in Handles
    BY <1>4, OwnHandle DEF CallClose
  <2>2. SameLog(frame[u].on) /\ SameMutex(frame[u].on)
    BY <1>1, <2>1 DEF SameLog, SameMutex, TypeOK, HandleRecords
  <2> QED
    BY <1>1, <2>2 DEF Undisturbed
<1>5. CASE Busy(u)
  BY <1>2, <1>3, <1>4, <1>5 DEF Call, CallOpen, CallCreate, ReadSeq, CallApply,
     CallFlush, CallCompact, Write, CallRead, CallKnob
<1> QED
  BY <1>1, <1>5 DEF Undisturbed

(* So does a step in a call, of a thread past the lock or alone.           *)
LEMMA StepsDisturbNobody ==
  ASSUME Inv, Data, NEW t \in Threads, Continue(t), NEW u \in Threads \ {t}
  PROVE  Undisturbed(t, u)
<1>1. frame'[u] = frame[u] /\ TypeOK /\ Relies(t) /\ Alone(t)
  BY FramesOfOthers DEF Data, Inv
<1> SUFFICES ASSUME Busy(u) PROVE Undisturbed(t, u)
  BY <1>1 DEF Undisturbed
<1> DEFINE h == frame[t].on
           k == frame[u].on
<1>2. /\ k \in Handles /\ handle[k] \in HandleRecords
      /\ frame[u].pc \in Guarded => handle[k].mutex = u
  BY <1>1, OwnHandle DEF TypeOK, Data, Guards
<1>3. ASSUME handle' = handle PROVE Undisturbed(t, u)
  BY <1>1, <1>3 DEF Undisturbed, SameLog, SameMutex
<1>4. ASSUME NEW r, handle' = [handle EXCEPT ![h] = r], h # k PROVE Undisturbed(t, u)
  BY <1>1, <1>2, <1>4 DEF Undisturbed, SameLog, SameMutex, TypeOK
<1>5. ASSUME NEW m, handle' = [handle EXCEPT ![h].mutex = m],
             frame[u].pc \in Guarded => h # k
      PROVE  Undisturbed(t, u)
  <2>1. SameLog(k) /\ (h # k => SameMutex(k))
    BY <1>1, <1>2, <1>5 DEF SameLog, SameMutex, TypeOK, HandleRecords
  <2> QED
    BY <1>1, <1>5, <2>1 DEF Undisturbed
<1>6. ASSUME Lock(t) PROVE Undisturbed(t, u)
  <2>1. frame[u].pc \in Guarded => h # k
    BY <1>2, <1>6, SessionsAssumption DEF Lock, MutexFree
  <2> QED
    BY <1>5, <1>6, <2>1 DEF Lock
<1>7. ASSUME SetPolicy(t) PROVE Undisturbed(t, u)
  <2>1. PICK p \in Policies : handle' = [handle EXCEPT ![h].policy = p]
    BY <1>7 DEF SetPolicy
  <2>2. SameLog(k) /\ SameMutex(k)
    BY <1>1, <1>2, <2>1 DEF SameLog, SameMutex, TypeOK, HandleRecords
  <2> QED
    BY <1>1, <2>2 DEF Undisturbed
<1>8. ASSUME RefuseBatch(t) \/ AppendBatch(t) \/ Commit(t) \/ ReadBase(t) \/ ReadDelta(t)
             \/ Return(t) \/ TakeLock(t) \/ BuildFiles(t)
      PROVE  Undisturbed(t, u)
  BY <1>3, <1>8 DEF RefuseBatch, AppendBatch, Commit, ReadBase, ReadDelta, Return,
     TakeLock, BuildFiles
<1>9. ASSUME Publish(t) PROVE Undisturbed(t, u)
  <2>1. handle' = [handle EXCEPT ![h].log = frame[t].draft,
           ![h].state = GraphState(frame[t].draft, Len(handle[h].state.base))]
    BY <1>9 DEF Publish
  <2>2. SameMutex(k) /\ (h # k => SameLog(k))
    BY <1>1, <1>2, <2>1 DEF SameLog, SameMutex, TypeOK, HandleRecords
  <2> QED
    BY <1>1, <1>9, <2>2 DEF Undisturbed
<1>10. ASSUME Fold(t) PROVE Undisturbed(t, u)
  <2> DEFINE s == GraphState(handle[h].log, Len(handle[h].log))
  <2>1. handle' = handle \/ handle' = [handle EXCEPT ![h].state = s]
    BY <1>10 DEF Fold
  <2> HIDE DEF s
  <2>2. SameLog(k) /\ SameMutex(k)
    BY <1>1, <1>2, <2>1 DEF SameLog, SameMutex, TypeOK, HandleRecords
  <2> QED
    BY <1>1, <2>2 DEF Undisturbed
<1>11. ASSUME Release(t) PROVE Undisturbed(t, u)
  <2>1. frame[u].pc \in Guarded => h # k
    BY <1>11, MutexIsExclusive DEF Release, Guarded
  <2> QED
    BY <1>5, <1>11, <2>1 DEF Release, Unlock
<1>12. ASSUME frame[t].op \in {"open", "close"} PROVE h # k
  BY <1>1, <1>12 DEF Alone
<1>13. ASSUME LeaveStore(t) PROVE Undisturbed(t, u)
  <2>1. DropStores({h}) /\ h # k
    BY <1>12, <1>13 DEF LeaveStore, At
  <2>2. handle'[k] = handle[k]
    BY <1>2, <2>1, Dropped
  <2> QED
    BY <1>1, <2>2 DEF Undisturbed, SameLog, SameMutex
<1>14. ASSUME LockHeld(t) \/ RefuseToClobber(t) PROVE Undisturbed(t, u)
  <2>1. h # k
    BY <1>1, <1>12, <1>14 DEF LockHeld, RefuseToClobber, Relies, OpenSteps
  <2> QED
    BY <1>4, <1>14, <2>1 DEF LockHeld, RefuseToClobber, Fail
<1>15. ASSUME Recover(t) \/ WriteManifest(t) PROVE Undisturbed(t, u)
  <2>1. h # k
    BY <1>1, <1>12, <1>15 DEF Recover, WriteManifest, Relies, OpenSteps
  <2> QED
    BY <1>4, <1>15, <2>1 DEF Recover, WriteManifest, Opened
<1> QED
  BY <1>6, <1>7, <1>8, <1>9, <1>10, <1>11, <1>13, <1>14, <1>15 DEF Continue

(***************************************************************************)
(* The drafts and the mutex.                                               *)
(***************************************************************************)
LEMMA UndisturbedData ==
  ASSUME Inv, Data, TypeOK', NEW t \in Threads, NEW u \in Threads \ {t},
         Undisturbed(t, u)
  PROVE  Guards(u)' /\ Drafts(u)'
<1>1. Guards(u) /\ Drafts(u) /\ Relies(u) /\ frame'[u] = frame[u]
  BY DEF Data, Inv, Undisturbed
<1>2. CASE ~ Busy(u)
  <2>1. frame[u].pc \notin Guarded /\ frame[u].pc # "publish" /\ frame[u].draft = << >>
    BY <1>1, <1>2 DEF Busy, Relies, Drafts, OpenSteps, Guarded
  <2> QED
    BY <1>1, <2>1 DEF Guards, Drafts
<1>3. CASE Busy(u)
  <2> DEFINE h == frame[u].on
  <2>1. BatchOf(u)' = BatchOf(u) /\ Guards(u)'
    <3>1. Guards(u)'
      BY <1>1, <1>3 DEF Guards, Undisturbed, SameMutex
    <3> QED
      BY <1>1, <3>1 DEF BatchOf
  <2>2. CASE SameLog(h)
    <3>1. handle'[h].log = handle[h].log
      BY <2>2 DEF SameLog
    <3> QED
      BY <1>1, <2>1, <3>1 DEF Drafts
  <2>3. CASE Publish(t) /\ frame[t].on = h
    <3>1. At(t, "apply", "publish") /\ h \in Handles
      BY <1>3, <2>3, OwnHandle DEF Publish
    <3>2. frame[u].pc # "publish"
      BY <2>3, <3>1, MutexIsExclusive DEF At, Guarded
    <3>3. handle'[h].log = frame[t].draft
      <4>1. handle \in [Handles -> HandleRecords] /\ handle[h] \in HandleRecords
        BY <3>1 DEF Data, TypeOK
      <4>2. \E s : handle' = [handle EXCEPT ![h].log = frame[t].draft, ![h].state = s]
        BY <2>3, Zenon DEF Publish
      <4> QED
        BY <3>1, <4>1, <4>2 DEF HandleRecords
    <3>4. /\ handle[h].log \in Graphs /\ frame[t].draft \in Graphs
          /\ FirstPart(handle[h].log, frame[t].draft)
      <4>1. handle[h].log \in Graphs
        BY <3>1 DEF Data, TypeOK, HandleRecords
      <4>2. /\ frame[t].draft \in Graphs
            /\ FirstPart(handle[frame[t].on].log, frame[t].draft)
        BY <3>1, PublishedState
      <4> QED
        BY <2>3, <4>1, <4>2
    <3>5. ASSUME frame[u].draft # << >>
          PROVE Named(frame[t].draft, Len(frame[u].draft), BatchOf(u))
      BY <1>1, <3>2, <3>4, <3>5, NamedStays DEF Drafts
    <3> QED
      BY <1>1, <2>1, <3>2, <3>3, <3>5 DEF Drafts
  <2> QED
    BY <1>3, <2>1, <2>2, <2>3 DEF Undisturbed
<1> QED
  BY <1>2, <1>3

(* A Goto that does not enter publish.                                     *)
LEMMA GotoData ==
  ASSUME Inv, Data, NEW t \in Threads, NEW pc, Goto(t, pc), pc # "publish",
         SameLog(frame[t].on),
         pc \in Guarded => handle'[frame[t].on].mutex = t,
         \/ frame[t].draft = << >>
         \/ pc \in {"fold", "unlock", "return"} /\ frame[t].pc # "publish"
  PROVE  Guards(t)' /\ Drafts(t)'
<1>1. /\ frame'[t].pc = pc /\ frame'[t].op = frame[t].op
      /\ frame'[t].on = frame[t].on /\ frame'[t].draft = frame[t].draft
      /\ frame'[t].expected = frame[t].expected
  BY DEF Goto, Data, TypeOK, Frames
<1>2. Drafts(t)
  BY DEF Data
<1> QED
  BY <1>1, <1>2 DEF Guards, Drafts, SameLog, BatchOf

(* A frame without a draft that is not past the lock.                      *)
LEMMA FreshData ==
  ASSUME NEW t \in Threads, frame'[t].draft = << >>, frame'[t].pc \notin Guarded
  PROVE  Guards(t)' /\ Drafts(t)'
  BY DEF Guards, Drafts, Guarded

(* The guard and the draft of the thread that calls.                       *)
LEMMA CallData ==
  ASSUME Data, NEW t \in Threads, Call(t)
  PROVE  Guards(t)' /\ Drafts(t)'
<1>1. TypeOK /\ Guards(t) /\ Drafts(t)
  BY DEF Data
<1>2. ASSUME NEW pc \in {"open", "create"}, Begin(t, pc) PROVE Guards(t)' /\ Drafts(t)'
  <2>1. frame'[t].draft = << >> /\ frame'[t].pc = pc
    BY <1>1, <1>2 DEF Begin, NoCall, TypeOK
  <2> QED
    BY <2>1, FreshData DEF Guarded
<1>3. ASSUME NEW h \in Handles, ReadSeq(t, h) PROVE Guards(t)' /\ Drafts(t)'
  BY <1>1, <1>3 DEF ReadSeq, Guards, Drafts, BatchOf
<1>4. ASSUME NEW h, NEW name, NEW e, Write(t, h, name, e) PROVE Guards(t)' /\ Drafts(t)'
  <2>1. frame'[t].draft = << >> /\ frame'[t].pc = "wait"
    BY <1>1, <1>4 DEF Write, NoCall, TypeOK
  <2> QED
    BY <2>1, FreshData DEF Guarded
<1>5. ASSUME NEW h \in Handles, CallRead(t, h) \/ CallKnob(t, h) \/ CallClose(t, h)
      PROVE Guards(t)' /\ Drafts(t)'
  <2>1. frame'[t].draft = << >> /\ frame'[t].pc \in {"base", "knob", "wait"}
    <3>1. CASE CallRead(t, h)
      BY <1>1, <3>1 DEF CallRead, NoCall, TypeOK
    <3>2. CASE CallKnob(t, h)
      BY <1>1, <3>2 DEF CallKnob, NoCall, TypeOK
    <3>3. CASE CallClose(t, h)
      BY <1>1, <3>3 DEF CallClose, NoCall, TypeOK
    <3> QED
      BY <1>5, <3>1, <3>2, <3>3
  <2> QED
    BY <2>1, FreshData DEF Guarded
<1> QED
  BY <1>2, <1>3, <1>4, <1>5 DEF Call, CallOpen, CallCreate, CallApply, CallFlush,
     CallCompact

(* The guard and the draft of the thread that goes on in its call.         *)
LEMMA ContinueData ==
  ASSUME Inv, Data, NEW t \in Threads, Continue(t)
  PROVE  Guards(t)' /\ Drafts(t)'
<1>1. TypeOK /\ Guards(t) /\ Drafts(t) /\ Relies(t)
  BY DEF Data, Inv
<1> DEFINE h == frame[t].on
<1>2. frame[t].pc # "idle"
  BY DEF Continue, Lock, SetPolicy, RefuseBatch, AppendBatch, Publish, Fold, Commit,
         Release, LeaveStore, ReadBase, ReadDelta, Return, TakeLock, LockHeld,
         Recover, RefuseToClobber, BuildFiles, WriteManifest, At
<1>3. /\ h \in Handles /\ frame[t] \in Frames /\ handle[h] \in HandleRecords
      /\ handle[h].log \in Graphs
  BY <1>2, OnHandle
<1>4. ASSUME Lock(t) PROVE Guards(t)' /\ Drafts(t)'
  <2>1. SameLog(h) /\ handle'[h].mutex = t
    BY <1>1, <1>3, <1>4 DEF Lock, SameLog, TypeOK, HandleRecords
  <2>2. frame[t].draft = << >> /\ Goto(t, "held")
    BY <1>1, <1>4 DEF Lock, Drafts
  <2> QED
    BY <2>1, <2>2, GotoData
<1>5. ASSUME Finish(t) PROVE Guards(t)' /\ Drafts(t)'
  <2>1. frame'[t].draft = << >> /\ frame'[t].pc = "idle"
    BY <1>1, <1>5 DEF Finish, NoCall, TypeOK
  <2> QED
    BY <2>1, FreshData DEF Guarded
<1>6. ASSUME RefuseBatch(t) \/ Commit(t) PROVE Guards(t)' /\ Drafts(t)'
  <2>1. /\ Goto(t, "unlock") /\ SameLog(h) /\ handle'[h].mutex = t
        /\ frame[t].pc # "publish"
    BY <1>1, <1>6 DEF RefuseBatch, Commit, At, SameLog, Guards, Guarded
  <2> QED
    BY <2>1, GotoData
<1>7. ASSUME AppendBatch(t) PROVE Guards(t)' /\ Drafts(t)'
  <2> DEFINE g == handle[h].log
  <2>1. /\ frame'[t].draft = Append(g, BatchOf(t)) /\ frame'[t].pc = "publish"
        /\ frame'[t].op = "apply" /\ frame'[t].on = h
        /\ frame'[t].expected = frame[t].expected
    BY <1>1, <1>3, <1>7 DEF AppendBatch, At, BatchOf, TypeOK, Frames
  <2>2. handle' = handle /\ handle[h].mutex = t
    BY <1>1, <1>7 DEF AppendBatch, At, Guards, Guarded
  <2>3. frame[t].expected \subseteq {Len(g)}
    BY <1>7 DEF AppendBatch, Conflicts
  <2> QED
    BY <2>1, <2>2, <2>3 DEF Guards, Drafts, BatchOf
<1>8. ASSUME Publish(t) PROVE Guards(t)' /\ Drafts(t)'
  <2> DEFINE g == frame[t].draft
  <2>1. At(t, "apply", "publish")
    BY <1>8 DEF Publish
  <2>2. g = Append(handle[h].log, BatchOf(t)) /\ frame[t].expected \subseteq {Len(handle[h].log)}
    BY <1>1, <2>1 DEF Drafts, At
  <2>3. Named(g, Len(g), BatchOf(t))
    <3>1. frame[t].expected \in SUBSET Nat
      BY <1>3 DEF Frames
    <3> QED
      BY <1>3, <2>2, <3>1, AppendNames DEF BatchOf
  <2>4. handle'[h].log = g /\ handle'[h].mutex = t
    BY <1>1, <1>3, <1>8, <2>1 DEF Publish, At, Guards, Guarded, TypeOK, HandleRecords
  <2>5. /\ frame'[t].pc \in {"fold", "unlock"} /\ frame'[t].op = "apply"
        /\ frame'[t].on = h /\ frame'[t].draft = g
        /\ frame'[t].expected = frame[t].expected
    BY <1>1, <1>3, <1>8, <2>1 DEF Publish, Goto, At, TypeOK, Frames
  <2> QED
    BY <2>3, <2>4, <2>5 DEF Guards, Drafts, BatchOf
<1>9. ASSUME Fold(t) PROVE Guards(t)' /\ Drafts(t)'
  <2> DEFINE s == GraphState(handle[h].log, Len(handle[h].log))
  <2>1. handle' = handle \/ handle' = [handle EXCEPT ![h].state = s]
    BY <1>9 DEF Fold
  <2>2. Goto(t, "unlock") /\ frame[t].pc \in {"fold", "held"}
    BY <1>9 DEF Fold, At
  <2> HIDE DEF s
  <2>3. SameLog(h) /\ handle'[h].mutex = t
    BY <1>1, <1>3, <2>1, <2>2 DEF SameLog, Guards, Guarded, TypeOK, HandleRecords
  <2> QED
    BY <2>2, <2>3, GotoData
<1>10. ASSUME Release(t) PROVE Guards(t)' /\ Drafts(t)'
  <2>1. handle' = [handle EXCEPT ![h].mutex = None] /\ frame[t].pc = "unlock"
    BY <1>10 DEF Release, Unlock
  <2>2. SameLog(h)
    BY <1>1, <1>3, <2>1 DEF SameLog, TypeOK, HandleRecords
  <2>3. \/ Goto(t, "return")
        \/ Goto(t, "manifest") /\ frame[t].op = "close"
    BY <1>10 DEF Release
  <2>4. frame[t].op = "close" => frame[t].draft = << >>
    BY <1>1 DEF Drafts
  <2> QED
    BY <2>1, <2>2, <2>3, <2>4, GotoData DEF Guarded
<1>11. ASSUME LeaveStore(t) PROVE Guards(t)' /\ Drafts(t)'
  <2>1. frame'[t].draft = << >> /\ frame'[t].pc = "return"
    BY <1>1, <1>3, <1>11 DEF LeaveStore, At, Goto, Drafts, TypeOK, Frames
  <2> QED
    BY <2>1, FreshData DEF Guarded
<1>12. ASSUME ReadBase(t) \/ ReadDelta(t) PROVE Guards(t)' /\ Drafts(t)'
  <2>1. frame'[t].draft = << >> /\ frame'[t].pc \in {"delta", "return"}
    BY <1>1, <1>3, <1>12 DEF ReadBase, ReadDelta, At, Drafts, TypeOK, Frames
  <2> QED
    BY <2>1, FreshData DEF Guarded
<1>13. ASSUME TakeLock(t) \/ BuildFiles(t) PROVE Guards(t)' /\ Drafts(t)'
  <2>1. frame'[t].draft = << >> /\ frame'[t].pc \in {"recover", "check", "build"}
    BY <1>1, <1>3, <1>13 DEF TakeLock, BuildFiles, Goto, Drafts, TypeOK, Frames
  <2> QED
    BY <2>1, FreshData DEF Guarded
<1> QED
  BY <1>4, <1>5, <1>6, <1>7, <1>8, <1>9, <1>10, <1>11, <1>12, <1>13 DEF Continue,
     SetPolicy, Return, LockHeld, Recover, RefuseToClobber, WriteManifest, Fail, Opened

(* A thread whose frame and handle stay keeps its guard and draft.         *)
LEMMA SameHandleData ==
  ASSUME Inv, Data, NEW u \in Threads, frame'[u] = frame[u],
         Busy(u) => handle'[frame[u].on] = handle[frame[u].on]
  PROVE  Guards(u)' /\ Drafts(u)'
<1>1. Guards(u) /\ Drafts(u) /\ Relies(u)
  BY DEF Data, Inv
<1>2. CASE Busy(u)
  <2>1. BatchOf(u)' = BatchOf(u)
    BY DEF BatchOf
  <2> QED
    BY <1>1, <1>2, <2>1 DEF Guards, Drafts
<1>3. CASE ~ Busy(u)
  <2>1. frame[u].pc \notin Guarded /\ frame[u].draft = << >>
    BY <1>1, <1>3 DEF Busy, Relies, Drafts, OpenSteps, Guarded
  <2> QED
    BY <2>1, FreshData
<1> QED
  BY <1>2, <1>3

(* A thread that is in no call has neither guard nor draft.                *)
LEMMA NobodyData ==
  ASSUME NEW u \in Threads, frame'[u] = NoCall
  PROVE  Guards(u)' /\ Drafts(u)'
  BY FreshData DEF NoCall, Guarded

(* What a kill spares.                                                     *)
LEMMA KillSpares ==
  ASSUME Inv, NEW p \in Processes, Kill(p), NEW u \in Threads
  PROVE  IF ProcessOf[u] = p THEN frame'[u] = NoCall
         ELSE /\ frame'[u] = frame[u]
              /\ Busy(u) => /\ handle'[frame[u].on] = handle[frame[u].on]
                            /\ handle[frame[u].on].owner # p
<1>1. DropStores(Alive(p)) /\ Relies(u)
  BY DEF Kill, Inv
<1>2. frame'[u] = IF ProcessOf[u] = p THEN NoCall ELSE frame[u]
  BY DEF Kill
<1>3. ASSUME ProcessOf[u] # p, Busy(u)
      PROVE  handle'[frame[u].on] = handle[frame[u].on] /\ handle[frame[u].on].owner # p
  <2>1. frame[u].on \in Handles /\ handle[frame[u].on].owner = ProcessOf[u]
    BY <1>1, <1>3 DEF Relies, Busy
  <2>2. frame[u].on \notin Alive(p)
    BY <1>3, <2>1 DEF Alive
  <2> QED
    BY <1>1, <1>3, <2>1, <2>2, Dropped
<1> QED
  BY <1>2, <1>3

(* Every step keeps every guard and every draft.                           *)
LEMMA StepThreads ==
  ASSUME Inv, Data, [Next]_vars, NEW u \in Threads
  PROVE  Guards(u)' /\ Drafts(u)'
<1>1. CASE UNCHANGED vars
  BY <1>1, SameHandleData DEF vars
<1>2. ASSUME NEW t \in Threads, Call(t) \/ Continue(t)
      PROVE  Guards(u)' /\ Drafts(u)'
  <2>1. CASE u = t
    BY <1>2, <2>1, CallData, ContinueData
  <2>2. CASE u # t
    BY <1>2, <2>2, StepTypes, CallsDisturbNobody, StepsDisturbNobody, UndisturbedData
  <2> QED
    BY <2>1, <2>2
<1>3. ASSUME NEW h \in Handles, DropObject(h) PROVE Guards(u)' /\ Drafts(u)'
  <2>1. DropStores({h}) /\ frame' = frame /\ frame[u].on # h
    BY <1>3 DEF DropObject, Unborrowed, Borrowers
  <2>2. Busy(u) => handle'[frame[u].on] = handle[frame[u].on]
    BY <2>1, OwnHandle, Dropped
  <2> QED
    BY <2>1, <2>2, SameHandleData
<1>4. ASSUME NEW p \in Processes, Kill(p) PROVE Guards(u)' /\ Drafts(u)'
  BY <1>4, KillSpares, SameHandleData, NobodyData
<1> QED
  BY <1>1, <1>2, <1>3, <1>4 DEF Next

(***************************************************************************)
(* What readers load, and the files.                                       *)
(***************************************************************************)
LEMMA HalvesStay ==
  ASSUME NEW h \in Handles, Halves(h), handle'[h].log = handle[h].log,
         handle'[h].state = handle[h].state
  PROVE  Halves(h)'
  BY DEF Halves

(* A handle that is new, or no more.                                       *)
LEMMA HalvesOf ==
  ASSUME NEW h \in Handles, NEW g \in Graphs, NEW n \in 0..Len(g),
         handle'[h].log = g, handle'[h].state = GraphState(g, n)
  PROVE  Halves(h)'
<1>1. Len(g) \in Nat
  BY LenProperties DEF Graphs
<1>2. n <= Len(g)
  BY <1>1
<1>3. Len(GraphState(g, n).base) = n
  BY SplitType
<1> QED
  BY <1>2, <1>3 DEF Halves

(* A dropped store has two empty halves.                                   *)
LEMMA DropHalves ==
  ASSUME Data, NEW hs, DropStores(hs), NEW h \in Handles
  PROVE  Halves(h)'
<1>1. Halves(h) /\ << >> \in Graphs /\ 0 \in 0..Len(<< >>)
  BY EmptyStateType, EmptySeq DEF Data
<1>2. CASE h \in hs
  <2>1. handle'[h].log = << >> /\ handle'[h].state = GraphState(<< >>, 0)
    BY <1>2 DEF DropStores, NoStore, EmptyState
  <2> QED
    BY <1>1, <2>1, HalvesOf
<1>3. CASE h \notin hs
  BY <1>1, <1>3, HalvesStay DEF DropStores
<1> QED
  BY <1>2, <1>3

(* A call cuts no log anew.                                                *)
LEMMA CallHalves ==
  ASSUME Data, NEW t \in Threads, Call(t), NEW h \in Handles
  PROVE  Halves(h)'
<1>1. TypeOK /\ Halves(h) /\ handle[h] \in HandleRecords
  BY DEF Data, TypeOK
<1>2. ASSUME NEW pc, Begin(t, pc) PROVE Halves(h)'
  <2>1. PICK k \in FreshHandles :
          handle' = [handle EXCEPT ![k].status = "building", ![k].owner = ProcessOf[t]]
    BY <1>2 DEF Begin
  <2>2. handle'[h].log = handle[h].log /\ handle'[h].state = handle[h].state
    BY <1>1, <2>1 DEF TypeOK, HandleRecords
  <2> QED
    BY <1>1, <2>2, HalvesStay
<1>3. ASSUME NEW k \in Handles, CallClose(t, k) PROVE Halves(h)'
  <2>1. handle'[h].log = handle[h].log /\ handle'[h].state = handle[h].state
    BY <1>1, <1>3 DEF CallClose, TypeOK, HandleRecords
  <2> QED
    BY <1>1, <2>1, HalvesStay
<1>4. ASSUME handle' = handle PROVE Halves(h)'
  BY <1>1, <1>4, HalvesStay
<1> QED
  BY <1>2, <1>3, <1>4 DEF Call, CallOpen, CallCreate, ReadSeq, CallApply, CallFlush,
     CallCompact, Write, CallRead, CallKnob

(* Publish, Fold, Recover and WriteManifest cut the log, others do not.    *)
LEMMA ContinueHalves ==
  ASSUME Inv, Data, NEW t \in Threads, Continue(t), NEW h \in Handles
  PROVE  Halves(h)'
<1>1. TypeOK /\ Halves(h) /\ handle[h] \in HandleRecords
  BY DEF Data, TypeOK
<1> DEFINE k == frame[t].on
<1>2. << >> \in Graphs /\ 0 \in 0..Len(<< >>)
  BY EmptySeq DEF Graphs
<1>3. ASSUME handle'[h].log = handle[h].log, handle'[h].state = handle[h].state
      PROVE  Halves(h)'
  BY <1>1, <1>3, HalvesStay
<1>4. ASSUME Lock(t) \/ Release(t) PROVE Halves(h)'
  <2>1. \E m : handle' = [handle EXCEPT ![k].mutex = m]
    BY <1>4 DEF Lock, Release, Unlock
  <2> QED
    BY <1>1, <1>3, <2>1 DEF TypeOK, HandleRecords
<1>5. ASSUME SetPolicy(t) PROVE Halves(h)'
  <2>1. \E p : handle' = [handle EXCEPT ![k].policy = p]
    BY <1>5 DEF SetPolicy
  <2> QED
    BY <1>1, <1>3, <2>1 DEF TypeOK, HandleRecords
<1>6. ASSUME handle' = handle PROVE Halves(h)'
  BY <1>3, <1>6
<1>7. ASSUME Publish(t) PROVE Halves(h)'
  <2> DEFINE s == GraphState(frame[t].draft, Len(handle[k].state.base))
  <2>1. Len(s.base) <= Len(frame[t].draft) /\ s = GraphState(frame[t].draft, Len(s.base))
    BY <1>7, PublishedState DEF Publish
  <2>2. handle' = [handle EXCEPT ![k].log = frame[t].draft, ![k].state = s]
    BY <1>7 DEF Publish
  <2> HIDE DEF s
  <2>3. CASE h = k
    <3>1. handle'[h].log = frame[t].draft /\ handle'[h].state = s
      BY <1>1, <2>2, <2>3 DEF TypeOK, HandleRecords
    <3> QED
      BY <2>1, <3>1 DEF Halves
  <2>4. CASE h # k
    BY <1>1, <1>3, <2>2, <2>4 DEF TypeOK
  <2> QED
    BY <2>3, <2>4
<1>8. ASSUME Fold(t) PROVE Halves(h)'
  <2> DEFINE g == handle[k].log
             s == GraphState(g, Len(g))
  <2>1. k \in Handles /\ g \in Graphs
    BY <1>8, OnHandle DEF Fold, At
  <2>2. Len(g) \in 0..Len(g)
    BY <2>1, LenProperties DEF Graphs
  <2>3. handle' = handle \/ handle' = [handle EXCEPT ![k].state = s]
    BY <1>8 DEF Fold
  <2>4. CASE handle' = [handle EXCEPT ![k].state = s] /\ h = k
    <3> HIDE DEF s
    <3>1. handle'[h].log = g /\ handle'[h].state = s
      BY <1>1, <2>4 DEF TypeOK, HandleRecords
    <3> QED
      BY <2>1, <2>2, <3>1, HalvesOf DEF s
  <2>5. CASE handle' = [handle EXCEPT ![k].state = s] /\ h # k
    BY <1>1, <1>3, <2>5 DEF TypeOK
  <2> QED
    BY <1>6, <2>3, <2>4, <2>5
<1>9. ASSUME LeaveStore(t) PROVE Halves(h)'
  BY <1>9, DropHalves DEF LeaveStore
<1>10. ASSUME Fail(t) PROVE Halves(h)'
  <2>1. CASE h = k
    <3>1. handle'[h].log = << >> /\ handle'[h].state = GraphState(<< >>, 0)
      BY <1>1, <1>10, <2>1 DEF Fail, NoStore, EmptyState, TypeOK
    <3> QED
      BY <1>2, <3>1, HalvesOf
  <2>2. CASE h # k
    BY <1>1, <1>3, <1>10, <2>2 DEF Fail, TypeOK
  <2> QED
    BY <2>1, <2>2
<1>11. ASSUME NEW g \in Graphs, NEW n \in 0..Len(g), Opened(t, g, n)
       PROVE  Halves(h)'
  <2> DEFINE s == GraphState(g, n)
  <2>1. handle' = [handle EXCEPT ![k] =
                     [@ EXCEPT !.status = "open", !.log = g, !.state = s]]
    BY <1>11 DEF Opened
  <2>2. CASE h = k
    <3> HIDE DEF s
    <3>1. handle'[h].log = g /\ handle'[h].state = s
      BY <1>1, <2>1, <2>2 DEF TypeOK, HandleRecords
    <3> QED
      BY <3>1, HalvesOf DEF s
  <2>3. CASE h # k
    BY <1>1, <1>3, <2>1, <2>3 DEF TypeOK
  <2> QED
    BY <2>2, <2>3
<1>12. ASSUME Recover(t) PROVE Halves(h)'
  <2>1. disk.stored \in Graphs
    BY DEF Data, TypeOK, Disks
  <2>2. disk.folded \in 0..Len(disk.stored)
    BY <2>1, LenProperties DEF Data, TypeOK, Disks, Graphs
  <2> QED
    BY <1>11, <1>12, <2>1, <2>2 DEF Recover
<1>13. ASSUME WriteManifest(t) PROVE Halves(h)'
  BY <1>2, <1>11, <1>13 DEF WriteManifest
<1> QED
  BY <1>4, <1>5, <1>6, <1>7, <1>8, <1>9, <1>10, <1>12, <1>13 DEF Continue, RefuseBatch,
     AppendBatch, Commit, ReadBase, ReadDelta, Return, TakeLock, BuildFiles, LockHeld,
     RefuseToClobber

(* Every step keeps the halves of every log.                               *)
LEMMA StepHalves ==
  ASSUME Inv, Data, [Next]_vars, NEW h \in Handles
  PROVE  Halves(h)'
<1>1. CASE UNCHANGED vars
  BY <1>1, HalvesStay DEF vars, Data
<1>2. ASSUME NEW t \in Threads, Call(t) \/ Continue(t) PROVE Halves(h)'
  BY <1>2, CallHalves, ContinueHalves
<1>3. ASSUME NEW k \in Handles, DropObject(k) PROVE Halves(h)'
  BY <1>3, DropHalves DEF DropObject
<1>4. ASSUME NEW p \in Processes, Kill(p) PROVE Halves(h)'
  BY <1>4, DropHalves DEF Kill
<1> QED
  BY <1>1, <1>2, <1>3, <1>4 DEF Next

(* No seq returned is beyond some bound: there is a last one.              *)
LEMMA StepBound ==
  ASSUME Inv, Data, [Next]_vars
  PROVE  \E b \in Nat : \A r \in accepted' : r.seq <= b
<1>1. PICK b \in Nat : \A r \in accepted : r.seq <= b
  BY DEF Data
<1>2. TypeOK
  BY DEF Data
<1>3. ASSUME accepted' \subseteq accepted PROVE \E c \in Nat : \A r \in accepted' : r.seq <= c
  BY <1>1, <1>3
<1>4. ASSUME NEW t \in Threads, Return(t)
      PROVE  \E c \in Nat : \A r \in accepted' : r.seq <= c
  <2> DEFINE n == Len(frame[t].draft)
             q == [on |-> frame[t].on, seq |-> n, by |-> t, expected |-> frame[t].expected]
  <2>1. n \in Nat
    BY <1>2, LenProperties DEF TypeOK, Frames, Graphs
  <2>2. accepted' = accepted \/ accepted' = accepted \cup {q}
    BY <1>4 DEF Return
  <2>3. q.seq = n
    OBVIOUS
  <2> HIDE DEF n, q
  <2>4. b + n \in Nat /\ n <= b + n /\ \A m \in Nat : m <= b => m <= b + n
    BY <2>1
  <2>5. \A r \in accepted : r.seq \in Nat
    BY <1>2 DEF TypeOK
  <2>6. \A r \in accepted' : r.seq <= b + n
    BY <1>1, <2>2, <2>3, <2>4, <2>5
  <2> QED
    BY <2>4, <2>6
<1>5. ASSUME NEW hs, DropStores(hs) PROVE accepted' \subseteq accepted
  BY <1>5 DEF DropStores
<1>6. CASE UNCHANGED vars
  BY <1>3, <1>6 DEF vars
<1>7. ASSUME NEW t \in Threads, Call(t)
      PROVE  \E c \in Nat : \A r \in accepted' : r.seq <= c
  <2>1. accepted' = accepted
    BY <1>7 DEF Call, CallOpen, CallCreate, ReadSeq, CallApply, CallFlush, CallCompact,
       Write, CallRead, CallKnob, CallClose
  <2> QED
    BY <1>3, <2>1
<1>8. ASSUME NEW t \in Threads, Continue(t), ~ Return(t)
      PROVE  \E c \in Nat : \A r \in accepted' : r.seq <= c
  <2>1. accepted' = accepted \/ DropStores({frame[t].on})
    BY <1>8 DEF Continue, Lock, SetPolicy, RefuseBatch, AppendBatch, Publish, Fold,
       Commit, Release, LeaveStore, ReadBase, ReadDelta, TakeLock, LockHeld,
       Recover, RefuseToClobber, BuildFiles, WriteManifest
  <2> QED
    BY <1>3, <1>5, <2>1
<1>9. ASSUME NEW h \in Handles, DropObject(h)
      PROVE  \E c \in Nat : \A r \in accepted' : r.seq <= c
  BY <1>3, <1>5, <1>9 DEF DropObject
<1>10. ASSUME NEW p \in Processes, Kill(p)
       PROVE  \E c \in Nat : \A r \in accepted' : r.seq <= c
  BY <1>3, <1>5, <1>10 DEF Kill
<1> QED
  BY <1>4, <1>6, <1>7, <1>8, <1>9, <1>10 DEF Next

(* What a step makes of the marker and the snapshot file.                  *)
DiskStep ==
  \/ disk' = disk
  \/ \E t \in Threads :
       \/ /\ AppendBatch(t)
          /\ disk' = [disk EXCEPT !.stored = frame'[t].draft]
       \/ /\ Fold(t)
          /\ disk' = [disk EXCEPT !.stored = handle[frame[t].on].log,
                                  !.folded = Len(handle[frame[t].on].log)]
       \/ /\ Commit(t)
          /\ disk' = [disk EXCEPT !.stored = handle[frame[t].on].log]
       \/ /\ WriteManifest(t)
          /\ disk' = [manifest |-> TRUE, stored |-> << >>, folded |-> 0]

(* What a step may do to the files: append, fold, commit or create.        *)
LEMMA StepDisk ==
  ASSUME TypeOK, [Next]_vars
  PROVE  DiskStep
<1>1. ASSUME disk' = disk PROVE DiskStep
  BY <1>1 DEF DiskStep
<1>2. ASSUME NEW t \in Threads, Call(t) PROVE DiskStep
  BY <1>1, <1>2 DEF Call, CallOpen, CallCreate, ReadSeq, CallApply, CallFlush,
     CallCompact, Write, CallRead, CallKnob, CallClose
<1>3. ASSUME NEW t \in Threads, AppendBatch(t) PROVE DiskStep
  <2> DEFINE g == Append(handle[frame[t].on].log,
                         [by |-> t, expected |-> frame[t].expected])
  <2>1. frame' = [frame EXCEPT ![t].draft = g, ![t].pc = "publish"]
    BY <1>3 DEF AppendBatch
  <2>2. disk' = disk \/ disk' = [disk EXCEPT !.stored = g]
    BY <1>3 DEF AppendBatch
  <2> HIDE DEF g
  <2>3. frame'[t].draft = g
    BY <2>1 DEF TypeOK, Frames
  <2> QED
    BY <1>3, <2>2, <2>3 DEF DiskStep
<1>4. ASSUME NEW t \in Threads, Fold(t) PROVE DiskStep
  <2>1. \/ disk' = disk
        \/ disk' = [disk EXCEPT !.stored = handle[frame[t].on].log,
                                !.folded = Len(handle[frame[t].on].log)]
    BY <1>4 DEF Fold
  <2> QED
    BY <1>4, <2>1 DEF DiskStep
<1>5. ASSUME NEW t \in Threads, Commit(t) PROVE DiskStep
  <2>1. disk' = [disk EXCEPT !.stored = handle[frame[t].on].log]
    BY <1>5 DEF Commit
  <2> QED
    BY <1>5, <2>1 DEF DiskStep
<1>6. ASSUME NEW t \in Threads, WriteManifest(t) PROVE DiskStep
  <2>1. disk' = [manifest |-> TRUE, stored |-> << >>, folded |-> 0]
    BY <1>6 DEF WriteManifest
  <2> QED
    BY <1>6, <2>1 DEF DiskStep
<1>7. ASSUME NEW t \in Threads, Continue(t) PROVE DiskStep
  BY <1>1, <1>3, <1>4, <1>5, <1>6, <1>7 DEF Continue, Lock, SetPolicy, RefuseBatch,
     Publish, Release, LeaveStore, ReadBase, ReadDelta, Return, TakeLock, LockHeld,
     Recover, RefuseToClobber, BuildFiles
<1>8. CASE UNCHANGED vars
  BY <1>1, <1>8 DEF vars
<1>9. ASSUME NEW h \in Handles, DropObject(h) PROVE DiskStep
  BY <1>1, <1>9 DEF DropObject
<1>10. ASSUME NEW p \in Processes, Kill(p) PROVE DiskStep
  BY <1>1, <1>10 DEF Kill
<1> QED
  BY <1>2, <1>7, <1>8, <1>9, <1>10 DEF Next

(* The thread that appends, folds or commits: it has the mutex, and is not *)
(* about to publish.                                                       *)
LEMMA Writing ==
  ASSUME Inv, Data, NEW t \in Threads, AppendBatch(t) \/ Fold(t) \/ Commit(t)
  PROVE  LET h == frame[t].on IN
         /\ h \in Handles /\ frame[t] \in Frames /\ handle[h].log \in Graphs
         /\ Len(handle[h].log) \in Nat
         /\ frame[t].pc \in Guarded /\ frame[t].pc # "publish"
         /\ Owned(h) /\ flock = h
<1>1. frame[t].pc \in {"held", "fold"} /\ frame[t].op \in {"apply", "compact", "flush", "close"}
  BY DEF AppendBatch, Fold, Commit, At
<1>2. frame[t].on \in Handles /\ frame[t] \in Frames /\ handle[frame[t].on].log \in Graphs
  BY <1>1, OnHandle
<1>3. Len(handle[frame[t].on].log) \in Nat
  BY <1>2, LenProperties DEF Graphs
<1>4. Owned(frame[t].on)
  BY <1>1 DEF Inv, Relies, Owned
<1>5. flock = frame[t].on
  BY <1>2, <1>4 DEF Inv, Holds, Owned
<1> QED
  BY <1>1, <1>2, <1>3, <1>4, <1>5 DEF Guarded

(* The draft of a thread that has just appended.                           *)
LEMMA Appended ==
  ASSUME Inv, Data, NEW t \in Threads, AppendBatch(t)
  PROVE  LET g == handle[frame[t].on].log k == frame'[t].draft IN
         /\ k \in Graphs /\ Len(k) = Len(g) + 1 /\ FirstPart(g, k)
         /\ frame'[t].pc = "publish" /\ frame'[t].on = frame[t].on
<1> DEFINE g == handle[frame[t].on].log
           k == Append(g, [by |-> t, expected |-> frame[t].expected])
<1>1. /\ g \in Graphs /\ frame[t] \in Frames
      /\ frame[t].expected \in SUBSET Nat /\ TypeOK
  BY Writing DEF Frames, Data
<1>2. k \in Graphs /\ Len(k) = Len(g) + 1 /\ FirstPart(g, k)
  BY <1>1, AppendType
<1>3. frame' = [frame EXCEPT ![t].draft = k, ![t].pc = "publish"]
  BY DEF AppendBatch
<1> HIDE DEF k, g
<1>4. /\ frame'[t].draft = k /\ frame'[t].pc = "publish"
      /\ frame'[t].on = frame[t].on
  BY <1>1, <1>3 DEF TypeOK, Frames
<1> QED
  BY <1>2, <1>4 DEF g

(***************************************************************************)
(* The marker.                                                             *)
(***************************************************************************)
(* Whoever is about to move the marker finds it covering part of the log.  *)
LEMMA MarkerBehind ==
  ASSUME Inv, Data, Safe, NEW t \in Threads, AppendBatch(t) \/ Fold(t) \/ Commit(t)
  PROVE  /\ disk.stored \in Graphs /\ disk.manifest
         /\ FirstPart(disk.stored, handle[frame[t].on].log)
<1> DEFINE h == frame[t].on
<1>1. /\ h \in Handles /\ Owned(h) /\ Covered(h) /\ disk.manifest
      /\ frame[t].pc \in Guarded /\ frame[t].pc # "publish"
  BY Writing DEF Safe
<1>2. ASSUME NEW u \in Threads, frame[u].pc = "publish", frame[u].on = h PROVE FALSE
  BY <1>1, <1>2, MutexIsExclusive DEF Guarded
<1> QED
  BY <1>1, <1>2 DEF Covered, Data, TypeOK, Disks

(* The marker covers as much after a step as before it, and more.          *)
LEMMA MarkerGrows ==
  ASSUME Inv, Data, Safe, [Next]_vars
  PROVE  /\ disk.stored \in Graphs /\ disk'.stored \in Graphs
         /\ FirstPart(disk.stored, disk'.stored)
         /\ disk.manifest => disk'.manifest
<1>1. DiskStep /\ disk \in Disks /\ disk' \in Disks
  BY StepDisk, StepTypes DEF Data, TypeOK
<1>2. disk.stored \in Graphs /\ disk'.stored \in Graphs
  BY <1>1 DEF Disks
<1>4. ASSUME NEW t \in Threads, AppendBatch(t),
             disk' = [disk EXCEPT !.stored = frame'[t].draft]
      PROVE  FirstPart(disk.stored, disk'.stored) /\ disk'.manifest = disk.manifest
  <2> DEFINE g == handle[frame[t].on].log
             k == frame'[t].draft
  <2>1. /\ FirstPart(disk.stored, g) /\ FirstPart(g, k)
        /\ g \in Graphs /\ k \in Graphs
    BY <1>4, MarkerBehind, Appended, Writing
  <2>2. disk'.stored = k /\ disk'.manifest = disk.manifest
    BY <1>1, <1>4 DEF Disks
  <2> HIDE DEF g, k
  <2> QED
    BY <1>2, <2>1, <2>2, FirstPartProperties
<1>5. ASSUME NEW t \in Threads, Fold(t) \/ Commit(t),
             disk'.stored = handle[frame[t].on].log
      PROVE  FirstPart(disk.stored, disk'.stored)
  BY <1>5, MarkerBehind
<1>6. ASSUME NEW t \in Threads, WriteManifest(t)
      PROVE  FirstPart(disk.stored, disk'.stored)
  <2>1. ~ disk.manifest
    BY <1>6 DEF WriteManifest, Safe, Opening
  <2>2. disk.stored = << >>
    BY <2>1 DEF Safe
  <2> QED
    BY <1>2, <2>2, FirstPartProperties
<1>7. ASSUME NEW t \in Threads, Fold(t),
             disk' = [disk EXCEPT !.stored = handle[frame[t].on].log,
                                  !.folded = Len(handle[frame[t].on].log)]
      PROVE  disk'.stored = handle[frame[t].on].log /\ disk'.manifest = disk.manifest
  BY <1>1, <1>7 DEF Disks
<1>8. ASSUME NEW t \in Threads, Commit(t),
             disk' = [disk EXCEPT !.stored = handle[frame[t].on].log]
      PROVE  disk'.stored = handle[frame[t].on].log /\ disk'.manifest = disk.manifest
  BY <1>1, <1>8 DEF Disks
<1> DEFINE Grown == /\ FirstPart(disk.stored, disk'.stored)
                    /\ disk.manifest => disk'.manifest
<1>9. ASSUME disk' = disk PROVE Grown
  BY <1>2, <1>9, FirstPartProperties
<1>10. ASSUME NEW t \in Threads, AppendBatch(t),
              disk' = [disk EXCEPT !.stored = frame'[t].draft]
       PROVE  Grown
  BY <1>4, <1>10, Zenon
<1>11. ASSUME NEW t \in Threads, Fold(t),
              disk' = [disk EXCEPT !.stored = handle[frame[t].on].log,
                                   !.folded = Len(handle[frame[t].on].log)]
       PROVE  Grown
  BY <1>5, <1>7, <1>11, Zenon
<1>12. ASSUME NEW t \in Threads, Commit(t),
              disk' = [disk EXCEPT !.stored = handle[frame[t].on].log]
       PROVE  Grown
  BY <1>5, <1>8, <1>12, Zenon
<1>13. ASSUME NEW t \in Threads, WriteManifest(t),
              disk' = [manifest |-> TRUE, stored |-> << >>, folded |-> 0]
       PROVE  Grown
  <2>1. disk'.manifest
    BY <1>13
  <2> QED
    BY <1>6, <1>13, <2>1, Zenon
<1>14. Grown
  <2> HIDE DEF Grown
  <2> QED
    BY <1>1, <1>9, <1>10, <1>11, <1>12, <1>13 DEF DiskStep
<1> QED
  BY <1>2, <1>14, Zenon

(* The snapshot file never holds more than the marker covers.              *)
LEMMA StepFolded ==
  ASSUME Inv, Data, Safe, [Next]_vars
  PROVE  disk'.folded <= Len(disk'.stored)
<1>1. /\ DiskStep /\ disk \in Disks /\ disk.folded <= Len(disk.stored)
      /\ disk.folded \in Nat /\ disk.stored \in Graphs
      /\ Len(disk.stored) \in Nat /\ Len(disk'.stored) \in Nat
      /\ Len(disk.stored) <= Len(disk'.stored)
  BY StepDisk, MarkerGrows, LenProperties DEF Data, TypeOK, Disks, Graphs, FirstPart
<1>2. CASE disk'.folded = disk.folded
  BY <1>1, <1>2
<1>3. ASSUME NEW t \in Threads, Fold(t),
             disk' = [disk EXCEPT !.stored = handle[frame[t].on].log,
                                  !.folded = Len(handle[frame[t].on].log)]
      PROVE  disk'.folded <= Len(disk'.stored)
  <2>1. Len(handle[frame[t].on].log) \in Nat
    BY <1>3, Writing
  <2>2. disk'.folded = Len(handle[frame[t].on].log) /\ disk'.stored = handle[frame[t].on].log
    BY <1>1, <1>3 DEF Disks
  <2> QED
    BY <2>1, <2>2
<1>4. CASE disk'.folded = 0
  BY <1>1, <1>4
<1>5. ASSUME NEW g, disk' = [disk EXCEPT !.stored = g]
      PROVE  disk'.folded <= Len(disk'.stored)
  <2>1. disk'.folded = disk.folded
    BY <1>1, <1>5 DEF Disks
  <2> QED
    BY <1>2, <2>1
<1>6. ASSUME disk' = [manifest |-> TRUE, stored |-> << >>, folded |-> 0]
      PROVE  disk'.folded <= Len(disk'.stored)
  BY <1>4, <1>6
<1>7. ASSUME disk' = disk PROVE disk'.folded <= Len(disk'.stored)
  BY <1>2, <1>7
<1> QED
  BY <1>1, <1>3, <1>5, <1>6, <1>7, Zenon DEF DiskStep

(* Every step keeps Data.                                                  *)
LEMMA DataNext ==
  ASSUME Inv, Data, Safe, [Next]_vars
  PROVE  Data'
<1>1. TypeOK'
  BY StepTypes
<1>2. (\E b \in Nat : \A r \in accepted : r.seq <= b)'
  BY StepBound
<1>3. (disk.folded <= Len(disk.stored))'
  BY StepFolded
<1>4. (\A h \in Handles : Halves(h))'
  BY StepHalves
<1>5. (\A t \in Threads : Guards(t) /\ Drafts(t))'
  BY StepThreads
<1> QED
  BY <1>1, <1>2, <1>3, <1>4, <1>5 DEF Data

(***************************************************************************)
(* The stores.                                                             *)
(***************************************************************************)
(* A store stays as it was or is published to.                             *)
Kept(h) ==
  /\ Owned(h)'
  /\ \/ SameLog(h)
     \/ \E t \in Threads : /\ Publish(t) /\ frame[t].on = h
                           /\ handle'[h].log = frame[t].draft

(* A call opens no store, drops none and writes to no log.                 *)
LEMMA CallKeepsStores ==
  ASSUME Inv, Data, NEW t \in Threads, Call(t), NEW h \in Handles
  PROVE  SameLog(h) /\ (Owned(h) <=> Owned(h)')
<1>1. TypeOK /\ handle[h] \in HandleRecords
  BY DEF Data, TypeOK
<1>2. ASSUME handle' = handle PROVE SameLog(h) /\ (Owned(h) <=> Owned(h)')
  BY <1>2 DEF SameLog, Owned
<1>3. ASSUME NEW pc, Begin(t, pc) PROVE SameLog(h) /\ (Owned(h) <=> Owned(h)')
  <2>1. PICK k \in FreshHandles :
          handle' = [handle EXCEPT ![k].status = "building", ![k].owner = ProcessOf[t]]
    BY <1>3 DEF Begin
  <2>2. k \in Handles /\ handle[k].status = "unused"
    BY DEF FreshHandles
  <2> QED
    BY <1>1, <2>1, <2>2 DEF SameLog, Owned, TypeOK, HandleRecords
<1>4. ASSUME NEW k \in Handles, CallClose(t, k)
      PROVE  SameLog(h) /\ (Owned(h) <=> Owned(h)')
  BY <1>1, <1>4 DEF CallClose, SameLog, Owned, TypeOK, HandleRecords
<1> QED
  BY <1>2, <1>3, <1>4 DEF Call, CallOpen, CallCreate, ReadSeq, CallApply, CallFlush,
     CallCompact, Write, CallRead, CallKnob

(* Steps in a call: a store is kept, left by its close, or opened.         *)
LEMMA ContinueKeepsStores ==
  ASSUME Inv, Data, NEW t \in Threads, Continue(t), NEW h \in Handles
  PROVE  /\ Owned(h) => Kept(h) \/ (LeaveStore(t) /\ frame[t].on = h)
         /\ Owned(h)' /\ ~ Owned(h) =>
              /\ frame[t].on = h
              /\ \/ Recover(t) /\ handle'[h].log = disk.stored
                 \/ WriteManifest(t) /\ handle'[h].log = << >>
<1>1. TypeOK /\ handle[h] \in HandleRecords /\ Relies(t)
  BY DEF Data, TypeOK, Inv
<1> DEFINE k == frame[t].on
           Shown == /\ Owned(h) => Kept(h) \/ (LeaveStore(t) /\ k = h)
                    /\ Owned(h)' /\ ~ Owned(h) =>
                         /\ k = h
                         /\ \/ Recover(t) /\ handle'[h].log = disk.stored
                            \/ WriteManifest(t) /\ handle'[h].log = << >>
<1>2. ASSUME SameLog(h), handle'[h].status = handle[h].status PROVE Shown
  BY <1>2 DEF Kept, Owned
<1>3. ASSUME handle' = handle PROVE Shown
  BY <1>2, <1>3 DEF SameLog
<1>4. ASSUME NEW m, handle' = [handle EXCEPT ![k].mutex = m] PROVE Shown
  <2>1. SameLog(h) /\ handle'[h].status = handle[h].status
    BY <1>1, <1>4 DEF SameLog, TypeOK, HandleRecords
  <2> QED
    BY <1>2, <2>1
<1>5. ASSUME NEW p, handle' = [handle EXCEPT ![k].policy = p] PROVE Shown
  <2>1. SameLog(h) /\ handle'[h].status = handle[h].status
    BY <1>1, <1>5 DEF SameLog, TypeOK, HandleRecords
  <2> QED
    BY <1>2, <2>1
<1>6. ASSUME NEW s, handle' = [handle EXCEPT ![k].state = s] PROVE Shown
  <2>1. SameLog(h) /\ handle'[h].status = handle[h].status
    BY <1>1, <1>6 DEF SameLog, TypeOK, HandleRecords
  <2> QED
    BY <1>2, <2>1
<1>7. ASSUME h # k, NEW r, handle' = [handle EXCEPT ![k] = r] PROVE Shown
  <2>1. handle'[h] = handle[h]
    BY <1>1, <1>7 DEF TypeOK
  <2> QED
    BY <1>2, <2>1 DEF SameLog
<1>8. ASSUME Publish(t) PROVE Shown
  <2> DEFINE s == GraphState(frame[t].draft, Len(handle[k].state.base))
  <2>1. handle' = [handle EXCEPT ![k].log = frame[t].draft, ![k].state = s]
    BY <1>8 DEF Publish
  <2> HIDE DEF s
  <2>2. /\ handle'[h].status = handle[h].status
        /\ IF h = k THEN handle'[h].log = frame[t].draft ELSE SameLog(h)
    BY <1>1, <2>1 DEF SameLog, TypeOK, HandleRecords
  <2> QED
    BY <1>2, <1>8, <2>2 DEF Kept, Owned
<1>9. ASSUME LeaveStore(t) PROVE Shown
  <2>1. DropStores({k})
    BY <1>9 DEF LeaveStore
  <2>2. CASE h = k
    <3>1. ~ Owned(h)'
      BY <2>1, <2>2, Dropped DEF Owned
    <3> QED
      BY <1>9, <2>2, <3>1
  <2>3. CASE h # k
    BY <1>2, <2>1, <2>3, Dropped DEF SameLog
  <2> QED
    BY <2>2, <2>3
<1>10. ASSUME frame[t].op = "open" PROVE handle[k].status = "building"
  BY <1>1, <1>10 DEF Relies
<1>11. ASSUME LockHeld(t) \/ RefuseToClobber(t) PROVE Shown
  <2>1. handle' = [handle EXCEPT ![k] = NoStore("unused")] /\ handle[k].status = "building"
    BY <1>1, <1>10, <1>11 DEF LockHeld, RefuseToClobber, Fail, Relies, OpenSteps
  <2>2. CASE h = k
    <3>1. handle'[h].status = "unused"
      BY <1>1, <2>1, <2>2 DEF NoStore, TypeOK
    <3> QED
      BY <2>1, <2>2, <3>1 DEF Owned
  <2>3. CASE h # k
    BY <1>7, <2>1, <2>3
  <2> QED
    BY <2>2, <2>3
<1>12. ASSUME NEW g, NEW n, Opened(t, g, n), frame[t].op = "open",
              \/ Recover(t) /\ g = disk.stored
              \/ WriteManifest(t) /\ g = << >>
       PROVE  Shown
  <2> DEFINE s == GraphState(g, n)
  <2>1. /\ handle' = [handle EXCEPT ![k] =
                        [@ EXCEPT !.status = "open", !.log = g, !.state = s]]
        /\ handle[k].status = "building"
    BY <1>10, <1>12 DEF Opened
  <2> HIDE DEF s
  <2>2. CASE h = k
    <3>1. handle'[h].log = g /\ ~ Owned(h)
      BY <1>1, <2>1, <2>2 DEF Owned, TypeOK, HandleRecords
    <3> QED
      BY <1>12, <2>2, <3>1
  <2>3. CASE h # k
    BY <1>7, <2>1, <2>3
  <2> QED
    BY <2>2, <2>3
<1>13. ASSUME Recover(t) \/ WriteManifest(t) PROVE Shown
  <2>1. frame[t].op = "open"
    BY <1>1, <1>13 DEF Recover, WriteManifest, Relies, OpenSteps
  <2>2. CASE Recover(t)
    BY <1>12, <2>1, <2>2 DEF Recover
  <2>3. CASE WriteManifest(t)
    BY <1>12, <2>1, <2>3 DEF WriteManifest
  <2> QED
    BY <1>13, <2>2, <2>3
<1>14. ASSUME Fold(t) PROVE Shown
  BY <1>3, <1>6, <1>14 DEF Fold
<1> HIDE DEF Shown
<1>15. Shown
  BY <1>3, <1>4, <1>5, <1>8, <1>9, <1>11, <1>13, <1>14 DEF Continue, Lock, SetPolicy,
     RefuseBatch, AppendBatch, Commit, Release, Unlock, ReadBase, ReadDelta, Return,
     TakeLock, BuildFiles
<1> QED
  BY <1>15 DEF Shown

(* A kept store has a log that begins as it did.                           *)
LEMMA KeptGrows ==
  ASSUME Inv, Data, TypeOK', NEW h \in Handles, Kept(h)
  PROVE  /\ handle[h].log \in Graphs /\ handle'[h].log \in Graphs
         /\ FirstPart(handle[h].log, handle'[h].log)
<1>1. handle[h].log \in Graphs /\ handle'[h].log \in Graphs
  BY DEF Data, TypeOK, HandleRecords
<1>2. CASE SameLog(h)
  BY <1>1, <1>2, FirstPartProperties DEF SameLog
<1>3. ASSUME NEW t \in Threads, Publish(t), frame[t].on = h,
             handle'[h].log = frame[t].draft
      PROVE  FirstPart(handle[h].log, handle'[h].log)
  BY <1>3, PublishedState DEF Publish
<1> QED
  BY <1>1, <1>2, <1>3 DEF Kept

(* A store that is there before and after a step is kept.                  *)
LEMMA StepKeepsStores ==
  ASSUME Inv, Data, [Next]_vars, NEW h \in Handles
  PROVE  /\ Owned(h) /\ Owned(h)' => Kept(h)
         /\ Owned(h)' /\ ~ Owned(h) =>
              \E t \in Threads :
                /\ frame[t].on = h /\ Continue(t)
                /\ \/ Recover(t) /\ handle'[h].log = disk.stored
                   \/ WriteManifest(t) /\ handle'[h].log = << >>
<1>1. ASSUME handle'[h] = handle[h] PROVE SameLog(h) /\ (Owned(h) <=> Owned(h)')
  BY <1>1 DEF SameLog, Owned
<1>2. ASSUME NEW hs, DropStores(hs)
      PROVE  Owned(h)' => Owned(h) /\ SameLog(h)
  <2>1. h \in hs => ~ Owned(h)'
    BY <1>2, Dropped DEF Owned
  <2>2. h \notin hs => handle'[h] = handle[h]
    BY <1>2, Dropped
  <2> QED
    BY <1>1, <2>1, <2>2
<1>3. CASE UNCHANGED vars
  BY <1>1, <1>3 DEF vars, Kept
<1>4. CASE \E t \in Threads : Call(t)
  BY <1>4, CallKeepsStores DEF Kept
<1>5. ASSUME NEW t \in Threads, Continue(t)
      PROVE  /\ Owned(h) /\ Owned(h)' => Kept(h)
             /\ Owned(h)' /\ ~ Owned(h) =>
                  /\ frame[t].on = h
                  /\ \/ Recover(t) /\ handle'[h].log = disk.stored
                     \/ WriteManifest(t) /\ handle'[h].log = << >>
  <2>1. LeaveStore(t) /\ frame[t].on = h => ~ Owned(h)'
    <3> SUFFICES ASSUME LeaveStore(t), frame[t].on = h PROVE ~ Owned(h)'
      OBVIOUS
    <3>1. DropStores({h})
      BY DEF LeaveStore
    <3> QED
      BY <3>1, Dropped DEF Owned
  <2> QED
    BY <1>5, <2>1, ContinueKeepsStores
<1>6. ASSUME NEW k \in Handles, DropObject(k) PROVE Owned(h)' => Owned(h) /\ SameLog(h)
  BY <1>2, <1>6 DEF DropObject
<1>7. ASSUME NEW p \in Processes, Kill(p) PROVE Owned(h)' => Owned(h) /\ SameLog(h)
  BY <1>2, <1>7 DEF Kill
<1>8. CASE \E t \in Threads : Continue(t)
  BY <1>5, <1>8
<1>9. CASE Owned(h)' => Owned(h) /\ SameLog(h)
  BY <1>9 DEF Kept
<1> QED
  BY <1>3, <1>4, <1>6, <1>7, <1>8, <1>9 DEF Next

(***************************************************************************)
(* What apply has returned.                                                *)
(***************************************************************************)
(* An accepted batch of before, or the one just returned.                  *)
LEMMA StepAccepted ==
  ASSUME Inv, Data, Safe, [Next]_vars, NEW r \in accepted'
  PROVE  /\ Owned(r.on) /\ Owned(r.on)' /\ r.on \in Handles
         /\ Named(handle[r.on].log, r.seq, [by |-> r.by, expected |-> r.expected])
<1>1. TypeOK /\ TypeOK'
  BY StepTypes DEF Data
<1>2. r.on \in Handles
  BY <1>1 DEF TypeOK
<1>3. ASSUME r \in accepted
      PROVE  /\ Owned(r.on)
             /\ Named(handle[r.on].log, r.seq, [by |-> r.by, expected |-> r.expected])
  BY <1>3 DEF Safe, Accepted
<1>4. ASSUME NEW hs, DropStores(hs)
      PROVE  r \in accepted /\ (Owned(r.on) => Owned(r.on)')
  <2>1. r \in accepted /\ r.on \notin hs
    BY <1>4 DEF DropStores
  <2>2. handle'[r.on] = handle[r.on]
    BY <1>2, <1>4, <2>1, Dropped
  <2> QED
    BY <2>1, <2>2 DEF Owned
<1>5. ASSUME handle' = handle, r \in accepted PROVE Owned(r.on) => Owned(r.on)'
  BY <1>5 DEF Owned
<1>6. CASE UNCHANGED vars
  BY <1>2, <1>3, <1>5, <1>6 DEF vars
<1>7. ASSUME NEW t \in Threads, Call(t)
      PROVE  r \in accepted /\ (Owned(r.on) => Owned(r.on)')
  <2>1. accepted' = accepted
    BY <1>7 DEF Call, CallOpen, CallCreate, ReadSeq, CallApply, CallFlush, CallCompact,
       Write, CallRead, CallKnob, CallClose
  <2> QED
    BY <1>2, <1>7, <2>1, CallKeepsStores
<1>8. ASSUME NEW t \in Threads, Return(t), r \notin accepted
      PROVE  /\ Owned(r.on) /\ Owned(r.on)'
             /\ Named(handle[r.on].log, r.seq, [by |-> r.by, expected |-> r.expected])
  <2> DEFINE f == frame[t]
  <2>1. /\ f.draft # << >> /\ f.pc = "return" /\ handle' = handle
        /\ r = [on |-> f.on, seq |-> Len(f.draft), by |-> t, expected |-> f.expected]
    BY <1>8 DEF Return
  <2>2. /\ f.op = "apply"
        /\ Named(handle[f.on].log, Len(f.draft), [by |-> t, expected |-> f.expected])
    BY <2>1 DEF Data, Drafts, BatchOf
  <2>3. Owned(f.on)
    BY <2>2 DEF Inv, Relies, Owned
  <2>4. r.on = f.on /\ r.seq = Len(f.draft) /\ r.by = t /\ r.expected = f.expected
    BY <2>1
  <2> QED
    BY <2>1, <2>2, <2>3, <2>4 DEF Owned
<1>9. ASSUME NEW t \in Threads, Continue(t), r \in accepted
      PROVE  Owned(r.on) /\ Owned(r.on)'
  <2>1. CASE LeaveStore(t)
    BY <1>3, <1>4, <1>9, <2>1 DEF LeaveStore
  <2>2. CASE ~ LeaveStore(t)
    BY <1>2, <1>3, <1>9, <2>2, ContinueKeepsStores DEF Kept
  <2> QED
    BY <2>1, <2>2
<1>10. ASSUME NEW t \in Threads, Continue(t), ~ Return(t) PROVE r \in accepted
  <2>1. accepted' = accepted \/ DropStores({frame[t].on})
    BY <1>10 DEF Continue, Lock, SetPolicy, RefuseBatch, AppendBatch, Publish, Fold,
       Commit, Release, LeaveStore, ReadBase, ReadDelta, TakeLock, LockHeld,
       Recover, RefuseToClobber, BuildFiles, WriteManifest
  <2> QED
    BY <1>4, <2>1
<1>11. ASSUME NEW h \in Handles, DropObject(h)
       PROVE  r \in accepted /\ (Owned(r.on) => Owned(r.on)')
  BY <1>4, <1>11 DEF DropObject
<1>12. ASSUME NEW p \in Processes, Kill(p)
       PROVE  r \in accepted /\ (Owned(r.on) => Owned(r.on)')
  BY <1>4, <1>12 DEF Kill
<1>13. ASSUME NEW t \in Threads, Continue(t)
       PROVE  /\ Owned(r.on) /\ Owned(r.on)'
              /\ Named(handle[r.on].log, r.seq, [by |-> r.by, expected |-> r.expected])
  BY <1>3, <1>8, <1>9, <1>10, <1>13
<1> QED
  BY <1>2, <1>3, <1>6, <1>7, <1>11, <1>12, <1>13 DEF Next

(* The log goes on naming every batch whose seq was returned.              *)
LEMMA AcceptedStays ==
  ASSUME Inv, Data, Safe, [Next]_vars, NEW r \in accepted'
  PROVE  Accepted(r)'
<1> DEFINE b == [by |-> r.by, expected |-> r.expected]
           h == r.on
<1>1. /\ h \in Handles /\ Owned(h) /\ Owned(h)' /\ Named(handle[h].log, r.seq, b)
  BY StepAccepted
<1>2. Kept(h) /\ TypeOK'
  BY <1>1, StepKeepsStores, StepTypes
<1>3. /\ handle[h].log \in Graphs /\ handle'[h].log \in Graphs
      /\ FirstPart(handle[h].log, handle'[h].log)
  BY <1>1, <1>2, KeptGrows
<1>4. Named(handle'[h].log, r.seq, b)
  <2> HIDE DEF b, h
  <2> QED
    BY <1>1, <1>3, NamedStays
<1> QED
  BY <1>1, <1>4 DEF Accepted, Owned

(***************************************************************************)
(* Opening and what the marker covers.                                     *)
(***************************************************************************)
(* Two threads past the lock of open or create are one.                    *)
LEMMA OneOpener ==
  ASSUME Inv, NEW t \in Threads, NEW u \in Threads,
         frame[t].pc \in {"recover", "check", "build"},
         frame[u].pc \in {"recover", "check", "build"}
  PROVE  t = u
<1>1. /\ frame[t].op = "open" /\ flock = frame[t].on
      /\ frame[u].op = "open" /\ flock = frame[u].on
  BY DEF Inv, Relies, OpenSteps
<1> QED
  BY <1>1 DEF Inv, Alone

(* A step leaves the MANIFEST as it is, or is the one that creates it.     *)
LEMMA ManifestStep ==
  ASSUME Inv, Data, [Next]_vars
  PROVE  \/ disk'.manifest = disk.manifest
         \/ /\ disk'.manifest /\ disk'.stored = << >>
            /\ \E t \in Threads : WriteManifest(t)
<1>1. DiskStep /\ disk \in Disks
  BY StepDisk DEF Data, TypeOK
<1>2. ASSUME NEW g, disk' = [disk EXCEPT !.stored = g] PROVE disk'.manifest = disk.manifest
  BY <1>1, <1>2 DEF Disks
<1>3. ASSUME NEW g, NEW n, disk' = [disk EXCEPT !.stored = g, !.folded = n]
      PROVE  disk'.manifest = disk.manifest
  BY <1>1, <1>3 DEF Disks
<1>4. ASSUME disk' = [manifest |-> TRUE, stored |-> << >>, folded |-> 0]
      PROVE  disk'.manifest /\ disk'.stored = << >>
  BY <1>4
<1>5. ASSUME disk' = disk PROVE disk'.manifest = disk.manifest
  BY <1>5
<1> QED
  BY <1>1, <1>2, <1>3, <1>4, <1>5, Zenon DEF DiskStep

(* A thread that is neither opening nor building has nothing to keep.      *)
LEMMA OpeningStays ==
  ASSUME Inv, Data, Safe, [Next]_vars, NEW u \in Threads
  PROVE  Opening(u)'
<1>1. /\ Opening(u) /\ Relies(u) /\ TypeOK
      /\ \/ disk'.manifest = disk.manifest
         \/ disk'.manifest /\ \E t \in Threads : WriteManifest(t)
  <2>1. Opening(u) /\ Relies(u) /\ TypeOK
    BY DEF Safe, Inv, Data
  <2>2. \/ disk'.manifest = disk.manifest
        \/ disk'.manifest /\ \E t \in Threads : WriteManifest(t)
    BY ManifestStep
  <2> QED
    BY <2>1, <2>2, Zenon
<1>2. ASSUME frame'[u].pc \notin {"open", "recover", "build"} PROVE Opening(u)'
  BY <1>2 DEF Opening
<1>3. ASSUME frame'[u] = frame[u] PROVE Opening(u)'
  <2>1. CASE disk'.manifest = disk.manifest
    BY <1>1, <1>3, <2>1 DEF Opening
  <2>2. ASSUME disk'.manifest, NEW t \in Threads, WriteManifest(t) PROVE Opening(u)'
    <3>1. frame[t].pc = "build"
      BY <2>2 DEF WriteManifest
    <3>2. CASE frame[u].pc = "build"
      <4>1. u = t
        BY <3>1, <3>2, OneOpener
      <4>2. frame'[u].pc = "idle"
        BY <1>1, <2>2, <4>1 DEF WriteManifest, Opened, Finish, NoCall, TypeOK
      <4> QED
        BY <1>2, <4>2
    <3>3. CASE frame[u].pc # "build"
      BY <1>3, <2>2, <3>3 DEF Opening
    <3> QED
      BY <3>2, <3>3
  <2> QED
    BY <1>1, <2>1, <2>2
<1>4. CASE UNCHANGED vars
  BY <1>3, <1>4 DEF vars
<1>5. ASSUME NEW t \in Threads, Call(t) \/ Continue(t), t # u PROVE Opening(u)'
  BY <1>1, <1>3, <1>5, FramesOfOthers
<1>6. ASSUME Call(u) PROVE Opening(u)'
  <2>1. ASSUME NEW c \in BOOLEAN, CallOpen(u, c) PROVE Opening(u)'
    <3>1. frame'[u].pc = (IF disk.manifest THEN "open" ELSE "create") /\ disk' = disk
      BY <1>1, <2>1 DEF CallOpen, Begin, NoCall, TypeOK
    <3> QED
      BY <1>1, <3>1 DEF Opening
  <2>2. ASSUME CallCreate(u) PROVE Opening(u)'
    <3>1. frame'[u].pc = "create"
      BY <1>1, <2>2 DEF CallCreate, Begin, NoCall, TypeOK
    <3> QED
      BY <1>2, <3>1
  <2>3. ASSUME NEW h \in Handles, ReadSeq(u, h) PROVE Opening(u)'
    BY <1>3, <2>3 DEF ReadSeq
  <2>4. ASSUME NEW h, NEW name, NEW e, Write(u, h, name, e) PROVE Opening(u)'
    <3>1. frame'[u].pc = "wait"
      BY <1>1, <2>4 DEF Write, NoCall, TypeOK
    <3> QED
      BY <1>2, <3>1
  <2>5. ASSUME NEW h \in Handles, CallRead(u, h) PROVE Opening(u)'
    <3>1. frame'[u].pc = "base"
      BY <1>1, <2>5 DEF CallRead, NoCall, TypeOK
    <3> QED
      BY <1>2, <3>1
  <2>6. ASSUME NEW h \in Handles, CallKnob(u, h) PROVE Opening(u)'
    <3>1. frame'[u].pc = "knob"
      BY <1>1, <2>6 DEF CallKnob, NoCall, TypeOK
    <3> QED
      BY <1>2, <3>1
  <2>7. ASSUME NEW h \in Handles, CallClose(u, h) PROVE Opening(u)'
    <3>1. frame'[u].pc = "wait"
      BY <1>1, <2>7 DEF CallClose, NoCall, TypeOK
    <3> QED
      BY <1>2, <3>1
  <2> QED
    BY <1>6, <2>1, <2>2, <2>3, <2>4, <2>5, <2>6, <2>7 DEF Call, CallApply, CallFlush,
       CallCompact
<1>7. ASSUME Continue(u) PROVE Opening(u)'
  <2>1. ASSUME NEW pc, Goto(u, pc) PROVE frame'[u].pc = pc
    BY <1>1, <2>1 DEF Goto, TypeOK, Frames
  <2>2. ASSUME Finish(u) PROVE Opening(u)'
    <3>1. frame'[u].pc = "idle"
      BY <1>1, <2>2 DEF Finish, NoCall, TypeOK
    <3> QED
      BY <1>2, <3>1
  <2>3. ASSUME NEW pc, Goto(u, pc), pc \notin {"open", "recover", "build"}
        PROVE  Opening(u)'
    BY <1>2, <2>1, <2>3
  <2>4. ASSUME AppendBatch(u) PROVE Opening(u)'
    <3>1. frame'[u].pc = "publish"
      BY <2>4, Appended
    <3> QED
      BY <1>2, <3>1
  <2>5. ASSUME ReadBase(u) \/ ReadDelta(u) PROVE Opening(u)'
    <3>1. CASE ReadBase(u)
      <4>1. frame'[u].pc = "delta"
        BY <1>1, <3>1 DEF ReadBase, TypeOK, Frames
      <4> QED
        BY <1>2, <4>1
    <3>2. CASE ReadDelta(u)
      <4>1. frame'[u].pc = "return"
        BY <1>1, <3>2 DEF ReadDelta, TypeOK, Frames
      <4> QED
        BY <1>2, <4>1
    <3> QED
      BY <2>5, <3>1, <3>2
  <2>6. ASSUME TakeLock(u) PROVE Opening(u)'
    <3>1. /\ disk' = disk /\ frame[u].pc \in {"open", "create"}
          /\ frame'[u].pc = IF frame[u].pc = "open" THEN "recover" ELSE "check"
      BY <2>1, <2>6 DEF TakeLock
    <3> QED
      BY <1>1, <3>1 DEF Opening
  <2>7. ASSUME BuildFiles(u) PROVE Opening(u)'
    <3>1. disk' = disk /\ ~ disk.manifest /\ frame'[u].pc = "build"
      BY <2>1, <2>7 DEF BuildFiles, Occupied
    <3> QED
      BY <3>1 DEF Opening
  <2> QED
    BY <1>7, <2>2, <2>3, <2>4, <2>5, <2>6, <2>7 DEF Continue, Lock, SetPolicy,
       RefuseBatch, Publish, Fold, Commit, Release, LeaveStore, Return, LockHeld,
       Recover, RefuseToClobber, WriteManifest, Fail, Opened
<1>8. ASSUME NEW h \in Handles, DropObject(h) PROVE Opening(u)'
  BY <1>3, <1>8 DEF DropObject
<1>9. ASSUME NEW p \in Processes, Kill(p) PROVE Opening(u)'
  <2>1. frame'[u] = frame[u] \/ frame'[u].pc = "idle"
    BY <1>9, KillSpares DEF NoCall
  <2> QED
    BY <1>2, <1>3, <2>1
<1> QED
  BY <1>4, <1>5, <1>6, <1>7, <1>8, <1>9 DEF Next

(* No store without a MANIFEST, and nothing stored without one.            *)
LEMMA ManifestStays ==
  ASSUME Inv, Data, Safe, [Next]_vars
  PROVE  /\ \A h \in Handles : Owned(h)' => disk'.manifest
         /\ ~ disk'.manifest => disk'.stored = << >>
<1>1. disk.manifest => disk'.manifest
  BY MarkerGrows
<1>2. ASSUME NEW h \in Handles, Owned(h)' PROVE disk'.manifest
  <2>1. CASE Owned(h)
    BY <1>1, <2>1 DEF Safe
  <2>2. CASE ~ Owned(h)
    <3>1. PICK t \in Threads : Continue(t) /\ (Recover(t) \/ WriteManifest(t))
      BY <1>2, <2>2, StepKeepsStores
    <3>2. CASE Recover(t)
      BY <1>1, <3>2 DEF Recover, Safe, Opening
    <3>3. CASE WriteManifest(t)
      BY <3>3 DEF WriteManifest
    <3> QED
      BY <3>1, <3>2, <3>3
  <2> QED
    BY <2>1, <2>2
<1>3. ASSUME ~ disk'.manifest PROVE disk'.stored = << >>
  <2>1. ~ disk.manifest /\ DiskStep
    BY <1>1, <1>3, StepDisk DEF Data
  <2>2. disk.stored = << >>
    BY <2>1 DEF Safe
  <2>3. \A t \in Threads : ~ (AppendBatch(t) \/ Fold(t) \/ Commit(t))
    BY <2>1, MarkerBehind
  <2>4. ASSUME NEW t \in Threads,
               disk' = [manifest |-> TRUE, stored |-> << >>, folded |-> 0]
        PROVE  FALSE
    BY <1>3, <2>4
  <2>5. disk' = disk
    BY <2>1, <2>3, <2>4, Zenon DEF DiskStep
  <2> QED
    BY <2>2, <2>5
<1> QED
  BY <1>2, <1>3

(* A thread about to publish does so, or is killed with its store.         *)
LEMMA Publishing ==
  ASSUME Inv, Data, [Next]_vars, NEW t \in Threads, frame[t].pc = "publish",
         NEW h \in Handles, frame[t].on = h, Owned(h)'
  PROVE  frame'[t] = frame[t] \/ handle'[h].log = frame[t].draft
<1>1. Relies(t) /\ TypeOK
  BY DEF Inv, Data
<1>2. ASSUME Continue(t) PROVE handle'[h].log = frame[t].draft
  <2>1. Publish(t)
    BY <1>2 DEF Continue, Lock, SetPolicy, RefuseBatch, AppendBatch, Fold, Commit,
       Release, LeaveStore, ReadBase, ReadDelta, Return, TakeLock, LockHeld, Recover,
       RefuseToClobber, BuildFiles, WriteManifest, At
  <2> QED
    BY <1>1, <2>1 DEF Publish, TypeOK, HandleRecords
<1>3. ~ Call(t)
  BY DEF Call, CallOpen, CallCreate, ReadSeq, CallApply, CallFlush, CallCompact, Write,
     CallRead, CallKnob, CallClose, Calling
<1>4. ASSUME NEW u \in Threads \ {t}, Call(u) \/ Continue(u) PROVE frame'[t] = frame[t]
  BY <1>1, <1>4, FramesOfOthers
<1>5. ASSUME NEW p \in Processes, Kill(p) PROVE frame'[t] = frame[t]
  <2>1. CASE ProcessOf[t] = p
    <3>1. frame[t].op # "none" /\ frame[t].op # "open"
      BY <1>1 DEF Relies, OpenSteps
    <3>2. handle[h].owner = p
      <4>1. CASE frame[t].op = "close"
        BY <1>1, <2>1, <3>1, <4>1 DEF Relies
      <4>2. CASE frame[t].op # "close"
        BY <1>1, <2>1, <3>1, <4>2 DEF Relies
      <4> QED
        BY <4>1, <4>2
    <3>3. DropStores(Alive(p)) /\ h \in Alive(p)
      BY <1>5, <3>2 DEF Kill, Alive
    <3>4. handle'[h].status = "gone"
      BY <3>3, Dropped
    <3> QED
      BY <3>4 DEF Owned
  <2>2. CASE ProcessOf[t] # p
    BY <1>5, <2>2, KillSpares
  <2> QED
    BY <2>1, <2>2
<1>6. ASSUME NEW k \in Handles, DropObject(k) PROVE frame'[t] = frame[t]
  BY <1>6 DEF DropObject
<1>7. CASE UNCHANGED vars
  BY <1>7 DEF vars
<1> QED
  BY <1>2, <1>3, <1>4, <1>5, <1>6, <1>7 DEF Next

(* The log has, or is about to get, what the marker covers after a step.   *)
LEMMA CoveredStays ==
  ASSUME Inv, Inv', Data, Safe, [Next]_vars, NEW h \in Handles
  PROVE  Covered(h)'
<1>1. /\ TypeOK /\ TypeOK' /\ DiskStep
      /\ disk.stored \in Graphs /\ handle'[h].log \in Graphs
  BY StepTypes, StepDisk, MarkerGrows DEF Data, TypeOK, HandleRecords
<1> SUFFICES ASSUME Owned(h)'
             PROVE  \/ FirstPart(disk'.stored, handle'[h].log)
                    \/ \E t \in Threads : /\ frame'[t].pc = "publish"
                                          /\ frame'[t].on = h
                                          /\ FirstPart(disk'.stored, frame'[t].draft)
  BY DEF Covered
<1>2. CASE ~ Owned(h)
  <2>1. PICK t \in Threads :
          \/ Recover(t) /\ handle'[h].log = disk.stored
          \/ WriteManifest(t) /\ handle'[h].log = << >>
    BY <1>2, StepKeepsStores
  <2>2. CASE Recover(t) /\ handle'[h].log = disk.stored
    <3>1. disk' = disk
      BY <2>2 DEF Recover
    <3> QED
      BY <1>1, <2>2, <3>1, FirstPartProperties
  <2>3. CASE WriteManifest(t) /\ handle'[h].log = << >>
    <3>1. disk'.stored = << >>
      BY <2>3 DEF WriteManifest
    <3> QED
      BY <1>1, <3>1, FirstPartProperties
  <2> QED
    BY <2>1, <2>2, <2>3
<1>3. CASE Owned(h)
  <2>1. Kept(h) /\ flock = h /\ Covered(h)
    BY <1>3, StepKeepsStores DEF Inv, Holds, Owned, Safe
  <2>2. /\ handle[h].log \in Graphs
        /\ FirstPart(handle[h].log, handle'[h].log)
    BY <1>1, <2>1, KeptGrows
  <2>3. CASE disk' = disk
    <3>1. CASE FirstPart(disk.stored, handle[h].log)
      BY <1>1, <2>2, <2>3, <3>1, FirstPartProperties
    <3>2. ASSUME NEW t \in Threads, frame[t].pc = "publish", frame[t].on = h,
                 FirstPart(disk.stored, frame[t].draft)
          PROVE  \/ FirstPart(disk'.stored, handle'[h].log)
                 \/ \E u \in Threads : /\ frame'[u].pc = "publish"
                                       /\ frame'[u].on = h
                                       /\ FirstPart(disk'.stored, frame'[u].draft)
      <4>1. CASE frame'[t] = frame[t]
        BY <2>3, <3>2, <4>1
      <4>2. CASE handle'[h].log = frame[t].draft
        BY <2>3, <3>2, <4>2
      <4> QED
        BY <3>2, <4>1, <4>2, Publishing
    <3> QED
      BY <1>3, <2>1, <3>1, <3>2 DEF Covered
  <2>4. ASSUME NEW t \in Threads, AppendBatch(t) \/ Fold(t) \/ Commit(t)
        PROVE  frame[t].on = h
    BY <2>1, <2>4, Writing
  <2>5. ASSUME NEW t \in Threads, AppendBatch(t),
               disk' = [disk EXCEPT !.stored = frame'[t].draft]
        PROVE  \E u \in Threads : /\ frame'[u].pc = "publish"
                                  /\ frame'[u].on = h
                                  /\ FirstPart(disk'.stored, frame'[u].draft)
    <3> DEFINE k == frame'[t].draft
    <3>1. k \in Graphs /\ frame'[t].pc = "publish" /\ frame'[t].on = h
      BY <2>4, <2>5, Appended
    <3>2. disk'.stored = k
      BY <1>1, <2>5 DEF TypeOK, Disks
    <3>3. FirstPart(disk'.stored, k)
      <4> HIDE DEF k
      <4> QED
        BY <3>1, <3>2, FirstPartProperties
    <3> QED
      BY <3>1, <3>3
  <2>6. ASSUME NEW t \in Threads, Fold(t) \/ Commit(t),
               disk'.stored = handle[frame[t].on].log
        PROVE  FirstPart(disk'.stored, handle'[h].log)
    BY <2>2, <2>4, <2>6
  <2>7. ASSUME NEW t \in Threads, WriteManifest(t) PROVE FALSE
    <3>1. frame[t].pc = "build"
      BY <2>7 DEF WriteManifest
    <3>2. handle[frame[t].on].status = "building" /\ flock = frame[t].on
      BY <3>1 DEF Inv, Relies, OpenSteps
    <3> QED
      BY <1>3, <2>1, <3>2 DEF Owned
  <2>8. ASSUME NEW t \in Threads, Fold(t),
               disk' = [disk EXCEPT !.stored = handle[frame[t].on].log,
                                    !.folded = Len(handle[frame[t].on].log)]
        PROVE  FirstPart(disk'.stored, handle'[h].log)
    <3>1. disk'.stored = handle[frame[t].on].log
      BY <1>1, <2>8 DEF TypeOK, Disks
    <3> QED
      BY <2>6, <2>8, <3>1
  <2>9. ASSUME NEW t \in Threads, Commit(t),
               disk' = [disk EXCEPT !.stored = handle[frame[t].on].log]
        PROVE  FirstPart(disk'.stored, handle'[h].log)
    <3>1. disk'.stored = handle[frame[t].on].log
      BY <1>1, <2>9 DEF TypeOK, Disks
    <3> QED
      BY <2>6, <2>9, <3>1
  <2> QED
    BY <1>1, <2>3, <2>5, <2>7, <2>8, <2>9 DEF DiskStep
<1> QED
  BY <1>2, <1>3

(***************************************************************************)
(* Reads.                                                                  *)
(***************************************************************************)
(* What a reader loads is the whole log, of the seq the state has.         *)
LEMMA StateIsLog ==
  ASSUME Data, NEW h \in Handles
  PROVE  LET s == handle[h].state IN
         /\ s \in GraphStates /\ handle[h].log \in Graphs
         /\ s.base \o s.delta = handle[h].log
         /\ SeqOf(s) = Len(handle[h].log) /\ SeqOf(s) \in Nat
<1> DEFINE s == handle[h].state
           g == handle[h].log
           n == Len(s.base)
<1>1. s \in GraphStates /\ g \in Graphs
  BY DEF Data, TypeOK, HandleRecords
<1>2. n <= Len(g) /\ s = GraphState(g, n)
  BY DEF Data, Halves
<1>3. s.base \in Graphs /\ Len(s.base \o s.delta) = SeqOf(s) /\ SeqOf(s) \in Nat
  BY <1>1, SeqOfType
<1>4. n \in Nat /\ Len(g) \in Nat
  BY <1>1, <1>3, LenProperties DEF Graphs
<1>5. n \in 0..Len(g)
  BY <1>2, <1>4
<1> HIDE DEF n, g
<1>6. GraphState(g, n).base \o GraphState(g, n).delta = g
  BY <1>1, <1>5, SplitType
<1> HIDE DEF s
<1>7. s.base \o s.delta = g
  BY <1>2, <1>6
<1> QED
  BY <1>1, <1>3, <1>7 DEF s, g

(* No apply has returned a seq that the log does not have.                 *)
LEMMA FloorReached ==
  ASSUME Data, Safe, NEW h \in Handles
  PROVE  LastReturned(h) <= SeqOf(handle[h].state)
<1>1. PICK b \in Nat : \A r \in accepted : r.seq <= b
  BY DEF Data
<1>2. TypeOK
  BY DEF Data
<1>3. /\ LastReturned(h) \in Nat
      /\ \/ LastReturned(h) = 0
         \/ \E r \in accepted : r.on = h /\ r.seq = LastReturned(h)
  BY <1>1, <1>2, LastReturnedType
<1>4. /\ handle[h].log \in Graphs /\ SeqOf(handle[h].state) = Len(handle[h].log)
      /\ SeqOf(handle[h].state) \in Nat
  BY StateIsLog
<1>5. ASSUME NEW r \in accepted, r.on = h PROVE r.seq <= Len(handle[h].log)
  <2>1. r.seq \in DOMAIN handle[h].log
    BY <1>5 DEF Safe, Accepted, Named
  <2> QED
    BY <1>4, <2>1, LenProperties DEF Graphs
<1> QED
  BY <1>3, <1>4, <1>5

(* A read that goes on over a log that begins as before.                   *)
LEMMA ReadsOn ==
  ASSUME Data, NEW u \in Threads, frame[u].op = "read" => Reads(u),
         frame[u].op = "read" =>
           /\ frame[u].on \in Handles
           /\ FirstPart(handle[frame[u].on].log, handle'[frame[u].on].log)
           /\ handle'[frame[u].on].log \in Graphs,
         frame'[u] = frame[u]
  PROVE  Reads(u)'
<1> SUFFICES ASSUME frame[u].op = "read" PROVE Reads(u)'
  BY DEF Reads
<1> DEFINE v == frame[u].view.base \o frame[u].view.delta
           g == handle[frame[u].on].log
<1>1. frame[u].view \in GraphStates /\ g \in Graphs
  BY DEF Data, TypeOK, Frames, HandleRecords
<1>2. v \in Graphs
  BY <1>1, SeqOfType
<1>3. FirstPart(v, g) /\ FirstPart(g, handle'[frame[u].on].log)
  BY DEF Reads
<1>4. FirstPart(v, handle'[frame[u].on].log)
  <2> HIDE DEF v, g
  <2> QED
    BY <1>1, <1>2, <1>3, FirstPartProperties
<1> QED
  BY <1>4 DEF Reads

(* A read goes on with the view it has, and the log goes on beneath it.    *)
LEMMA ReadsStay ==
  ASSUME Inv, Data, Safe, [Next]_vars, NEW u \in Threads
  PROVE  Reads(u)'
<1>1. TypeOK /\ TypeOK' /\ Reads(u) /\ Relies(u)
  BY StepTypes DEF Data, Safe, Inv
<1>2. ASSUME frame'[u].op # "read" PROVE Reads(u)'
  BY <1>2 DEF Reads
<1>3. ASSUME frame'[u] = frame[u], frame[u].op = "read" => Owned(frame[u].on)'
      PROVE  Reads(u)'
  <2>1. ASSUME frame[u].op = "read"
        PROVE  /\ frame[u].on \in Handles
               /\ FirstPart(handle[frame[u].on].log, handle'[frame[u].on].log)
               /\ handle'[frame[u].on].log \in Graphs
    <3>1. frame[u].on \in Handles /\ Owned(frame[u].on)
      BY <1>1, <2>1 DEF Relies, Owned
    <3>2. Kept(frame[u].on)
      BY <1>3, <2>1, <3>1, StepKeepsStores
    <3> QED
      BY <1>1, <3>1, <3>2, KeptGrows
  <2> QED
    BY <1>1, <1>3, <2>1, ReadsOn
<1>4. CASE UNCHANGED vars
  <2>1. frame[u].op = "read" => Owned(frame[u].on)'
    BY <1>1, <1>4 DEF vars, Relies, Owned
  <2> QED
    BY <1>3, <1>4, <2>1 DEF vars
<1>5. ASSUME NEW t \in Threads, Call(t) \/ Continue(t), t # u PROVE Reads(u)'
  <2>1. frame'[u] = frame[u] /\ Relies(t) /\ Alone(t)
    BY <1>1, <1>5, FramesOfOthers DEF Inv
  <2>2. ASSUME frame[u].op = "read" PROVE Owned(frame[u].on)'
    <3>1. frame[u].on \in Handles /\ Owned(frame[u].on)
      BY <1>1, <2>2 DEF Relies, Owned
    <3>2. ~ (LeaveStore(t) /\ frame[t].on = frame[u].on)
      BY <1>5, <2>1 DEF LeaveStore, At, Alone
    <3> QED
      <4>1. CASE Call(t)
        BY <2>1, <3>1, <4>1, CallKeepsStores DEF Owned
      <4>2. CASE Continue(t)
        BY <2>1, <3>1, <3>2, <4>2, ContinueKeepsStores DEF Kept, Owned
      <4> QED
        BY <1>5, <4>1, <4>2
  <2> QED
    BY <1>3, <2>1, <2>2
<1>6. ASSUME Call(u) PROVE Reads(u)'
  <2>1. ASSUME NEW h \in Handles, ReadSeq(u, h) PROVE Reads(u)'
    <3>1. frame' = frame /\ frame[u].pc = "idle"
      BY <2>1 DEF ReadSeq, Calling
    <3> QED
      BY <1>1, <1>2, <3>1 DEF Relies
  <2>2. ASSUME NEW h \in Handles, CallRead(u, h) PROVE Reads(u)'
    <3> DEFINE s == handle[h].state
    <3>1. /\ frame'[u].op = "read" /\ frame'[u].pc = "base" /\ frame'[u].on = h
          /\ frame'[u].view = s /\ frame'[u].floor = LastReturned(h)
          /\ handle' = handle
      BY <1>1, <2>2 DEF CallRead, NoCall, TypeOK
    <3>2. /\ handle[h].log \in Graphs /\ s.base \o s.delta = handle[h].log
          /\ LastReturned(h) <= SeqOf(s)
      BY StateIsLog, FloorReached
    <3>3. FirstPart(s.base \o s.delta, handle[h].log)
      BY <3>2, FirstPartProperties
    <3> QED
      BY <3>1, <3>2, <3>3 DEF Reads
  <2>3. ASSUME NEW c \in BOOLEAN, CallOpen(u, c) \/ CallCreate(u) PROVE Reads(u)'
    <3>1. PICK pc : Begin(u, pc)
      BY <2>3 DEF CallOpen, CallCreate
    <3>2. frame'[u].op = "open"
      BY <1>1, <3>1 DEF Begin, NoCall, TypeOK
    <3> QED
      BY <1>2, <3>2
  <2>4. ASSUME NEW h, NEW name \in {"apply", "flush", "compact"}, NEW e,
               Write(u, h, name, e)
        PROVE  Reads(u)'
    <3>1. frame'[u].op = name
      BY <1>1, <2>4 DEF Write, NoCall, TypeOK
    <3> QED
      BY <1>2, <3>1
  <2>5. ASSUME NEW h \in Handles, CallKnob(u, h) PROVE Reads(u)'
    <3>1. frame'[u].op = "knob"
      BY <1>1, <2>5 DEF CallKnob, NoCall, TypeOK
    <3> QED
      BY <1>2, <3>1
  <2>6. ASSUME NEW h \in Handles, CallClose(u, h) PROVE Reads(u)'
    <3>1. frame'[u].op = "close"
      BY <1>1, <2>6 DEF CallClose, NoCall, TypeOK
    <3> QED
      BY <1>2, <3>1
  <2> QED
    BY <1>6, <2>1, <2>2, <2>3, <2>4, <2>5, <2>6 DEF Call, CallApply, CallFlush,
       CallCompact
<1>7. ASSUME Continue(u) PROVE Reads(u)'
  <2>1. CASE frame[u].op = "read"
    <3> DEFINE f == frame[u]
               g == handle[f.on].log
    <3>1. f \in Frames /\ f.pc \in {"base", "delta", "return"}
      BY <1>1, <2>1 DEF Reads, TypeOK
    <3>2. ReadBase(u) \/ ReadDelta(u) \/ Return(u)
      BY <1>7, <2>1, <3>1 DEF Continue, Lock, SetPolicy, RefuseBatch, AppendBatch,
         Publish, Fold, Commit, Release, LeaveStore, TakeLock, LockHeld, Recover,
         RefuseToClobber, BuildFiles, WriteManifest, At
    <3>3. CASE ReadBase(u)
      <4>1. /\ frame'[u].op = "read" /\ frame'[u].pc = "delta"
            /\ frame'[u].on = f.on /\ frame'[u].view = f.view
            /\ frame'[u].floor = f.floor /\ frame'[u].seen = f.view.base
            /\ handle' = handle
        BY <1>1, <2>1, <3>1, <3>3 DEF ReadBase, View, TypeOK, Frames
      <4> QED
        BY <1>1, <2>1, <4>1 DEF Reads
    <3>4. CASE ReadDelta(u)
      <4>1. /\ frame'[u].op = "read" /\ frame'[u].pc = "return"
            /\ frame'[u].on = f.on /\ frame'[u].view = f.view
            /\ frame'[u].floor = f.floor /\ frame'[u].seen = f.seen \o f.view.delta
            /\ handle' = handle
        BY <1>1, <2>1, <3>1, <3>4 DEF ReadDelta, View, TypeOK, Frames
      <4>2. f.seen = f.view.base
        BY <1>1, <2>1, <3>4 DEF ReadDelta, At, Reads
      <4> QED
        BY <1>1, <2>1, <4>1, <4>2 DEF Reads
    <3>5. CASE Return(u)
      <4>1. frame'[u].op = "none"
        BY <1>1, <3>5 DEF Return, Finish, NoCall, TypeOK
      <4> QED
        BY <1>2, <4>1
    <3> QED
      BY <3>2, <3>3, <3>4, <3>5
  <2>2. CASE frame[u].op # "read"
    <3>1. ASSUME NEW pc, Goto(u, pc) PROVE frame'[u].op # "read"
      BY <1>1, <2>2, <3>1 DEF Goto, TypeOK, Frames
    <3>2. ASSUME Finish(u) PROVE frame'[u].op # "read"
      BY <1>1, <3>2 DEF Finish, NoCall, TypeOK
    <3>3. ASSUME AppendBatch(u) PROVE frame'[u].op # "read"
      BY <1>1, <2>2, <3>3 DEF AppendBatch, TypeOK, Frames
    <3>4. frame'[u].op # "read"
      BY <1>7, <2>2, <3>1, <3>2, <3>3 DEF Continue, Lock, SetPolicy, RefuseBatch,
         Publish, Fold, Commit, Release, LeaveStore, ReadBase, ReadDelta, Return,
         TakeLock, LockHeld, Recover, RefuseToClobber, BuildFiles, WriteManifest,
         Fail, Opened, At
    <3> QED
      BY <1>2, <3>4
  <2> QED
    BY <2>1, <2>2
<1>8. ASSUME NEW h \in Handles, DropObject(h) PROVE Reads(u)'
  <2>1. frame' = frame /\ frame[u].on # h /\ DropStores({h})
    BY <1>8 DEF DropObject, Unborrowed, Borrowers
  <2>2. ASSUME frame[u].op = "read" PROVE Owned(frame[u].on)'
    <3>1. frame[u].on \in Handles /\ Owned(frame[u].on)
      BY <1>1, <2>2 DEF Relies, Owned
    <3> QED
      BY <2>1, <3>1, Dropped DEF Owned
  <2> QED
    BY <1>3, <2>1, <2>2
<1>9. ASSUME NEW p \in Processes, Kill(p) PROVE Reads(u)'
  <2>1. CASE ProcessOf[u] = p
    <3>1. frame'[u].op = "none"
      BY <1>9, <2>1, KillSpares DEF NoCall
    <3> QED
      BY <1>2, <3>1
  <2>2. CASE ProcessOf[u] # p
    <3>1. /\ frame'[u] = frame[u]
          /\ Busy(u) => handle'[frame[u].on] = handle[frame[u].on]
      BY <1>9, <2>2, KillSpares
    <3>2. frame[u].op = "read" => Owned(frame[u].on)'
      BY <1>1, <3>1 DEF Relies, Owned, Busy
    <3> QED
      BY <1>3, <3>1, <3>2
  <2> QED
    BY <2>1, <2>2
<1> QED
  BY <1>4, <1>5, <1>6, <1>7, <1>8, <1>9 DEF Next

(***************************************************************************)
(* The theorems.                                                           *)
(***************************************************************************)
(* Every step keeps Safe.                                                  *)
LEMMA SafeNext ==
  ASSUME Inv, Inv', Data, Safe, [Next]_vars
  PROVE  Safe'
<1>1. (\A t \in Threads : Reads(t) /\ Opening(t))'
  BY ReadsStay, OpeningStays
<1>2. (\A r \in accepted : Accepted(r))'
  BY AcceptedStays
<1>3. (\A h \in Handles : Covered(h))'
  BY CoveredStays
<1>4. /\ (\A h \in Handles : Owned(h) => disk.manifest)'
      /\ (~ disk.manifest => disk.stored = << >>)'
  BY ManifestStays
<1> QED
  BY <1>1, <1>2, <1>3, <1>4 DEF Safe

(* No call, no store and an empty directory to begin with.                 *)
LEMMA InitDataSafe == Init => Data /\ Safe
<1> SUFFICES ASSUME Init PROVE Data /\ Safe
  OBVIOUS
<1>1. << >> \in Graphs /\ Len(<< >>) = 0 /\ EmptyState \in GraphStates
  BY EmptyStateType, EmptySeq
<1>2. TypeOK
  <2>1. handle \in [Handles -> HandleRecords] /\ frame \in [Threads -> Frames]
    BY NoStoreType, NoCallType DEF Init, Statuses
  <2>2. disk \in Disks
    BY <1>1 DEF Init, Disks
  <2>3. /\ token \in [Threads -> (Handles \cup {NoHandle}) \X Nat]
        /\ gil \in [Processes -> Threads \cup {None}]
        /\ calls \in [Threads -> Nat] /\ kills \in Nat
        /\ accepted = {} /\ flock = NoHandle
    BY SessionsAssumption DEF Init
  <2> QED
    BY <2>1, <2>2, <2>3 DEF TypeOK
<1>3. \E b \in Nat : \A r \in accepted : r.seq <= b
  BY DEF Init
<1>4. disk.folded <= Len(disk.stored)
  BY <1>1 DEF Init
<1>5. ASSUME NEW h \in Handles PROVE Halves(h) /\ ~ Owned(h)
  <2>1. handle[h].log = << >> /\ handle[h].state = EmptyState /\ handle[h].status = "unused"
    BY DEF Init, NoStore
  <2>2. Len(EmptyState.base) = 0 /\ EmptyState = GraphState(<< >>, 0)
    BY EmptyStateType DEF EmptyState
  <2> QED
    BY <1>1, <2>1, <2>2 DEF Halves, Owned
<1>6. ASSUME NEW t \in Threads PROVE Guards(t) /\ Drafts(t) /\ Reads(t) /\ Opening(t)
  <2>1. frame[t].pc = "idle" /\ frame[t].op = "none" /\ frame[t].draft = << >>
    BY DEF Init, NoCall
  <2> QED
    BY <2>1 DEF Guards, Drafts, Reads, Opening, Guarded
<1>7. Data
  BY <1>2, <1>3, <1>4, <1>5, <1>6 DEF Data
<1>8. accepted = {} /\ disk.stored = << >>
  BY DEF Init
<1>9. Safe
  BY <1>5, <1>6, <1>8 DEF Safe, Covered
<1> QED
  BY <1>7, <1>9

(* The inductive invariant: what threads rely on, the data, the marker.    *)
LEMMA Invariants == Spec => [](Inv /\ Data /\ Safe)
<1>1. Init => Inv /\ Data /\ Safe
  BY InitInv, InitDataSafe
<1>2. Inv /\ Data /\ Safe /\ [Next]_vars => (Inv /\ Data /\ Safe)'
  <2> SUFFICES ASSUME Inv, Data, Safe, [Next]_vars PROVE Inv' /\ Data' /\ Safe'
    OBVIOUS
  <2>1. Inv'
    BY NextInv
  <2> QED
    BY <2>1, DataNext, SafeNext
<1> QED
  BY <1>1, <1>2, PTL DEF Spec

(* The types of the variables.                                             *)
THEOREM TypeCorrect == Spec => []TypeOK
<1>1. Data => TypeOK
  BY DEF Data
<1> QED
  BY <1>1, Invariants, PTL

(* apply compares expected_seq under the writer mutex, publishes the delta *)
(* it has built there and returns its seq; no apply, compaction or flush   *)
(* that slips in between makes that seq name another batch, or puts a      *)
(* batch anywhere but right after the seq it expects.                      *)
THEOREM SeqNamesBatch == Spec => []CompareAndSet
<1>1. Safe => CompareAndSet
  BY DEF Safe, Accepted, Named, CompareAndSet
<1> QED
  BY <1>1, Invariants, PTL

(* snapshot() loads base and delta with one load: a traversal sees the     *)
(* graph of one moment, however many batches are published and folded      *)
(* while it runs, and every apply that had returned when it began.         *)
THEOREM ReadsAreSnapshots == Spec => []ReadsSeeOneMoment
<1>1. ASSUME Inv, Data, Safe, NEW t \in Threads, At(t, "read", "return")
      PROVE  /\ Len(frame[t].seen) >= frame[t].floor
             /\ \E n \in 0..Len(handle[frame[t].on].log) :
                  frame[t].seen = SubSeq(handle[frame[t].on].log, 1, n)
  <2> DEFINE v == frame[t].view
             g == frame[t].seen
             k == handle[frame[t].on].log
  <2>1. /\ v \in GraphStates /\ g \in Graphs /\ k \in Graphs
        /\ frame[t].floor \in Nat
    BY <1>1, OnHandle DEF At, Frames
  <2>2. /\ g = v.base \o v.delta /\ frame[t].floor <= SeqOf(v)
        /\ FirstPart(v.base \o v.delta, k)
    BY <1>1 DEF Safe, Reads, At
  <2>3. Len(v.base \o v.delta) = SeqOf(v) /\ SeqOf(v) \in Nat
    BY <2>1, SeqOfType
  <2> HIDE DEF v, g, k
  <2>4. FirstPart(g, k)
    BY <2>2
  <2>5. \E n \in 0..Len(k) : g = SubSeq(k, 1, n)
    BY <2>1, <2>4, FirstPartProperties
  <2>6. Len(g) >= frame[t].floor
    <3>1. Len(g) = SeqOf(v)
      BY <2>2, <2>3
    <3> QED
      BY <2>1, <2>2, <2>3, <3>1
  <2> QED
    BY <2>5, <2>6 DEF g, k
<1>2. Inv /\ Data /\ Safe => ReadsSeeOneMoment
  BY <1>1 DEF ReadsSeeOneMoment
<1> QED
  BY <1>2, Invariants, PTL

(* The MANIFEST that create looks for again under the lock, and the marker *)
(* that only moves under the writer mutex: a committed batch is never      *)
(* taken back, and no second create replaces a store.                      *)
THEOREM CommittedStays == Spec => NeverClobbered
<1>1. ASSUME Inv, Data, Safe, [Next]_vars
      PROVE  /\ disk.manifest => disk'.manifest
             /\ \E n \in 0..Len(disk'.stored) : disk.stored = SubSeq(disk'.stored, 1, n)
  BY <1>1, MarkerGrows, FirstPartProperties
<1> DEFINE Grows == /\ disk.manifest => disk'.manifest
                    /\ \E n \in 0..Len(disk'.stored) :
                         disk.stored = SubSeq(disk'.stored, 1, n)
<1>2. Inv /\ Data /\ Safe /\ [Next]_vars => [Grows]_vars
  BY <1>1
<1>3. (Spec => [][Grows]_vars)
  <2> HIDE DEF Grows
  <2> QED
    BY <1>2, Invariants, PTL DEF Spec
<1> QED
  BY <1>3 DEF NeverClobbered
=============================================================================

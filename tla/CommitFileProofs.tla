--------------------------- MODULE CommitFileProofs ---------------------------
(***************************************************************************)
(* CommitFile never loses its marker and implements CommitRegister, for    *)
(* any set of markers and any number of generations.                       *)
(***************************************************************************)
EXTENDS CommitFile, TLAPS

(***************************************************************************)
(* The inductive invariant.  Generations tell two valid slots apart in     *)
(* every image, so a selection is never a tie; and while the file is open  *)
(* the slot not about to be written holds the newest generation.           *)
(***************************************************************************)
Readable(p) ==
  /\ HasSlot(p)
  /\ p[0].valid /\ p[1].valid => p[0].gen # p[1].gen

Positioned ==
  LET live == file.vis[1 - next_slot]
      next == file.vis[next_slot]
  IN  /\ live.valid /\ live.gen < next_gen
      /\ next.valid => next.gen < live.gen

IInv ==
  /\ TypeOK
  /\ \A p \in file.crash : Readable(p)
  /\ ready => Positioned

(***************************************************************************)
(* Selection.                                                              *)
(***************************************************************************)
\* open() selects a valid slot if there is one, and it is the newest.
LEMMA ChosenIsNewest ==
  ASSUME NEW p \in Pairs, Readable(p)
  PROVE  /\ Chosen(p) \in SlotIds
         /\ p[Chosen(p)].valid
         /\ p[1 - Chosen(p)].valid => p[1 - Chosen(p)].gen < p[Chosen(p)].gen
BY DEF Pairs, Slots, SlotIds, Readable, HasSlot, Chosen

\* A valid slot newer than the other one, if that is valid, is selected.
LEMMA NewestIsChosen ==
  ASSUME NEW p \in Pairs, NEW i \in SlotIds,
         p[i].valid, p[1 - i].valid => p[1 - i].gen < p[i].gen
  PROVE  Chosen(p) = i /\ Readable(p)
BY DEF Pairs, Slots, SlotIds, Readable, HasSlot, Chosen

\* While positioned, the pair that advance() writes is a pair that open()
\* reads the new marker from, and a torn one still yields the old marker.
LEMMA PairsWritten ==
  ASSUME IInv, ready, NEW m \in Marks
  PROVE  /\ NewPair(m) \in Pairs /\ Readable(NewPair(m))
         /\ Selected(NewPair(m)) = m
         /\ NewPair(m)[next_slot].gen = next_gen /\ NewPair(m)[next_slot].valid
         /\ NewPair(m)[1 - next_slot] = file.vis[1 - next_slot]
         /\ TornPair \in Pairs /\ Readable(TornPair)
         /\ Selected(TornPair) = Selected(file.vis)
         /\ Chosen(file.vis) = 1 - next_slot
<1>1. /\ file.vis \in Pairs /\ next_slot \in SlotIds /\ 1 - next_slot \in SlotIds
      /\ next_gen \in Nat /\ FirstMark \in Marks /\ 1 - next_slot # next_slot
      /\ 1 - (1 - next_slot) = next_slot
  BY CommitAssumption DEF IInv, TypeOK, File, SlotIds
<1>2. Positioned
  BY DEF IInv
<1>3. EncodeSlot(m, next_gen) \in Slots /\ NoSlot \in Slots
  BY <1>1 DEF EncodeSlot, NoSlot, Slots
<1>4. /\ NewPair(m) \in Pairs /\ TornPair \in Pairs
      /\ NewPair(m)[next_slot] = EncodeSlot(m, next_gen)
      /\ TornPair[next_slot] = NoSlot
      /\ NewPair(m)[1 - next_slot] = file.vis[1 - next_slot]
      /\ TornPair[1 - next_slot] = file.vis[1 - next_slot]
  BY <1>1, <1>3 DEF NewPair, TornPair, Pairs
<1>5. Chosen(NewPair(m)) = next_slot /\ Readable(NewPair(m))
  BY <1>1, <1>2, <1>4, NewestIsChosen DEF Positioned, EncodeSlot
<1>6. Chosen(TornPair) = 1 - next_slot /\ Readable(TornPair)
  BY <1>1, <1>2, <1>4, NewestIsChosen DEF Positioned, NoSlot
<1>7. Chosen(file.vis) = 1 - next_slot
  BY <1>1, <1>2, NewestIsChosen DEF Positioned
<1> QED
  BY <1>4, <1>5, <1>6, <1>7 DEF Selected, EncodeSlot

(***************************************************************************)
(* The invariant is inductive.                                             *)
(***************************************************************************)
\* A file that create() completed is positioned on a slot it may overwrite.
LEMMA InitIInv == Init => IInv
<1> SUFFICES ASSUME Init PROVE IInv
  OBVIOUS
<1> DEFINE p == [i \in SlotIds |-> IF i = 0 THEN EncodeSlot(FirstMark, 0) ELSE NoSlot]
<1>1. file = [vis |-> p, crash |-> {p}] /\ next_slot = 1 /\ next_gen = 1 /\ ready = TRUE
  BY DEF Init, Durable
<1>2. p \in Pairs /\ p[0] = EncodeSlot(FirstMark, 0) /\ p[1] = NoSlot
  BY CommitAssumption DEF Pairs, Slots, SlotIds, EncodeSlot, NoSlot
<1> HIDE DEF p
<1>3. TypeOK
  BY <1>1, <1>2 DEF TypeOK, File, SlotIds
<1>4. Readable(p) /\ Positioned
  BY <1>1, <1>2 DEF Readable, HasSlot, Positioned, EncodeSlot, NoSlot
<1> QED
  BY <1>1, <1>3, <1>4 DEF IInv

\* open, advance, a failed or torn advance and a power cut all preserve it.
LEMMA NextIInv == IInv /\ [Next]_vars => IInv'
<1> SUFFICES ASSUME IInv, [Next]_vars PROVE IInv'
  OBVIOUS
<1> USE DEF IInv
<1>1. CASE Open
  <2>1. file.vis \in Pairs /\ Readable(file.vis)
    BY DEF TypeOK, File
  <2>2. /\ Chosen(file.vis) \in SlotIds /\ file.vis[Chosen(file.vis)].valid
        /\ file.vis[1 - Chosen(file.vis)].valid =>
             file.vis[1 - Chosen(file.vis)].gen < file.vis[Chosen(file.vis)].gen
    BY <2>1, ChosenIsNewest
  <2>3. /\ 1 - Chosen(file.vis) \in SlotIds
        /\ 1 - (1 - Chosen(file.vis)) = Chosen(file.vis)
        /\ file.vis[Chosen(file.vis)].gen \in Nat
    BY <2>1, <2>2 DEF SlotIds, Pairs, Slots
  <2>4. TypeOK'
    BY <1>1, <2>3 DEF Open, TypeOK
  <2>5. Positioned'
    BY <1>1, <2>2, <2>3 DEF Open, Positioned
  <2> QED
    BY <1>1, <2>4, <2>5 DEF Open, Readable, HasSlot
<1>2. CASE Drop
  BY <1>2 DEF Drop, TypeOK, Readable, HasSlot
<1>3. CASE Cut
  <2>1. PICK p \in file.crash : file' = Durable(p)
    BY <1>3 DEF Cut
  <2>2. p \in Pairs /\ Readable(p)
    BY DEF TypeOK, File
  <2> QED
    BY <1>3, <2>1, <2>2 DEF Cut, Durable, TypeOK, File
<1>4. ASSUME NEW m \in Marks, Advance(m) PROVE IInv'
  <2>1. ready /\ next_slot \in SlotIds /\ next_gen \in Nat
    BY <1>4 DEF Advance, TypeOK
  <2>2. /\ NewPair(m) \in Pairs /\ Readable(NewPair(m))
        /\ NewPair(m)[next_slot].gen = next_gen /\ NewPair(m)[next_slot].valid
        /\ NewPair(m)[1 - next_slot] = file.vis[1 - next_slot]
    BY <2>1, PairsWritten
  <2>3. TypeOK'
    BY <1>4, <2>1, <2>2 DEF Advance, Durable, TypeOK, File, SlotIds
  <2>4. Positioned'
    <3>1. 1 - (1 - next_slot) = next_slot
      BY <2>1 DEF SlotIds
    <3>2. file'.vis = NewPair(m) /\ next_slot' = 1 - next_slot /\ next_gen' = next_gen + 1
      BY <1>4 DEF Advance, Durable
    <3>3. file.vis[1 - next_slot].gen < next_gen
      BY <2>1 DEF Positioned
    <3> QED
      BY <2>1, <2>2, <3>1, <3>2, <3>3 DEF Positioned
  <2> QED
    BY <1>4, <2>2, <2>3, <2>4 DEF Advance, Durable
<1>5. ASSUME NEW m \in Marks, Fail(m) PROVE IInv'
  <2>1. /\ NewPair(m) \in Pairs /\ Readable(NewPair(m))
        /\ TornPair \in Pairs /\ Readable(TornPair)
    BY <1>5, PairsWritten DEF Fail
  <2>2. /\ file' \in File(Pairs)
        /\ \A p \in file'.crash : Readable(p)
    BY <1>5, <2>1
    DEF Fail, Interrupted, FailedWrite, FailedSync, Written, Durable, TypeOK, File
  <2> QED
    BY <1>5, <2>2 DEF Fail, TypeOK
<1>6. CASE UNCHANGED vars
  BY <1>6 DEF vars, TypeOK, Positioned, Readable, HasSlot
<1> QED
  BY <1>1, <1>2, <1>3, <1>4, <1>5, <1>6 DEF Next

\* So it holds in every state, however many generations are written.
LEMMA Inductive == Spec => []IInv
BY InitIInv, NextIInv, PTL DEF Spec

(***************************************************************************)
(* Theorems.                                                               *)
(***************************************************************************)
\* Type correctness of the file with all its crash images, and of the writer.
THEOREM TypeCorrect == Spec => []TypeOK
<1>1. IInv => TypeOK
  BY DEF IInv
<1> QED
  BY <1>1, Inductive, PTL

\* No sequence of advances, failed or torn ones included, of opens and of
\* power cuts leaves a COMMIT without a valid slot: the error "no crc-valid
\* slot" of CommitFile::open is unreachable.
THEOREM NeverCorrupt == Spec => []AlwaysASlot
<1>1. IInv => AlwaysASlot
  BY DEF IInv, AlwaysASlot, Readable
<1> QED
  BY <1>1, Inductive, PTL

\* advance() writes over the slot that is not the live marker, and stamps a
\* generation that will beat it.
THEOREM PingPong == Spec => []NeverOverwritesTheMarker
<1>1. IInv => NeverOverwritesTheMarker
  <2> SUFFICES ASSUME IInv, ready PROVE /\ next_slot # Chosen(file.vis)
                                        /\ next_gen > file.vis[Chosen(file.vis)].gen
    BY DEF NeverOverwritesTheMarker
  <2>1. /\ file.vis \in Pairs /\ next_slot \in SlotIds /\ 1 - next_slot \in SlotIds
        /\ 1 - (1 - next_slot) = next_slot /\ 1 - next_slot # next_slot
        /\ next_gen \in Nat /\ file.vis[1 - next_slot].gen \in Nat
    BY DEF IInv, TypeOK, File, SlotIds, Pairs, Slots
  <2>2. Chosen(file.vis) = 1 - next_slot
    BY <2>1, NewestIsChosen DEF IInv, Positioned
  <2> QED
    BY <2>1, <2>2 DEF IInv, Positioned
<1> QED
  BY <1>1, Inductive, PTL

(***************************************************************************)
(* Refinement of CommitRegister.                                           *)
(***************************************************************************)
\* COMMIT behaves as the single register the rest of the store takes it for:
\* two slots, generations and crcs are invisible from outside.
THEOREM ImplementsRegister == Spec => IsARegister
<1> DEFINE reg(f) == [vis |-> Selected(f.vis), crash |-> {Selected(p) : p \in f.crash}]
<1>1. Init => Register!Init
  <2> SUFFICES ASSUME Init PROVE Register!Init
    OBVIOUS
  <2> DEFINE p == [i \in SlotIds |-> IF i = 0 THEN EncodeSlot(FirstMark, 0) ELSE NoSlot]
  <2>1. file = [vis |-> p, crash |-> {p}] /\ ready = TRUE
    BY DEF Init, Durable
  <2>2. Selected(p) = FirstMark
    BY DEF Selected, Chosen, SlotIds, EncodeSlot, NoSlot
  <2> HIDE DEF p
  <2> QED
    BY <2>1, <2>2 DEF Register!Init, Register!Durable
<1>2. IInv /\ [Next]_vars => [Register!Next]_(Register!vars)
  <2> SUFFICES ASSUME IInv, [Next]_vars PROVE [Register!Next]_(Register!vars)
    OBVIOUS
  <2>1. CASE Open
    BY <2>1 DEF Open, Register!Next, Register!Open
  <2>2. CASE Drop
    BY <2>2 DEF Drop, Register!Next, Register!Drop
  <2>3. CASE Cut
    <3>1. PICK p \in file.crash : file' = [vis |-> p, crash |-> {p}]
      BY <2>3 DEF Cut, Durable
    <3>2. reg(file') = [vis |-> Selected(p), crash |-> {Selected(p)}]
      BY <3>1
    <3> QED
      BY <2>3, <3>1, <3>2 DEF Cut, Register!Next, Register!Cut, Register!Durable
  <2>4. ASSUME NEW m \in Marks, Advance(m) PROVE Register!Next
    <3>1. ready /\ ready' /\ file' = [vis |-> NewPair(m), crash |-> {NewPair(m)}]
      BY <2>4 DEF Advance, Durable
    <3>2. Selected(NewPair(m)) = m
      BY <3>1, PairsWritten
    <3>3. reg(file') = [vis |-> m, crash |-> {m}]
      BY <3>1, <3>2
    <3> QED
      BY <2>4, <3>1, <3>3 DEF Advance, Register!Next, Register!Advance, Register!Durable
  <2>5. ASSUME NEW m \in Marks, Fail(m) PROVE Register!Next
    <3>1. ready /\ ready' = FALSE /\ file.vis \in file.crash
      BY <2>5 DEF Fail, IInv, TypeOK, File
    <3>2. Selected(NewPair(m)) = m /\ Selected(TornPair) = Selected(file.vis)
      BY <3>1, PairsWritten
    <3>3. \/ file' = file
          \/ file' = [vis |-> TornPair, crash |-> file.crash \cup {TornPair}]
          \/ file' = [vis |-> NewPair(m),
                      crash |-> file.crash \cup {TornPair} \cup {NewPair(m)}]
          \/ file' = [vis |-> NewPair(m), crash |-> {NewPair(m)}]
      BY <2>5 DEF Fail, Interrupted, FailedWrite, FailedSync, Written, Durable
    <3>4. \/ reg(file') = reg(file)
          \/ reg(file') = [vis |-> m, crash |-> reg(file).crash \cup {m}]
          \/ reg(file') = [vis |-> m, crash |-> {m}]
      BY <3>1, <3>2, <3>3
    <3>5. reg(file') \in Interrupted(reg(file), m, {})
      BY <3>4 DEF Interrupted, FailedWrite, FailedSync, Written, Durable
    <3> QED
      BY <3>1, <3>5
      DEF Register!Next, Register!Fail, Register!Interrupted, Register!FailedWrite,
          Register!FailedSync, Register!Written, Register!Durable,
          Interrupted, FailedWrite, FailedSync, Written, Durable
  <2>6. CASE UNCHANGED vars
    BY <2>6 DEF vars, Register!vars
  <2> QED
    BY <2>1, <2>2, <2>3, <2>4, <2>5, <2>6 DEF Next
<1> QED
  BY <1>1, <1>2, Inductive, PTL DEF Spec, IsARegister, Register!Spec

=============================================================================

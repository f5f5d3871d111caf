------------------------------ MODULE CommitFile ------------------------------
(***************************************************************************)
(* src/persist/commit.rs: the COMMIT sidecar, two slots written in turn.   *)
(* A slot holds a marker and the generation it was written in; a torn slot *)
(* fails its crc and does not count.  Refines CommitRegister.              *)
(***************************************************************************)
EXTENDS Naturals, DurableFile

CONSTANTS
  Marks,      \* the markers advance() may stamp: (epoch, committed_seq)
  FirstMark,  \* the one create() stamps
  MaxGen      \* bound: generations written

ASSUME CommitAssumption == FirstMark \in Marks /\ MaxGen \in Nat

VARIABLES
  file,       \* COMMIT: a file whose images are pairs of slots
  next_slot,  \* CommitFile.next_slot
  next_gen,   \* CommitFile.next_gen
  ready       \* is there a CommitFile, no advance of it having failed?

vars == <<file, next_slot, next_gen, ready>>

SlotIds == {0, 1}
Slots   == [mark : Marks, gen : Nat, valid : BOOLEAN]
Pairs   == [SlotIds -> Slots]

EncodeSlot(m, gen) == [mark |-> m, gen |-> gen, valid |-> TRUE]
(* Bytes never written, or written in part: decode_slot gives None.        *)
NoSlot == [mark |-> FirstMark, gen |-> 0, valid |-> FALSE]

(***************************************************************************)
(* Selection in CommitFile::open: the valid slot of the highest gen.       *)
(***************************************************************************)
HasSlot(p) == p[0].valid \/ p[1].valid

(* Mutant of Chosen: slot 0 whenever it is valid.                          *)
FirstValid(p) == IF p[0].valid THEN 0 ELSE 1

Chosen(p) ==
  IF ~ p[1].valid \/ (p[0].valid /\ p[0].gen >= p[1].gen) THEN 0 ELSE 1

Selected(p) == p[Chosen(p)].mark

(***************************************************************************)
(* Actions.                                                                *)
(***************************************************************************)
Init ==  \* CommitFile::create, completed
  /\ file = Durable([i \in SlotIds |-> IF i = 0 THEN EncodeSlot(FirstMark, 0)
                                               ELSE NoSlot])
  /\ next_slot = 1 /\ next_gen = 1
  /\ ready = TRUE

(* Mutant of Open: it goes on with the slot it has read.                   *)
OpenAtChosen ==
  /\ ~ ready /\ HasSlot(file.vis)
  /\ ready' = TRUE
  /\ next_slot' = Chosen(file.vis)
  /\ next_gen' = file.vis[Chosen(file.vis)].gen + 1
  /\ UNCHANGED file

Open ==
  /\ ~ ready /\ HasSlot(file.vis)
  /\ ready' = TRUE
  /\ next_slot' = 1 - Chosen(file.vis)
  /\ next_gen' = file.vis[Chosen(file.vis)].gen + 1
  /\ UNCHANGED file

NewPair(m) == [file.vis EXCEPT ![next_slot] = EncodeSlot(m, next_gen)]
TornPair   == [file.vis EXCEPT ![next_slot] = NoSlot]

(* Mutants of Advance: the slot does not alternate; it does not wrap.      *)
AdvanceInPlace(m) ==
  /\ ready /\ next_gen <= MaxGen
  /\ file' = Durable(NewPair(m))
  /\ next_gen' = next_gen + 1
  /\ UNCHANGED <<next_slot, ready>>
AdvanceOffTheEnd(m) ==
  /\ ready /\ next_gen <= MaxGen
  /\ file' = Durable(NewPair(m))
  /\ next_slot' = next_slot + 1
  /\ next_gen' = next_gen + 1
  /\ UNCHANGED ready

Advance(m) ==
  /\ ready /\ next_gen <= MaxGen
  /\ file' = Durable(NewPair(m))
  /\ next_slot' = 1 - next_slot
  /\ next_gen' = next_gen + 1
  /\ UNCHANGED ready

(* The seek, the write or the sync failed, or the process died in advance: *)
(* next_slot and next_gen stay, and the caller poisons the writer.         *)
Fail(m) ==
  /\ ready /\ next_gen <= MaxGen
  /\ file' \in Interrupted(file, NewPair(m), {TornPair})
  /\ ready' = FALSE
  /\ UNCHANGED <<next_slot, next_gen>>

Drop ==
  /\ ready /\ ready' = FALSE
  /\ UNCHANGED <<file, next_slot, next_gen>>

Cut ==
  /\ \E p \in file.crash : file' = Durable(p)
  /\ ready' = FALSE
  /\ UNCHANGED <<next_slot, next_gen>>

Next == Open \/ Drop \/ Cut \/ \E m \in Marks : Advance(m) \/ Fail(m)

Spec == Init /\ [][Next]_vars

(***************************************************************************)
(* Properties.                                                             *)
(***************************************************************************)
\* The type of the file with all its crash images, and of the writer.
TypeOK ==
  /\ file \in File(Pairs)
  /\ next_slot \in SlotIds /\ next_gen \in Nat /\ ready \in BOOLEAN

\* "A torn write to one slot cannot corrupt the other": whatever is lost, and
\* however often an advance fails and the file is opened again, some slot of
\* every crash image is valid, so open() never finds the file corrupt.
AlwaysASlot == \A p \in file.crash : HasSlot(p)

\* The slot advance() is about to overwrite is never the one the visible file
\* is read from, and the generation it will stamp beats the one there.
NeverOverwritesTheMarker ==
  ready => /\ next_slot # Chosen(file.vis)
           /\ next_gen > file.vis[Chosen(file.vis)].gen

\* The sidecar behaves as a register that holds the marker.
Register == INSTANCE CommitRegister WITH
  register <- [vis |-> Selected(file.vis),
               crash |-> {Selected(p) : p \in file.crash}]
IsARegister == Register!Spec

=============================================================================

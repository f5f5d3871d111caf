---------------------------- MODULE CommitRegister ----------------------------
(***************************************************************************)
(* What the COMMIT sidecar is to the rest of the store: one register that  *)
(* holds a marker.  advance() that returns Ok has replaced the marker for  *)
(* good; one that failed, or was cut short, leaves the old marker or the   *)
(* new one, and closes the register until it is opened again; a power cut  *)
(* settles which.                                                          *)
(***************************************************************************)
EXTENDS DurableFile

CONSTANTS Marks, FirstMark

VARIABLES
  register,  \* a file whose images are markers
  ready      \* is it open for writing, no advance having failed?

vars == <<register, ready>>

Init == register = Durable(FirstMark) /\ ready \in BOOLEAN

Open == ~ ready /\ ready' = TRUE /\ UNCHANGED register

Advance(m) == ready /\ register' = Durable(m) /\ UNCHANGED ready

Fail(m) ==
  /\ ready /\ ready' = FALSE
  /\ register' \in Interrupted(register, m, {})

Drop == ready' = FALSE /\ UNCHANGED register

Cut == ready' = FALSE /\ \E m \in register.crash : register' = Durable(m)

Next == Open \/ Drop \/ Cut \/ \E m \in Marks : Advance(m) \/ Fail(m)

Spec == Init /\ [][Next]_vars

=============================================================================

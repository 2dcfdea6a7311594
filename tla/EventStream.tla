---------------------------- MODULE EventStream ----------------------------
(***************************************************************************)
(* What an event reader promises its caller, with no ring, no positions    *)
(* and no generations: the kernel stamps increasing sequence numbers, the  *)
(* caller is given some of them in increasing order, and the lost counter  *)
(* is exactly the number of those skipped since the first one given.       *)
(***************************************************************************)
EXTENDS Integers

VARIABLES
  stamped,    \* last sequence number stamped
  isOpen,     \* there is a reader
  last,       \* last sequence number the caller was given, 0 before the first
  skipped     \* what peios_event_reader_lost answers

vars == <<stamped, isOpen, last, skipped>>

Init == stamped = 0 /\ isOpen = FALSE /\ last = 0 /\ skipped = 0

Stamp ==
  /\ stamped' = stamped + 1
  /\ UNCHANGED <<isOpen, last, skipped>>

Open ==
  /\ ~isOpen /\ isOpen' = TRUE
  /\ UNCHANGED <<stamped, last, skipped>>

Give ==
  /\ isOpen
  /\ last' \in (last + 1)..stamped
  /\ skipped' = IF last = 0 THEN 0 ELSE skipped + (last' - last - 1)
  /\ UNCHANGED <<stamped, isOpen>>

Close ==
  /\ isOpen /\ isOpen' = FALSE
  /\ last' = 0 /\ skipped' = 0
  /\ UNCHANGED stamped

Next == Stamp \/ Open \/ Give \/ Close

Spec == Init /\ [][Next]_vars

=============================================================================

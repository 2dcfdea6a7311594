--------------------------- MODULE MCEventReader ---------------------------
(* EventReader with rings of different capacities. *)
EXTENDS EventReader

MCCapacity == [r \in Rings |-> IF r = 1 THEN 4 ELSE 2]

=============================================================================

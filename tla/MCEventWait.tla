----------------------------- MODULE MCEventWait ----------------------------
(* EventWait with a timeout, and without one. *)
EXTENDS EventWait

Second == 1000
Forever == -1

=============================================================================

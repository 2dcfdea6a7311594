--------------------------- MODULE MCDescriptors ---------------------------
(***************************************************************************)
(* src/security/sddl/: a behaviour is about descriptors and conditions     *)
(* going between text and bytes, or about the inheritance of their ACLs    *)
(* down a tree of objects.                                                 *)
(***************************************************************************)
EXTENDS MCSddl, MCPropagation

NoTrip ==
  /\ kind = "sd" /\ want = Blank /\ edits = 0 /\ formatted = FALSE
  /\ text = <<>> /\ bytes = <<>> /\ has = "refused"
NoWalk == WalkStart({Descriptor(Absent, Absent, {}, "root")}, {Descriptor(Absent, Absent, {}, "root")})

MCInit == (Init /\ NoWalk) \/ (WalkInit /\ NoTrip)
MCNext ==
  \/ ~NoTrip /\ Next /\ UNCHANGED walkVars
  \/ NoTrip /\ WalkNext /\ UNCHANGED vars
MCSpec == MCInit /\ [][MCNext]_<<vars, walkVars>>
=============================================================================

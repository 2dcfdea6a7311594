------------------------------ MODULE SdBuilder ------------------------------
(***************************************************************************)
(* The security-descriptor builder of src/security/sd_builder.rs.  A       *)
(* component that is not set is <<>> (a valid one never is).               *)
(***************************************************************************)
EXTENDS Wire

CONSTANTS
  SD_MAX,             \* bound: 65535 in the code
  SidArgs,            \* bound: the byte strings passed as SIDs
  ControlArgs         \* bound: the sets of control bits callers set and clear

VARIABLES
  sd,                 \* struct peios_sd_builder
  sdAsked,            \* history: what the setter calls since the last reset ask for
  sdOut               \* what bytes or finish gave, until the next mutating call

sdVars == <<sd, sdAsked, sdOut>>

Unset == [owner |-> <<>>, group |-> <<>>, dacl |-> <<>>, sacl |-> <<>>, control_user |-> {}]
new_sd_builder ==
  [owner |-> <<>>, group |-> <<>>, dacl |-> <<>>, sacl |-> <<>>, control_user |-> {},
   error |-> "none"]

SdInit == sd = new_sd_builder /\ sdAsked = Unset /\ sdOut = <<>>

\* Mutant: the control bits survive a reset.
ResetKeepsControl ==
  sd' = [new_sd_builder EXCEPT !.control_user = sd.control_user] /\ sdAsked' = Unset /\ sdOut' = <<>>

peios_sd_builder_reset == sd' = new_sd_builder /\ sdAsked' = Unset /\ sdOut' = <<>>

\* Mutant: a component that is refused is forgotten, not latched.
SetUnlatched(field, bytes, valid) ==
  /\ sd.error = "none"
  /\ sd' = IF ~valid THEN sd ELSE [sd EXCEPT ![field] = bytes]
  /\ sdAsked' = [sdAsked EXCEPT ![field] = bytes]
  /\ sdOut' = <<>>

\* Validate the bytes and keep a copy.
set_component(field, bytes, valid) ==
  /\ sd.error = "none"
  /\ sd' \in IF ~valid THEN {[sd EXCEPT !.error = "EINVAL"]}
             ELSE {[sd EXCEPT ![field] = bytes], [sd EXCEPT !.error = "ENOMEM"]}
  /\ sdAsked' = [sdAsked EXCEPT ![field] = bytes]
  /\ sdOut' = <<>>

peios_sd_builder_owner(sid) == set_component("owner", sid, sid_valid(sid))
peios_sd_builder_group(sid) == set_component("group", sid, sid_valid(sid))
peios_sd_builder_dacl(bytes) == set_component("dacl", bytes, acl_valid(bytes))
peios_sd_builder_sacl(bytes) == set_component("sacl", bytes, acl_valid(bytes))

\* control and dacl_null change a field unless an error is latched.
SdPut(field, value(_)) ==
  /\ sd.error = "none"
  /\ sd' = [sd EXCEPT ![field] = value(@)]
  /\ sdAsked' = [sdAsked EXCEPT ![field] = value(@)]
  /\ sdOut' = <<>>

peios_sd_builder_control(set, clear) ==
  SdPut("control_user", LAMBDA bits : (bits \cup set) \ clear)

\* KACS has no NULL DACL: everyone is granted by having none.
peios_sd_builder_dacl_null == SdPut("dacl", LAMBDA bytes : <<>>)

\* Mutant: the bits the caller set reach the header unmasked.
ControlUnmasked(s) ==
  s.control_user \cup {SELF_RELATIVE}
    \cup (IF s.dacl # <<>> THEN {DACL_PRESENT} ELSE {})
    \cup (IF s.sacl # <<>> THEN {SACL_PRESENT} ELSE {})

\* The builder owns SE_SELF_RELATIVE and the PRESENT bits.
Control(s) ==
  (s.control_user \ MANAGED_CONTROL) \cup {SELF_RELATIVE}
    \cup (IF s.dacl # <<>> THEN {DACL_PRESENT} ELSE {})
    \cup (IF s.sacl # <<>> THEN {SACL_PRESENT} ELSE {})

\* The components follow the header in this order; offset 0 means absent.
SdRendered(s) ==
  LET parts == <<s.owner, s.group, s.sacl, s.dacl>>
      start == Starts(parts, SD_HEADER)
      offset == [i \in 1..4 |-> Word(IF parts[i] = <<>> THEN 0 ELSE start[i], 4)]
  IN  Word(1, 1) \o Word(0, 1) \o Word(ControlWord(Control(s)), 2)
        \o Concat(offset) \o Concat(parts)

\* The errors materialize can meet; "none" is success.
SdMaterialize(s, bytes) ==
  IF s.error # "none" THEN {s.error}
  ELSE {"ENOMEM", IF Len(bytes) > SD_MAX \/ ~SdParses(bytes) THEN "EINVAL" ELSE "none"}

\* peios_sd_builder_bytes and peios_sd_builder_finish; an error is latched.
SdTake(enough) ==
  LET bytes == SdRendered(sd)
  IN  \E errno \in SdMaterialize(sd, bytes) :
        /\ sd' = [sd EXCEPT !.error = errno]
        /\ sdOut' = IF errno = "none" /\ enough THEN bytes ELSE <<>>
        /\ UNCHANGED sdAsked

\* The ACLs are bytes the caller has.
SdCalls(acls) ==
  \/ peios_sd_builder_reset
  \/ \E sid \in SidArgs : peios_sd_builder_owner(sid) \/ peios_sd_builder_group(sid)
  \/ \E bytes \in acls : peios_sd_builder_dacl(bytes) \/ peios_sd_builder_sacl(bytes)
  \/ \E set, clear \in ControlArgs : peios_sd_builder_control(set, clear)
  \/ peios_sd_builder_dacl_null
=============================================================================

----------------------------- MODULE AclBuilder -----------------------------
(***************************************************************************)
(* The ACL builder of src/security/acl_builder.rs: sticky error, ACEs that *)
(* are encoded and parsed again before they are accepted, and u16 sizes.   *)
(* The buffer `built`, written anew whenever the bytes are taken, is the   *)
(* value of that call.                                                     *)
(***************************************************************************)
EXTENDS Wire

CONSTANTS AceSpecs    \* bound: the struct peios_ace_spec values callers pass

NullSid == 0          \* a NULL trustee, spec or application data
BadSid == 3           \* bytes that are no SID

ASSUME AclBuilderAssumption ==
  /\ U16Max \in Nat
  /\ AceSpecs \subseteq [type : Nat, flags : Nat, mask : Nat, sid : Nat, object_type : Nat,
                         inherited_object_type : Nat, app_data : Seq(Int)]

VARIABLES
  acl,                \* struct peios_acl_builder
  aclAsked,           \* history: the adder calls since the last reset
  aclOut              \* what bytes or finish gave, until the next mutating call

aclVars == <<acl, aclAsked, aclOut>>

new_acl_builder ==
  [aces |-> <<>>, count |-> 0, revision |-> ACL_REVISION, error |-> "none"]

AclInit == acl = new_acl_builder /\ aclAsked = <<>> /\ aclOut = <<>>

\* Mutant: the revision of a richer ACE outlives the reset.
ResetKeepsRevision ==
  /\ acl' = [new_acl_builder EXCEPT !.revision = acl.revision]
  /\ aclAsked' = <<>> /\ aclOut' = <<>>

peios_acl_builder_reset == acl' = new_acl_builder /\ aclAsked' = <<>> /\ aclOut' = <<>>

\* The ACE before it is accepted, its size patched in.
AceBytes(s) ==
  LET present == (IF s.object_type # None THEN 1 ELSE 0)
                   + (IF s.inherited_object_type # None THEN 2 ELSE 0)
      guid(g) == IF g # None THEN Word(g, 16) ELSE <<>>
      object == Word(present, 4) \o guid(s.object_type) \o guid(s.inherited_object_type)
      tail == Word(s.mask, 4) \o (IF is_object_ace(s.type) THEN object ELSE <<>>)
                \o (IF s.sid = BadSid THEN Word(BadSid, 12) ELSE SidBytes(s.sid))
                \o s.app_data
  IN  Word(s.type, 1) \o Word(s.flags, 1) \o Word(AsU16(4 + Len(tail)), 2) \o tail

\* Encode, validate and append one ACE.
encode(a, s) ==
  LET ace == AceBytes(s)
  IN  IF \/ Len(ace) > U16Max \/ Len(ace) % 4 # 0
         \/ AceParse(ace) = NoAce
         \/ a.count >= U16Max
         \/ AclHeader + Len(a.aces) + Len(ace) > U16Max
      THEN [a EXCEPT !.error = "EINVAL"]
      ELSE [a EXCEPT !.aces = @ \o ace, !.count = @ + 1,
                     !.revision = Max({@, minimum_acl_revision(s.type)})]

\* allow, deny, audit, label and add, that return at once when an error is latched.
AclAdd(s) ==
  /\ acl.error = "none"
  /\ acl' \in IF s.sid = NullSid THEN {[acl EXCEPT !.error = "EINVAL"]}
              ELSE {encode(acl, s), [acl EXCEPT !.error = "ENOMEM"]}
  /\ aclAsked' = Append(aclAsked, s)
  /\ aclOut' = <<>>

\* The header and the body.
AclRendered(a) ==
  Word(a.revision, 1) \o Word(0, 1) \o Word(AsU16(AclHeader + Len(a.aces)), 2)
    \o Word(AsU16(a.count), 2) \o Word(0, 2) \o a.aces

\* The errors materialize can meet; "none" is success.
AclMaterialize(a) ==
  IF a.error # "none" THEN {a.error}
  ELSE {"ENOMEM", IF AclHeader + Len(a.aces) > U16Max THEN "EINVAL" ELSE "none"}

\* peios_acl_builder_bytes lends the bytes; peios_acl_builder_finish copies them
\* when cap is enough, and answers the length or ERANGE when it is not.  An error
\* is latched.
AclTake(enough) ==
  \E errno \in AclMaterialize(acl) :
    /\ acl' = [acl EXCEPT !.error = errno]
    /\ aclOut' = IF errno = "none" /\ enough THEN AclRendered(acl) ELSE <<>>
    /\ UNCHANGED aclAsked

AclCalls == peios_acl_builder_reset \/ \E s \in AceSpecs : AclAdd(s)
=============================================================================

-------------------------------- MODULE Wire --------------------------------
(***************************************************************************)
(* kacs_core's parsers over byte buffers: a dependency, modelled from how  *)
(* src/security calls them.                                                *)
(***************************************************************************)
EXTENDS Bytes

-----------------------------------------------------------------------------
(* SIDs: the number of a SID is 1000 times its sub-authorities, plus which. *)

SidLen(s) == 8 + 4 * (s \div 1000)
SidBytes(s) == Word(s, SidLen(s))

\* Sid::parse at an offset.
SidAt(buf, off) ==
  IF off >= 0 /\ off < Len(buf) /\ buf[off + 1] >= 1000
       /\ At(buf, off, SidLen(buf[off + 1])) # Garbled
  THEN buf[off + 1] ELSE Garbled

\* A structurally valid SID occupying exactly these bytes.
sid_valid(b) == SidAt(b, 0) # Garbled /\ Len(b) = SidLen(b[1])

-----------------------------------------------------------------------------
(* ACEs and ACLs. *)

ALLOW == 0
DENY == 1
AUDIT == 2
ALLOW_OBJECT == 5
ALLOW_CALLBACK == 9
ALLOW_CALLBACK_OBJECT == 11
LABEL == 17

\* True for the object ACE families.
is_object_ace(type) == type \in {ALLOW_OBJECT, ALLOW_CALLBACK_OBJECT}
is_callback_ace(type) == type \in {ALLOW_CALLBACK, ALLOW_CALLBACK_OBJECT}

ACL_REVISION == 2
minimum_acl_revision(type) == IF is_object_ace(type) THEN 4 ELSE ACL_REVISION

ReservedMask == 99     \* a mask validate_ace_mask rejects
None == 0              \* no GUID

NoAce == [type |-> Garbled]

\* Ace::parse: the fields of one ACE that takes every byte of b.
AceParse(b) ==
  LET type == At(b, 0, 1)
      mask == At(b, 4, 4)
      object == is_object_ace(type)
      present == IF object THEN At(b, 8, 4) ELSE 0
      has == <<present % 2 = 1, (present \div 2) % 2 = 1>>
      guid1 == IF has[1] THEN At(b, 12, 16) ELSE None
      off2 == 12 + IF has[1] THEN 16 ELSE 0
      guid2 == IF has[2] THEN At(b, off2, 16) ELSE None
      offsid == IF object THEN off2 + (IF has[2] THEN 16 ELSE 0) ELSE 8
      sid == SidAt(b, offsid)
      rest == offsid + SidLen(sid)
      app == Slice(b, rest, Len(b) - rest)
  IN  IF Garbled \in {type, At(b, 1, 1), mask, present, guid1, guid2, sid}
           \/ At(b, 2, 2) # Len(b) \/ mask = ReservedMask
           \/ (app # <<>> /\ ~is_callback_ace(type))
      THEN NoAce
      ELSE [type |-> type, flags |-> At(b, 1, 1), mask |-> mask, sid |-> sid,
            object_type |-> guid1, inherited_object_type |-> guid2, app_data |-> app]

AclHeader == 8

\* Acl::entries: the bytes of each ACE the header counts, <<>> where one does not fit.
AclEntries(b) ==
  LET count == At(b, 4, 2)
      walk[i \in Nat, off \in Nat] ==
        LET size == At(b, off + 2, 2)
        IN  IF i = count THEN <<>>
            ELSE IF size < 8 \/ off + size > At(b, 2, 2) THEN <<<<>>>>
            ELSE <<Slice(b, off, size)>> \o walk[i + 1, off + size]
  IN  walk[0, AclHeader]

\* Acl::parse: the header is sound and the declared size is there.
AclParses(b) ==
  /\ At(b, 0, 1) >= ACL_REVISION
  /\ At(b, 2, 2) >= AclHeader /\ At(b, 2, 2) <= Len(b)
  /\ At(b, 4, 2) # Garbled

\* A structurally valid ACL whose declared ACEs all parse.
acl_valid(b) ==
  AclParses(b) /\ \A i \in DOMAIN AclEntries(b) : AceParse(AclEntries(b)[i]) # NoAce

-----------------------------------------------------------------------------
(* Security descriptors. *)

SELF_RELATIVE == 32768
DACL_PRESENT == 4
SACL_PRESENT == 16
MANAGED_CONTROL == {SELF_RELATIVE, DACL_PRESENT, SACL_PRESENT}

ControlWord(S) == SumSet(S)
ControlBits(n) == {b \in MANAGED_CONTROL \cup {4096, 8192} : (n \div b) % 2 = 1}

SD_HEADER == 20

\* SecurityDescriptor::parse.
SdParses(b) ==
  LET control == ControlBits(At(b, 2, 2))
      offset(i) == At(b, 4 * i, 4)
      sid_ok(off) == off = 0 \/ SidAt(b, off) # Garbled
      acl_ok(off, bit) ==
        IF bit \in control THEN off # 0 /\ AclParses(Slice(b, off, Len(b) - off))
        ELSE off = 0
  IN  /\ At(b, 0, 1) = 1 /\ SELF_RELATIVE \in control
      /\ \A i \in 1..4 : offset(i) = 0 \/ offset(i) >= SD_HEADER
      /\ sid_ok(offset(1)) /\ sid_ok(offset(2))
      /\ acl_ok(offset(3), SACL_PRESENT) /\ acl_ok(offset(4), DACL_PRESENT)
=============================================================================

------------------------------- MODULE SdCodec -------------------------------
(***************************************************************************)
(* The binary forms of the SDDL code: SIDs (security/sddl/wire_sid.rs),    *)
(* the builders that write ACEs, ACLs and descriptors (build.rs) and the   *)
(* views that read them (codec.rs).  A mask is the set of its bits, flags  *)
(* and control bits are the sets of their values.                          *)
(***************************************************************************)
EXTENDS Bytes, Vocab, SequencesExt

CONSTANT U48Max    \* bound: the largest authority of six bytes, 2^48 - 1 in the code

\* A failed encoding or parse, as a buffer.
Bad == <<Garbled>>

BitsOf(n) == {b \in 0..15 : (n \div 2 ^ b) % 2 = 1}
NumOf(bits) == SumSet({2 ^ b : b \in bits})
ValuesOf(n) == {2 ^ b : b \in BitsOf(n)}

\* A mask is read in two halves, TLC's integers being narrower than 32 bits.
MaskBytes(m) == Word(NumOf(m \cap 0..15), 2) \o Word(NumOf({b - 16 : b \in m \cap 16..31}), 2)
MaskAt(buf, off) == BitsOf(At(buf, off, 2)) \cup {b + 16 : b \in BitsOf(At(buf, off + 2, 2))}

-----------------------------------------------------------------------------
(* wire_sid.rs *)

\* Mutant: the revision is always 1.
SidEncodeRevision(sid) ==
  <<1, (Len(sid) - 2) % (U8Max + 1)>> \o Word(sid[2] % (U48Max + 1), 6)
    \o Concat([i \in 1..(Len(sid) - 2) |-> Word(sid[i + 2], 4)])

\* The count keeps its low byte and the authority its low six; the sub-authorities
\* are all written.
SidEncode(sid) ==
  <<sid[1], (Len(sid) - 2) % (U8Max + 1)>> \o Word(sid[2] % (U48Max + 1), 6)
    \o Concat([i \in 1..(Len(sid) - 2) |-> Word(sid[i + 2], 4)])

NoSid == [sid |-> <<>>, used |-> 0]

\* SidRef::parse: the SID a buffer begins with, and the bytes it takes.
SidParse(buf) ==
  IF Len(buf) < 8 \/ Len(buf) < 8 + 4 * buf[2] THEN NoSid
  ELSE [sid |-> <<buf[1], At(buf, 2, 6)>> \o [i \in 1..buf[2] |-> At(buf, 4 + 4 * i, 4)],
        used |-> 8 + 4 * buf[2]]

-----------------------------------------------------------------------------
(* build.rs *)

OBJECT_TYPE_PRESENT == 1
INHERITED_OBJECT_TYPE_PRESENT == 2
NoGuid == 0
Guid(g) == IF g = NoGuid THEN <<>> ELSE Word(g, 16)

object_body(mask, object_type, inherited_object_type, sid) ==
  LET present == (IF object_type = NoGuid THEN 0 ELSE OBJECT_TYPE_PRESENT)
                 + (IF inherited_object_type = NoGuid THEN 0 ELSE INHERITED_OBJECT_TYPE_PRESENT)
  IN  MaskBytes(mask) \o Word(present, 4) \o Guid(object_type)
        \o Guid(inherited_object_type) \o SidEncode(sid)
mask_sid_body(mask, sid) == MaskBytes(mask) \o SidEncode(sid)

Aligned(n) == ((n + 3) \div 4) * 4
Zeros(n) == [i \in 1..n |-> 0]

\* AceBuilder::raw takes a body no longer than this.
MaxBody == 4 * (U16Max \div 4) - 4

\* AceBuilder: the type, the flags and the body of an ACE to be written.
AceLen(ace) == Aligned(4 + Len(ace.body))
AceBuild(ace) ==
  <<ace.type, SumSet(ace.flags)>> \o Word(AceLen(ace), 2) \o ace.body
    \o Zeros(AceLen(ace) - 4 - Len(ace.body))
needs_ds_revision(ace) == ace.type \in 5..16

\* AclBuilder::build.
AclBuild(aces) ==
  LET revision == IF \E i \in DOMAIN aces : needs_ds_revision(aces[i]) THEN 4 ELSE 2
      whole(built, total) ==
        IF Len(aces) > U16Max \/ total > U16Max THEN Bad
        ELSE <<revision, 0>> \o Word(total, 2) \o Word(Len(aces), 2) \o Word(0, 2) \o Concat(built)
      of(built) == whole(built, Starts(built, 8)[Len(aces) + 1])
  IN  of([i \in DOMAIN aces |-> AceBuild(aces[i])])

SELF_RELATIVE == 32768
DACL_PRESENT == 4
SACL_PRESENT == 16

\* SdBuilder: owner and group are SIDs, <<>> where unset; dacl and sacl hold at most
\* one list of ACEs.
NewSd == [owner |-> <<>>, group |-> <<>>, dacl |-> {}, sacl |-> {}, extra_control |-> {}]

\* SdBuilder::build.  The offset of a part that is not there is 0.
SdBuild(b) ==
  LET sid(s) == IF s = <<>> THEN <<>> ELSE SidEncode(s)
      list(acl) == IF acl = {} THEN <<>> ELSE AclBuild(CHOOSE aces \in acl : TRUE)
      control == {SELF_RELATIVE} \cup b.extra_control
                   \cup (IF b.sacl = {} THEN {} ELSE {SACL_PRESENT})
                   \cup (IF b.dacl = {} THEN {} ELSE {DACL_PRESENT})
      whole(parts, start) ==
        IF Bad \in {parts[3], parts[4]} THEN Bad
        ELSE <<1, 0>> \o Word(SumSet(control), 2)
               \o Concat([i \in 1..4 |-> Word(IF parts[i] = <<>> THEN 0 ELSE start[i], 4)]) \o Concat(parts)
      of(parts) == whole(parts, Starts(parts, 20))
  IN  of(<<sid(b.owner), sid(b.group), list(b.sacl), list(b.dacl)>>)

-----------------------------------------------------------------------------
(* codec.rs *)

Rest(buf, off) == Slice(buf, off, Len(buf) - off)

\* Acl::parse: the bytes of the ACL a buffer begins with.
AclParse(buf) ==
  IF Len(buf) < 8 \/ At(buf, 2, 2) > Len(buf) THEN Bad ELSE Slice(buf, 0, At(buf, 2, 2))

BadAce == [type |-> Garbled, flags |-> {}, body |-> <<>>]

\* AceIter: the ACEs of an ACL; a malformed one ends them.
Aces(acl) ==
  LET next[i \in Nat, off \in Nat] ==
        LET size == At(acl, off + 2, 2)
        IN  IF i = At(acl, 4, 2) THEN <<>>
            ELSE IF Len(acl) < off + 4 \/ size < 4 \/ Len(acl) < off + size THEN <<BadAce>>
            ELSE <<[type |-> acl[off + 1], flags |-> ValuesOf(acl[off + 2]),
                    body |-> Slice(acl, off + 4, size - 4)]>> \o next[i + 1, off + size]
  IN  next[0, 8]

\* SecurityDescriptor: the fields of the header.
SdControl(buf) == ValuesOf(At(buf, 2, 2))
OwnerOff(buf) == At(buf, 4, 4)
GroupOff(buf) == At(buf, 8, 4)
SaclOff(buf) == At(buf, 12, 4)
DaclOff(buf) == At(buf, 16, 4)

sid_at(buf, off) == IF off = 0 \/ off >= Len(buf) THEN <<>> ELSE SidParse(Rest(buf, off)).sid
owner_ref(buf) == sid_at(buf, OwnerOff(buf))
group_ref(buf) == sid_at(buf, GroupOff(buf))

\* <<>> where there is no list to read.
AclAt(buf, off, present) ==
  IF present \notin SdControl(buf) \/ off = 0 THEN <<>>
  ELSE IF off >= Len(buf) THEN Bad ELSE AclParse(Rest(buf, off))
dacl(buf) == AclAt(buf, DaclOff(buf), DACL_PRESENT)
sacl(buf) == AclAt(buf, SaclOff(buf), SACL_PRESENT)
=============================================================================
